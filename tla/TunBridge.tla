------------------------------ MODULE TunBridge ------------------------------
(***************************************************************************)
(* The userspace bridge SocksTunBridge, one TCP flow (one FlowKey) at a    *)
(* time.  Four kinds of thread meet here: the TUN reader, which handles    *)
(* every segment of the app's TCP stack; per session the thread of         *)
(* TcpSession.run and the thread of readFromSocks; and the service thread  *)
(* that calls stop().  Everything sent to the app passes the bounded       *)
(* tunOutputQueue.  The app's TCP stack is the environment: it sends any   *)
(* piece of its stream, again and again, once it has seen a SYN-ACK.       *)
(*                                                                         *)
(* Stream positions count from 0; Wire gives the sequence number a         *)
(* position has in a segment.  IPv4 and IPv6 flows have the same steps.    *)
(***************************************************************************)
EXTENDS Integers, Sequences

CONSTANTS
    Modes,          \* decisions the routing engine may take
    StreamLen,      \* bytes the app sends on a connection, before its FIN
    SeqMod, Isn,    \* 2^32 in the code; the app's initial sequence number
    QueueCap,       \* TcpSession.queue: 8192 in the code
    TunCap,         \* tunOutputQueue: 32768 in the code
    MaxSessions, MaxConns,   \* bounds: sessions created, connections tried
    MaxChunks       \* bound: chunks the upstream sends in a session

ASSUME BridgeAssumption ==
    /\ Modes \subseteq {"TUNNEL", "DIRECT", "BLOCK"}
    /\ StreamLen \in Nat /\ SeqMod \in Nat /\ SeqMod > StreamLen + 1
    /\ Isn \in 0 .. SeqMod - 1
    /\ QueueCap \in Nat \ {0} /\ TunCap \in Nat \ {0}
    /\ MaxSessions \in Nat /\ MaxConns \in Nat /\ MaxChunks \in Nat

None == 0
Sessions == 1 .. MaxSessions
Positions == 0 .. StreamLen

VARIABLES
    stage,          \* how far stop() has come
    readerPc,       \* where the TUN reader is with its packet
    stale,          \* the session it took out of the map and is to close, or None
    conn, established,       \* the app: connection tried, SYN-ACK seen
    sessions,       \* sessions created so far
    mapped,         \* tcpSessions[key], or None
    of,             \* the connection whose SYN created the session
    pc, rpc,        \* run() and readFromSocks() of each session
    closing, closer,         \* how far close() is, and the thread inside it
    sock, connected, clientClosed, outputShutdown, synAckSent,
    queue,          \* TcpSession.queue: payloads [from, to) of the stream
    written,        \* payloads written upstream
    myAck, mySeq,   \* positions: next byte expected, next byte to send
    total, left,    \* chunks read from upstream, and those not yet enqueued
    finAte,         \* history: a FIN was taken and the payload with it was not
    tun             \* tunOutputQueue

app == <<conn, established>>
reader == <<readerPc, stale>>
closes == <<closing, closer>>
upstream == <<queue, written, myAck, clientClosed, finAte>>
downstream == <<mySeq, total, left, tun>>
vars == <<stage, reader, app, sessions, mapped, of, pc, rpc, closes, sock,
          connected, outputShutdown, synAckSent, upstream, downstream>>

running == stage = "up"

Payload == [from : Positions, to : Positions]
Packet == [kind : {"SYNACK", "ACK", "RST", "FIN", "DATA"}, sid : 0 .. MaxSessions,
           seq : Nat, chunk : Nat]

ControlTypeOK ==
    /\ stage \in {"up", "flagged", "closed", "cleared", "down"}
    /\ readerPc \in {"read", "drop", "make", "off"} /\ stale \in 0 .. MaxSessions
    /\ conn \in 0 .. MaxConns /\ established \in BOOLEAN
    /\ sessions \in 0 .. MaxSessions /\ mapped \in 0 .. MaxSessions
    /\ of \in [Sessions -> 0 .. MaxConns]
    /\ pc \in [Sessions -> {"none", "rejected", "start", "sniff", "route", "dial",
                            "check", "loop", "batch", "half", "done"}]
    /\ rpc \in [Sessions -> {"none", "read", "send", "close", "done"}]
    /\ sock \in [Sessions -> {"none", "open", "closed", "orphan"}]
    /\ closing \in [Sessions -> {"no", "socket", "map", "over"}]
    /\ closer \in [Sessions -> {"nobody", "reader", "session", "stop"}]
    /\ connected \in [Sessions -> BOOLEAN]
    /\ outputShutdown \in [Sessions -> BOOLEAN] /\ synAckSent \in [Sessions -> BOOLEAN]

StreamTypeOK ==
    /\ clientClosed \in [Sessions -> BOOLEAN] /\ finAte \in [Sessions -> BOOLEAN]
    /\ queue \in [Sessions -> Seq(Payload)] /\ written \in [Sessions -> Seq(Payload)]
    /\ myAck \in [Sessions -> 0 .. StreamLen + 1]

DownTypeOK ==
    /\ mySeq \in [Sessions -> Nat] /\ total \in [Sessions -> Nat]
    /\ left \in [Sessions -> Nat] /\ tun \in Seq(Packet)

\* The types; the next byte expected is never beyond the FIN, however often
\* the app repeats it (handleFromTun).
TypeOK == ControlTypeOK /\ StreamTypeOK /\ DownTypeOK

Init ==
    /\ stage = "up" /\ readerPc = "read" /\ stale = None
    /\ conn = 0 /\ established = FALSE
    /\ sessions = 0 /\ mapped = None /\ tun = <<>>
    /\ of = [s \in Sessions |-> 0]
    /\ pc = [s \in Sessions |-> "none"] /\ rpc = [s \in Sessions |-> "none"]
    /\ sock = [s \in Sessions |-> "none"]
    /\ closing = [s \in Sessions |-> "no"] /\ closer = [s \in Sessions |-> "nobody"]
    /\ connected = [s \in Sessions |-> FALSE] /\ clientClosed = [s \in Sessions |-> FALSE]
    /\ outputShutdown = [s \in Sessions |-> FALSE]
    /\ synAckSent = [s \in Sessions |-> FALSE] /\ finAte = [s \in Sessions |-> FALSE]
    /\ queue = [s \in Sessions |-> <<>>] /\ written = [s \in Sessions |-> <<>>]
    /\ myAck = [s \in Sessions |-> 0] /\ mySeq = [s \in Sessions |-> 0]
    /\ total = [s \in Sessions |-> 0] /\ left = [s \in Sessions |-> 0]

-----------------------------------------------------------------------------
(* The queue to the app and the closing of a session. *)

\* enqueueTun: when the queue is full a critical packet evicts the oldest one,
\* and is still lost if another thread fills the place first; any other packet
\* is dropped.
enqueueTun(packet, critical) ==
    tun' \in IF Len(tun) < TunCap THEN {Append(tun, packet)}
             ELSE IF critical THEN {Append(Tail(tun), packet), Tail(tun)} ELSE {tun}

Control(s, kind) == [kind |-> kind, sid |-> s, seq |-> mySeq[s], chunk |-> 0]

sendAck(s) == enqueueTun(Control(s, "ACK"), TRUE)

isClosed(s) == closing[s] # "no"

\* close(), called by thread t: only the first caller goes on, to the two steps
\* below.
close(s, t) ==
    /\ IF isClosed(s) THEN UNCHANGED closes
       ELSE /\ closing' = [closing EXCEPT ![s] = "socket"]
            /\ closer' = [closer EXCEPT ![s] = t]
    /\ UNCHANGED <<sock, mapped>>

\* The socket is closed, if run() has made one by now.
closeSocket(s) ==
    /\ closing[s] = "socket"
    /\ closing' = [closing EXCEPT ![s] = "map"]
    /\ sock' = [sock EXCEPT ![s] = IF @ = "open" THEN "closed" ELSE @]
    /\ UNCHANGED <<stage, reader, app, sessions, mapped, of, pc, rpc, closer, connected,
                   outputShutdown, synAckSent, upstream, downstream>>

\* Mutant: whatever session the map has for the flow is removed.
MutUnmapAny(s) ==
    /\ closing[s] = "map"
    /\ closing' = [closing EXCEPT ![s] = "over"]
    /\ closer' = [closer EXCEPT ![s] = "nobody"]
    /\ mapped' = None
    /\ UNCHANGED <<stage, reader, app, sessions, of, pc, rpc, sock, connected,
                   outputShutdown, synAckSent, upstream, downstream>>

\* tcpSessions.remove(key, this): this session leaves the map, and no other.
unmap(s) ==
    /\ closing[s] = "map"
    /\ closing' = [closing EXCEPT ![s] = "over"]
    /\ closer' = [closer EXCEPT ![s] = "nobody"]
    /\ mapped' = IF mapped = s THEN None ELSE mapped
    /\ UNCHANGED <<stage, reader, app, sessions, of, pc, rpc, sock, connected,
                   outputShutdown, synAckSent, upstream, downstream>>

\* A thread inside close() does nothing else.
Free(t) == \A s \in Sessions : closer[s] # t

-----------------------------------------------------------------------------
(* The TUN reader: one packet at a time, one more after stop(). *)

Wire(position) == (Isn + 1 + position) % SeqMod

Reading == readerPc = "read" /\ Free("reader")

PacketDone == readerPc' = IF running THEN "read" ELSE "off"

\* A SYN for which there is no session: make one and run it.  The executor
\* refuses it once stop() is through.
NewSession ==
    /\ sessions < MaxSessions
    /\ LET s == sessions + 1 IN
       /\ sessions' = s
       /\ mapped' = s
       /\ of' = [of EXCEPT ![s] = conn']
       /\ pc' = [pc EXCEPT ![s] = IF stage = "down" THEN "rejected" ELSE "start"]
    /\ PacketDone
    /\ UNCHANGED <<stage, stale, closes, sock, rpc, connected, outputShutdown, synAckSent,
                   upstream, downstream>>

\* The owner of the flow is a blocked app: a reset is sent, no session is made.
RefuseSyn ==
    /\ enqueueTun([kind |-> "RST", sid |-> 0, seq |-> 0, chunk |-> 0], TRUE)
    /\ PacketDone
    /\ UNCHANGED <<stage, stale, sessions, mapped, of, pc, rpc, closes, sock, connected,
                   outputShutdown, synAckSent, upstream, mySeq, total, left>>

\* The SYN belongs to a session that is connected, or too young to be stale.
IgnoreSyn ==
    /\ PacketDone
    /\ UNCHANGED <<stage, stale, sessions, mapped, of, pc, rpc, closes, sock, connected,
                   outputShutdown, synAckSent, upstream, downstream>>

\* The session is stale: it leaves the map, to be closed next.
dropStale ==
    /\ readerPc' = "drop" /\ stale' = mapped /\ mapped' = None
    /\ UNCHANGED <<stage, sessions, of, pc, rpc, closes, sock, connected, outputShutdown,
                   synAckSent, upstream, downstream>>

\* A pure SYN: of a new connection on the same ports, or sent again.
processSyn ==
    /\ Reading
    /\ \/ conn < MaxConns /\ conn' = conn + 1
       \/ conn > 0 /\ ~established /\ conn' = conn
    /\ established' = FALSE
    /\ \/ mapped # None /\ IgnoreSyn
       \/ mapped # None /\ ~connected[mapped] /\ dropStale
       \/ mapped = None /\ (NewSession \/ RefuseSyn)

\* Mutant: the stale session is replaced and not closed.
MutLeaveStale ==
    /\ readerPc = "drop" /\ readerPc' = "make" /\ stale' = None
    /\ UNCHANGED <<stage, app, sessions, mapped, of, pc, rpc, closes, sock, connected,
                   outputShutdown, synAckSent, upstream, downstream>>

closeStale ==
    /\ readerPc = "drop" /\ readerPc' = "make"
    /\ close(stale, "reader") /\ stale' = None
    /\ UNCHANGED <<stage, app, sessions, of, pc, rpc, connected, outputShutdown, synAckSent,
                   upstream, downstream>>

\* The SYN that found a stale session, once that session is closed.
replaceStale ==
    /\ readerPc = "make" /\ Free("reader")
    /\ UNCHANGED app
    /\ NewSession \/ RefuseSyn

\* handleFromTun, a RST.
handleRst(s) ==
    /\ close(s, "reader")
    /\ UNCHANGED <<upstream, tun>>

\* handleFromTun before run() has connected: a FIN ends the session, payload
\* is dropped without an acknowledgement.
handleUnconnected(s, fin) ==
    /\ ~connected[s]
    /\ IF fin THEN close(s, "reader") ELSE UNCHANGED <<closes, sock, mapped>>
    /\ UNCHANGED <<upstream, tun>>

\* handleFromTun, a FIN: in order it is acknowledged as one byte, whatever
\* payload the segment carries.
handleFin(s, payload) ==
    /\ connected[s]
    /\ IF Wire(payload.from) = Wire(myAck[s])
       THEN /\ myAck' = [myAck EXCEPT ![s] = @ + 1]
            /\ clientClosed' = [clientClosed EXCEPT ![s] = TRUE]
            /\ finAte' = [finAte EXCEPT ![s] = @ \/ payload.from < payload.to]
       ELSE UNCHANGED <<myAck, clientClosed, finAte>>
    /\ sendAck(s)
    /\ UNCHANGED <<queue, written, closes, sock, mapped>>

\* Mutant: the sequence number is not compared.
MutAnyOrder(s, payload) ==
    /\ connected[s]
    /\ Len(queue[s]) < QueueCap
    /\ queue' = [queue EXCEPT ![s] = Append(@, payload)]
    /\ myAck' = [myAck EXCEPT ![s] = payload.to]
    /\ sendAck(s)
    /\ UNCHANGED <<written, clientClosed, finAte, closes, sock, mapped>>

\* handleFromTun, payload: taken only in order, acknowledged only when the
\* queue has room for it.
handlePayload(s, payload) ==
    /\ connected[s]
    /\ IF Wire(payload.from) # Wire(myAck[s])
       THEN sendAck(s) /\ UNCHANGED <<queue, myAck>>
       ELSE IF Len(queue[s]) < QueueCap
       THEN /\ queue' = [queue EXCEPT ![s] = Append(@, payload)]
            /\ myAck' = [myAck EXCEPT ![s] = payload.to]
            /\ sendAck(s)
       ELSE UNCHANGED <<queue, myAck, tun>>
    /\ UNCHANGED <<written, clientClosed, finAte, closes, sock, mapped>>

\* Any segment but a pure SYN, of the connection the app has established; a
\* segment for which there is no session, or a closed one, is dropped.
processSegment ==
    /\ Reading /\ established /\ mapped # None /\ ~isClosed(mapped)
    /\ PacketDone
    /\ \/ handleRst(mapped)
       \/ \E from, to \in Positions, fin \in BOOLEAN :
             LET payload == [from |-> from, to |-> to] IN
             /\ from < to \/ fin
             /\ fin => to = StreamLen /\ from =< to
             /\ \/ handleUnconnected(mapped, fin)
                \/ fin /\ handleFin(mapped, payload)
                \/ ~fin /\ handlePayload(mapped, payload)
    /\ UNCHANGED <<stage, stale, app, sessions, of, pc, rpc, connected, outputShutdown,
                   synAckSent, mySeq, total, left>>

-----------------------------------------------------------------------------
(* TcpSession.run *)

\* The packet that opens the connection towards the app.
SynAck(s) ==
    /\ enqueueTun(Control(s, "SYNACK"), TRUE)
    /\ mySeq' = [mySeq EXCEPT ![s] = @ + 1]

\* Port 80 or 443 with no cached name and a decision to tunnel: the SYN-ACK
\* goes out at once so that the first payload can be sniffed.
runStart(s) ==
    /\ pc[s] = "start"
    /\ \/ /\ pc' = [pc EXCEPT ![s] = "route"]
          /\ UNCHANGED <<synAckSent, mySeq, tun>>
       \/ /\ "TUNNEL" \in Modes
          /\ SynAck(s)
          /\ synAckSent' = [synAckSent EXCEPT ![s] = TRUE]
          /\ pc' = [pc EXCEPT ![s] = "sniff"]
    /\ UNCHANGED <<stage, reader, app, sessions, mapped, of, rpc, closes, sock,
                   connected, outputShutdown, upstream, total, left>>

\* One second for the first payload.  The queue is empty throughout, for
\* handleUnconnected drops what arrives, so the code that follows a payload is
\* never reached and the decision to tunnel stands; stop() interrupts the wait.
runSniff(s) ==
    /\ pc[s] = "sniff"
    /\ \/ /\ pc' = [pc EXCEPT ![s] = "route"]
          /\ UNCHANGED <<closes, sock, mapped>>
       \/ /\ stage = "down"
          /\ close(s, "session")
          /\ pc' = [pc EXCEPT ![s] = "done"]
    /\ UNCHANGED <<stage, reader, app, sessions, of, rpc, connected, outputShutdown,
                   synAckSent, upstream, downstream>>

Decision(s) == IF synAckSent[s] THEN {"TUNNEL"} ELSE Modes

\* A direct flow with no network to carry it is reset, a blocked one dropped.
runRefused(s) ==
    /\ pc[s] = "route"
    /\ \/ "DIRECT" \in Decision(s) /\ enqueueTun(Control(s, "RST"), TRUE)
       \/ "BLOCK" \in Decision(s) /\ UNCHANGED tun
    /\ close(s, "session")
    /\ pc' = [pc EXCEPT ![s] = "done"]
    /\ UNCHANGED <<stage, reader, app, sessions, of, rpc, connected, outputShutdown,
                   synAckSent, upstream, mySeq, total, left>>

\* The socket is made.  A close() that came earlier has not seen it.
runDial(s) ==
    /\ pc[s] = "route"
    /\ Decision(s) \cap {"TUNNEL", "DIRECT"} # {}
    /\ sock' = [sock EXCEPT ![s] = IF closing[s] \in {"map", "over"} THEN "orphan" ELSE "open"]
    /\ pc' = [pc EXCEPT ![s] = "dial"]
    /\ UNCHANGED <<stage, reader, app, sessions, mapped, of, rpc, closes, connected,
                   outputShutdown, synAckSent, upstream, downstream>>

\* Mutant: a failed handshake returns without the close() of the finally block.
MutNoFinally(s) ==
    /\ pc[s] = "dial"
    /\ pc' = [pc EXCEPT ![s] = "done"]
    /\ UNCHANGED <<stage, reader, app, sessions, mapped, of, rpc, closes, sock,
                   connected, outputShutdown, synAckSent, upstream, downstream>>

\* The connection, the SOCKS handshake or its reply fails; close() runs in the
\* finally block.
runDialFails(s) ==
    /\ pc[s] = "dial"
    /\ close(s, "session")
    /\ pc' = [pc EXCEPT ![s] = "done"]
    /\ UNCHANGED <<stage, reader, app, sessions, of, rpc, connected, outputShutdown,
                   synAckSent, upstream, downstream>>

runConnected(s) ==
    /\ pc[s] = "dial" /\ sock[s] # "closed"
    /\ connected' = [connected EXCEPT ![s] = TRUE]
    /\ pc' = [pc EXCEPT ![s] = "check"]
    /\ UNCHANGED <<stage, reader, app, sessions, mapped, of, rpc, closes, sock,
                   outputShutdown, synAckSent, upstream, downstream>>

\* The session was closed while it dialled.
runTooLate(s) ==
    /\ pc[s] = "check" /\ isClosed(s)
    /\ pc' = [pc EXCEPT ![s] = "done"]
    /\ UNCHANGED <<stage, reader, app, sessions, mapped, of, rpc, closes, sock,
                   connected, outputShutdown, synAckSent, upstream, downstream>>

\* The SYN-ACK, if it is not out yet, and the second thread, which a shut
\* executor refuses.
runOpen(s) ==
    /\ pc[s] = "check" /\ ~isClosed(s)
    /\ IF synAckSent[s] THEN UNCHANGED <<mySeq, tun>> ELSE SynAck(s)
    /\ IF stage = "down"
       THEN /\ close(s, "session")
            /\ pc' = [pc EXCEPT ![s] = "done"]
            /\ UNCHANGED rpc
       ELSE /\ pc' = [pc EXCEPT ![s] = "loop"]
            /\ rpc' = [rpc EXCEPT ![s] = "read"]
            /\ UNCHANGED <<closes, sock, mapped>>
    /\ UNCHANGED <<stage, reader, app, sessions, of, connected, outputShutdown,
                   synAckSent, upstream, total, left>>

\* One payload from the queue to the upstream; up to 64 more follow before
\* the flush, the count is left open.
runWrite(s) ==
    /\ \/ pc[s] = "loop" /\ ~isClosed(s) /\ running
       \/ pc[s] = "batch"
    /\ queue[s] # <<>> /\ sock[s] # "closed" /\ ~outputShutdown[s]
    /\ written' = [written EXCEPT ![s] = Append(@, Head(queue[s]))]
    /\ queue' = [queue EXCEPT ![s] = Tail(@)]
    /\ pc' = [pc EXCEPT ![s] = "batch"]
    /\ UNCHANGED <<stage, reader, app, sessions, mapped, of, rpc, closes, sock,
                   connected, outputShutdown, synAckSent, myAck, clientClosed, finAte,
                   downstream>>

\* The flush, or a poll that found nothing for two seconds.
runFlush(s) ==
    /\ \/ pc[s] = "batch" /\ sock[s] # "closed"
       \/ pc[s] = "loop" /\ ~isClosed(s) /\ running /\ queue[s] = <<>>
    /\ pc' = [pc EXCEPT ![s] = "half"]
    /\ UNCHANGED <<stage, reader, app, sessions, mapped, of, rpc, closes, sock,
                   connected, outputShutdown, synAckSent, upstream, downstream>>

\* Mutant: what is still queued is not looked at.
MutShutEarly(s) ==
    /\ pc[s] = "half"
    /\ outputShutdown' = [outputShutdown EXCEPT ![s] = @ \/ clientClosed[s]]
    /\ pc' = [pc EXCEPT ![s] = "loop"]
    /\ UNCHANGED <<stage, reader, app, sessions, mapped, of, rpc, closes, sock,
                   connected, synAckSent, upstream, downstream>>

\* The app has closed its side and everything queued is written: so is ours,
\* once.
runHalfClose(s) ==
    /\ pc[s] = "half"
    /\ outputShutdown' =
          [outputShutdown EXCEPT ![s] = @ \/ (clientClosed[s] /\ queue[s] = <<>>)]
    /\ pc' = [pc EXCEPT ![s] = "loop"]
    /\ UNCHANGED <<stage, reader, app, sessions, mapped, of, rpc, closes, sock,
                   connected, synAckSent, upstream, downstream>>

\* Mutant: the loop looks at neither flag and ends only when a write fails.
MutRunsOn(s) ==
    /\ pc[s] = "batch"
    /\ close(s, "session")
    /\ pc' = [pc EXCEPT ![s] = "done"]
    /\ UNCHANGED <<stage, reader, app, sessions, of, rpc, connected, outputShutdown,
                   synAckSent, upstream, downstream>>

\* The loop ends: the session is closed, the bridge stopped, the session idle
\* for five minutes, the wait interrupted, or a write failed.
runEnd(s) ==
    /\ \/ pc[s] = "loop"
       \/ pc[s] = "batch"
    /\ close(s, "session")
    /\ pc' = [pc EXCEPT ![s] = "done"]
    /\ UNCHANGED <<stage, reader, app, sessions, of, rpc, connected, outputShutdown,
                   synAckSent, upstream, downstream>>

run(s) ==
    \/ runStart(s) \/ runSniff(s) \/ runRefused(s) \/ runDial(s) \/ runDialFails(s)
    \/ runConnected(s) \/ runTooLate(s) \/ runOpen(s) \/ runWrite(s) \/ runFlush(s)
    \/ runHalfClose(s) \/ runEnd(s)

-----------------------------------------------------------------------------
(* TcpSession.readFromSocks *)

\* A read returns n chunks worth of data.
readSome(s) ==
    /\ rpc[s] = "read" /\ ~isClosed(s) /\ running /\ sock[s] # "closed"
    /\ \E n \in 1 .. MaxChunks :
          /\ total[s] + n =< MaxChunks
          /\ total' = [total EXCEPT ![s] = @ + n]
          /\ left' = [left EXCEPT ![s] = n]
    /\ rpc' = [rpc EXCEPT ![s] = "send"]
    /\ UNCHANGED <<stage, reader, app, sessions, mapped, of, pc, closes, sock,
                   connected, outputShutdown, synAckSent, upstream, mySeq, tun>>

\* Mutant: a packet the queue refused takes no sequence number.
MutSeqOnlyIfSent(s) ==
    /\ rpc[s] = "send"
    /\ enqueueTun([kind |-> "DATA", sid |-> s, seq |-> mySeq[s],
                   chunk |-> total[s] - left[s] + 1], FALSE)
    /\ mySeq' = [mySeq EXCEPT ![s] = IF tun' = tun THEN @ ELSE @ + 1]
    /\ left' = [left EXCEPT ![s] = @ - 1]
    /\ rpc' = [rpc EXCEPT ![s] = IF left[s] = 1 THEN "read" ELSE "send"]
    /\ UNCHANGED <<stage, reader, app, sessions, mapped, of, pc, closes, sock,
                   connected, outputShutdown, synAckSent, upstream, total>>

\* The next chunk of the buffer.  The sequence number moves on whether or not
\* the queue took the packet, and nobody looks at isClosed between chunks.
readChunk(s) ==
    /\ rpc[s] = "send"
    /\ enqueueTun([kind |-> "DATA", sid |-> s, seq |-> mySeq[s],
                   chunk |-> total[s] - left[s] + 1], FALSE)
    /\ mySeq' = [mySeq EXCEPT ![s] = @ + 1]
    /\ left' = [left EXCEPT ![s] = @ - 1]
    /\ rpc' = [rpc EXCEPT ![s] = IF left[s] = 1 THEN "read" ELSE "send"]
    /\ UNCHANGED <<stage, reader, app, sessions, mapped, of, pc, closes, sock,
                   connected, outputShutdown, synAckSent, upstream, total>>

\* End of the upstream: a FIN to the app, and the session closes.
readEof(s) ==
    /\ rpc[s] = "read" /\ ~isClosed(s) /\ running /\ sock[s] # "closed"
    /\ enqueueTun(Control(s, "FIN"), TRUE)
    /\ mySeq' = [mySeq EXCEPT ![s] = @ + 1]
    /\ rpc' = [rpc EXCEPT ![s] = "close"]
    /\ UNCHANGED <<stage, reader, app, sessions, mapped, of, pc, closes, sock,
                   connected, outputShutdown, synAckSent, upstream, total, left>>

\* The loop ends, or the read fails because the socket is closed or broken.
readEnd(s) ==
    /\ rpc[s] \in {"read", "close"}
    /\ close(s, "session")
    /\ rpc' = [rpc EXCEPT ![s] = "done"]
    /\ UNCHANGED <<stage, reader, app, sessions, of, pc, connected, outputShutdown,
                   synAckSent, upstream, downstream>>

readFromSocks(s) == readSome(s) \/ readChunk(s) \/ readEof(s) \/ readEnd(s)

-----------------------------------------------------------------------------
(* The TUN writer and stop() *)

\* The app's stack takes a SYN-ACK that answers the connection it is opening.
TunWriter ==
    /\ running /\ tun # <<>>
    /\ established' = (established \/ (/\ Head(tun).kind = "SYNACK"
                                       /\ of[Head(tun).sid] = conn))
    /\ tun' = Tail(tun)
    /\ UNCHANGED <<stage, reader, conn, sessions, mapped, of, pc, rpc, closes, sock,
                   connected, outputShutdown, synAckSent, upstream, mySeq, total, left>>

\* stop(): the flag, the sessions of the map closed, the map emptied, the
\* executor shut.  The TUN reader may handle a packet between any two.
stop ==
    /\ Free("stop")
    /\ \/ /\ stage = "up" /\ stage' = "flagged"
          /\ UNCHANGED <<closes, sock, mapped>>
       \/ /\ stage = "flagged" /\ stage' = "closed"
          /\ IF mapped # None THEN close(mapped, "stop") ELSE UNCHANGED <<closes, sock, mapped>>
       \/ /\ stage = "closed" /\ stage' = "cleared"
          /\ mapped' = None
          /\ UNCHANGED <<closes, sock>>
       \/ /\ stage = "cleared" /\ stage' = "down"
          /\ UNCHANGED <<closes, sock, mapped>>
    /\ UNCHANGED <<reader, app, sessions, of, pc, rpc, connected, outputShutdown,
                   synAckSent, upstream, downstream>>

Next ==
    \/ processSyn \/ closeStale \/ replaceStale \/ processSegment
    \/ \E s \in Sessions : run(s) \/ readFromSocks(s) \/ closeSocket(s) \/ unmap(s)
    \/ TunWriter \/ stop

\* Nothing is assumed of a running bridge.  Once it is stopped, stop() goes on,
\* and threads are not held for ever: the sockets they wait on are closed or
\* lose their peer, the engine, which the service kills in the same teardown.
Fairness ==
    /\ WF_vars(~running /\ stop)
    /\ \A s \in Sessions : /\ WF_vars(~running /\ run(s))
                           /\ WF_vars(~running /\ readFromSocks(s))
                           /\ WF_vars(~running /\ (closeSocket(s) \/ unmap(s)))

Spec == Init /\ [][Next]_vars /\ Fairness

-----------------------------------------------------------------------------
(* Properties *)

\* What the upstream got, followed by what still waits for it, is the app's
\* stream from its start: no byte twice, none out of order, and none missing,
\* except that a FIN which carries payload swallows it (handleFromTun).
StreamIntact ==
    \A s \in Sessions :
       LET all == written[s] \o queue[s] IN
       \A i \in 1 .. Len(all) :
          LET before == IF i = 1 THEN 0 ELSE all[i - 1].to IN
          /\ all[i].from >= before
          /\ all[i].from # before => finAte[s]

\* shutdownOutput tells the upstream that the app's stream is over only after
\* all of it was written; payload swallowed by a FIN is the one exception.
EofAfterAll ==
    \A s \in Sessions : outputShutdown[s] /\ ~finAte[s] =>
       /\ queue[s] = <<>>
       /\ IF written[s] = <<>> THEN StreamLen = 0
          ELSE written[s][Len(written[s])].to = StreamLen

\* While the bridge runs, a session whose close() has not begun has the flow's
\* packets: it is the one in the map, unless the reader has just taken it out to
\* close it.  So a session is closed before another has its flow, and the close()
\* of an old session, in whatever step it is, never takes its successor out of the
\* map.  Nor does a session stay in the map whose close() is over.
SoleSession ==
    running => \A s \in 1 .. sessions :
       /\ ~isClosed(s) => s \in {mapped, stale}
       /\ mapped = s => closing[s] # "over"

\* A dropped packet leaves a gap the app can see: every chunk has the sequence
\* number of its place in the upstream's stream, and a FIN comes after all.
GapsShow ==
    \A i \in 1 .. Len(tun) :
       LET p == tun[i] IN
       /\ p.kind = "DATA" => p.seq = p.chunk
       /\ p.kind = "FIN" => p.seq = total[p.sid] + 1

\* Every way out of run() has the session closed, and its socket with it, provided
\* the socket was made before close() looked for it; one made later is the orphan.
SocketReleased ==
    \A s \in Sessions : pc[s] = "done" =>
       isClosed(s) /\ (sock[s] = "open" => closing[s] = "socket")

\* After stop() every thread of every session ends, those of a session that
\* the reader created while stop() was under way too.
StopEnds ==
    []<>(~running => \A s \in Sessions : /\ pc[s] \in {"none", "rejected", "done"}
                                         /\ rpc[s] \in {"none", "done"}
                                         /\ closing[s] \in {"no", "over"})

=============================================================================
