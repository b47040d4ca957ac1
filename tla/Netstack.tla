------------------------------- MODULE Netstack -------------------------------
(***************************************************************************)
(* The user-space TCP/IP stack between the SOCKS front and the tunnel:     *)
(* netstack.rs, with the relay of socks.rs as its user.  One task owns all *)
(* sockets and alternates between a service pass over every connection     *)
(* and a select over its queues; the relays run beside it and reach it     *)
(* through one bounded queue, data_in, and one bounded queue each, to_app. *)
(* smoltcp and the remote hosts are modelled from how the code uses them:  *)
(* a TCP socket with its states and two buffers, without a timeout, and a  *)
(* remote that may fall silent at any moment and for good.                 *)
(*                                                                         *)
(* A unit of data stands for a stretch of bytes.  Units towards the remote *)
(* are numbered from 1, and a message names those it carries by its two    *)
(* ends; units towards the app are counted.                                *)
(***************************************************************************)
EXTENDS Naturals, Sequences

CONSTANTS
    Conns,      \* TCP connections, each opened once
    Udps,       \* UDP associations, each opened once
    Buf,        \* tcp_buf: units in either buffer of a socket
    Queue,      \* app_queue: capacity of data_in and of each to_app
    UpUnits,    \* bound: units the relay of a connection sends
    MaxChunk,   \* bound: units the relay reads and sends at once
    DownUnits   \* bound: units a remote has to send before it closes

ASSUME NetstackAssumption ==
    /\ Conns \cap Udps = {}
    /\ Buf \in Nat \ {0} /\ Queue \in Nat \ {0}
    /\ UpUnits \in [Conns -> Nat] /\ DownUnits \in [Conns -> Nat]
    /\ MaxChunk \in Nat \ {0}

max_tcp_pending == 2 * Buf

Units(bound) == UNION {0 .. bound[i] : i \in Conns}

VARIABLES
    phase,      \* the task runs its pass, waits in select, takes messages, is over
    todo,       \* connections the pass has not serviced yet
    conn,       \* tcp_conns and sockets: id -> the connection's record
    udp,        \* udp_conns: ids that have a socket
    data_in,    \* messages of the relays
    deferred,   \* the message that found pending full
    to_app,     \* units queued for each relay
    app,        \* the relay: idle, dialing, open, gone
    up,         \* its upload half still holds the sender
    sent,       \* units it has sent
    taken,      \* units it has received
    want,       \* units the remote sends before it closes
    got,        \* units of them the socket accepted
    sunk,       \* units the remote has received
    eof,        \* it has the end of the stream too
    cut         \* how the connection was removed: not yet, whole, full, reset, ended

relay == <<app, up, sent, taken>>
remote == <<want, got, sunk, eof>>
vars == <<phase, todo, conn, udp, data_in, deferred, to_app, relay, remote, cut>>

States == {"none", "synsent", "established", "closewait", "lastack",
           "finwait1", "finwait2", "closing", "timewait", "closed"}
Record == [st : States, est : BOOLEAN, half : BOOLEAN,
           pend : Seq(Nat), tx : Seq(Nat), rx : 0 .. Buf]
Absent == [st |-> "none", est |-> FALSE, half |-> FALSE,
           pend |-> <<>>, tx |-> <<>>, rx |-> 0]

\* Units from + 1 to to of connection i.
Data(i, from, to) == [t |-> "tcp", id |-> i, from |-> from, to |-> to]
TcpClose(i) == [t |-> "close", id |-> i, from |-> 0, to |-> 0]
UdpClose(u) == [t |-> "udpclose", id |-> u, from |-> 0, to |-> 0]
Message == {m \in [t : {"tcp", "close"}, id : Conns, from : Nat, to : Nat] : m.from <= m.to}
           \cup [t : {"udp", "udpclose"}, id : Udps, from : {0}, to : {0}]

Init ==
    /\ phase = "select" /\ todo = {}
    /\ conn = [i \in Conns |-> Absent] /\ udp = {}
    /\ data_in = <<>> /\ deferred = <<>>
    /\ to_app = [i \in Conns |-> 0]
    /\ app = [i \in Conns \cup Udps |-> "idle"]
    /\ up = [i \in Conns |-> FALSE]
    /\ sent = [i \in Conns |-> 0] /\ taken = [i \in Conns |-> 0]
    /\ want \in {w \in [Conns -> Units(DownUnits)] : \A i \in Conns : w[i] <= DownUnits[i]}
    /\ got = [i \in Conns |-> 0]
    /\ sunk = [i \in Conns |-> <<>>] /\ eof = [i \in Conns |-> FALSE]
    /\ cut = [i \in Conns |-> "no"]

-----------------------------------------------------------------------------
(* The socket.                                                               *)

\* tcp::Socket::close
Closed(st) ==
    CASE st = "synsent" -> "closed"
      [] st = "established" -> "finwait1"
      [] st = "closewait" -> "lastack"
      [] OTHER -> st

\* Packets reach the sockets in iface.poll, at the head of a pass.
Poll(i, c) ==
    /\ phase = "service" /\ todo = Conns
    /\ conn' = [conn EXCEPT ![i] = c]
    /\ UNCHANGED <<phase, todo, udp, data_in, deferred, to_app, relay, cut, want>>

net_accept(i) ==
    /\ conn[i].st = "synsent"
    /\ Poll(i, [conn[i] EXCEPT !.st = "established"]) /\ UNCHANGED <<got, sunk, eof>>

net_send(i) ==
    /\ conn[i].st \in {"established", "finwait1", "finwait2"}
    /\ conn[i].rx < Buf /\ got[i] < want[i]
    /\ got' = [got EXCEPT ![i] = @ + 1]
    /\ Poll(i, [conn[i] EXCEPT !.rx = @ + 1]) /\ UNCHANGED <<sunk, eof>>

net_fin(i) ==
    /\ got[i] = want[i]
    /\ conn[i].st \in {"established", "finwait1", "finwait2"}
    /\ Poll(i, [conn[i] EXCEPT !.st =
                   CASE @ = "established" -> "closewait"
                     [] @ = "finwait1" -> "closing"
                     [] @ = "finwait2" -> "timewait"])
    /\ UNCHANGED <<got, sunk, eof>>

\* The remote receives what the socket has sent.
net_read(i) ==
    /\ conn[i].st \in {"established", "closewait", "lastack", "finwait1", "closing"}
    /\ conn[i].tx # <<>>
    /\ sunk' = [sunk EXCEPT ![i] = Append(@, Head(conn[i].tx))]
    /\ Poll(i, [conn[i] EXCEPT !.tx = Tail(@)]) /\ UNCHANGED <<got, eof>>

\* The end of the stream follows the last unit and is acknowledged.
net_ack(i) ==
    /\ conn[i].tx = <<>> /\ conn[i].st \in {"finwait1", "closing", "lastack"}
    /\ Poll(i, [conn[i] EXCEPT !.st =
                   CASE @ = "finwait1" -> "finwait2"
                     [] @ = "closing" -> "timewait"
                     [] @ = "lastack" -> "closed"])
    /\ eof' = [eof EXCEPT ![i] = TRUE] /\ UNCHANGED <<got, sunk>>

\* A refused dial, or a remote that gives up.
net_reset(i) ==
    /\ conn[i].st \notin {"none", "closed"}
    /\ cut[i] # "reset"
    /\ phase = "service" /\ todo = Conns
    /\ conn' = [conn EXCEPT ![i].st = "closed", ![i].tx = <<>>]
    /\ cut' = [cut EXCEPT ![i] = "reset"]
    /\ UNCHANGED <<phase, todo, udp, data_in, deferred, to_app, relay, remote>>

-----------------------------------------------------------------------------
(* The service pass.                                                         *)

MinOf(a, b) == IF a < b THEN a ELSE b

\* Mutant: the close does not wait for the pending units.
MutCloseEarly(c, pend) == IF c.half THEN Closed(c.st) ELSE c.st

\* The socket's state once pending went into it.
Drained(c, pend) == IF c.half /\ pend = <<>> THEN Closed(c.st) ELSE c.st

\* Mutant: a closed queue is taken for a full one.
MutGoneIsFull(i, est) == FALSE

\* try_reserve finds the receiver dropped; until the dial is answered the
\* record itself holds it.
AppGone(i, est) == est /\ app[i] = "gone"

\* Mutant: a chunk is taken from the socket before there is room for it.
MutTakeFirst(i, k) == IF to_app[i] + k = Queue THEN 0 ELSE conn[i].rx - k

\* What stays in the socket when k units went to the app.
Left(i, k) == conn[i].rx - k

\* service_tcp for one connection: the answer to the dial, pending units into
\* the socket, a close once they are all there, received units to the app
\* while its queue has room, a close if the app is gone or the remote closed.
\* "given" units went to the app; "over" makes the connection be removed.
Serviced(i) ==
    LET c == conn[i]
        est == c.est \/ c.st = "established"
        n == IF c.st \in {"established", "closewait"}
             THEN MinOf(Len(c.pend), Buf - Len(c.tx)) ELSE 0
        pend == SubSeq(c.pend, n + 1, Len(c.pend))
        k == IF AppGone(i, est) THEN 0 ELSE MinOf(c.rx, Queue - to_app[i])
        st == IF AppGone(i, est) THEN Closed(Drained(c, pend)) ELSE Drained(c, pend)
    IN  [next |-> [st |-> IF st = "closewait" THEN Closed(st) ELSE st,
                   est |-> est, half |-> c.half,
                   pend |-> IF st = "timewait" THEN <<>> ELSE pend,
                   tx |-> c.tx \o SubSeq(c.pend, 1, n), rx |-> Left(i, k)],
         given |-> k,
         over |-> est /\ st \in {"closed", "timewait"}]

\* Closed before the pass ever saw it established: the dial failed.
DialFailed(i) == ~conn[i].est /\ conn[i].st \in {"closed", "timewait"}

Present(i) == conn[i].st # "none"
Removed(i) == Present(i) /\ (DialFailed(i) \/ Serviced(i).over)
Answered(i) == ~conn[i].est /\ conn[i].st = "established"

\* try_send: a message that finds the queue full or its reader gone is lost.
TrySend(q, m) == IF phase # "ended" /\ Len(q) < Queue THEN Append(q, m) ELSE q

\* A turn of service_tcp's loop.  The relays run meanwhile.  The answer to a
\* dial nobody waits for any more is dropped, and the drop queues a close.
service_tcp(i) ==
    /\ phase = "service" /\ i \in todo
    /\ todo' = todo \ {i}
    /\ conn' = [conn EXCEPT ![i] =
                   IF ~Present(i) \/ Removed(i) THEN Absent ELSE Serviced(i).next]
    /\ to_app' = [to_app EXCEPT ![i] =
                     IF Present(i) /\ ~DialFailed(i) THEN @ + Serviced(i).given ELSE @]
    /\ app' = [app EXCEPT ![i] =
                  CASE @ = "dialing" /\ Answered(i) -> "open"
                    [] @ = "dialing" /\ DialFailed(i) -> "gone"
                    [] OTHER -> @]
    /\ up' = [up EXCEPT ![i] = @ \/ (Answered(i) /\ app[i] = "dialing")]
    /\ data_in' = IF Answered(i) /\ app[i] = "gone"
                  THEN TrySend(data_in, TcpClose(i)) ELSE data_in
    /\ cut' = [cut EXCEPT ![i] =
                  IF ~Removed(i) \/ @ = "reset" THEN @
                  ELSE IF Serviced(i).next.rx > 0 THEN "full" ELSE "whole"]
    /\ UNCHANGED <<phase, udp, deferred, sent, taken, remote>>

\* Mutant: no limit on pending.
MutNoLimit(c, m) == m.to - m.from

\* Units of a message that pending has room for.
Fits(c, m) == MinOf(m.to - m.from, max_tcp_pending - Len(c.pend))

\* Mutant: the whole message is kept although a part of it was taken.
MutKeepWhole(m, fits) == m

\* The part of a message that waits.
Rest(m, fits) == [m EXCEPT !.from = @ + fits]

\* The first units of a message, as pending holds them.
Taken(m, fits) == [n \in 1 .. fits |-> m.from + n]


\* try_handle_data: what it leaves, and the rest of a message that found
\* pending full.
try_handle_data(m) ==
    LET i == m.id
        fits == Fits(conn[i], m)
    IN  CASE m.t = "tcp" /\ Present(i) ->
               [conn |-> [conn EXCEPT ![i].pend = @ \o Taken(m, fits)], udp |-> udp,
                back |-> IF fits = m.to - m.from THEN <<>> ELSE <<Rest(m, fits)>>]
          [] m.t = "close" /\ Present(i) ->
               [conn |-> [conn EXCEPT ![i].half = TRUE], udp |-> udp, back |-> <<>>]
          [] m.t = "udpclose" -> [conn |-> conn, udp |-> udp \ {i}, back |-> <<>>]
          [] OTHER -> [conn |-> conn, udp |-> udp, back |-> <<>>]

Handle(m) ==
    LET h == try_handle_data(m)
    IN  conn' = h.conn /\ udp' = h.udp /\ deferred' = h.back

\* The end of a pass: the deferred message is tried again.
retry_deferred ==
    /\ phase = "service" /\ todo = {} /\ phase' = "select"
    /\ IF deferred = <<>> THEN UNCHANGED <<conn, udp, deferred>>
                          ELSE Handle(Head(deferred))
    /\ UNCHANGED <<todo, data_in, to_app, relay, remote, cut>>

-----------------------------------------------------------------------------
(* The select.                                                               *)

\* A packet arrived, the delay is over, or no further message is there.
wake ==
    /\ phase = "select" \/ (phase = "drain" /\ data_in = <<>>)
    /\ phase' = "service" /\ todo' = Conns
    /\ UNCHANGED <<conn, udp, data_in, deferred, to_app, relay, remote, cut>>

\* handle_cmd: the socket dials.
open_tcp(i) ==
    /\ phase = "select" /\ phase' = "service" /\ todo' = Conns
    /\ app[i] = "idle"
    /\ app' = [app EXCEPT ![i] = "dialing"]
    /\ conn' = [conn EXCEPT ![i] = [Absent EXCEPT !.st = "synsent"]]
    /\ UNCHANGED <<udp, data_in, deferred, to_app, up, sent, taken, remote, cut>>

open_udp(u) ==
    /\ phase = "select" /\ phase' = "service" /\ todo' = Conns
    /\ app[u] = "idle"
    /\ app' = [app EXCEPT ![u] = "open"] /\ udp' = udp \cup {u}
    /\ UNCHANGED <<conn, data_in, deferred, to_app, up, sent, taken, remote, cut>>

\* Mutant: messages are taken although one is deferred.
MutOvertake ==
    /\ phase \in {"select", "drain"} /\ data_in # <<>>
    /\ Handle(Head(data_in))
    /\ IF deferred' = <<>> THEN phase' = "drain" /\ UNCHANGED todo
                           ELSE phase' = "service" /\ todo' = Conns
    /\ data_in' = Tail(data_in)
    /\ UNCHANGED <<to_app, relay, remote, cut>>

\* Messages are taken while none is deferred, one after the other while they
\* come.
recv_data ==
    /\ phase \in {"select", "drain"} /\ deferred = <<>> /\ data_in # <<>>
    /\ Handle(Head(data_in))
    /\ IF deferred' = <<>> THEN phase' = "drain" /\ UNCHANGED todo
                           ELSE phase' = "service" /\ todo' = Conns
    /\ data_in' = Tail(data_in)
    /\ UNCHANGED <<to_app, relay, remote, cut>>

\* Mutant: the records outlive the task.
MutKeepRecords(cs) == cs

\* The stack is dropped with all its records.
DropRecords(cs) == [i \in Conns |-> Absent]

\* The tunnel is gone, or every handle to the stack: run returns and drops its
\* ends of every queue with what is in data_in.
run_end ==
    /\ phase = "select" /\ phase' = "ended" /\ UNCHANGED todo
    /\ conn' = DropRecords(conn) /\ udp' = {}
    /\ data_in' = <<>> /\ deferred' = <<>>
    /\ cut' = [i \in Conns |-> IF Present(i) THEN "ended" ELSE cut[i]]
    /\ UNCHANGED <<to_app, relay, remote>>

-----------------------------------------------------------------------------
(* The relay: handle_connect once it has dialled, or a caller with a         *)
(* deadline.                                                                 *)

\* open_through_gateway and the lookups give up a dial after a while.
give_up(i) ==
    /\ app[i] = "dialing" /\ app' = [app EXCEPT ![i] = "gone"]
    /\ UNCHANGED <<phase, todo, conn, udp, data_in, deferred, to_app, up, sent, taken, remote, cut>>

\* run_end dropped the responder: open_tcp fails.
dial_dropped(i) ==
    /\ app[i] = "dialing" /\ ~Present(i) /\ app' = [app EXCEPT ![i] = "gone"]
    /\ UNCHANGED <<phase, todo, conn, udp, data_in, deferred, to_app, up, sent, taken, remote, cut>>

\* A send waits for room, and fails once the task is over.
HasRoom == phase # "ended" /\ Len(data_in) < Queue
SendReturns == phase = "ended" \/ Len(data_in) < Queue

relay_up(i, k) ==
    /\ up[i] /\ HasRoom /\ sent[i] + k <= UpUnits[i]
    /\ sent' = [sent EXCEPT ![i] = @ + k]
    /\ data_in' = Append(data_in, Data(i, sent[i], sent[i] + k))
    /\ UNCHANGED <<phase, todo, conn, udp, deferred, to_app, app, up, taken, remote, cut>>

\* The client closed its side, or a send failed: close waits for room, and
\* dropping the sender tries to queue another one.
relay_eof(i) ==
    /\ up[i] /\ SendReturns
    /\ data_in' = TrySend(TrySend(data_in, TcpClose(i)), TcpClose(i))
    /\ up' = [up EXCEPT ![i] = FALSE]
    /\ UNCHANGED <<phase, todo, conn, udp, deferred, to_app, app, sent, taken, remote, cut>>

relay_down(i) ==
    /\ app[i] = "open" /\ to_app[i] > 0
    /\ to_app' = [to_app EXCEPT ![i] = @ - 1] /\ taken' = [taken EXCEPT ![i] = @ + 1]
    /\ UNCHANGED <<phase, todo, conn, udp, data_in, deferred, app, up, sent, remote, cut>>

\* The client went away, or relay_done: the upload task is aborted, which
\* drops the sender.
relay_end(i) ==
    /\ app[i] = "open" /\ app' = [app EXCEPT ![i] = "gone"]
    /\ up' = [up EXCEPT ![i] = FALSE]
    /\ data_in' = IF up[i] THEN TrySend(data_in, TcpClose(i)) ELSE data_in
    /\ UNCHANGED <<phase, todo, conn, udp, deferred, to_app, sent, taken, remote, cut>>

\* The stack's end of the queue is dropped and the queue is empty.
relay_done(i) == ~Present(i) /\ to_app[i] = 0 /\ relay_end(i)

udp_send(u) ==
    /\ app[u] = "open" /\ HasRoom
    /\ data_in' = Append(data_in, [t |-> "udp", id |-> u, from |-> 0, to |-> 0])
    /\ UNCHANGED <<phase, todo, conn, udp, deferred, to_app, relay, remote, cut>>

UdpGone(u) ==
    /\ app[u] = "open" /\ app' = [app EXCEPT ![u] = "gone"]
    /\ UNCHANGED <<phase, todo, conn, udp, deferred, to_app, up, sent, taken, remote, cut>>

\* The association ends with a close that waits for room, and the drop.
udp_close(u) ==
    /\ UdpGone(u) /\ SendReturns
    /\ data_in' = TrySend(TrySend(data_in, UdpClose(u)), UdpClose(u))

\* An error or an abort before that drops the sender, which tries to queue it.
udp_drop(u) == UdpGone(u) /\ data_in' = TrySend(data_in, UdpClose(u))

-----------------------------------------------------------------------------

Turn == (\E i \in Conns : service_tcp(i)) \/ retry_deferred

Next ==
    \/ Turn \/ wake \/ recv_data \/ run_end
    \/ \E i \in Conns :
          \/ open_tcp(i) \/ give_up(i) \/ dial_dropped(i)
          \/ \E k \in 1 .. MaxChunk : relay_up(i, k)
          \/ relay_eof(i) \/ relay_down(i) \/ relay_end(i)
          \/ net_accept(i) \/ net_send(i) \/ net_fin(i)
          \/ net_read(i) \/ net_ack(i) \/ net_reset(i)
    \/ \E u \in Udps : open_udp(u) \/ udp_send(u) \/ udp_close(u) \/ udp_drop(u)

Spec == Init /\ [][Next]_vars

\* The task keeps turning: data_in is not refilled each time it was emptied,
\* and the biased select gets to it since the tunnel does not have a packet
\* ready at every turn.  Relays write to a client that reads.  Nothing is assumed
\* of a remote: it may never answer, read, acknowledge or close.
FairSpec ==
    /\ Spec
    /\ WF_vars(Turn) /\ SF_vars(wake) /\ SF_vars(recv_data)
    /\ \A u \in Udps : WF_vars(phase = "ended" /\ udp_close(u))
    /\ \A i \in Conns : WF_vars(dial_dropped(i) \/ relay_down(i) \/ relay_done(i))

-----------------------------------------------------------------------------

TypeOK ==
    /\ phase \in {"service", "select", "drain", "ended"} /\ todo \subseteq Conns
    /\ conn \in [Conns -> Record] /\ udp \subseteq Udps
    /\ \A i \in Conns : Len(conn[i].pend) <= max_tcp_pending /\ Len(conn[i].tx) <= Buf
    /\ data_in \in Seq(Message) /\ Len(data_in) <= Queue
    /\ deferred \in Seq(Message) /\ Len(deferred) <= 1
    /\ to_app \in [Conns -> 0 .. Queue]
    /\ app \in [Conns \cup Udps -> {"idle", "dialing", "open", "gone"}]
    /\ up \in [Conns -> BOOLEAN]
    /\ sent \in [Conns -> Nat] /\ taken \in [Conns -> Nat]
    /\ want \in [Conns -> Nat] /\ got \in [Conns -> Nat]
    /\ \A i \in Conns : sent[i] <= UpUnits[i] /\ want[i] <= DownUnits[i]
    /\ sunk \in [Conns -> Seq(Nat)] /\ eof \in [Conns -> BOOLEAN]
    /\ cut \in [Conns -> {"no", "whole", "full", "reset", "ended"}]

\* What the remote has and what the stack holds for it in the socket and in
\* pending; the messages that wait behind it, the deferred one first.
Held(i) == sunk[i] \o conn[i].tx \o conn[i].pend
Waiting == deferred \o data_in
IsData(m, i) == m.t = "tcp" /\ m.id = i

\* While a connection lives, what is held for it and what waits is what the
\* relay sent, each unit once and in order: the messages behind a deferred one
\* wait for it.
UploadIntact ==
    \A i \in Conns : Present(i) /\ cut[i] # "reset" =>
        LET W == Waiting
            mine == {n \in DOMAIN W : IsData(W[n], i)}
        IN  /\ Len(Held(i)) <= sent[i] /\ \A n \in DOMAIN Held(i) : Held(i)[n] = n
            /\ \A n \in mine :
                  Len(Held(i)) <= W[n].from /\ W[n].from < W[n].to /\ W[n].to <= sent[i]
            /\ \A m, n \in mine : m < n => W[m].to <= W[n].from
            /\ \A u \in Len(Held(i)) + 1 .. sent[i] :
                  \E n \in mine : W[n].from < u /\ u <= W[n].to

\* A socket the stack closed while the relay is there and the remote had not
\* closed first has all the relay sent.
FinAfterAll ==
    \A i \in Conns :
        app[i] = "open" /\ cut[i] # "reset"
        /\ conn[i].st \in {"finwait1", "finwait2", "closing", "timewait"}
        => /\ conn[i].pend = <<>>
           /\ \A n \in DOMAIN Waiting : ~IsData(Waiting[n], i)

\* A relay that sees the end of the stream has all the remote sent, unless the
\* connection was reset or removed while its queue was full: a socket whose
\* end of stream is acknowledged is removed with what it still holds.
EofMeansAll ==
    \A i \in Conns :
        app[i] = "open" /\ ~Present(i) /\ to_app[i] = 0 /\ cut[i] = "whole"
        => taken[i] = want[i]

\* How the upload of a connection stands: the relay may send, it has shut the
\* stream down and the socket has the FIN behind all units, or an end is gone.
Stage(i) ==
    LET both == app[i] = "open" /\ cut[i] # "reset"
    IN  CASE app[i] \in {"idle", "dialing"} -> "idle"
          [] both /\ conn[i].st = "established" -> "open"
          [] both /\ conn[i].st \in {"finwait1", "finwait2", "closing", "timewait"} -> "shut"
          [] OTHER -> "over"

\* The state of Pipe in the stack's.
Stream == INSTANCE Pipe WITH stage <- [i \in Conns |-> Stage(i)]

\* The upload of every connection behaves as Pipe promises, from the relay's
\* send to the remote: in order and once, the end of the stream last.
UploadSpec == Stream!Spec

\* The stack has asked for the dial or sent a FIN, and only the remote can answer.
Unanswered(i) == conn[i].st \in {"synsent", "finwait1", "finwait2", "closing", "lastack"}


\* A connection whose relay is gone is removed or at least closed, a lost close
\* notwithstanding, for service_tcp finds the queue's receiver dropped: it is left
\* only where the remote has still to answer the dial or the FIN.
AbandonedFreed ==
    \A i \in Conns : app[i] = "gone" /\ Present(i) ~> ~Present(i) \/ Unanswered(i)

\* When the tunnel goes, every caller of the stack ends: the one that waits for
\* the answer to its dial, the one that waits for data, also while its upload
\* half waits for room in data_in, and the association.
CallersEnd == phase = "ended" ~> \A i \in DOMAIN app : app[i] \in {"idle", "gone"}

=============================================================================
