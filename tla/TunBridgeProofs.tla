--------------------------- MODULE TunBridgeProofs ---------------------------
(***************************************************************************)
(* The bridge keeps both streams of a flow in order, and one open session  *)
(* per flow, for every capacity of its queues and any number of sessions.  *)
(***************************************************************************)
EXTENDS TunBridge, TLAPS

Early == {"none", "rejected", "start", "sniff", "route"}
Late == {"loop", "batch", "half", "done"}

\* The sessions are made in order, and only a made one is mapped, stale or closed.
MadeInv ==
    /\ mapped =< sessions /\ stale =< sessions
    /\ \A s \in Sessions : /\ s > sessions <=> pc[s] = "none"
                           /\ s > sessions => closing[s] = "no"

\* How the threads of one session, its socket and its close() go together.
SessionOf(s) ==
    /\ pc[s] \in Early => sock[s] = "none"
    /\ pc[s] \in Early \cup {"dial"} => ~connected[s]
    /\ pc[s] \in {"check", "loop", "batch", "half"} => connected[s]
    /\ rpc[s] # "none" => pc[s] \in Late
    /\ closing[s] \in {"map", "over"} => sock[s] # "open"
    /\ pc[s] = "done" => closing[s] # "no"

\* The reader has a stale session in hand exactly while it is to close it, and
\* the flow has no session in the map until the reader has made the next.
ReaderInv ==
    /\ readerPc = "drop" <=> stale # None
    /\ readerPc \in {"drop", "make"} => mapped = None

\* A close() that is over has the session out of the map; while the bridge runs
\* a session that is not closed is in the map or in the reader's hand.
MapInv ==
    \A s \in Sessions :
       /\ closing[s] = "over" => mapped # s
       /\ stage = "up" /\ s =< sessions /\ closing[s] = "no" => s \in {mapped, stale}
       /\ pc[s] = "rejected" => stage = "down"

ControlInv ==
    ControlTypeOK /\ MadeInv /\ (\A s \in Sessions : SessionOf(s)) /\ ReaderInv /\ MapInv

All(s) == written[s] \o queue[s]
End(all) == IF all = <<>> THEN 0 ELSE all[Len(all)].to

Linked(all, ate) ==
    \A i \in 1 .. Len(all) :
       LET before == IF i = 1 THEN 0 ELSE all[i - 1].to IN
       /\ all[i].from >= before
       /\ all[i].from # before => ate

\* The next byte expected follows what was taken, until a FIN is counted.
StreamInv ==
    \A s \in Sessions :
       /\ Linked(All(s), finAte[s])
       /\ End(All(s)) =< myAck[s]
       /\ ~clientClosed[s] => myAck[s] = End(All(s)) /\ ~finAte[s]
       /\ clientClosed[s] /\ ~finAte[s] =>
             myAck[s] = StreamLen + 1 /\ End(All(s)) = StreamLen
       /\ outputShutdown[s] /\ ~finAte[s] => clientClosed[s] /\ queue[s] = <<>>
       /\ ~connected[s] => queue[s] = <<>>

\* The sequence number counts the SYN-ACK and the chunks handed over.
SeqInv ==
    \A s \in Sessions :
       /\ pc[s] \in {"none", "rejected", "start"} => mySeq[s] = 0 /\ ~synAckSent[s]
       /\ pc[s] \in {"sniff", "route", "dial", "check"} =>
             mySeq[s] = IF synAckSent[s] THEN 1 ELSE 0
       /\ rpc[s] = "none" => total[s] = 0
       /\ rpc[s] = "read" => mySeq[s] = total[s] + 1
       /\ rpc[s] = "send" => /\ left[s] > 0 /\ left[s] =< total[s]
                             /\ mySeq[s] = total[s] - left[s] + 1

\* A FIN in the queue belongs to a session that reads no more.
TunInv ==
    \A i \in 1 .. Len(tun) :
       /\ tun[i].kind = "DATA" => tun[i].seq = tun[i].chunk
       /\ tun[i].kind = "FIN" => /\ tun[i].sid \in Sessions
                                 /\ rpc[tun[i].sid] \in {"close", "done"}
                                 /\ tun[i].seq = total[tun[i].sid] + 1

DownInv == SeqInv /\ TunInv

-----------------------------------------------------------------------------
(* The control state: sessions, threads and the map. *)

\* Nothing is a session yet.
LEMMA ControlInit == Init => ControlInv
<1> SUFFICES ASSUME Init PROVE ControlInv
    OBVIOUS
<1>1. ControlTypeOK
  <2>1. /\ pc \in [Sessions -> {"none", "rejected", "start", "sniff", "route", "dial",
                               "check", "loop", "batch", "half", "done"}]
        /\ rpc \in [Sessions -> {"none", "read", "send", "close", "done"}]
        /\ sock \in [Sessions -> {"none", "open", "closed", "orphan"}]
        /\ closing \in [Sessions -> {"no", "socket", "map", "over"}]
        /\ closer \in [Sessions -> {"nobody", "reader", "session", "stop"}]
        /\ of \in [Sessions -> 0 .. MaxConns]
      BY BridgeAssumption DEF Init
  <2>2. /\ connected \in [Sessions -> BOOLEAN] /\ established \in BOOLEAN
        /\ outputShutdown \in [Sessions -> BOOLEAN]
        /\ synAckSent \in [Sessions -> BOOLEAN]
      BY DEF Init
  <2>3. /\ stage \in {"up", "flagged", "closed", "cleared", "down"}
        /\ readerPc \in {"read", "drop", "make", "off"} /\ stale \in 0 .. MaxSessions
        /\ conn \in 0 .. MaxConns
        /\ sessions \in 0 .. MaxSessions /\ mapped \in 0 .. MaxSessions
      BY BridgeAssumption DEF Init, None
  <2> QED
      BY <2>1, <2>2, <2>3 DEF ControlTypeOK
<1>2. MadeInv
    BY BridgeAssumption DEF Init, MadeInv, None, Sessions
<1>3. ASSUME NEW s \in Sessions PROVE SessionOf(s)
  <2>1. /\ pc[s] = "none" /\ rpc[s] = "none" /\ sock[s] = "none" /\ closing[s] = "no"
        /\ connected[s] = FALSE
      BY DEF Init
  <2> QED
      BY <2>1 DEF SessionOf
<1>4. ReaderInv
    BY DEF Init, ReaderInv, None
<1>5. MapInv
    BY BridgeAssumption DEF Init, MapInv, None, Sessions
<1> QED
    BY <1>1, <1>2, <1>3, <1>4, <1>5 DEF ControlInv

\* Sessions are numbered from 1.
LEMMA Numbers ==
    ASSUME ControlInv
    PROVE  /\ sessions \in Nat /\ mapped \in Nat /\ stale \in Nat
           /\ \A s \in Sessions : s \in Nat /\ s # None
BY BridgeAssumption DEF ControlInv, ControlTypeOK, Sessions, None

\* What the first step of close() does, whoever calls it.
LEMMA CloseEffect ==
    ASSUME ControlInv, NEW s \in Sessions, NEW t \in {"reader", "session", "stop"}, close(s, t)
    PROVE  /\ closing' \in [Sessions -> {"no", "socket", "map", "over"}]
           /\ closer' \in [Sessions -> {"nobody", "reader", "session", "stop"}]
           /\ closing'[s] # "no"
           /\ closing'[s] \in {"map", "over"} => closing'[s] = closing[s]
           /\ \A r \in Sessions \ {s} : closing'[r] = closing[r]
           /\ UNCHANGED <<sock, mapped>>
<1>1. CASE isClosed(s)
    BY <1>1 DEF ControlInv, ControlTypeOK, close, closes, isClosed
<1>2. CASE ~isClosed(s)
    BY <1>2 DEF ControlInv, ControlTypeOK, close
<1> QED
    BY <1>1, <1>2

\* A step of one session: the others are as they were, and none that is open is
\* lost from the map and the reader's hand.
LEMMA SessionKeeps ==
    ASSUME ControlInv, NEW s \in Sessions, pc[s] # "none", ControlTypeOK',
           \A t \in Sessions \ {s} : /\ pc'[t] = pc[t] /\ rpc'[t] = rpc[t]
                                     /\ sock'[t] = sock[t] /\ closing'[t] = closing[t]
                                     /\ connected'[t] = connected[t],
           UNCHANGED sessions, mapped' \in {mapped, None}, stale' \in {stale, None},
           stage' = "up" => stage = "up", stage = "down" => stage' = "down",
           ReaderInv', SessionOf(s)', pc'[s] \notin {"none", "rejected"} \/ pc'[s] = pc[s],
           closing[s] # "no" => closing'[s] # "no",
           closing'[s] = "over" => mapped' # s,
           stage' = "up" => \A t \in Sessions : t \in {mapped, stale} =>
                               t \in {mapped', stale'} \/ (t = s /\ closing'[s] # "no")
    PROVE  ControlInv'
<1>0. /\ sessions \in Nat /\ mapped \in Nat /\ stale \in Nat
      /\ \A t \in Sessions : t \in Nat /\ t # None
      /\ s =< sessions
    BY Numbers DEF ControlInv, MadeInv
<1>1. MadeInv'
  <2>1. mapped' =< sessions' /\ stale' =< sessions'
      BY <1>0 DEF ControlInv, MadeInv, None
  <2>2. ASSUME NEW t \in Sessions
        PROVE  (t > sessions' <=> pc'[t] = "none") /\ (t > sessions' => closing'[t] = "no")
    <3>1. CASE t = s
        BY <1>0, <3>1
    <3>2. CASE t # s
        BY <3>2 DEF ControlInv, MadeInv
    <3> QED
        BY <3>1, <3>2
  <2> QED
      BY <2>1, <2>2 DEF MadeInv
<1>2. ASSUME NEW t \in Sessions PROVE SessionOf(t)'
  <2>1. CASE t = s
      BY <2>1
  <2>2. CASE t # s
      BY <2>2 DEF ControlInv, SessionOf
  <2> QED
      BY <2>1, <2>2
<1>3. MapInv'
  <2>1. ASSUME NEW t \in Sessions
        PROVE  /\ closing'[t] = "over" => mapped' # t
               /\ stage' = "up" /\ t =< sessions' /\ closing'[t] = "no"
                     => t \in {mapped', stale'}
               /\ pc'[t] = "rejected" => stage' = "down"
    <3>1. CASE t = s
        BY <1>0, <3>1 DEF ControlInv, MapInv
    <3>2. CASE t # s
        BY <1>0, <3>2 DEF ControlInv, MapInv
    <3> QED
        BY <3>1, <3>2
  <2> QED
      BY <2>1 DEF MapInv
<1> QED
    BY <1>1, <1>2, <1>3 DEF ControlInv

\* A step of a thread of one session, which leaves the map and the reader alone.
LEMMA ThreadKeeps ==
    ASSUME ControlInv, NEW s \in Sessions, pc[s] # "none", ControlTypeOK',
           \A t \in Sessions \ {s} : /\ pc'[t] = pc[t] /\ rpc'[t] = rpc[t]
                                     /\ sock'[t] = sock[t] /\ closing'[t] = closing[t]
                                     /\ connected'[t] = connected[t],
           UNCHANGED <<stage, readerPc, stale, sessions, mapped>>,
           SessionOf(s)', pc'[s] \notin {"none", "rejected"} \/ pc'[s] = pc[s],
           closing[s] # "no" => closing'[s] # "no",
           closing'[s] = "over" => closing[s] = "over"
    PROVE  ControlInv'
<1>1. ReaderInv'
    BY DEF ControlInv, ReaderInv
<1>2. closing'[s] = "over" => mapped' # s
    BY DEF ControlInv, MapInv
<1> QED
    BY <1>1, <1>2, SessionKeeps

\* A step of no session: what the app knows, stop() and the reader may move on.
LEMMA IdleKeeps ==
    ASSUME ControlInv, ControlTypeOK', ReaderInv',
           UNCHANGED <<sessions, pc, rpc, closing, sock, connected>>,
           mapped' \in {mapped, None}, stale' =< sessions,
           stage' = "up" => stage = "up", stage = "down" => stage' = "down",
           stage' = "up" => \A t \in Sessions : t \in {mapped, stale} => t \in {mapped', stale'}
    PROVE  ControlInv'
<1>0. /\ sessions \in Nat /\ mapped \in Nat
      /\ \A t \in Sessions : t \in Nat /\ t # None
    BY Numbers
<1>1. MadeInv'
    BY <1>0 DEF ControlInv, MadeInv, None
<1>2. \A t \in Sessions : SessionOf(t)'
    BY DEF ControlInv, SessionOf
<1>3. MapInv'
    BY <1>0 DEF ControlInv, MapInv
<1> QED
    BY <1>1, <1>2, <1>3 DEF ControlInv

\* Every step of run().
LEMMA RunControl ==
    ASSUME ControlInv, NEW s \in Sessions, run(s) PROVE ControlInv'
<1>0. /\ SessionOf(s) /\ closing[s] \in {"no", "socket", "map", "over"}
      /\ rpc[s] \in {"none", "read", "send", "close", "done"}
      /\ connected[s] \in BOOLEAN
    BY DEF ControlInv, ControlTypeOK
<1>1. ASSUME pc[s] # "none", close(s, "session"), pc' = [pc EXCEPT ![s] = "done"],
             UNCHANGED <<stage, reader, app, sessions, of, rpc, connected, outputShutdown,
                         synAckSent>>
      PROVE  ControlInv'
  <2>1. /\ closing' \in [Sessions -> {"no", "socket", "map", "over"}]
        /\ closer' \in [Sessions -> {"nobody", "reader", "session", "stop"}]
        /\ closing'[s] # "no" /\ (closing'[s] \in {"map", "over"} => closing'[s] = closing[s])
        /\ \A r \in Sessions \ {s} : closing'[r] = closing[r]
        /\ UNCHANGED <<sock, mapped>>
      BY <1>1, CloseEffect
  <2>2. /\ pc' \in [Sessions -> {"none", "rejected", "start", "sniff", "route", "dial",
                                "check", "loop", "batch", "half", "done"}]
        /\ pc'[s] = "done" /\ \A t \in Sessions \ {s} : pc'[t] = pc[t]
      BY <1>1 DEF ControlInv, ControlTypeOK
  <2>3. UNCHANGED <<stage, readerPc, stale, conn, established, sessions, of, rpc, connected,
                    outputShutdown, synAckSent>>
      BY <1>1 DEF reader, app
  <2>4. ControlTypeOK'
      BY <2>1, <2>2, <2>3 DEF ControlInv, ControlTypeOK
  <2>5. SessionOf(s)'
      BY <1>0, <2>1, <2>2, <2>3 DEF SessionOf, Early, Late
  <2> QED
      BY <1>1, <2>1, <2>2, <2>3, <2>4, <2>5, ThreadKeeps
<1>2. ASSUME NEW l \in {"route", "sniff", "dial", "check", "loop", "batch", "half", "done"},
             pc[s] # "none", pc' = [pc EXCEPT ![s] = l],
             UNCHANGED <<stage, reader, app, sessions, mapped, of, closes>>,
             /\ rpc' \in [Sessions -> {"none", "read", "send", "close", "done"}]
             /\ sock' \in [Sessions -> {"none", "open", "closed", "orphan"}]
             /\ connected' \in [Sessions -> BOOLEAN],
             \A t \in Sessions \ {s} : /\ rpc'[t] = rpc[t] /\ sock'[t] = sock[t]
                                       /\ connected'[t] = connected[t],
             outputShutdown' \in [Sessions -> BOOLEAN], synAckSent' \in [Sessions -> BOOLEAN],
             l \in Early => sock'[s] = "none",
             l \in Early \cup {"dial"} => ~connected'[s],
             l \in {"check", "loop", "batch", "half"} => connected'[s],
             rpc'[s] # "none" => l \in Late,
             closing[s] \in {"map", "over"} => sock'[s] # "open",
             l = "done" => closing[s] # "no"
      PROVE  ControlInv'
  <2>1. /\ pc' \in [Sessions -> {"none", "rejected", "start", "sniff", "route", "dial",
                                "check", "loop", "batch", "half", "done"}]
        /\ pc'[s] = l /\ \A t \in Sessions \ {s} : pc'[t] = pc[t]
      BY <1>2 DEF ControlInv, ControlTypeOK
  <2>2. UNCHANGED <<stage, readerPc, stale, conn, established, sessions, mapped, of, closing,
                    closer>>
      BY <1>2 DEF reader, app, closes
  <2>3. ControlTypeOK'
      BY <1>2, <2>1, <2>2 DEF ControlInv, ControlTypeOK
  <2>4. SessionOf(s)'
      BY <1>2, <2>1, <2>2 DEF SessionOf
  <2>5. pc'[s] \notin {"none", "rejected"}
      BY <2>1
  <2> QED
      BY <1>2, <2>1, <2>2, <2>3, <2>4, <2>5, ThreadKeeps
<1>t. /\ rpc \in [Sessions -> {"none", "read", "send", "close", "done"}]
      /\ sock \in [Sessions -> {"none", "open", "closed", "orphan"}]
      /\ connected \in [Sessions -> BOOLEAN]
      /\ outputShutdown \in [Sessions -> BOOLEAN] /\ synAckSent \in [Sessions -> BOOLEAN]
    BY DEF ControlInv, ControlTypeOK
<1>3. ASSUME NEW l \in {"route", "sniff", "loop", "batch", "half", "done"}, pc[s] # "none",
             pc' = [pc EXCEPT ![s] = l],
             UNCHANGED <<stage, reader, app, sessions, mapped, of, closes>>,
             UNCHANGED <<rpc, sock, connected>>,
             outputShutdown' \in [Sessions -> BOOLEAN], synAckSent' \in [Sessions -> BOOLEAN],
             l \in {"sniff", "route"} => pc[s] \in Early,
             l \in {"loop", "batch", "half"} => pc[s] \in {"loop", "batch", "half"},
             l = "done" => closing[s] # "no"
      PROVE  ControlInv'
  <2>1. /\ l \in Early => sock[s] = "none"
        /\ l \in Early \cup {"dial"} => ~connected[s]
        /\ l \in {"check", "loop", "batch", "half"} => connected[s]
        /\ rpc[s] # "none" => l \in Late
        /\ closing[s] \in {"map", "over"} => sock[s] # "open"
      BY <1>0, <1>3 DEF SessionOf, Early, Late
  <2> QED
      BY <1>2, <1>3, <1>t, <2>1
<1>4. CASE runStart(s)
  <2>1. /\ synAckSent' \in [Sessions -> BOOLEAN] /\ outputShutdown' \in [Sessions -> BOOLEAN]
      BY <1>4, <1>t DEF runStart
  <2>2. CASE pc' = [pc EXCEPT ![s] = "route"]
      BY <1>3, <1>4, <2>1, <2>2 DEF runStart, Early
  <2>3. CASE pc' = [pc EXCEPT ![s] = "sniff"]
      BY <1>3, <1>4, <2>1, <2>3 DEF runStart, Early
  <2> QED
      BY <1>4, <2>2, <2>3 DEF runStart
<1>5. CASE runSniff(s)
  <2>1. CASE pc' = [pc EXCEPT ![s] = "route"] /\ UNCHANGED <<closes, sock, mapped>>
    <3>1. synAckSent' \in [Sessions -> BOOLEAN] /\ outputShutdown' \in [Sessions -> BOOLEAN]
        BY <1>5, <1>t DEF runSniff
    <3> QED
        BY <1>3, <1>5, <2>1, <3>1 DEF runSniff, Early
  <2>2. CASE close(s, "session") /\ pc' = [pc EXCEPT ![s] = "done"]
      BY <1>1, <1>5, <2>2 DEF runSniff
  <2> QED
      BY <1>5, <2>1, <2>2 DEF runSniff
<1>6. CASE runRefused(s) \/ runDialFails(s) \/ runEnd(s)
    BY <1>1, <1>6 DEF runRefused, runDialFails, runEnd
<1>7. CASE runDial(s)
  <2>1. /\ sock' \in [Sessions -> {"none", "open", "closed", "orphan"}]
        /\ closing[s] \in {"map", "over"} => sock'[s] # "open"
        /\ \A t \in Sessions \ {s} : sock'[t] = sock[t]
      BY <1>7, <1>t DEF runDial
  <2>2. /\ UNCHANGED <<rpc, connected, outputShutdown, synAckSent>> /\ pc[s] = "route"
        /\ pc' = [pc EXCEPT ![s] = "dial"]
        /\ UNCHANGED <<stage, reader, app, sessions, mapped, of, closes>>
      BY <1>7 DEF runDial
  <2>3. rpc[s] = "none" /\ ~connected[s]
      BY <1>0, <2>2 DEF SessionOf, Early, Late
  <2> QED
      BY <1>2, <1>t, <2>1, <2>2, <2>3 DEF Early
<1>8. CASE runConnected(s)
  <2>1. /\ connected' \in [Sessions -> BOOLEAN] /\ connected'[s]
        /\ \A t \in Sessions \ {s} : connected'[t] = connected[t]
      BY <1>8, <1>t DEF runConnected
  <2>2. /\ UNCHANGED <<rpc, sock, outputShutdown, synAckSent>> /\ pc[s] = "dial"
        /\ pc' = [pc EXCEPT ![s] = "check"]
        /\ UNCHANGED <<stage, reader, app, sessions, mapped, of, closes>>
      BY <1>8 DEF runConnected
  <2>3. rpc[s] = "none" /\ (closing[s] \in {"map", "over"} => sock[s] # "open")
      BY <1>0, <2>2 DEF SessionOf, Late
  <2> QED
      BY <1>2, <1>t, <2>1, <2>2, <2>3 DEF Early
<1>9. CASE runTooLate(s)
  <2>1. /\ UNCHANGED <<rpc, sock, connected, outputShutdown, synAckSent>>
        /\ pc[s] # "none" /\ closing[s] # "no" /\ pc' = [pc EXCEPT ![s] = "done"]
        /\ UNCHANGED <<stage, reader, app, sessions, mapped, of, closes>>
      BY <1>9 DEF runTooLate, isClosed
  <2> QED
      BY <1>3, <1>t, <2>1
<1>10. CASE runOpen(s)
  <2>1. CASE stage = "down"
      BY <1>1, <1>10, <2>1 DEF runOpen
  <2>2. CASE stage # "down"
    <3>1. /\ rpc' \in [Sessions -> {"none", "read", "send", "close", "done"}]
          /\ \A t \in Sessions \ {s} : rpc'[t] = rpc[t]
        BY <1>10, <1>t, <2>2 DEF runOpen
    <3>2. /\ UNCHANGED <<sock, connected, outputShutdown, synAckSent>> /\ pc[s] = "check"
          /\ pc' = [pc EXCEPT ![s] = "loop"]
          /\ UNCHANGED <<stage, reader, app, sessions, mapped, of, closes>>
        BY <1>10, <2>2 DEF runOpen
    <3>3. connected[s] /\ (closing[s] \in {"map", "over"} => sock[s] # "open")
        BY <1>0, <3>2 DEF SessionOf
    <3> QED
        BY <1>2, <1>t, <3>1, <3>2, <3>3 DEF Early, Late
  <2> QED
      BY <2>1, <2>2
<1>11. CASE runWrite(s)
  <2>1. /\ UNCHANGED <<rpc, sock, connected, outputShutdown, synAckSent>>
        /\ pc[s] \in {"loop", "batch"} /\ pc' = [pc EXCEPT ![s] = "batch"]
        /\ UNCHANGED <<stage, reader, app, sessions, mapped, of, closes>>
      BY <1>11 DEF runWrite
  <2> QED
      BY <1>3, <1>t, <2>1
<1>12. CASE runFlush(s)
  <2>1. /\ UNCHANGED <<rpc, sock, connected, outputShutdown, synAckSent>>
        /\ pc[s] \in {"loop", "batch"} /\ pc' = [pc EXCEPT ![s] = "half"]
        /\ UNCHANGED <<stage, reader, app, sessions, mapped, of, closes>>
      BY <1>12 DEF runFlush
  <2> QED
      BY <1>3, <1>t, <2>1
<1>13. CASE runHalfClose(s)
  <2>1. /\ UNCHANGED <<rpc, sock, connected, synAckSent>>
        /\ pc[s] = "half" /\ pc' = [pc EXCEPT ![s] = "loop"]
        /\ UNCHANGED <<stage, reader, app, sessions, mapped, of, closes>>
      BY <1>13 DEF runHalfClose
  <2>2. outputShutdown' \in [Sessions -> BOOLEAN]
      BY <1>13, <1>t DEF runHalfClose
  <2> QED
      BY <1>3, <1>t, <2>1, <2>2
<1> QED
    BY <1>4, <1>5, <1>6, <1>7, <1>8, <1>9, <1>10, <1>11, <1>12, <1>13 DEF run

\* Every step of readFromSocks().
LEMMA ReadControl ==
    ASSUME ControlInv, NEW s \in Sessions, readFromSocks(s) PROVE ControlInv'
<1>0. SessionOf(s)
    BY DEF ControlInv
<1>1. /\ rpc' \in [Sessions -> {"none", "read", "send", "close", "done"}]
      /\ rpc[s] # "none" /\ \A t \in Sessions \ {s} : rpc'[t] = rpc[t]
    BY DEF readFromSocks, readSome, readChunk, readEof, readEnd, ControlInv, ControlTypeOK
<1>2. UNCHANGED <<stage, readerPc, stale, conn, established, sessions, mapped, of, pc, sock,
                  connected, outputShutdown, synAckSent>>
    BY DEF readFromSocks, readSome, readChunk, readEof, readEnd, close, reader, app
<1>3. /\ closing' \in [Sessions -> {"no", "socket", "map", "over"}]
      /\ closer' \in [Sessions -> {"nobody", "reader", "session", "stop"}]
      /\ closing[s] # "no" => closing'[s] # "no"
      /\ closing'[s] \in {"map", "over"} => closing'[s] = closing[s]
      /\ \A r \in Sessions \ {s} : closing'[r] = closing[r]
  <2>1. CASE readEnd(s)
    <3>1. close(s, "session")
        BY <2>1 DEF readEnd
    <3> QED
        BY <3>1, CloseEffect
  <2>2. CASE readSome(s) \/ readChunk(s) \/ readEof(s)
    <3>1. UNCHANGED <<closing, closer>>
        BY <2>2 DEF readSome, readChunk, readEof, closes
    <3> QED
        BY <3>1 DEF ControlInv, ControlTypeOK
  <2> QED
      BY <2>1, <2>2 DEF readFromSocks
<1>4. ControlTypeOK'
    BY <1>1, <1>2, <1>3 DEF ControlInv, ControlTypeOK
<1>5. pc[s] \in Late
    BY <1>0, <1>1 DEF SessionOf
<1>6. SessionOf(s)'
    BY <1>0, <1>2, <1>3, <1>5 DEF SessionOf
<1>7. pc[s] # "none"
    BY <1>5 DEF Late
<1> QED
    BY <1>1, <1>2, <1>3, <1>4, <1>6, <1>7, ThreadKeeps

\* The second step of close().
LEMMA SocketControl ==
    ASSUME ControlInv, NEW s \in Sessions, closeSocket(s) PROVE ControlInv'
<1>0. SessionOf(s) /\ closing[s] = "socket" /\ pc[s] # "none"
    BY Numbers DEF ControlInv, MadeInv, closeSocket
<1>1. /\ closing' \in [Sessions -> {"no", "socket", "map", "over"}] /\ closing'[s] = "map"
      /\ sock' \in [Sessions -> {"none", "open", "closed", "orphan"}] /\ sock'[s] # "open"
      /\ sock[s] = "none" => sock'[s] = "none"
      /\ \A t \in Sessions \ {s} : closing'[t] = closing[t] /\ sock'[t] = sock[t]
    BY DEF closeSocket, ControlInv, ControlTypeOK
<1>2. UNCHANGED <<stage, readerPc, stale, conn, established, sessions, mapped, of, pc, rpc,
                  closer, connected, outputShutdown, synAckSent>>
    BY DEF closeSocket, reader, app
<1>3. ControlTypeOK'
    BY <1>1, <1>2 DEF ControlInv, ControlTypeOK
<1>4. SessionOf(s)'
    BY <1>0, <1>1, <1>2 DEF SessionOf
<1> QED
    BY <1>0, <1>1, <1>2, <1>3, <1>4, ThreadKeeps

\* Its last step: this session leaves the map, another stays in it.
LEMMA UnmapControl ==
    ASSUME ControlInv, NEW s \in Sessions, unmap(s) PROVE ControlInv'
<1>0. SessionOf(s) /\ closing[s] = "map" /\ pc[s] # "none" /\ s # None
    BY Numbers DEF ControlInv, MadeInv, unmap
<1>1. /\ closing' \in [Sessions -> {"no", "socket", "map", "over"}] /\ closing'[s] = "over"
      /\ closer' \in [Sessions -> {"nobody", "reader", "session", "stop"}]
      /\ \A t \in Sessions \ {s} : closing'[t] = closing[t]
    BY DEF unmap, ControlInv, ControlTypeOK
<1>2. UNCHANGED <<stage, readerPc, stale, conn, established, sessions, of, pc, rpc, sock,
                  connected, outputShutdown, synAckSent>>
    BY DEF unmap, reader, app
<1>3. mapped' = IF mapped = s THEN None ELSE mapped
    BY DEF unmap
<1>4. ControlTypeOK'
  <2>1. mapped' \in 0 .. MaxSessions
      BY <1>3, BridgeAssumption DEF ControlInv, ControlTypeOK, None
  <2> QED
      BY <1>1, <1>2, <2>1 DEF ControlInv, ControlTypeOK
<1>5. SessionOf(s)'
    BY <1>0, <1>1, <1>2 DEF SessionOf
<1>6. ReaderInv'
    BY <1>2, <1>3 DEF ControlInv, ReaderInv
<1>7. mapped' # s /\ mapped' \in {mapped, None}
    BY <1>0, <1>3
<1>8. \A t \in Sessions : t \in {mapped, stale} => t \in {mapped', stale'} \/ t = s
    BY <1>2, <1>3
<1> QED
    BY <1>0, <1>1, <1>2, <1>4, <1>5, <1>6, <1>7, <1>8, SessionKeeps

\* The session in the map is one that was made.
LEMMA MappedMade ==
    ASSUME ControlInv, mapped # None
    PROVE  mapped \in Sessions /\ mapped =< sessions /\ pc[mapped] # "none"
<1>1. mapped \in Sessions /\ mapped =< sessions
    BY BridgeAssumption DEF ControlInv, ControlTypeOK, MadeInv, None, Sessions
<1> QED
    BY <1>1, Numbers DEF ControlInv, MadeInv

\* A session is made only when every other is closed.
LEMMA NewSessionControl ==
    ASSUME ControlInv, NewSession, mapped = None, stale = None,
           conn' \in 0 .. MaxConns, established' \in BOOLEAN
    PROVE  ControlInv'
<1> DEFINE s == sessions + 1
<1>n. sessions \in Nat /\ \A t \in Sessions : t \in Nat /\ t # None
    BY Numbers
<1>0. s \in Sessions /\ s \in Nat /\ pc[s] = "none" /\ closing[s] = "no"
    BY <1>n, BridgeAssumption DEF NewSession, ControlInv, ControlTypeOK, MadeInv, Sessions
<1>1. /\ sessions' = s /\ mapped' = s
      /\ UNCHANGED <<stage, stale, closing, closer, sock, rpc, connected, outputShutdown,
                     synAckSent>>
      /\ readerPc' \in {"read", "off"}
    BY DEF NewSession, PacketDone, closes
<1>2. /\ of' \in [Sessions -> 0 .. MaxConns]
      /\ pc' \in [Sessions -> {"none", "rejected", "start", "sniff", "route", "dial",
                               "check", "loop", "batch", "half", "done"}]
      /\ pc'[s] \in {"start", "rejected"} /\ (pc'[s] = "rejected" => stage = "down")
      /\ \A t \in Sessions \ {s} : pc'[t] = pc[t]
    BY <1>0 DEF NewSession, ControlInv, ControlTypeOK
<1>3. /\ SessionOf(s) /\ \A t \in Sessions : t # s => (t =< s <=> t =< sessions)
    BY <1>0, <1>n DEF ControlInv
<1> HIDE DEF s
<1>4. ControlTypeOK'
  <2>1. sessions' \in 0 .. MaxSessions /\ mapped' \in 0 .. MaxSessions
      BY <1>0, <1>1, BridgeAssumption DEF Sessions
  <2> QED
      BY <1>1, <1>2, <2>1 DEF ControlInv, ControlTypeOK
<1>5. MadeInv'
  <2>1. ASSUME NEW t \in Sessions
        PROVE  (t > sessions' <=> pc'[t] = "none") /\ (t > sessions' => closing'[t] = "no")
    <3>1. CASE t = s
        BY <1>0, <1>1, <1>2, <3>1
    <3>2. CASE t # s
        BY <1>0, <1>1, <1>2, <1>3, <1>n, <3>2 DEF ControlInv, MadeInv
    <3> QED
        BY <3>1, <3>2
  <2>2. mapped' =< sessions' /\ stale' =< sessions'
      BY <1>0, <1>1 DEF None
  <2> QED
      BY <2>1, <2>2 DEF MadeInv
<1>6. ASSUME NEW t \in Sessions PROVE SessionOf(t)'
  <2>1. CASE t = s
      BY <1>0, <1>1, <1>2, <1>3, <2>1 DEF SessionOf, Early, Late
  <2>2. CASE t # s
      BY <1>1, <1>2, <2>2 DEF ControlInv, SessionOf
  <2> QED
      BY <2>1, <2>2
<1>7. ReaderInv'
    BY <1>1 DEF ReaderInv
<1>8. MapInv'
  <2>1. ASSUME NEW t \in Sessions
        PROVE  /\ closing'[t] = "over" => mapped' # t
               /\ stage' = "up" /\ t =< sessions' /\ closing'[t] = "no"
                     => t \in {mapped', stale'}
               /\ pc'[t] = "rejected" => stage' = "down"
    <3>1. CASE t = s
        BY <1>0, <1>1, <1>2, <3>1
    <3>2. CASE t # s
        BY <1>1, <1>2, <1>3, <1>n, <3>2 DEF ControlInv, MapInv
    <3> QED
        BY <3>1, <3>2
  <2> QED
      BY <2>1 DEF MapInv
<1> QED
    BY <1>4, <1>5, <1>6, <1>7, <1>8 DEF ControlInv

\* The reader is done with a SYN for which it makes no session.
LEMMA SynIgnored ==
    ASSUME ControlInv, IgnoreSyn \/ RefuseSyn, stale = None,
           conn' \in 0 .. MaxConns, established' \in BOOLEAN
    PROVE  ControlInv'
<1>1. /\ UNCHANGED <<stage, stale, sessions, mapped, of, pc, rpc, closing, closer, sock,
                     connected, outputShutdown, synAckSent>>
      /\ readerPc' \in {"read", "off"}
    BY DEF IgnoreSyn, RefuseSyn, PacketDone, closes
<1>2. ControlTypeOK'
    BY <1>1 DEF ControlInv, ControlTypeOK
<1>3. ReaderInv' /\ stale' =< sessions
    BY <1>1 DEF ReaderInv, ControlInv, MadeInv
<1> QED
    BY <1>1, <1>2, <1>3, IdleKeeps

\* Every step of the TUN reader on a SYN.
LEMMA SynControl ==
    ASSUME ControlInv, processSyn \/ closeStale \/ replaceStale PROVE ControlInv'
<1>1. CASE processSyn
  <2>1. conn' \in 0 .. MaxConns /\ established' \in BOOLEAN
    <3>1. established' \in BOOLEAN
        BY <1>1 DEF processSyn
    <3>2. conn' \in 0 .. MaxConns
        BY <1>1, BridgeAssumption DEF processSyn, ControlInv, ControlTypeOK
    <3> QED
        BY <3>1, <3>2
  <2>2. stale = None
      BY <1>1 DEF processSyn, Reading, ControlInv, ReaderInv
  <2>3. CASE IgnoreSyn \/ RefuseSyn
      BY <2>1, <2>2, <2>3, SynIgnored
  <2>4. CASE mapped = None /\ NewSession
      BY <2>1, <2>2, <2>4, NewSessionControl
  <2>5. CASE mapped # None /\ dropStale
    <3>1. /\ readerPc' = "drop" /\ stale' = mapped /\ mapped' = None
          /\ UNCHANGED <<stage, sessions, of, pc, rpc, closing, closer, sock, connected,
                         outputShutdown, synAckSent>>
        BY <2>5 DEF dropStale, closes
    <3>2. ControlTypeOK'
      <4>1. mapped' \in 0 .. MaxSessions /\ stale' \in 0 .. MaxSessions
          BY <3>1, BridgeAssumption DEF ControlInv, ControlTypeOK, None
      <4> QED
          BY <2>1, <3>1, <4>1 DEF ControlInv, ControlTypeOK
    <3>3. ReaderInv' /\ stale' =< sessions
        BY <2>5, <3>1 DEF ReaderInv, ControlInv, MadeInv
    <3>4. \A t \in Sessions : t \in {mapped, stale} => t \in {mapped', stale'}
        BY <2>2, <3>1
    <3> QED
        BY <3>1, <3>2, <3>3, <3>4, IdleKeeps
  <2> QED
      BY <1>1, <2>3, <2>4, <2>5 DEF processSyn
<1>2. CASE closeStale
  <2>1. stale # None /\ mapped = None
      BY <1>2 DEF closeStale, ControlInv, ReaderInv
  <2>2. stale \in Sessions /\ pc[stale] # "none" /\ SessionOf(stale)
    <3>1. stale \in Sessions
        BY <2>1, BridgeAssumption DEF ControlInv, ControlTypeOK, None, Sessions
    <3> QED
        BY <3>1, Numbers DEF ControlInv, MadeInv
  <2>3. /\ closing' \in [Sessions -> {"no", "socket", "map", "over"}]
        /\ closer' \in [Sessions -> {"nobody", "reader", "session", "stop"}]
        /\ closing'[stale] # "no"
        /\ closing'[stale] \in {"map", "over"} => closing'[stale] = closing[stale]
        /\ \A r \in Sessions \ {stale} : closing'[r] = closing[r]
        /\ UNCHANGED <<sock, mapped>>
    <3>1. close(stale, "reader")
        BY <1>2 DEF closeStale
    <3> QED
        BY <2>2, <3>1, CloseEffect
  <2>4. /\ readerPc' = "make" /\ stale' = None
        /\ UNCHANGED <<stage, conn, established, sessions, of, pc, rpc, connected,
                       outputShutdown, synAckSent>>
      BY <1>2 DEF closeStale, app
  <2>5. ControlTypeOK'
    <3>1. stale' \in 0 .. MaxSessions
        BY <2>4, BridgeAssumption DEF None
    <3> QED
        BY <2>3, <2>4, <3>1 DEF ControlInv, ControlTypeOK
  <2>6. PICK s \in Sessions : s = stale
      BY <2>2
  <2>7. SessionOf(s)'
      BY <2>2, <2>3, <2>4, <2>6 DEF SessionOf
  <2>8. ReaderInv'
      BY <2>1, <2>3, <2>4 DEF ReaderInv
  <2>9. \A t \in Sessions : t \in {mapped, stale} => t = s
      BY <2>1, <2>6, Numbers
  <2>10. mapped' # s
      BY <2>1, <2>3, <2>6
  <2> QED
      BY <2>2, <2>3, <2>4, <2>5, <2>6, <2>7, <2>8, <2>9, <2>10, SessionKeeps
<1>3. CASE replaceStale
  <2>1. /\ stale = None /\ mapped = None
        /\ conn' \in 0 .. MaxConns /\ established' \in BOOLEAN
      BY <1>3 DEF replaceStale, app, ControlInv, ControlTypeOK, ReaderInv
  <2>2. CASE NewSession
      BY <2>1, <2>2, NewSessionControl
  <2>3. CASE RefuseSyn
      BY <2>1, <2>3, SynIgnored
  <2> QED
      BY <1>3, <2>2, <2>3 DEF replaceStale
<1> QED
    BY <1>1, <1>2, <1>3

\* The session in the map is closed, or nothing is, by the reader or by stop().
LEMMA MappedCloseKeeps ==
    ASSUME ControlInv, mapped # None, NEW t \in {"reader", "stop"},
           close(mapped, t) \/ UNCHANGED <<closes, sock, mapped>>,
           UNCHANGED <<stale, conn, established, sessions, of, pc, rpc, connected,
                       outputShutdown, synAckSent>>,
           stage' \in {"up", "flagged", "closed", "cleared", "down"},
           stage' = "up" => stage = "up", stage = "down" => stage' = "down",
           readerPc' \in {"read", "drop", "make", "off"}, ReaderInv'
    PROVE  ControlInv'
<1>1. PICK s \in Sessions : s = mapped /\ pc[s] # "none" /\ SessionOf(s)
    BY MappedMade DEF ControlInv
<1>2. /\ closing' \in [Sessions -> {"no", "socket", "map", "over"}]
      /\ closer' \in [Sessions -> {"nobody", "reader", "session", "stop"}]
      /\ closing[s] # "no" => closing'[s] # "no"
      /\ closing'[s] \in {"map", "over"} => closing'[s] = closing[s]
      /\ \A r \in Sessions \ {s} : closing'[r] = closing[r]
      /\ UNCHANGED <<sock, mapped>>
  <2>1. CASE close(mapped, t)
    <3>1. close(s, t)
        BY <1>1, <2>1
    <3> QED
        BY <3>1, CloseEffect
  <2>2. CASE UNCHANGED <<closes, sock, mapped>>
      BY <2>2 DEF closes, ControlInv, ControlTypeOK
  <2> QED
      BY <2>1, <2>2
<1>3. ControlTypeOK'
    BY <1>2 DEF ControlInv, ControlTypeOK
<1>4. SessionOf(s)'
    BY <1>1, <1>2 DEF SessionOf
<1>5. closing'[s] = "over" => mapped' # s
    BY <1>1, <1>2 DEF ControlInv, MapInv
<1> QED
    BY <1>1, <1>2, <1>3, <1>4, <1>5, SessionKeeps

\* Every segment the TUN reader handles.
LEMMA SegmentControl ==
    ASSUME ControlInv, processSegment PROVE ControlInv'
<1>1. /\ UNCHANGED <<stage, stale, conn, established, sessions, of, pc, rpc, connected,
                     outputShutdown, synAckSent>>
      /\ mapped # None /\ readerPc = "read" /\ readerPc' \in {"read", "off"}
    BY DEF processSegment, Reading, PacketDone, app
<1>2. close(mapped, "reader") \/ UNCHANGED <<closes, sock, mapped>>
  <2>1. CASE handleRst(mapped)
      BY <2>1 DEF handleRst
  <2>2. ASSUME NEW fin, handleUnconnected(mapped, fin)
        PROVE  close(mapped, "reader") \/ UNCHANGED <<closes, sock, mapped>>
      BY <2>2 DEF handleUnconnected
  <2>3. ASSUME NEW payload, handleFin(mapped, payload) \/ handlePayload(mapped, payload)
        PROVE  UNCHANGED <<closes, sock, mapped>>
      BY <2>3 DEF handleFin, handlePayload
  <2> QED
      BY <2>1, <2>2, <2>3 DEF processSegment
<1>3. ReaderInv'
    BY <1>1 DEF ControlInv, ReaderInv
<1>4. stage \in {"up", "flagged", "closed", "cleared", "down"}
    BY DEF ControlInv, ControlTypeOK
<1> QED
    BY <1>1, <1>2, <1>3, <1>4, MappedCloseKeeps

\* Every step of stop().
LEMMA StopControl ==
    ASSUME ControlInv, stop PROVE ControlInv'
<1>0. UNCHANGED <<readerPc, stale, conn, established, sessions, of, pc, rpc, connected,
                  outputShutdown, synAckSent>>
    BY DEF stop, reader, app
<1>1. ASSUME UNCHANGED <<closes, sock>>, mapped' \in {mapped, None},
             stage' \in {"flagged", "closed", "cleared", "down"}, stage # "down"
      PROVE  ControlInv'
  <2>1. ControlTypeOK'
    <3>1. mapped' \in 0 .. MaxSessions
        BY <1>1, BridgeAssumption DEF ControlInv, ControlTypeOK, None
    <3> QED
        BY <1>0, <1>1, <3>1 DEF ControlInv, ControlTypeOK, closes
  <2>2. ReaderInv' /\ stale' =< sessions
      BY <1>0, <1>1 DEF ControlInv, ReaderInv, MadeInv
  <2>3. UNCHANGED <<sessions, pc, rpc, closing, sock, connected>>
      BY <1>0, <1>1 DEF closes
  <2> QED
      BY <1>1, <2>1, <2>2, <2>3, IdleKeeps
<1>2. CASE stage = "flagged" /\ stage' = "closed" /\ mapped # None /\ close(mapped, "stop")
  <2>1. ReaderInv'
      BY <1>0, <1>2 DEF ControlInv, ReaderInv, close
  <2>2. readerPc' \in {"read", "drop", "make", "off"}
      BY <1>0 DEF ControlInv, ControlTypeOK
  <2> QED
      BY <1>0, <1>2, <2>1, <2>2, MappedCloseKeeps
<1> QED
    BY <1>1, <1>2 DEF stop

\* The control state survives every step.
LEMMA ControlNext ==
    ASSUME ControlInv, [Next]_vars PROVE ControlInv'
<1>1. CASE processSyn \/ closeStale \/ replaceStale
    BY <1>1, SynControl
<1>2. CASE processSegment
    BY <1>2, SegmentControl
<1>3. CASE \E s \in Sessions : run(s) \/ readFromSocks(s) \/ closeSocket(s) \/ unmap(s)
    BY <1>3, RunControl, ReadControl, SocketControl, UnmapControl
<1>4. CASE TunWriter \/ UNCHANGED vars
  <2>1. /\ UNCHANGED <<stage, readerPc, stale, conn, sessions, mapped, of, pc, rpc, closing,
                       closer, sock, connected, outputShutdown, synAckSent>>
        /\ established' \in BOOLEAN
    <3>1. CASE TunWriter
        BY <3>1 DEF TunWriter, reader, closes
    <3>2. CASE UNCHANGED vars
        BY <3>2 DEF vars, app, reader, closes, ControlInv, ControlTypeOK
    <3> QED
        BY <1>4, <3>1, <3>2
  <2>2. ControlTypeOK'
      BY <2>1 DEF ControlInv, ControlTypeOK
  <2>3. ReaderInv' /\ stale' =< sessions
      BY <2>1 DEF ControlInv, ReaderInv, MadeInv
  <2> QED
      BY <2>1, <2>2, <2>3, IdleKeeps
<1>5. CASE stop
    BY <1>5, StopControl
<1> QED
    BY <1>1, <1>2, <1>3, <1>4, <1>5 DEF Next

\* The control invariant holds throughout.
THEOREM ControlHolds == Spec => []ControlInv
BY ControlInit, ControlNext, PTL DEF Spec

\* One open session per flow, with close() and the replacement of a stale session
\* in their single steps: while the bridge runs, a session whose close() has not
\* begun is in the map or in the reader's hand, and none stays in the map for good.
THEOREM OneSessionPerFlow == Spec => []SoleSession
<1>1. ControlInv => SoleSession
  <2>1. ASSUME ControlInv, running, NEW s \in 1 .. sessions
        PROVE  /\ ~isClosed(s) => s \in {mapped, stale}
               /\ mapped = s => closing[s] # "over"
    <3>1. s \in Sessions /\ s =< sessions
        BY <2>1, BridgeAssumption DEF ControlInv, ControlTypeOK, Sessions
    <3> QED
        BY <2>1, <3>1 DEF ControlInv, MapInv, running, isClosed
  <2> QED
      BY <2>1 DEF SoleSession
<1> QED
    BY <1>1, ControlHolds, PTL

\* No way out of run() leaves a socket open that close() could have closed.
THEOREM SocketsReleased == Spec => []SocketReleased
<1>1. ASSUME ControlInv, NEW s \in Sessions, pc[s] = "done"
      PROVE  isClosed(s) /\ (sock[s] = "open" => closing[s] = "socket")
  <2>1. SessionOf(s) /\ closing[s] \in {"no", "socket", "map", "over"}
      BY <1>1 DEF ControlInv, ControlTypeOK
  <2> QED
      BY <1>1, <2>1 DEF SessionOf, isClosed
<1>2. ControlInv => SocketReleased
    BY <1>1 DEF SocketReleased
<1> QED
    BY <1>2, ControlHolds, PTL


-----------------------------------------------------------------------------
(* The app's stream on its way to the upstream. *)

\* Positions of one stream have sequence numbers of their own.
LEMMA WireDistinct ==
    ASSUME NEW a \in 0 .. StreamLen + 1, NEW b \in 0 .. StreamLen + 1, Wire(a) = Wire(b)
    PROVE  a = b
<1>1. ASSUME NEW x \in Nat, x < 2 * SeqMod
      PROVE  x % SeqMod = IF x < SeqMod THEN x ELSE x - SeqMod
  <2>0. SeqMod \in Nat /\ SeqMod > 0
      BY BridgeAssumption
  <2>1. CASE x < SeqMod
      BY <1>1, <2>0, <2>1
  <2>2. CASE x >= SeqMod
      BY <1>1, <2>0, <2>2
  <2> QED
      BY <2>0, <2>1, <2>2
<1> DEFINE x == Isn + 1 + a
           y == Isn + 1 + b
<1>2. /\ x \in Nat /\ x < 2 * SeqMod /\ y \in Nat /\ y < 2 * SeqMod
      /\ x - y < SeqMod /\ y - x < SeqMod /\ SeqMod \in Nat
    BY BridgeAssumption
<1>3. x % SeqMod = y % SeqMod
    BY DEF Wire
<1>4. x = y
  <2> HIDE DEF x, y
  <2>1. /\ x % SeqMod = IF x < SeqMod THEN x ELSE x - SeqMod
        /\ y % SeqMod = IF y < SeqMod THEN y ELSE y - SeqMod
      BY <1>1, <1>2
  <2> QED
      BY <1>2, <1>3, <2>1
<1> QED
    BY <1>4, BridgeAssumption

\* A payload moves from the queue to the upstream: the whole stays the same.
LEMMA MoveOne ==
    ASSUME NEW S, NEW w \in Seq(S), NEW q \in Seq(S), q # <<>>
    PROVE  /\ Append(w, Head(q)) \in Seq(S) /\ Tail(q) \in Seq(S)
           /\ Append(w, Head(q)) \o Tail(q) = w \o q
OBVIOUS

\* A payload joins the end of the queue, and of the whole.
LEMMA JoinOne ==
    ASSUME NEW S, NEW w \in Seq(S), NEW q \in Seq(S), NEW p \in S
    PROVE  /\ Append(q, p) \in Seq(S) /\ w \o q \in Seq(S)
           /\ w \o Append(q, p) = Append(w \o q, p)
OBVIOUS

\* Where a stream has come to is a position.
LEMMA EndNat ==
    ASSUME NEW all \in Seq(Payload) PROVE End(all) \in 0 .. StreamLen
<1>1. CASE all = <<>>
    BY <1>1, BridgeAssumption DEF End
<1>2. CASE all # <<>>
  <2>1. all[Len(all)] \in Payload
      BY <1>2
  <2> QED
      BY <1>2, <2>1 DEF End, Payload, Positions
<1> QED
    BY <1>1, <1>2

\* A payload that starts where the stream has come to keeps it linked.
LEMMA LinkOne ==
    ASSUME NEW all \in Seq(Payload), NEW p \in Payload, NEW ate \in BOOLEAN, Linked(all, ate),
           p.from >= End(all), p.from # End(all) => ate
    PROVE  Linked(Append(all, p), ate) /\ End(Append(all, p)) = p.to
<1> DEFINE more == Append(all, p)
<1>1. /\ Len(all) \in Nat /\ Len(more) = Len(all) + 1 /\ more[Len(all) + 1] = p
      /\ \A i \in 1 .. Len(all) : more[i] = all[i]
    OBVIOUS
<1>2. ASSUME NEW i \in 1 .. Len(more)
      PROVE  LET before == IF i = 1 THEN 0 ELSE more[i - 1].to IN
             more[i].from >= before /\ (more[i].from # before => ate)
  <2>1. CASE i = Len(all) + 1
    <3>1. (IF i = 1 THEN 0 ELSE more[i - 1].to) = End(all)
      <4>1. CASE all = <<>>
          BY <2>1, <4>1 DEF End
      <4>2. CASE all # <<>>
          BY <1>1, <2>1, <4>2 DEF End
      <4> QED
          BY <4>1, <4>2
    <3> QED
        BY <1>1, <2>1, <3>1
  <2>2. CASE i \in 1 .. Len(all)
    <3>1. more[i] = all[i] /\ (i # 1 => more[i - 1] = all[i - 1])
        BY <1>1, <2>2
    <3> QED
        BY <2>2, <3>1 DEF Linked
  <2> QED
      BY <1>1, <2>1, <2>2
<1>3. more # <<>>
    BY <1>1
<1> QED
    BY <1>1, <1>2, <1>3 DEF Linked, End

StreamOK == StreamTypeOK /\ StreamInv

\* What StreamInv says of one session.
StreamOf(s) ==
    /\ Linked(All(s), finAte[s])
    /\ End(All(s)) =< myAck[s]
    /\ ~clientClosed[s] => myAck[s] = End(All(s)) /\ ~finAte[s]
    /\ clientClosed[s] /\ ~finAte[s] =>
          myAck[s] = StreamLen + 1 /\ End(All(s)) = StreamLen
    /\ outputShutdown[s] /\ ~finAte[s] => clientClosed[s] /\ queue[s] = <<>>
    /\ ~connected[s] => queue[s] = <<>>

\* Nothing was taken from the app yet.
LEMMA StreamInit == Init => StreamOK
<1> SUFFICES ASSUME Init PROVE StreamOK
    OBVIOUS
<1>1. /\ queue \in [Sessions -> Seq(Payload)] /\ written \in [Sessions -> Seq(Payload)]
      /\ myAck \in [Sessions -> 0 .. StreamLen + 1]
    BY BridgeAssumption DEF Init
<1>2. /\ clientClosed \in [Sessions -> BOOLEAN] /\ finAte \in [Sessions -> BOOLEAN]
    BY DEF Init
<1>3. ASSUME NEW s \in Sessions PROVE StreamOf(s)
  <2>1. All(s) = <<>> /\ End(All(s)) = 0 /\ Linked(All(s), finAte[s])
      BY <1>3 DEF Init, All, End, Linked
  <2>2. /\ myAck[s] = 0 /\ clientClosed[s] = FALSE /\ finAte[s] = FALSE
        /\ outputShutdown[s] = FALSE /\ queue[s] = <<>>
      BY <1>3 DEF Init
  <2> QED
      BY <2>1, <2>2 DEF StreamOf
<1> QED
    BY <1>1, <1>2, <1>3 DEF StreamOK, StreamTypeOK, StreamInv, StreamOf

\* Steps that touch nothing of the stream, but may connect a session.
LEMMA StreamFrame ==
    ASSUME StreamOK, UNCHANGED <<queue, written, myAck, clientClosed, finAte, outputShutdown>>,
           \A t \in Sessions : connected[t] => connected'[t]
    PROVE  StreamOK'
<1>1. StreamTypeOK'
    BY DEF StreamOK, StreamTypeOK
<1>2. StreamInv'
  <2>1. ASSUME NEW s \in Sessions
        PROVE  /\ StreamOf(s) /\ All(s)' = All(s) /\ queue'[s] = queue[s]
               /\ finAte'[s] = finAte[s] /\ myAck'[s] = myAck[s]
               /\ clientClosed'[s] = clientClosed[s]
               /\ outputShutdown'[s] = outputShutdown[s]
               /\ connected[s] => connected'[s]
      BY <2>1 DEF StreamOK, StreamInv, StreamOf, All
  <2>2. ASSUME NEW s \in Sessions PROVE StreamOf(s)'
    <3>1. End(All(s))' = End(All(s)) /\ Linked(All(s), finAte[s])' = Linked(All(s), finAte[s])
        BY <2>1 DEF End, Linked
    <3> QED
        BY <2>1, <3>1 DEF StreamOf
  <2> QED
      BY <2>2 DEF StreamInv, StreamOf
<1> QED
    BY <1>1, <1>2 DEF StreamOK

\* Steps that touch the stream of one session.
LEMMA StreamOne ==
    ASSUME StreamOK, NEW s \in Sessions, StreamTypeOK', StreamOf(s)',
           \A t \in Sessions \ {s} : /\ queue'[t] = queue[t] /\ written'[t] = written[t]
                                     /\ myAck'[t] = myAck[t] /\ finAte'[t] = finAte[t]
                                     /\ clientClosed'[t] = clientClosed[t]
                                     /\ outputShutdown'[t] = outputShutdown[t]
                                     /\ connected'[t] = connected[t]
    PROVE  StreamOK'
<1>1. ASSUME NEW t \in Sessions \ {s} PROVE StreamOf(t)'
  <2>1. StreamOf(t) /\ All(t)' = All(t)
      BY <1>1 DEF StreamOK, StreamInv, StreamOf, All
  <2>2. End(All(t))' = End(All(t)) /\ Linked(All(t), finAte[t])' = Linked(All(t), finAte[t])
      BY <1>1, <2>1 DEF End, Linked
  <2> QED
      BY <1>1, <2>1, <2>2 DEF StreamOf
<1> QED
    BY <1>1 DEF StreamOK, StreamInv, StreamOf

\* Payload in order joins the queue; after a FIN none is in order.
LEMMA PayloadStream ==
    ASSUME StreamOK, NEW s \in Sessions, NEW payload \in Payload, payload.from < payload.to,
           handlePayload(s, payload), UNCHANGED <<connected, outputShutdown>>
    PROVE  StreamOK'
<1>0. /\ UNCHANGED <<written, clientClosed, finAte>> /\ connected[s] /\ StreamOf(s)
      /\ myAck[s] \in 0 .. StreamLen + 1 /\ payload.from \in 0 .. StreamLen
      /\ payload.to \in 0 .. StreamLen
    BY DEF handlePayload, StreamOK, StreamTypeOK, StreamInv, StreamOf, Payload, Positions
<1>1. CASE UNCHANGED <<queue, myAck>>
    BY <1>0, <1>1, StreamFrame
<1>2. CASE /\ Wire(payload.from) = Wire(myAck[s])
           /\ queue' = [queue EXCEPT ![s] = Append(@, payload)]
           /\ myAck' = [myAck EXCEPT ![s] = payload.to]
  <2>1. payload.from = myAck[s]
    <3>1. payload.from \in 0 .. StreamLen + 1
        BY <1>0, BridgeAssumption
    <3> QED
        BY <1>0, <1>2, <3>1, WireDistinct
  <2>2. /\ queue[s] \in Seq(Payload) /\ written[s] \in Seq(Payload)
        /\ finAte[s] \in BOOLEAN /\ clientClosed[s] \in BOOLEAN
      BY DEF StreamOK, StreamTypeOK
  <2>3. /\ queue'[s] = Append(queue[s], payload) /\ myAck'[s] = payload.to
        /\ written'[s] = written[s] /\ finAte'[s] = finAte[s]
        /\ clientClosed'[s] = clientClosed[s] /\ outputShutdown'[s] = outputShutdown[s]
        /\ connected'[s] /\ queue'[s] \in Seq(Payload)
      BY <1>0, <1>2, <2>2 DEF StreamOK, StreamTypeOK
  <2>4. All(s)' = Append(All(s), payload) /\ All(s) \in Seq(Payload)
    <3>1. All(s)' = written[s] \o Append(queue[s], payload)
        BY <2>3 DEF All
    <3>2. /\ written[s] \o queue[s] \in Seq(Payload)
          /\ written[s] \o Append(queue[s], payload) = Append(written[s] \o queue[s], payload)
      <4>1. \A w, q \in Seq(Payload), p \in Payload :
               w \o q \in Seq(Payload) /\ w \o Append(q, p) = Append(w \o q, p)
          BY JoinOne
      <4>2. queue[s] \in Seq(Payload) /\ written[s] \in Seq(Payload)
          BY <2>2
      <4> QED
          BY <4>1, <4>2, Zenon
    <3> QED
        BY <3>1, <3>2 DEF All
  <2>5. End(All(s)) \in Nat
      BY <2>4, EndNat
  <2>6. Linked(Append(All(s), payload), finAte[s]) /\ End(Append(All(s), payload)) = payload.to
    <3>1. payload.from >= End(All(s)) /\ (payload.from # End(All(s)) => finAte[s])
        BY <1>0, <2>1, <2>2, <2>5, BridgeAssumption DEF StreamOf
    <3> QED
        BY <1>0, <2>2, <2>4, <3>1, LinkOne DEF StreamOf
  <2>7. Linked(All(s), finAte[s])' /\ End(All(s))' = payload.to
      BY <2>3, <2>4, <2>6 DEF Linked, End
  <2>8. StreamOf(s)'
    <3>1. clientClosed[s] => finAte[s]
        BY <1>0, <2>1, <2>2, BridgeAssumption DEF StreamOf
    <3>2. ~clientClosed[s] => ~finAte[s] /\ ~outputShutdown[s]
        BY <1>0, <2>2 DEF StreamOf
    <3> QED
        BY <1>0, <2>2, <2>3, <2>7, <3>1, <3>2 DEF StreamOf
  <2>9. StreamTypeOK'
    <3>1. myAck' \in [Sessions -> 0 .. StreamLen + 1]
        BY <1>0, <1>2, BridgeAssumption DEF StreamOK, StreamTypeOK
    <3>2. queue' \in [Sessions -> Seq(Payload)]
        BY <1>2, <2>2, JoinOne DEF StreamOK, StreamTypeOK
    <3> QED
        BY <1>0, <3>1, <3>2 DEF StreamOK, StreamTypeOK
  <2>10. \A t \in Sessions \ {s} : /\ queue'[t] = queue[t] /\ written'[t] = written[t]
                                   /\ myAck'[t] = myAck[t] /\ finAte'[t] = finAte[t]
                                   /\ clientClosed'[t] = clientClosed[t]
                                   /\ outputShutdown'[t] = outputShutdown[t]
                                   /\ connected'[t] = connected[t]
      BY <1>0, <1>2 DEF StreamOK, StreamTypeOK
  <2> QED
      BY <2>8, <2>9, <2>10, StreamOne
<1> QED
    BY <1>1, <1>2 DEF handlePayload

\* A FIN in order ends the stream, and swallows the payload it carries.
LEMMA FinStream ==
    ASSUME StreamOK, NEW s \in Sessions, NEW payload \in Payload, payload.from =< payload.to,
           payload.to = StreamLen,
           handleFin(s, payload), UNCHANGED <<connected, outputShutdown>>
    PROVE  StreamOK'
<1>0. /\ UNCHANGED <<written, queue>> /\ connected[s] /\ StreamOf(s)
      /\ myAck[s] \in 0 .. StreamLen + 1 /\ payload.from \in 0 .. StreamLen
    BY DEF handleFin, StreamOK, StreamTypeOK, StreamInv, StreamOf, Payload, Positions
<1>1. CASE UNCHANGED <<myAck, clientClosed, finAte>>
    BY <1>0, <1>1, StreamFrame
<1>2. CASE /\ Wire(payload.from) = Wire(myAck[s])
           /\ myAck' = [myAck EXCEPT ![s] = @ + 1]
           /\ clientClosed' = [clientClosed EXCEPT ![s] = TRUE]
           /\ finAte' = [finAte EXCEPT ![s] = @ \/ payload.from < payload.to]
  <2>1. payload.from = myAck[s]
    <3>1. payload.from \in 0 .. StreamLen + 1
        BY <1>0, BridgeAssumption
    <3> QED
        BY <1>0, <1>2, <3>1, WireDistinct
  <2>2. /\ queue[s] \in Seq(Payload) /\ written[s] \in Seq(Payload)
        /\ finAte[s] \in BOOLEAN /\ clientClosed[s] \in BOOLEAN
      BY DEF StreamOK, StreamTypeOK
  <2>3. /\ queue'[s] = queue[s] /\ myAck'[s] = myAck[s] + 1
        /\ outputShutdown'[s] = outputShutdown[s] /\ connected'[s]
        /\ All(s)' = All(s) /\ End(All(s))' = End(All(s))
      BY <1>0, <1>2 DEF StreamOK, StreamTypeOK, All, End
  <2>4. clientClosed'[s] /\ (finAte'[s] <=> (finAte[s] \/ payload.from < payload.to))
      BY <1>2 DEF StreamOK, StreamTypeOK
  <2>5. End(All(s)) \in 0 .. StreamLen /\ All(s) \in Seq(Payload)
    <3>1. All(s) \in Seq(Payload)
        BY <2>2 DEF All
    <3> QED
        BY <3>1, EndNat
  <2>6. Linked(All(s), finAte[s])'
    <3>1. ASSUME NEW i \in 1 .. Len(All(s))
          PROVE  LET before == IF i = 1 THEN 0 ELSE All(s)[i - 1].to IN
                 All(s)[i].from >= before /\ (All(s)[i].from # before => finAte'[s])
        BY <1>0, <2>4 DEF StreamOf, Linked
    <3>2. Linked(All(s), finAte'[s])
        BY <3>1 DEF Linked
    <3> QED
        BY <2>3, <3>2 DEF Linked
  <2>7. StreamOf(s)'
    <3>1. End(All(s))' =< myAck'[s]
        BY <1>0, <2>3, <2>5, BridgeAssumption DEF StreamOf
    <3>2. ~finAte'[s] => /\ myAck'[s] = StreamLen + 1 /\ End(All(s))' = StreamLen
                         /\ ~clientClosed[s] /\ ~finAte[s]
        BY <1>0, <2>1, <2>2, <2>3, <2>4, <2>5, BridgeAssumption DEF StreamOf
    <3>3. outputShutdown'[s] /\ ~finAte'[s] => clientClosed'[s] /\ queue'[s] = <<>>
        BY <1>0, <2>3, <2>4, <3>2 DEF StreamOf
    <3> QED
        BY <2>3, <2>4, <2>6, <3>1, <3>2, <3>3 DEF StreamOf
  <2>8. StreamTypeOK'
    <3>1. myAck' \in [Sessions -> 0 .. StreamLen + 1]
        BY <1>0, <1>2, <2>1, BridgeAssumption DEF StreamOK, StreamTypeOK
    <3>2. clientClosed' \in [Sessions -> BOOLEAN] /\ finAte' \in [Sessions -> BOOLEAN]
        BY <1>2 DEF StreamOK, StreamTypeOK
    <3> QED
        BY <1>0, <3>1, <3>2 DEF StreamOK, StreamTypeOK
  <2>9. \A t \in Sessions \ {s} : /\ queue'[t] = queue[t] /\ written'[t] = written[t]
                                  /\ myAck'[t] = myAck[t] /\ finAte'[t] = finAte[t]
                                  /\ clientClosed'[t] = clientClosed[t]
                                  /\ outputShutdown'[t] = outputShutdown[t]
                                  /\ connected'[t] = connected[t]
      BY <1>0, <1>2 DEF StreamOK, StreamTypeOK
  <2> QED
      BY <2>7, <2>8, <2>9, StreamOne
<1> QED
    BY <1>1, <1>2 DEF handleFin

\* Writing upstream takes the oldest payload of the queue.
LEMMA WriteStream ==
    ASSUME StreamOK, NEW s \in Sessions, runWrite(s) PROVE StreamOK'
<1>0. /\ UNCHANGED <<myAck, clientClosed, finAte, outputShutdown, connected>>
      /\ StreamOf(s) /\ queue[s] # <<>>
    BY DEF runWrite, StreamOK, StreamInv, StreamOf
<1>1. queue[s] \in Seq(Payload) /\ written[s] \in Seq(Payload)
    BY DEF StreamOK, StreamTypeOK
<1>2. /\ queue'[s] = Tail(queue[s]) /\ written'[s] = Append(written[s], Head(queue[s]))
      /\ \A t \in Sessions \ {s} : queue'[t] = queue[t] /\ written'[t] = written[t]
    BY DEF runWrite, StreamOK, StreamTypeOK
<1>3. /\ Append(written[s], Head(queue[s])) \in Seq(Payload) /\ Tail(queue[s]) \in Seq(Payload)
      /\ Append(written[s], Head(queue[s])) \o Tail(queue[s]) = written[s] \o queue[s]
  <2>1. \A w, q \in Seq(Payload) : q # <<>> =>
           /\ Append(w, Head(q)) \in Seq(Payload) /\ Tail(q) \in Seq(Payload)
           /\ Append(w, Head(q)) \o Tail(q) = w \o q
      BY MoveOne
  <2> QED
      BY <1>0, <1>1, <2>1, Zenon
<1>4. All(s)' = All(s)
    BY <1>2, <1>3 DEF All
<1>5. StreamOf(s)'
  <2>1. End(All(s))' = End(All(s)) /\ Linked(All(s), finAte[s])' = Linked(All(s), finAte[s])
      BY <1>0, <1>4 DEF End, Linked
  <2>2. outputShutdown[s] => finAte[s]
      BY <1>0 DEF StreamOf
  <2>3. connected[s]
      BY <1>0 DEF StreamOf
  <2> QED
      BY <1>0, <2>1, <2>2, <2>3 DEF StreamOf
<1>6. StreamTypeOK'
    BY <1>0, <1>3 DEF runWrite, StreamOK, StreamTypeOK
<1>7. \A t \in Sessions \ {s} : /\ queue'[t] = queue[t] /\ written'[t] = written[t]
                                /\ myAck'[t] = myAck[t] /\ finAte'[t] = finAte[t]
                                /\ clientClosed'[t] = clientClosed[t]
                                /\ outputShutdown'[t] = outputShutdown[t]
                                /\ connected'[t] = connected[t]
    BY <1>0, <1>2
<1> QED
    BY <1>5, <1>6, <1>7, StreamOne

\* The half-close is made when everything is written.
LEMMA HalfStream ==
    ASSUME ControlInv, StreamOK, NEW s \in Sessions, runHalfClose(s) PROVE StreamOK'
<1>0. UNCHANGED <<queue, written, myAck, clientClosed, finAte, connected>> /\ StreamOf(s)
    BY DEF runHalfClose, upstream, StreamOK, StreamInv, StreamOf
<1>1. /\ outputShutdown'[s] => outputShutdown[s] \/ (clientClosed[s] /\ queue[s] = <<>>)
      /\ \A t \in Sessions \ {s} : outputShutdown'[t] = outputShutdown[t]
    BY DEF runHalfClose, ControlInv, ControlTypeOK
<1>2. StreamOf(s)'
  <2>1. /\ All(s)' = All(s) /\ End(All(s))' = End(All(s))
        /\ Linked(All(s), finAte[s])' = Linked(All(s), finAte[s])
      BY <1>0 DEF All, End, Linked
  <2> QED
      BY <1>0, <1>1, <2>1 DEF StreamOf
<1>3. StreamTypeOK'
    BY <1>0 DEF StreamOK, StreamTypeOK
<1>4. \A t \in Sessions \ {s} : /\ queue'[t] = queue[t] /\ written'[t] = written[t]
                                /\ myAck'[t] = myAck[t] /\ finAte'[t] = finAte[t]
                                /\ clientClosed'[t] = clientClosed[t]
                                /\ outputShutdown'[t] = outputShutdown[t]
                                /\ connected'[t] = connected[t]
    BY <1>0, <1>1
<1> QED
    BY <1>2, <1>3, <1>4, StreamOne

\* The stream survives every step.
LEMMA StreamNext ==
    ASSUME ControlInv, StreamOK, [Next]_vars PROVE StreamOK'
<1>1. CASE processSyn \/ closeStale \/ replaceStale
  <2>1. /\ UNCHANGED <<queue, written, myAck, clientClosed, finAte>>
        /\ UNCHANGED <<outputShutdown, connected>>
      BY <1>1 DEF processSyn, closeStale, replaceStale, IgnoreSyn, NewSession, RefuseSyn,
                  dropStale, upstream
  <2> QED
      BY <2>1, StreamFrame
<1>2. CASE processSegment
  <2>0. mapped \in Sessions /\ UNCHANGED <<connected, outputShutdown>>
      BY <1>2, MappedMade DEF processSegment
  <2>1. CASE handleRst(mapped)
      BY <2>0, <2>1, StreamFrame DEF handleRst, upstream
  <2>2. ASSUME NEW fin, handleUnconnected(mapped, fin)
        PROVE  StreamOK'
      BY <2>0, <2>2, StreamFrame DEF handleUnconnected, upstream
  <2>3. ASSUME NEW from \in Positions, NEW to \in Positions,
               from =< to, to = StreamLen, handleFin(mapped, [from |-> from, to |-> to])
        PROVE  StreamOK'
    <3>1. [from |-> from, to |-> to] \in Payload
        BY DEF Payload
    <3> QED
        BY <2>0, <2>3, <3>1, FinStream
  <2>4. ASSUME NEW from \in Positions, NEW to \in Positions, from < to,
               handlePayload(mapped, [from |-> from, to |-> to])
        PROVE  StreamOK'
    <3>1. [from |-> from, to |-> to] \in Payload
        BY DEF Payload
    <3> QED
        BY <2>0, <2>4, <3>1, PayloadStream
  <2> QED
      BY <1>2, <2>1, <2>2, <2>3, <2>4 DEF processSegment
<1>3. ASSUME NEW s \in Sessions, run(s) PROVE StreamOK'
  <2>1. CASE runWrite(s)
      BY <2>1, WriteStream
  <2>2. CASE runHalfClose(s)
      BY <2>2, HalfStream
  <2>3. CASE runConnected(s)
    <3>1. \A t \in Sessions : connected[t] => connected'[t]
        BY <2>3 DEF runConnected, ControlInv, ControlTypeOK
    <3> QED
        BY <2>3, <3>1, StreamFrame DEF runConnected, upstream
  <2>4. CASE \/ runStart(s) \/ runSniff(s) \/ runRefused(s) \/ runDial(s) \/ runDialFails(s)
             \/ runTooLate(s) \/ runOpen(s) \/ runFlush(s) \/ runEnd(s)
    <3>1. /\ UNCHANGED <<queue, written, myAck, clientClosed, finAte>>
          /\ UNCHANGED <<outputShutdown, connected>>
        BY <2>4 DEF runStart, runSniff, runRefused, runDial, runDialFails, runTooLate,
                    runOpen, runFlush, runEnd, upstream
    <3> QED
        BY <3>1, StreamFrame
  <2> QED
      BY <1>3, <2>1, <2>2, <2>3, <2>4 DEF run
<1>4. CASE \/ \E s \in Sessions : readFromSocks(s) \/ closeSocket(s) \/ unmap(s)
           \/ TunWriter \/ stop \/ UNCHANGED vars
  <2>1. /\ UNCHANGED <<queue, written, myAck, clientClosed, finAte>>
        /\ UNCHANGED <<outputShutdown, connected>>
      BY <1>4 DEF readFromSocks, readSome, readChunk, readEof, readEnd, closeSocket, unmap,
                  TunWriter, stop, vars, upstream
  <2> QED
      BY <2>1, StreamFrame
<1> QED
    BY <1>1, <1>2, <1>3, <1>4 DEF Next

\* The stream invariant holds throughout.
THEOREM StreamHolds == Spec => []StreamOK
<1>1. ControlInv /\ StreamOK /\ [Next]_vars => StreamOK'
    BY StreamNext
<1> QED
    BY <1>1, StreamInit, ControlHolds, PTL DEF Spec

\* What the upstream gets is the app's stream, in order and without repetition,
\* for every capacity of the queues and wherever the sequence numbers wrap.
THEOREM StreamKept == Spec => []StreamIntact
<1>1. StreamOK => StreamIntact
    BY DEF StreamOK, StreamInv, StreamIntact, Linked, All
<1> QED
    BY <1>1, StreamHolds, PTL

\* The upstream hears the end of the stream only after all of it.
THEOREM EofKept == Spec => []EofAfterAll
<1>1. StreamOK => EofAfterAll
  <2>1. ASSUME StreamOK, NEW s \in Sessions, outputShutdown[s], ~finAte[s]
        PROVE  /\ queue[s] = <<>>
               /\ IF written[s] = <<>> THEN StreamLen = 0
                  ELSE written[s][Len(written[s])].to = StreamLen
    <3>1. queue[s] = <<>> /\ End(All(s)) = StreamLen
        BY <2>1 DEF StreamOK, StreamInv
    <3>2. written[s] \in Seq(Payload)
        BY <2>1 DEF StreamOK, StreamTypeOK
    <3>3. written[s] \o <<>> = written[s]
        BY <3>2
    <3>4. All(s) = written[s]
        BY <3>1, <3>3 DEF All
    <3> QED
        BY <3>1, <3>4 DEF End
  <2> QED
      BY <2>1 DEF EofAfterAll
<1> QED
    BY <1>1, StreamHolds, PTL

-----------------------------------------------------------------------------
(* The upstream's stream on its way to the app. *)

\* What SeqInv says of one session, and TunInv of one packet.
SeqOf(s) ==
    /\ pc[s] \in {"none", "rejected", "start"} => mySeq[s] = 0 /\ ~synAckSent[s]
    /\ pc[s] \in {"sniff", "route", "dial", "check"} =>
          mySeq[s] = IF synAckSent[s] THEN 1 ELSE 0
    /\ rpc[s] = "none" => total[s] = 0
    /\ rpc[s] = "read" => mySeq[s] = total[s] + 1
    /\ rpc[s] = "send" => /\ left[s] > 0 /\ left[s] =< total[s]
                          /\ mySeq[s] = total[s] - left[s] + 1

Sound(p, threads, read) ==
    /\ p.kind = "DATA" => p.seq = p.chunk
    /\ p.kind = "FIN" => /\ p.sid \in Sessions
                         /\ threads[p.sid] \in {"close", "done"}
                         /\ p.seq = read[p.sid] + 1

DownOK == DownTypeOK /\ DownInv

\* The queue to the app is empty at first.
LEMMA DownInit == Init => DownOK
<1> SUFFICES ASSUME Init PROVE DownOK
    OBVIOUS
<1>1. DownTypeOK
    BY DEF Init, DownTypeOK
<1>2. ASSUME NEW s \in Sessions PROVE SeqOf(s)
  <2>1. /\ pc[s] = "none" /\ rpc[s] = "none" /\ mySeq[s] = 0 /\ total[s] = 0
        /\ synAckSent[s] = FALSE
      BY DEF Init
  <2> QED
      BY <2>1 DEF SeqOf
<1>3. TunInv
    BY DEF Init, TunInv
<1> QED
    BY <1>1, <1>2, <1>3 DEF DownOK, DownInv, SeqInv, SeqOf

\* Whatever enqueueTun does, it brings no packet but the one it was given.
LEMMA Enqueued ==
    ASSUME tun \in Seq(Packet), NEW packet \in Packet, NEW critical \in BOOLEAN,
           enqueueTun(packet, critical)
    PROVE  /\ tun' \in Seq(Packet)
           /\ \A i \in 1 .. Len(tun') :
                 tun'[i] = packet \/ \E j \in 1 .. Len(tun) : tun'[i] = tun[j]
<1>1. CASE Len(tun) < TunCap
  <2>1. tun' = Append(tun, packet)
      BY <1>1 DEF enqueueTun
  <2> QED
      BY <2>1
<1>2. CASE ~(Len(tun) < TunCap) /\ critical
  <2>0. tun' \in {Append(Tail(tun), packet), Tail(tun)}
      BY <1>2 DEF enqueueTun
  <2>1. tun # <<>>
      BY <1>2, BridgeAssumption
  <2>2. Tail(tun) \in Seq(Packet) /\ \A i \in 1 .. Len(Tail(tun)) :
           \E j \in 1 .. Len(tun) : Tail(tun)[i] = tun[j]
      BY <2>1
  <2>3. ASSUME NEW t \in Seq(Packet)
        PROVE  /\ Append(t, packet) \in Seq(Packet)
               /\ \A i \in 1 .. Len(Append(t, packet)) :
                     Append(t, packet)[i] = packet
                       \/ (i \in 1 .. Len(t) /\ Append(t, packet)[i] = t[i])
      OBVIOUS
  <2>4. /\ Append(Tail(tun), packet) \in Seq(Packet)
        /\ \A i \in 1 .. Len(Append(Tail(tun), packet)) :
              Append(Tail(tun), packet)[i] = packet
                \/ (i \in 1 .. Len(Tail(tun)) /\ Append(Tail(tun), packet)[i] = Tail(tun)[i])
      BY <2>2, <2>3
  <2>5. CASE tun' = Append(Tail(tun), packet)
      BY <2>2, <2>4, <2>5
  <2>6. CASE tun' = Tail(tun)
      BY <2>2, <2>6
  <2> QED
      BY <2>0, <2>5, <2>6
<1>3. CASE ~(Len(tun) < TunCap) /\ ~critical
    BY <1>3 DEF enqueueTun
<1> QED
    BY <1>1, <1>2, <1>3

\* A step of one session, and what it does to the queue.
LEMMA DownOne ==
    ASSUME DownOK, NEW s \in Sessions, DownTypeOK', SeqOf(s)',
           \A t \in Sessions \ {s} :
              /\ pc'[t] = pc[t] /\ rpc'[t] = rpc[t] /\ mySeq'[t] = mySeq[t]
              /\ total'[t] = total[t] /\ left'[t] = left[t] /\ synAckSent'[t] = synAckSent[t],
           rpc[s] \in {"close", "done"} => rpc'[s] \in {"close", "done"} /\ total'[s] = total[s],
           \A i \in 1 .. Len(tun') :
              Sound(tun'[i], rpc', total') \/ \E j \in 1 .. Len(tun) : tun'[i] = tun[j]
    PROVE  DownOK'
<1>1. ASSUME NEW t \in Sessions \ {s} PROVE SeqOf(t)'
    BY <1>1 DEF DownOK, DownInv, SeqInv, SeqOf
<1>2. SeqInv'
    BY <1>1 DEF SeqInv, SeqOf
<1>3. ASSUME NEW j \in 1 .. Len(tun), NEW i \in 1 .. Len(tun'), tun'[i] = tun[j]
      PROVE  Sound(tun'[i], rpc', total')
  <2>1. Sound(tun[j], rpc, total)
      BY DEF DownOK, DownInv, TunInv, Sound
  <2>2. tun[j].sid \in Sessions /\ rpc[tun[j].sid] \in {"close", "done"} =>
           /\ rpc'[tun[j].sid] \in {"close", "done"}
           /\ total'[tun[j].sid] = total[tun[j].sid]
      OBVIOUS
  <2> QED
      BY <1>3, <2>1, <2>2 DEF Sound
<1>4. TunInv'
    BY <1>3 DEF TunInv, Sound
<1> QED
    BY <1>2, <1>4 DEF DownOK, DownInv

\* A step of no session, which may bring a control packet.
LEMMA DownFrame ==
    ASSUME DownOK, UNCHANGED <<pc, rpc, mySeq, total, left, synAckSent>>, tun' \in Seq(Packet),
           \A i \in 1 .. Len(tun') :
              tun'[i].kind \notin {"DATA", "FIN"} \/ \E j \in 1 .. Len(tun) : tun'[i] = tun[j]
    PROVE  DownOK'
<1>1. DownTypeOK' /\ SeqInv'
    BY DEF DownOK, DownInv, DownTypeOK, SeqInv
<1>2. TunInv'
    BY DEF DownOK, DownInv, TunInv
<1> QED
    BY <1>1, <1>2 DEF DownOK, DownInv

\* The packet of a session that carries no data.
LEMMA ControlPacket ==
    ASSUME DownOK, NEW s \in Sessions, NEW kind \in {"SYNACK", "ACK", "RST", "FIN"}
    PROVE  Control(s, kind) \in Packet /\ Control(s, kind).kind = kind
           /\ Control(s, kind).sid = s /\ Control(s, kind).seq = mySeq[s]
<1>1. mySeq[s] \in Nat /\ s \in 0 .. MaxSessions
    BY BridgeAssumption DEF DownOK, DownTypeOK, Sessions
<1> QED
    BY <1>1 DEF Control, Packet

\* A control packet of a session, or nothing, joins the queue.
LEMMA ControlEnqueued ==
    ASSUME DownOK, NEW s \in Sessions, NEW kind \in {"SYNACK", "ACK", "RST"},
           enqueueTun(Control(s, kind), TRUE) \/ UNCHANGED tun
    PROVE  /\ tun' \in Seq(Packet)
           /\ \A i \in 1 .. Len(tun') :
                 tun'[i].kind \notin {"DATA", "FIN"} \/ \E j \in 1 .. Len(tun) : tun'[i] = tun[j]
<1>0. tun \in Seq(Packet)
    BY DEF DownOK, DownTypeOK
<1>1. CASE UNCHANGED tun
    BY <1>0, <1>1
<1>2. CASE enqueueTun(Control(s, kind), TRUE)
  <2> DEFINE p == Control(s, kind)
  <2>1. p \in Packet /\ p.kind = kind
      BY ControlPacket
  <2> HIDE DEF p
  <2>2. enqueueTun(p, TRUE)
      BY <1>2 DEF p
  <2>3. /\ tun' \in Seq(Packet)
        /\ \A i \in 1 .. Len(tun') : tun'[i] = p \/ \E j \in 1 .. Len(tun) : tun'[i] = tun[j]
      BY <1>0, <2>1, <2>2, Enqueued
  <2> QED
      BY <2>1, <2>3
<1> QED
    BY <1>1, <1>2

\* Steps of run() that leave the numbers alone.
LEMMA QuietRun ==
    ASSUME ControlInv, DownOK, NEW s \in Sessions,
           NEW l \in {"start", "rejected", "route", "dial", "check", "loop", "batch", "half",
                      "done"},
           pc' = [pc EXCEPT ![s] = l], UNCHANGED <<rpc, mySeq, total, left, synAckSent>>,
           l \in {"start", "rejected"} => pc[s] = "none",
           l \in {"route", "dial", "check"} => pc[s] \in {"start", "sniff", "route", "dial"},
           tun' \in Seq(Packet),
           \A i \in 1 .. Len(tun') :
              tun'[i].kind \notin {"DATA", "FIN"} \/ \E j \in 1 .. Len(tun) : tun'[i] = tun[j]
    PROVE  DownOK'
<1>1. pc'[s] = l /\ \A t \in Sessions \ {s} : pc'[t] = pc[t]
    BY DEF ControlInv, ControlTypeOK
<1>2. SeqOf(s)'
  <2>1. SeqOf(s) /\ synAckSent[s] \in BOOLEAN
      BY DEF DownOK, DownInv, SeqInv, SeqOf, ControlInv, ControlTypeOK
  <2> QED
      BY <1>1, <2>1 DEF SeqOf
<1>3. DownTypeOK'
    BY DEF DownOK, DownTypeOK
<1>4. \A i \in 1 .. Len(tun') :
         Sound(tun'[i], rpc', total') \/ \E j \in 1 .. Len(tun) : tun'[i] = tun[j]
    BY DEF Sound
<1> QED
    BY <1>1, <1>2, <1>3, <1>4, DownOne

\* Every step of run().
LEMMA DownRun ==
    ASSUME ControlInv, DownOK, NEW s \in Sessions, run(s) PROVE DownOK'
<1>0. /\ tun \in Seq(Packet) /\ SeqOf(s) /\ synAckSent[s] \in BOOLEAN
      /\ mySeq[s] \in Nat /\ total[s] \in Nat /\ left[s] \in Nat
    BY DEF DownOK, DownTypeOK, DownInv, SeqInv, SeqOf, ControlInv, ControlTypeOK
<1>1. ASSUME UNCHANGED tun
      PROVE  /\ tun' \in Seq(Packet)
             /\ \A i \in 1 .. Len(tun') : tun'[i].kind \notin {"DATA", "FIN"}
                   \/ \E j \in 1 .. Len(tun) : tun'[i] = tun[j]
    BY <1>0, <1>1
<1>2. CASE runStart(s)
  <2>1. CASE pc' = [pc EXCEPT ![s] = "route"] /\ UNCHANGED <<synAckSent, mySeq, tun>>
    <3>1. /\ UNCHANGED <<rpc, mySeq, total, left, synAckSent, tun>> /\ pc[s] = "start"
        BY <1>2, <2>1 DEF runStart
    <3> QED
        BY <1>1, <2>1, <3>1, QuietRun
  <2>2. CASE /\ SynAck(s) /\ synAckSent' = [synAckSent EXCEPT ![s] = TRUE]
             /\ pc' = [pc EXCEPT ![s] = "sniff"]
    <3>1. UNCHANGED <<rpc, total, left>> /\ pc[s] = "start"
        BY <1>2 DEF runStart
    <3>2. /\ pc'[s] = "sniff" /\ synAckSent'[s] /\ mySeq'[s] = mySeq[s] + 1
          /\ \A t \in Sessions \ {s} : /\ pc'[t] = pc[t] /\ mySeq'[t] = mySeq[t]
                                       /\ synAckSent'[t] = synAckSent[t]
        BY <2>2 DEF SynAck, ControlInv, ControlTypeOK, DownOK, DownTypeOK
    <3>3. SeqOf(s)'
      <4>1. rpc[s] = "none"
          BY <3>1 DEF ControlInv, ControlTypeOK, SessionOf, Late
      <4> QED
          BY <1>0, <3>1, <3>2, <4>1 DEF SeqOf
    <3>4. /\ tun' \in Seq(Packet)
          /\ \A i \in 1 .. Len(tun') : tun'[i].kind \notin {"DATA", "FIN"}
                \/ \E j \in 1 .. Len(tun) : tun'[i] = tun[j]
        BY <2>2, ControlEnqueued DEF SynAck
    <3>5. DownTypeOK'
        BY <1>0, <2>2, <3>1, <3>4 DEF SynAck, DownOK, DownTypeOK
    <3>6. \A i \in 1 .. Len(tun') :
             Sound(tun'[i], rpc', total') \/ \E j \in 1 .. Len(tun) : tun'[i] = tun[j]
        BY <3>4 DEF Sound
    <3> QED
        BY <3>1, <3>2, <3>3, <3>5, <3>6, DownOne
  <2> QED
      BY <1>2, <2>1, <2>2 DEF runStart
<1>3. CASE runSniff(s) \/ runDialFails(s) \/ runEnd(s)
  <2>1. UNCHANGED <<rpc, mySeq, total, left, synAckSent, tun>>
      BY <1>3 DEF runSniff, runDialFails, runEnd, downstream
  <2>2. \/ pc' = [pc EXCEPT ![s] = "done"]
        \/ pc' = [pc EXCEPT ![s] = "route"] /\ pc[s] = "sniff"
      BY <1>3 DEF runSniff, runDialFails, runEnd
  <2> QED
      BY <1>1, <2>1, <2>2, QuietRun
<1>4. CASE runRefused(s)
  <2>1. /\ UNCHANGED <<rpc, mySeq, total, left, synAckSent>>
        /\ pc' = [pc EXCEPT ![s] = "done"]
        /\ enqueueTun(Control(s, "RST"), TRUE) \/ UNCHANGED tun
      BY <1>4 DEF runRefused
  <2>2. /\ tun' \in Seq(Packet)
        /\ \A i \in 1 .. Len(tun') : tun'[i].kind \notin {"DATA", "FIN"}
              \/ \E j \in 1 .. Len(tun) : tun'[i] = tun[j]
      BY <2>1, ControlEnqueued
  <2> QED
      BY <2>1, <2>2, QuietRun
<1>5. CASE \/ runDial(s) \/ runConnected(s) \/ runTooLate(s) \/ runWrite(s) \/ runFlush(s)
           \/ runHalfClose(s)
  <2>1. UNCHANGED <<rpc, mySeq, total, left, synAckSent, tun>>
      BY <1>5 DEF runDial, runConnected, runTooLate, runWrite, runFlush, runHalfClose, downstream
  <2>2. \/ \E l \in {"done", "loop", "batch", "half"} : pc' = [pc EXCEPT ![s] = l]
        \/ pc' = [pc EXCEPT ![s] = "dial"] /\ pc[s] = "route"
        \/ pc' = [pc EXCEPT ![s] = "check"] /\ pc[s] = "dial"
      BY <1>5 DEF runDial, runConnected, runTooLate, runWrite, runFlush, runHalfClose
  <2>3. CASE \E l \in {"done", "loop", "batch", "half"} : pc' = [pc EXCEPT ![s] = l]
      BY <1>1, <2>1, <2>3, QuietRun
  <2>4. CASE pc' = [pc EXCEPT ![s] = "dial"] /\ pc[s] = "route"
      BY <1>1, <2>1, <2>4, QuietRun
  <2>5. CASE pc' = [pc EXCEPT ![s] = "check"] /\ pc[s] = "dial"
      BY <1>1, <2>1, <2>5, QuietRun
  <2> QED
      BY <2>2, <2>3, <2>4, <2>5
<1>6. CASE runOpen(s)
  <2>0. pc[s] = "check" /\ UNCHANGED <<total, left, synAckSent>>
      BY <1>6 DEF runOpen
  <2>1. rpc[s] = "none"
      BY <2>0 DEF ControlInv, ControlTypeOK, SessionOf, Late
  <2>2. /\ pc'[s] \in {"loop", "done"} /\ (rpc'[s] \in {"read", "none"})
        /\ \A t \in Sessions \ {s} : pc'[t] = pc[t] /\ rpc'[t] = rpc[t]
      BY <1>6, <2>1 DEF runOpen, ControlInv, ControlTypeOK
  <2>3. /\ mySeq' \in [Sessions -> Nat] /\ mySeq'[s] = 1
        /\ \A t \in Sessions \ {s} : mySeq'[t] = mySeq[t]
    <3>1. CASE synAckSent[s]
        BY <1>0, <1>6, <2>0, <3>1 DEF runOpen, SeqOf, DownOK, DownTypeOK
    <3>2. CASE ~synAckSent[s]
      <4>1. mySeq[s] = 0
          BY <1>0, <2>0, <3>2 DEF SeqOf
      <4>2. mySeq' = [mySeq EXCEPT ![s] = @ + 1]
          BY <1>6, <3>2 DEF runOpen, SynAck
      <4> QED
          BY <4>1, <4>2 DEF DownOK, DownTypeOK
    <3> QED
        BY <3>1, <3>2
  <2>4. SeqOf(s)'
      BY <1>0, <2>0, <2>1, <2>2, <2>3 DEF SeqOf
  <2>5. /\ tun' \in Seq(Packet)
        /\ \A i \in 1 .. Len(tun') : tun'[i].kind \notin {"DATA", "FIN"}
              \/ \E j \in 1 .. Len(tun) : tun'[i] = tun[j]
    <3>1. enqueueTun(Control(s, "SYNACK"), TRUE) \/ UNCHANGED tun
        BY <1>6 DEF runOpen, SynAck
    <3> QED
        BY <3>1, ControlEnqueued
  <2>6. DownTypeOK'
      BY <2>0, <2>3, <2>5 DEF DownOK, DownTypeOK
  <2>7. \A i \in 1 .. Len(tun') :
           Sound(tun'[i], rpc', total') \/ \E j \in 1 .. Len(tun) : tun'[i] = tun[j]
      BY <2>5 DEF Sound
  <2> QED
      BY <2>0, <2>1, <2>2, <2>3, <2>4, <2>6, <2>7, DownOne
<1> QED
    BY <1>2, <1>3, <1>4, <1>5, <1>6 DEF run

\* Every step of readFromSocks().
LEMMA DownRead ==
    ASSUME ControlInv, DownOK, NEW s \in Sessions, readFromSocks(s) PROVE DownOK'
<1>0. /\ tun \in Seq(Packet) /\ SeqOf(s) /\ synAckSent[s] \in BOOLEAN
      /\ mySeq[s] \in Nat /\ total[s] \in Nat /\ left[s] \in Nat
      /\ rpc[s] # "none" => pc[s] \in {"loop", "batch", "half", "done"}
      /\ s \in 0 .. MaxSessions
    BY BridgeAssumption DEF DownOK, DownTypeOK, DownInv, SeqInv, SeqOf, ControlInv,
       ControlTypeOK, SessionOf, Late, Sessions
<1>1. CASE readSome(s)
  <2>0. UNCHANGED <<pc, mySeq, synAckSent, tun>> /\ rpc[s] = "read"
      BY <1>1 DEF readSome
  <2>1. PICK n \in 1 .. MaxChunks : /\ total' = [total EXCEPT ![s] = @ + n]
                                    /\ left' = [left EXCEPT ![s] = n]
      BY <1>1 DEF readSome
  <2>2. n \in Nat /\ n > 0
      BY BridgeAssumption
  <2>3. /\ total'[s] = total[s] + n /\ left'[s] = n /\ rpc'[s] = "send"
        /\ \A t \in Sessions \ {s} :
              total'[t] = total[t] /\ left'[t] = left[t] /\ rpc'[t] = rpc[t]
      BY <1>1, <2>1 DEF readSome, DownOK, DownTypeOK, ControlInv, ControlTypeOK
  <2>4. SeqOf(s)'
      BY <1>0, <2>0, <2>2, <2>3 DEF SeqOf
  <2>5. DownTypeOK'
      BY <1>0, <2>0, <2>1, <2>2 DEF DownOK, DownTypeOK
  <2>6. \A i \in 1 .. Len(tun') :
           Sound(tun'[i], rpc', total') \/ \E j \in 1 .. Len(tun) : tun'[i] = tun[j]
      BY <2>0
  <2> QED
      BY <2>0, <2>3, <2>4, <2>5, <2>6, DownOne
<1>2. CASE readChunk(s)
  <2> DEFINE p == [kind |-> "DATA", sid |-> s, seq |-> mySeq[s],
                   chunk |-> total[s] - left[s] + 1]
  <2>0. /\ UNCHANGED <<pc, total, synAckSent>> /\ rpc[s] = "send"
        /\ enqueueTun(p, FALSE)
      BY <1>2 DEF readChunk
  <2>1. left[s] > 0 /\ left[s] =< total[s] /\ mySeq[s] = total[s] - left[s] + 1
      BY <1>0, <2>0 DEF SeqOf
  <2>2. p \in Packet /\ p.kind = "DATA" /\ p.seq = p.chunk
      BY <1>0, <2>1 DEF Packet
  <2> HIDE DEF p
  <2>3. /\ tun' \in Seq(Packet)
        /\ \A i \in 1 .. Len(tun') : tun'[i] = p \/ \E j \in 1 .. Len(tun) : tun'[i] = tun[j]
      BY <1>0, <2>0, <2>2, Enqueued
  <2>4. /\ mySeq'[s] = mySeq[s] + 1 /\ left'[s] = left[s] - 1
        /\ rpc'[s] = IF left[s] = 1 THEN "read" ELSE "send"
        /\ \A t \in Sessions \ {s} :
              mySeq'[t] = mySeq[t] /\ left'[t] = left[t] /\ rpc'[t] = rpc[t]
      BY <1>2 DEF readChunk, DownOK, DownTypeOK, ControlInv, ControlTypeOK
  <2>5. SeqOf(s)'
      BY <1>0, <2>0, <2>1, <2>4 DEF SeqOf
  <2>6. DownTypeOK'
    <3>1. mySeq' \in [Sessions -> Nat] /\ left' \in [Sessions -> Nat]
        BY <1>0, <1>2, <2>1 DEF readChunk, DownOK, DownTypeOK
    <3> QED
        BY <2>0, <2>3, <3>1 DEF DownOK, DownTypeOK
  <2>7. \A i \in 1 .. Len(tun') :
           Sound(tun'[i], rpc', total') \/ \E j \in 1 .. Len(tun) : tun'[i] = tun[j]
      BY <2>2, <2>3 DEF Sound
  <2> QED
      BY <2>0, <2>4, <2>5, <2>6, <2>7, DownOne
<1>3. CASE readEof(s)
  <2> DEFINE p == Control(s, "FIN")
  <2>0. /\ UNCHANGED <<pc, total, left, synAckSent>> /\ rpc[s] = "read"
        /\ enqueueTun(p, TRUE)
      BY <1>3 DEF readEof
  <2>1. p \in Packet /\ p.kind = "FIN" /\ p.sid = s /\ p.seq = total[s] + 1
      BY <1>0, <2>0, ControlPacket DEF SeqOf
  <2> HIDE DEF p
  <2>2. /\ tun' \in Seq(Packet)
        /\ \A i \in 1 .. Len(tun') : tun'[i] = p \/ \E j \in 1 .. Len(tun) : tun'[i] = tun[j]
      BY <1>0, <2>0, <2>1, Enqueued
  <2>3. /\ mySeq' \in [Sessions -> Nat] /\ rpc'[s] = "close"
        /\ \A t \in Sessions \ {s} : mySeq'[t] = mySeq[t] /\ rpc'[t] = rpc[t]
      BY <1>0, <1>3 DEF readEof, DownOK, DownTypeOK, ControlInv, ControlTypeOK
  <2>4. SeqOf(s)'
      BY <1>0, <2>0, <2>3 DEF SeqOf
  <2>5. DownTypeOK'
      BY <2>0, <2>2, <2>3 DEF DownOK, DownTypeOK
  <2>6. \A i \in 1 .. Len(tun') :
           Sound(tun'[i], rpc', total') \/ \E j \in 1 .. Len(tun) : tun'[i] = tun[j]
      BY <2>0, <2>1, <2>2, <2>3 DEF Sound
  <2> QED
      BY <2>0, <2>3, <2>4, <2>5, <2>6, DownOne
<1>4. CASE readEnd(s)
  <2>0. UNCHANGED <<pc, mySeq, total, left, synAckSent, tun>> /\ rpc[s] # "none"
      BY <1>4 DEF readEnd, downstream
  <2>1. rpc'[s] = "done" /\ \A t \in Sessions \ {s} : rpc'[t] = rpc[t]
      BY <1>4 DEF readEnd, ControlInv, ControlTypeOK
  <2>2. SeqOf(s)'
      BY <1>0, <2>0, <2>1 DEF SeqOf
  <2>3. DownTypeOK'
      BY <2>0 DEF DownOK, DownTypeOK
  <2>4. \A i \in 1 .. Len(tun') :
           Sound(tun'[i], rpc', total') \/ \E j \in 1 .. Len(tun) : tun'[i] = tun[j]
      BY <2>0
  <2> QED
      BY <2>0, <2>1, <2>2, <2>3, <2>4, DownOne
<1> QED
    BY <1>1, <1>2, <1>3, <1>4 DEF readFromSocks

\* The numbers survive every step.
LEMMA DownNext ==
    ASSUME ControlInv, DownOK, [Next]_vars PROVE DownOK'
<1>0. tun \in Seq(Packet)
    BY DEF DownOK, DownTypeOK
<1>1. ASSUME UNCHANGED tun
      PROVE  /\ tun' \in Seq(Packet)
             /\ \A i \in 1 .. Len(tun') : tun'[i].kind \notin {"DATA", "FIN"}
                   \/ \E j \in 1 .. Len(tun) : tun'[i] = tun[j]
    BY <1>0, <1>1
<1>a. ASSUME NewSession PROVE DownOK'
  <2> DEFINE s == sessions + 1
  <2>1. s \in Sessions /\ pc[s] = "none"
      BY <1>a, BridgeAssumption DEF NewSession, ControlInv, ControlTypeOK, MadeInv, Sessions
  <2>2. UNCHANGED <<rpc, mySeq, total, left, synAckSent, tun>>
      BY <1>a DEF NewSession, downstream
  <2>3. pc' = [pc EXCEPT ![s] = IF stage = "down" THEN "rejected" ELSE "start"]
      BY <1>a DEF NewSession
  <2>4. \E l \in {"start", "rejected"} : pc' = [pc EXCEPT ![s] = l]
    <3>1. CASE stage = "down"
      <4>1. pc' = [pc EXCEPT ![s] = "rejected"]
          BY <2>3, <3>1
      <4> QED
          BY <4>1
    <3>2. CASE stage # "down"
      <4>1. pc' = [pc EXCEPT ![s] = "start"]
          BY <2>3, <3>2
      <4> QED
          BY <4>1
    <3> QED
        BY <3>1, <3>2
  <2> HIDE DEF s
  <2> QED
      BY <1>1, <2>1, <2>2, <2>4, QuietRun
<1>b. ASSUME RefuseSyn PROVE DownOK'
  <2> DEFINE p == [kind |-> "RST", sid |-> 0, seq |-> 0, chunk |-> 0]
  <2>1. UNCHANGED <<pc, rpc, mySeq, total, left, synAckSent>> /\ enqueueTun(p, TRUE)
      BY <1>b DEF RefuseSyn
  <2>2. p \in Packet /\ p.kind = "RST"
      BY BridgeAssumption DEF Packet
  <2> HIDE DEF p
  <2>3. /\ tun' \in Seq(Packet)
        /\ \A i \in 1 .. Len(tun') : tun'[i] = p \/ \E j \in 1 .. Len(tun) : tun'[i] = tun[j]
      BY <1>0, <2>1, <2>2, Enqueued
  <2> QED
      BY <2>1, <2>2, <2>3, DownFrame
<1>2. CASE processSyn \/ closeStale \/ replaceStale
  <2>1. CASE IgnoreSyn \/ dropStale \/ closeStale
    <3>1. UNCHANGED <<pc, rpc, mySeq, total, left, synAckSent, tun>>
        BY <2>1 DEF IgnoreSyn, dropStale, closeStale, downstream
    <3> QED
        BY <1>1, <3>1, DownFrame
  <2> QED
      BY <1>2, <1>a, <1>b, <2>1 DEF processSyn, replaceStale
<1>3. CASE processSegment
  <2>1. /\ mapped \in Sessions /\ UNCHANGED <<pc, rpc, mySeq, total, left, synAckSent>>
      BY <1>3, MappedMade DEF processSegment
  <2>2. enqueueTun(Control(mapped, "ACK"), TRUE) \/ UNCHANGED tun
    <3>1. CASE handleRst(mapped)
        BY <3>1 DEF handleRst
    <3>2. ASSUME NEW fin, handleUnconnected(mapped, fin)
          PROVE  UNCHANGED tun
        BY <3>2 DEF handleUnconnected
    <3>3. ASSUME NEW payload, handleFin(mapped, payload) \/ handlePayload(mapped, payload)
          PROVE  enqueueTun(Control(mapped, "ACK"), TRUE) \/ UNCHANGED tun
        BY <3>3 DEF handleFin, handlePayload, sendAck
    <3> QED
        BY <1>3, <3>1, <3>2, <3>3 DEF processSegment
  <2>3. /\ tun' \in Seq(Packet)
        /\ \A i \in 1 .. Len(tun') : tun'[i].kind \notin {"DATA", "FIN"}
              \/ \E j \in 1 .. Len(tun) : tun'[i] = tun[j]
      BY <2>1, <2>2, ControlEnqueued
  <2> QED
      BY <2>1, <2>3, DownFrame
<1>4. CASE \E s \in Sessions : run(s) \/ readFromSocks(s)
    BY <1>4, DownRun, DownRead
<1>5. CASE TunWriter
  <2>1. UNCHANGED <<pc, rpc, mySeq, total, left, synAckSent>> /\ tun # <<>> /\ tun' = Tail(tun)
      BY <1>5 DEF TunWriter
  <2>2. tun' \in Seq(Packet) /\ \A i \in 1 .. Len(tun') :
           \E j \in 1 .. Len(tun) : tun'[i] = tun[j]
      BY <1>0, <2>1
  <2> QED
      BY <2>1, <2>2, DownFrame
<1>6. CASE \/ \E s \in Sessions : closeSocket(s) \/ unmap(s)
           \/ stop \/ UNCHANGED vars
  <2>1. UNCHANGED <<pc, rpc, mySeq, total, left, synAckSent, tun>>
      BY <1>6 DEF closeSocket, unmap, stop, vars, downstream
  <2> QED
      BY <1>1, <2>1, DownFrame
<1> QED
    BY <1>2, <1>3, <1>4, <1>5, <1>6 DEF Next

\* The numbering invariant holds throughout.
THEOREM DownHolds == Spec => []DownOK
<1>1. ControlInv /\ DownOK /\ [Next]_vars => DownOK'
    BY DownNext
<1> QED
    BY <1>1, DownInit, ControlHolds, PTL DEF Spec

\* A chunk the full queue dropped is missing from the numbers the app sees.
THEOREM DropsShow == Spec => []GapsShow
<1>1. DownOK => GapsShow
    BY DEF DownOK, DownInv, TunInv, GapsShow
<1> QED
    BY <1>1, DownHolds, PTL

\* Every variable keeps its type.
THEOREM BridgeTypes == Spec => []TypeOK
<1>1. ControlInv /\ StreamOK /\ DownOK => TypeOK
    BY DEF ControlInv, StreamOK, DownOK, TypeOK
<1> QED
    BY <1>1, ControlHolds, StreamHolds, DownHolds, PTL

=============================================================================
