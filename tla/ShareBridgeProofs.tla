-------------------------- MODULE ShareBridgeProofs --------------------------
(***************************************************************************)
(* The session counter of ShareBridge does its work, for any number of     *)
(* calls in any interleaving.                                              *)
(***************************************************************************)
EXTENDS ShareBridge, TLAPS

\* Calls are numbered in the order they are made, and only a start enters.
UnbornInv ==
    \A t \in Calls : /\ t > calls => pc[t] = "unborn"
                     /\ pc[t] = "enter" => op[t] \in {"lan", "local"}

\* The lock is held exactly by the call that is binding.
LockInv == \A t \in Calls : (lock = t) <=> (pc[t] = "binding")

\* The fields name every open socket, and none is open while a call binds.
OpenInv ==
    /\ servers = None => open = {}
    /\ servers # None => open = {servers}
    /\ lock # None => servers = None

\* Listeners are never newer than the counter, a pending stop's number is not
\* the number of any listener, and binding happens under a number of its own.
SessionInv ==
    /\ servers =< session
    /\ lock # None => session > 0
    /\ \A t \in Calls : pc[t] = "close" =>
          /\ stopSession[t] =< session /\ servers # stopSession[t]
          /\ stopSession[t] > 0
          /\ lock # None => stopSession[t] < session

IndInv == TypeOK /\ UnbornInv /\ LockInv /\ OpenInv /\ SessionInv

\* No call is numbered None.
LEMMA NoneNotCall == None \notin Calls
BY ShareAssumption DEF None, Calls

\* Nothing is shared at first.
LEMMA InitInv == Init => IndInv
<1> SUFFICES ASSUME Init PROVE IndInv
    OBVIOUS
<1>a. /\ op \in [Calls -> {"lan", "local", "stop"}]
      /\ pc \in [Calls -> {"unborn", "enter", "binding", "bump", "close", "done"}]
      /\ stopSession \in [Calls -> Nat]
    BY DEF Init
<1>b. calls \in 0 .. MaxCalls /\ session \in Nat /\ servers \in Nat
    BY ShareAssumption DEF Init, None
<1>c. /\ lock \in {None} \cup Calls /\ active \in BOOLEAN
      /\ bound \in {"lan", "local"} /\ open \subseteq Nat
    BY DEF Init
<1>1. TypeOK
    BY <1>a, <1>b, <1>c DEF TypeOK
<1>2. UnbornInv /\ SessionInv
    BY DEF Init, UnbornInv, SessionInv, None
<1>3. LockInv
    BY NoneNotCall DEF Init, LockInv
<1>4. OpenInv
    BY DEF Init, OpenInv, None
<1> QED
    BY <1>1, <1>2, <1>3, <1>4 DEF IndInv

\* A new call waits outside the lock.
LEMMA CallInv ==
    ASSUME IndInv, NEW o \in {"lan", "local", "stop"}, NEW label \in {"enter", "bump"},
           label = "enter" => o # "stop", Call(o, label), active' \in BOOLEAN,
           UNCHANGED <<stopSession, lock, session, servers, bound, open>>
    PROVE  IndInv'
<1>1. /\ calls + 1 \in Calls /\ calls' \in 0 .. MaxCalls
      /\ op' \in [Calls -> {"lan", "local", "stop"}]
      /\ pc' \in [Calls -> {"unborn", "enter", "binding", "bump", "close", "done"}]
    BY ShareAssumption DEF Call, Calls, IndInv, TypeOK
<1>2. TypeOK'
    BY <1>1 DEF IndInv, TypeOK
<1>3. pc[calls + 1] = "unborn" /\ pc'[calls + 1] = label
    BY <1>1 DEF Call, IndInv, TypeOK, UnbornInv
<1>4. \A t \in Calls : t # calls + 1 => pc'[t] = pc[t]
    BY DEF Call, IndInv, TypeOK
<1>5. UnbornInv'
    <2>1. ASSUME NEW t \in Calls, t = calls + 1
          PROVE  (t > calls' => pc'[t] = "unborn")
                 /\ (pc'[t] = "enter" => op'[t] \in {"lan", "local"})
        <3>1. ~(t > calls')
            BY <2>1 DEF Call, Calls
        <3>2. pc'[t] = label /\ op'[t] = o
            BY <2>1, <1>3 DEF Call, IndInv, TypeOK
        <3> QED
            BY <3>1, <3>2
    <2>2. ASSUME NEW t \in Calls, t # calls + 1
          PROVE  (t > calls' => pc'[t] = "unborn")
                 /\ (pc'[t] = "enter" => op'[t] \in {"lan", "local"})
        <3>1. t > calls' => t > calls
            BY <1>1, ShareAssumption DEF Call, Calls, IndInv, TypeOK
        <3>2. op'[t] = op[t]
            BY <2>2 DEF Call, IndInv, TypeOK
        <3> QED
            BY <2>2, <3>1, <3>2, <1>4 DEF IndInv, UnbornInv
    <2> QED
        BY <2>1, <2>2 DEF UnbornInv
<1>6. LockInv'
    BY <1>1, <1>3, <1>4 DEF IndInv, LockInv
<1>7. OpenInv'
    BY DEF IndInv, OpenInv
<1>8. SessionInv'
    BY <1>1, <1>3, <1>4 DEF IndInv, SessionInv
<1> QED
    BY <1>2, <1>5, <1>6, <1>7, <1>8 DEF IndInv

\* What a step of call t does to the program counters of the others.
LEMMA ThreadPc ==
    ASSUME IndInv, NEW t \in Calls, NEW l \in {"binding", "close", "done"},
           pc[t] # "unborn", calls' = calls, op' = op, pc' = [pc EXCEPT ![t] = l]
    PROVE  /\ pc' \in [Calls -> {"unborn", "enter", "binding", "bump", "close", "done"}]
           /\ pc'[t] = l /\ \A u \in Calls \ {t} : pc'[u] = pc[u]
           /\ UnbornInv'
BY DEF IndInv, TypeOK, UnbornInv

\* A start that finds sharing on changes nothing.
LEMMA AlreadyUpInv ==
    ASSUME IndInv, NEW t \in Calls, startAlreadyUp(t) PROVE IndInv'
<1> USE DEF startAlreadyUp
<1>1. /\ pc' \in [Calls -> {"unborn", "enter", "binding", "bump", "close", "done"}]
      /\ pc'[t] = "done" /\ \A u \in Calls \ {t} : pc'[u] = pc[u]
      /\ UnbornInv'
    BY ThreadPc
<1>2. TypeOK' /\ OpenInv'
    BY <1>1 DEF IndInv, TypeOK, OpenInv
<1>3. LockInv'
    BY <1>1, NoneNotCall DEF IndInv, LockInv
<1>4. SessionInv'
    BY <1>1 DEF IndInv, SessionInv
<1> QED
    BY <1>1, <1>2, <1>3, <1>4 DEF IndInv

\* Closing the fields leaves no socket open.
LEMMA ClosesAll ==
    ASSUME IndInv, closeServers PROVE servers' = None /\ open' = {}
BY DEF IndInv, OpenInv, closeServers

\* A new session starts with nothing open, under a number no stop holds.
LEMMA BindingInv ==
    ASSUME IndInv, NEW t \in Calls, startBinding(t) PROVE IndInv'
<1> USE DEF startBinding
<1>1. /\ pc' \in [Calls -> {"unborn", "enter", "binding", "bump", "close", "done"}]
      /\ pc'[t] = "binding" /\ \A u \in Calls \ {t} : pc'[u] = pc[u]
      /\ UnbornInv'
    BY ThreadPc
<1>2. servers' = None /\ open' = {}
    BY ClosesAll
<1>3. op[t] \in {"lan", "local"}
    BY DEF IndInv, UnbornInv
<1>4. session' = session + 1 /\ session \in Nat
    BY DEF IndInv, TypeOK
<1>5. TypeOK'
    BY <1>1, <1>2, <1>3, <1>4 DEF IndInv, TypeOK, None
<1>6. LockInv'
    BY <1>1, NoneNotCall DEF IndInv, LockInv
<1>7. OpenInv'
    BY <1>2 DEF OpenInv
<1>8. SessionInv'
    BY <1>1, <1>2, <1>4 DEF IndInv, TypeOK, SessionInv, None
<1> QED
    BY <1>1, <1>5, <1>6, <1>7, <1>8 DEF IndInv

\* The new listeners carry the number of their session, newer than any stop's.
LEMMA BoundInv ==
    ASSUME IndInv, NEW t \in Calls, startBound(t) PROVE IndInv'
<1> USE DEF startBound
<1>1. /\ pc' \in [Calls -> {"unborn", "enter", "binding", "bump", "close", "done"}]
      /\ pc'[t] = "done" /\ \A u \in Calls \ {t} : pc'[u] = pc[u]
      /\ UnbornInv'
    BY ThreadPc
<1>2. lock = t /\ lock # None
    BY NoneNotCall DEF IndInv, LockInv
<1>3. open = {} /\ session > 0 /\ session \in Nat
    BY <1>2 DEF IndInv, OpenInv, SessionInv, TypeOK
<1>4. open' = {session} /\ servers' = session /\ servers' # None
    BY <1>3 DEF None
<1>5. TypeOK'
    BY <1>1, <1>3, <1>4 DEF IndInv, TypeOK
<1>6. LockInv'
    BY <1>1, <1>2, NoneNotCall DEF IndInv, LockInv
<1>7. OpenInv'
    BY <1>4 DEF OpenInv
<1>8. SessionInv'
    BY <1>1, <1>2, <1>3, <1>4 DEF IndInv, TypeOK, SessionInv
<1> QED
    BY <1>1, <1>5, <1>6, <1>7, <1>8 DEF IndInv

\* A bind that fails leaves nothing behind.
LEMMA FailsInv ==
    ASSUME IndInv, NEW t \in Calls, startFails(t) PROVE IndInv'
<1> USE DEF startFails
<1>1. /\ pc' \in [Calls -> {"unborn", "enter", "binding", "bump", "close", "done"}]
      /\ pc'[t] = "done" /\ \A u \in Calls \ {t} : pc'[u] = pc[u]
      /\ UnbornInv'
    BY ThreadPc
<1>2. lock = t
    BY DEF IndInv, LockInv
<1>3. TypeOK'
    BY <1>1 DEF IndInv, TypeOK
<1>4. LockInv'
    BY <1>1, <1>2, NoneNotCall DEF IndInv, LockInv
<1>5. OpenInv'
    BY DEF IndInv, OpenInv
<1>6. SessionInv'
    BY <1>1 DEF IndInv, SessionInv
<1> QED
    BY <1>1, <1>3, <1>4, <1>5, <1>6 DEF IndInv

\* A stop takes a number newer than every listener's.
LEMMA BumpInv ==
    ASSUME IndInv, NEW t \in Calls, stopBump(t) PROVE IndInv'
<1> USE DEF stopBump
<1>1. /\ pc' \in [Calls -> {"unborn", "enter", "binding", "bump", "close", "done"}]
      /\ pc'[t] = "close" /\ \A u \in Calls \ {t} : pc'[u] = pc[u]
      /\ UnbornInv'
    BY ThreadPc
<1>2. session' = session + 1 /\ session \in Nat /\ servers \in Nat
    BY DEF IndInv, TypeOK
<1>3. /\ stopSession' \in [Calls -> Nat] /\ stopSession'[t] = session + 1
      /\ \A u \in Calls \ {t} : stopSession'[u] = stopSession[u]
    BY <1>2 DEF IndInv, TypeOK
<1>4. TypeOK'
    BY <1>1, <1>2, <1>3 DEF IndInv, TypeOK
<1>5. LockInv'
    BY <1>1, NoneNotCall DEF IndInv, LockInv
<1>6. OpenInv'
    BY DEF IndInv, OpenInv
<1>7. SessionInv'
    BY <1>1, <1>2, <1>3 DEF IndInv, TypeOK, SessionInv
<1> QED
    BY <1>1, <1>4, <1>5, <1>6, <1>7 DEF IndInv

\* The stop thread closes the fields or leaves them alone.
LEMMA CloseInv ==
    ASSUME IndInv, NEW t \in Calls, stopClose(t) PROVE IndInv'
<1> USE DEF stopClose
<1>1. /\ pc' \in [Calls -> {"unborn", "enter", "binding", "bump", "close", "done"}]
      /\ pc'[t] = "done" /\ \A u \in Calls \ {t} : pc'[u] = pc[u]
      /\ UnbornInv'
    BY ThreadPc
<1>2. \/ servers' = None /\ open' = {}
      \/ servers' = servers /\ open' = open
    BY ClosesAll
<1>3. TypeOK'
    <2>1. servers \in Nat /\ open \subseteq Nat /\ {} \subseteq Nat /\ None \in Nat
        BY DEF IndInv, TypeOK, None
    <2>2. servers' \in Nat /\ open' \subseteq Nat
        <3>1. CASE servers' = None /\ open' = {}
            BY <2>1, <3>1 DEF None
        <3>2. CASE servers' = servers /\ open' = open
            BY ONLY <2>1, <3>2
        <3> QED
            BY <3>1, <3>2, <1>2
    <2> QED
        BY <1>1, <2>2 DEF IndInv, TypeOK
<1>4. LockInv'
    BY <1>1, NoneNotCall DEF IndInv, LockInv
<1>5. OpenInv'
    BY <1>2 DEF IndInv, OpenInv
<1>6. SessionInv'
    BY <1>1, <1>2 DEF IndInv, TypeOK, SessionInv, None
<1> QED
    BY <1>1, <1>3, <1>4, <1>5, <1>6 DEF IndInv

\* Every step keeps the invariant.
LEMMA NextInv == IndInv /\ [Next]_vars => IndInv'
<1> SUFFICES ASSUME IndInv, [Next]_vars PROVE IndInv'
    OBVIOUS
<1>1. ASSUME NEW o \in {"lan", "local"}, start(o) PROVE IndInv'
    <2>1. active' \in BOOLEAN
        BY <1>1 DEF start, IndInv, TypeOK
    <2> QED
        BY <1>1, <2>1, CallInv DEF start
<1>2. CASE stop
    BY <1>2, CallInv DEF stop
<1>3. ASSUME NEW t \in Calls, ThreadStep(t) PROVE IndInv'
    BY <1>3, AlreadyUpInv, BindingInv, BoundInv, FailsInv, BumpInv, CloseInv DEF ThreadStep
<1>4. CASE UNCHANGED vars
    BY <1>4 DEF vars, IndInv, TypeOK, UnbornInv, LockInv, OpenInv, SessionInv
<1> QED
    BY <1>1, <1>2, <1>3, <1>4 DEF Next

\* The invariant holds throughout.
LEMMA Invariant == Spec => []IndInv
BY InitInv, NextInv, PTL DEF Spec

\* startSync never binds the fixed ports while a listener of an earlier session
\* still holds them: closeServers under the lock is enough, whatever stops are
\* pending and however the calls interleave.
THEOREM PortsNeverSelfHeld == Spec => []NoSelfConflict
<1>1. IndInv => NoSelfConflict
    BY NoneNotCall DEF IndInv, LockInv, OpenInv, NoSelfConflict
<1> QED
    BY <1>1, Invariant, PTL

\* The share-stop thread only ever closes listeners older than its own stop():
\* the session comparison keeps a late stop off a newer session.
THEOREM StaleStopsHarmless == Spec => StaleStopHarmless
<1>1. ASSUME IndInv, [Next]_vars
      PROVE  [\A t \in Calls :
                stopClose(t) /\ servers' # servers => servers < stopSession[t]]_vars
    <2> SUFFICES ASSUME NEW t \in Calls, stopClose(t), servers' # servers
                 PROVE  servers < stopSession[t]
        OBVIOUS
    <2> USE <1>1
    <2>1. session = stopSession[t]
        BY DEF stopClose
    <2>2. servers =< session /\ servers # stopSession[t]
        BY DEF stopClose, IndInv, SessionInv
    <2> QED
        BY <2>1, <2>2 DEF IndInv, TypeOK
<1>2. Init /\ [][Next]_vars => []IndInv
    BY Invariant DEF Spec
<1> QED
    BY <1>1, <1>2, PTL DEF Spec, StaleStopHarmless

=============================================================================
