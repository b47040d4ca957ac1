----------------------------- MODULE ShareBridge -----------------------------
(***************************************************************************)
(* The LAN sharing bridge: start(), startSync() and stop() of the object   *)
(* ShareBridge, called by the VPN service and by the sharing panel.  Every *)
(* call is a thread of its own from the point where it first waits: start  *)
(* runs startSync on a new thread, stop clears the active flag at once and *)
(* closes the listeners on a new thread.  The two listeners (SOCKS5, HTTP) *)
(* are bound and closed together and named by the session that bound them. *)
(***************************************************************************)
EXTENDS Naturals

CONSTANTS
    Ops,            \* which calls are made: "lan", "local" (start with
                    \* localOnly), "stop"
    BindFails,      \* whether another app may hold the fixed ports
    MaxCalls        \* bound: calls made

ASSUME ShareAssumption ==
    /\ Ops \subseteq {"lan", "local", "stop"}
    /\ BindFails \in BOOLEAN /\ MaxCalls \in Nat

None == 0
Calls == 1 .. MaxCalls

VARIABLES
    calls,          \* calls made so far
    op, pc,         \* per call
    stopSession,    \* local of stop()
    lock,           \* the call inside synchronized(this), or None
    session, active,
    servers,        \* socksServer and httpServer: the session that bound them
    bound,          \* bindHost of those listeners: "lan" or "local"
    open            \* sessions whose sockets the OS has open

vars == <<calls, op, pc, stopSession, lock, session, active, servers, bound, open>>

TypeOK ==
    /\ calls \in 0 .. MaxCalls
    /\ op \in [Calls -> {"lan", "local", "stop"}]
    /\ pc \in [Calls -> {"unborn", "enter", "binding", "bump", "close", "done"}]
    /\ stopSession \in [Calls -> Nat]
    /\ lock \in {None} \cup Calls
    /\ session \in Nat /\ active \in BOOLEAN
    /\ servers \in Nat /\ bound \in {"lan", "local"} /\ open \subseteq Nat

Init ==
    /\ calls = 0
    /\ op = [t \in Calls |-> "stop"] /\ pc = [t \in Calls |-> "unborn"]
    /\ stopSession = [t \in Calls |-> 0]
    /\ lock = None /\ session = 0 /\ active = FALSE
    /\ servers = None /\ bound = "local" /\ open = {}

-----------------------------------------------------------------------------

Call(o, label) ==
    /\ calls < MaxCalls /\ o \in Ops
    /\ calls' = calls + 1
    /\ op' = [op EXCEPT ![calls + 1] = o]
    /\ pc' = [pc EXCEPT ![calls + 1] = label]

start(o) ==
    /\ Call(o, "enter")
    /\ UNCHANGED <<stopSession, lock, session, active, servers, bound, open>>

\* stop() clears the flag before it takes the lock.
stop ==
    /\ Call("stop", "bump")
    /\ active' = FALSE
    /\ UNCHANGED <<stopSession, lock, session, servers, bound, open>>

closeServers == servers' = None /\ open' = open \ {servers}

\* A listener of ours still accepts connections.
healthy == servers # None /\ servers \in open

\* startSync: already up, whatever address was asked for.
startAlreadyUp(t) ==
    /\ pc[t] = "enter" /\ lock = None /\ active /\ healthy
    /\ pc' = [pc EXCEPT ![t] = "done"]
    /\ UNCHANGED <<calls, op, stopSession, lock, session, active, servers, bound, open>>

\* Mutant: the leftovers of the last session are not closed first.
MutKeepLeftovers(t) ==
    /\ pc[t] = "enter" /\ lock = None /\ ~(active /\ healthy)
    /\ lock' = t
    /\ session' = session + 1
    /\ bound' = op[t]
    /\ pc' = [pc EXCEPT ![t] = "binding"]
    /\ UNCHANGED <<calls, op, stopSession, active, servers, open>>

\* A new session: invalidate every pending stop, close the leftovers, then bind
\* for as long as it takes, with the lock held.
startBinding(t) ==
    /\ pc[t] = "enter" /\ lock = None /\ ~(active /\ healthy)
    /\ lock' = t
    /\ session' = session + 1
    /\ closeServers
    /\ bound' = op[t]
    /\ pc' = [pc EXCEPT ![t] = "binding"]
    /\ UNCHANGED <<calls, op, stopSession, active>>

startBound(t) ==
    /\ pc[t] = "binding"
    /\ servers' = session /\ open' = open \cup {session}
    /\ active' = TRUE
    /\ lock' = None
    /\ pc' = [pc EXCEPT ![t] = "done"]
    /\ UNCHANGED <<calls, op, stopSession, session, bound>>

startFails(t) ==
    /\ pc[t] = "binding" /\ BindFails
    /\ active' = FALSE
    /\ lock' = None
    /\ pc' = [pc EXCEPT ![t] = "done"]
    /\ UNCHANGED <<calls, op, stopSession, session, servers, bound, open>>

stopBump(t) ==
    /\ pc[t] = "bump" /\ lock = None
    /\ session' = session + 1
    /\ stopSession' = [stopSession EXCEPT ![t] = session + 1]
    /\ pc' = [pc EXCEPT ![t] = "close"]
    /\ UNCHANGED <<calls, op, lock, active, servers, bound, open>>

\* Mutant: the session is not compared.
MutCloseAnyway(t) ==
    /\ pc[t] = "close" /\ lock = None
    /\ closeServers
    /\ pc' = [pc EXCEPT ![t] = "done"]
    /\ UNCHANGED <<calls, op, stopSession, lock, session, active, bound>>

\* The share-stop thread: close, unless a newer session or stop came first.
stopClose(t) ==
    /\ pc[t] = "close" /\ lock = None
    /\ IF session = stopSession[t] THEN closeServers ELSE UNCHANGED <<servers, open>>
    /\ pc' = [pc EXCEPT ![t] = "done"]
    /\ UNCHANGED <<calls, op, stopSession, lock, session, active, bound>>

ThreadStep(t) ==
    \/ startAlreadyUp(t) \/ startBinding(t) \/ startBound(t) \/ startFails(t)
    \/ stopBump(t) \/ stopClose(t)

Next == (\E o \in {"lan", "local"} : start(o)) \/ stop \/ \E t \in Calls : ThreadStep(t)

Spec == Init /\ [][Next]_vars

-----------------------------------------------------------------------------
(* Properties.                                                             *)

\* The fixed ports are never held by a listener of our own when a session binds
\* them, so a rebind cannot fail with EADDRINUSE because of the last session.
NoSelfConflict == \A t \in Calls : pc[t] = "binding" => open = {}

\* A stale asynchronous stop never closes the listeners of a session that
\* started after it.
StaleStopHarmless ==
    [][\A t \in Calls :
          stopClose(t) /\ servers' # servers => servers < stopSession[t]]_vars

=============================================================================
