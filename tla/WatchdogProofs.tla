--------------------------- MODULE WatchdogProofs ---------------------------
(***************************************************************************)
(* The watchdog's restart discipline, for every limit and window.          *)
(***************************************************************************)
EXTENDS Watchdog, TLAPS

\* What makes the discipline inductive: a tunnel that was seen open is not
\* being waited for, and no failure is on the books against it.
SeenOpen == socksOpened => ~recovering /\ probeFailures = 0

IndInv == TypeOK /\ SeenOpen

\* TypeOK in two parts: the provers take numbers and flags one at a time.
Numbers ==
    /\ probeFailures \in 0 .. FailCycles /\ timeLeft \in 0 .. Window
    /\ migrateStreak \in 0 .. MaxMigrates /\ healthyChecks \in 0 .. HealthyChecks
    /\ sessions \in 1 .. MaxSessions

Flags ==
    /\ pc \in {"watch", "probe", "healthy", "failed", "backoff", "opened", "gone"}
    /\ socksOpened \in BOOLEAN /\ recovering \in BOOLEAN
    /\ switched \in BOOLEAN /\ networkChanged \in BOOLEAN
    /\ state \in {"Connected", "Reconnecting", "Verifying"}
    /\ alive \in BOOLEAN /\ tunnel \in {"scan", "dial"} \cup Served
    /\ hint \in BOOLEAN

Parts == Numbers /\ Flags /\ SeenOpen

LEMMA PartsInv == IndInv <=> Parts
<1>1. IndInv => Parts
  <2>1. IndInv => Numbers
    BY DEF IndInv, TypeOK, Numbers
  <2>2. IndInv => Flags
    BY DEF IndInv, TypeOK, Flags
  <2> QED
    BY <2>1, <2>2 DEF IndInv, Parts
<1>2. Parts => IndInv
    BY Zenon DEF IndInv, TypeOK, Parts, Numbers, Flags
<1> QED
    BY <1>1, <1>2

\* The invariant holds when the first session reports Connected.
LEMMA InitInv == Init => IndInv
<1>1. Init => Numbers
    BY WatchdogAssumption DEF Init, Numbers
<1>2. Init => Flags /\ SeenOpen
    BY DEF Init, Flags, SeenOpen, Served
<1> QED
    BY <1>1, <1>2, PartsInv DEF Parts

\* The engine and the network touch none of the supervisor's counters.
LEMMA EngineInv == Parts /\ EngineStep => Parts'
<1> SUFFICES ASSUME Parts, EngineStep PROVE Parts'
    OBVIOUS
<1>1. /\ UNCHANGED Supervisor
      /\ alive' \in BOOLEAN /\ tunnel' \in {"scan", "dial"} \cup Served
      /\ hint' \in BOOLEAN
    BY DEF Parts, Flags, EngineStep, Served, establish_masque, dialFails,
       serve_masque, tunnelStalls, tunnelExits, migrate, engineDies, stopEngine
<1> QED
    BY <1>1 DEF Parts, Numbers, Flags, SeenOpen, Supervisor, window, counters

\* Every step of the supervisor keeps the invariant.
LEMMA SupervisorInv == Parts /\ SupervisorStep => Parts'
<1> SUFFICES ASSUME Parts, SupervisorStep PROVE Parts'
    OBVIOUS
<1> USE DEF Parts, window, counters, engine
<1>1. CASE awaitExit
  <2>1. Numbers'
    BY <1>1, WatchdogAssumption DEF Numbers, awaitExit
  <2>2. Flags'
    BY <1>1 DEF Flags, awaitExit
  <2>3. SeenOpen'
    BY <1>1 DEF SeenOpen, awaitExit
  <2> QED
    BY <2>1, <2>2, <2>3
<1>2. CASE engineGone
  <2>1. Numbers'
    BY <1>2, WatchdogAssumption DEF Numbers, engineGone
  <2>2. Flags'
    BY <1>2 DEF Flags, engineGone
  <2>3. SeenOpen'
    BY <1>2 DEF SeenOpen, engineGone
  <2> QED
    BY <2>1, <2>2, <2>3
<1>3. CASE probeTunnelCycle
  <2>1. Numbers'
    BY <1>3, WatchdogAssumption DEF Numbers, probeTunnelCycle
  <2>2. Flags'
    <3>1. pc' \in {"healthy", "failed"}
      BY <1>3 DEF probeTunnelCycle
    <3>3. UNCHANGED <<socksOpened, recovering, switched, networkChanged, state,
                      alive, tunnel, hint>>
      BY <1>3 DEF probeTunnelCycle
    <3> QED
      BY <3>1, <3>3 DEF Flags
  <2>3. SeenOpen'
    BY <1>3 DEF SeenOpen, probeTunnelCycle
  <2> QED
    BY <2>1, <2>2, <2>3
<1>4. CASE checkPassed
  <2>1. Numbers'
    BY <1>4, WatchdogAssumption DEF Numbers, checkPassed
  <2>2. Flags'
    BY <1>4 DEF Flags, checkPassed
  <2>3. SeenOpen'
    BY <1>4 DEF SeenOpen, checkPassed
  <2> QED
    BY <2>1, <2>2, <2>3
<1>5. CASE fastRestart
  <2>1. Numbers'
    BY <1>5, WatchdogAssumption DEF Numbers, fastRestart, stopEngine
  <2>2. Flags'
    BY <1>5 DEF Flags, fastRestart, stopEngine
  <2>3. SeenOpen'
    BY <1>5 DEF SeenOpen, fastRestart, stopEngine
  <2> QED
    BY <2>1, <2>2, <2>3
<1>6. CASE stillRecovering
  <2>1. Numbers'
    BY <1>6, WatchdogAssumption DEF Numbers, stillRecovering
  <2>2. Flags'
    BY <1>6 DEF Flags, stillRecovering
  <2>3. SeenOpen'
    BY <1>6 DEF SeenOpen, stillRecovering
  <2> QED
    BY <2>1, <2>2, <2>3
<1>7. CASE recoveryExpired
  <2>1. Numbers'
    BY <1>7, WatchdogAssumption DEF Numbers, recoveryExpired, stopEngine
  <2>2. Flags'
    BY <1>7 DEF Flags, recoveryExpired, stopEngine
  <2>3. SeenOpen'
    BY <1>7 DEF SeenOpen, recoveryExpired, stopEngine
  <2> QED
    BY <2>1, <2>2, <2>3
<1>8. CASE coldRestart
  <2>1. Numbers'
    BY <1>8, WatchdogAssumption DEF Numbers, coldRestart, stopEngine
  <2>2. Flags'
    BY <1>8 DEF Flags, coldRestart, stopEngine
  <2>3. SeenOpen'
    BY <1>8 DEF SeenOpen, coldRestart, stopEngine
  <2> QED
    BY <2>1, <2>2, <2>3
<1>9. CASE requestEngineMigrate
  <2>1. Numbers'
    BY <1>9, WatchdogAssumption DEF Numbers, requestEngineMigrate, Exhausted
  <2>2. Flags'
    BY <1>9 DEF Flags, requestEngineMigrate, Exhausted
  <2>3. SeenOpen'
    BY <1>9 DEF SeenOpen, requestEngineMigrate, Exhausted
  <2> QED
    BY <2>1, <2>2, <2>3
<1>10. CASE respawn
  <2>1. Numbers'
    BY <1>10, WatchdogAssumption DEF Numbers, respawn, startEngine
  <2>2. Flags'
    BY <1>10 DEF Flags, respawn, startEngine
  <2>3. SeenOpen'
    BY <1>10 DEF SeenOpen, respawn, startEngine
  <2> QED
    BY <2>1, <2>2, <2>3
<1>11. CASE selfTestPasses \/ selfTestFails \/ portNeverOpens
  <2>1. Numbers'
    BY <1>11 DEF Numbers, selfTestPasses, selfTestFails, portNeverOpens
  <2>2. Flags'
    BY <1>11 DEF Flags, selfTestPasses, selfTestFails, portNeverOpens, stopEngine
  <2>3. SeenOpen'
    BY <1>11 DEF SeenOpen, selfTestPasses, selfTestFails, portNeverOpens
  <2> QED
    BY <2>1, <2>2, <2>3
<1> QED
    BY <1>1, <1>2, <1>3, <1>4, <1>5, <1>6, <1>7, <1>8, <1>9, <1>10, <1>11
       DEF SupervisorStep

\* So does every step.
LEMMA NextInv == IndInv /\ [Next]_vars => IndInv'
<1>0. (IndInv <=> Parts) /\ (IndInv' <=> Parts')
    BY PartsInv, PTL
<1> SUFFICES ASSUME Parts, [Next]_vars PROVE Parts'
    BY <1>0
<1> USE DEF Parts, window, counters, engine
<1>1. CASE onNetworkChange
    BY <1>1 DEF Numbers, Flags, SeenOpen, onNetworkChange
<1>2. CASE sessionEnds
    BY <1>2 DEF Numbers, Flags, SeenOpen, sessionEnds, stopEngine
<1>3. CASE nextSession
  <2>1. Numbers'
    BY <1>3, WatchdogAssumption DEF Numbers, nextSession
  <2>2. Flags' /\ SeenOpen'
    BY <1>3 DEF Flags, SeenOpen, Served, nextSession, startEngine
  <2> QED
    BY <2>1, <2>2
<1>4. CASE UNCHANGED vars
    BY <1>4 DEF Numbers, Flags, SeenOpen, vars
<1> QED
    BY <1>1, <1>2, <1>3, <1>4, SupervisorInv, EngineInv DEF Next

\* superviseEngine keeps its counters within their limits, in every session.
THEOREM WatchdogTypeCorrect == Spec => []TypeOK
<1>1. IndInv => TypeOK
    BY DEF IndInv
<1> QED
    BY <1>1, InitInv, NextInv, PTL DEF Spec

\* superviseEngine never asks for a hop, and never restarts the engine cold,
\* while it still waits for a hop it asked for.
THEOREM HopsNeverStack == Spec => OneHopAtATime
<1>1. IndInv /\ [Next]_vars => [coldRestart \/ requestEngineMigrate => ~recovering]_vars
    BY DEF IndInv, SeenOpen, coldRestart, requestEngineMigrate
<1> QED
    BY <1>1, InitInv, NextInv, PTL DEF Spec, OneHopAtATime

\* superviseEngine restarts an engine cold only when the hops of the episode
\* are spent; the field probeFailures, which no session resets, cannot bring
\* the restart forward.
THEOREM ColdRestartEarned == Spec => RestartEarned
<1>1. IndInv /\ [Next]_vars => [coldRestart => migrateStreak >= MaxMigrates]_vars
    BY WatchdogAssumption DEF IndInv, SeenOpen, coldRestart, Exhausted
<1> QED
    BY <1>1, InitInv, NextInv, PTL DEF Spec, RestartEarned

=============================================================================
