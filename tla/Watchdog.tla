------------------------------ MODULE Watchdog ------------------------------
(***************************************************************************)
(* The stability watchdog inside superviseEngine: the session's supervisor *)
(* probes the tunnel through the engine's SOCKS port and, on failure, asks *)
(* the engine to hop gateways (a hint file) or restarts it.  Composed with *)
(* the other reader of the hint file, the MASQUE engine process: it        *)
(* consumes a stale hint before it dials and polls for a new one while it  *)
(* serves.                                                                 *)
(*                                                                         *)
(* Time is counted in watchdog checks.  The retry counter of the           *)
(* supervisor and its cancellation are in module VpnService; here a        *)
(* session may end at any check.                                           *)
(***************************************************************************)
EXTENDS Naturals

CONSTANTS
    FailCycles,     \* WATCHDOG_FAIL_CYCLES
    HealthyChecks,  \* WATCHDOG_HEALTHY_CHECKS
    MaxMigrates,    \* MAX_MIGRATES_PER_EPISODE
    Window,         \* connectTimeoutMs(), in checks
    MaxSessions     \* bound: sessions one service instance runs

ASSUME WatchdogAssumption ==
    /\ FailCycles \in Nat \ {0, 1} /\ HealthyChecks \in Nat \ {0}
    /\ MaxMigrates \in Nat /\ Window \in Nat /\ MaxSessions \in Nat \ {0}

VARIABLES
    probeFailures,  \* a field of the service: it outlives the session
    \* locals of superviseEngine
    pc, socksOpened, recovering, timeLeft, migrateStreak, healthyChecks,
    switched,
    networkChanged, \* networkChangedAt > lastHandledSwitch
    state,          \* SoildTunnelController.state, as far as the supervisor sets it
    sessions,       \* sessions started so far
    \* the engine process
    alive, tunnel,
    hint            \* soildtunnel-migrate.hint exists

counters == <<migrateStreak, healthyChecks>>
window == <<socksOpened, recovering, timeLeft>>
engine == <<alive, tunnel>>
vars == <<probeFailures, pc, window, counters, switched, networkChanged, state,
          sessions, engine, hint>>

\* The engine looks for a gateway, dials one, serves SOCKS over a working
\* tunnel, or over one that no longer carries traffic.
Served == {"up", "dead"}

TypeOK ==
    /\ probeFailures \in 0 .. FailCycles
    /\ pc \in {"watch", "probe", "healthy", "failed", "backoff", "opened", "gone"}
    /\ socksOpened \in BOOLEAN /\ recovering \in BOOLEAN
    /\ timeLeft \in 0 .. Window
    /\ migrateStreak \in 0 .. MaxMigrates /\ healthyChecks \in 0 .. HealthyChecks
    /\ switched \in BOOLEAN /\ networkChanged \in BOOLEAN
    /\ state \in {"Connected", "Reconnecting", "Verifying"}
    /\ sessions \in 1 .. MaxSessions
    /\ alive \in BOOLEAN /\ tunnel \in {"scan", "dial"} \cup Served
    /\ hint \in BOOLEAN

\* The first session has passed its self-test and reported Connected.
Init ==
    /\ probeFailures = 0
    /\ pc = "watch"
    /\ socksOpened = FALSE /\ recovering = FALSE /\ timeLeft = 0
    /\ migrateStreak = 0 /\ healthyChecks = 0
    /\ switched = FALSE /\ networkChanged = FALSE
    /\ state = "Connected" /\ sessions = 1
    /\ alive = TRUE /\ tunnel = "up" /\ hint = FALSE

-----------------------------------------------------------------------------
(* The engine process.                                                     *)

\* run_with removes a hint left over by its predecessor.
startEngine(t) == alive' = TRUE /\ tunnel' = t /\ hint' = FALSE

stopEngine == alive' = FALSE /\ UNCHANGED tunnel

Supervisor == <<probeFailures, pc, window, counters, switched, networkChanged,
                state, sessions>>

\* establish_masque: consume_migrate_hint(), then the handshake.
establish_masque ==
    /\ alive /\ tunnel = "scan"
    /\ tunnel' = "dial" /\ hint' = FALSE
    /\ UNCHANGED <<Supervisor, alive>>

dialFails ==
    /\ alive /\ tunnel = "dial"
    /\ tunnel' = "scan"
    /\ UNCHANGED <<Supervisor, alive, hint>>

\* serve_masque: the SOCKS server comes up on the new tunnel.
serve_masque ==
    /\ alive /\ tunnel = "dial"
    /\ tunnel' = "up"
    /\ UNCHANGED <<Supervisor, alive, hint>>

\* The session dies silently, or comes back by itself.
tunnelStalls ==
    /\ alive /\ tunnel \in Served
    /\ tunnel' \in Served
    /\ UNCHANGED <<Supervisor, alive, hint>>

\* The engine notices by itself that the tunnel is gone.
tunnelExits ==
    /\ alive /\ tunnel \in Served
    /\ tunnel' = "scan"
    /\ UNCHANGED <<Supervisor, alive, hint>>

\* The two-second poll of serve_masque: Err(Migrate), then the next gateway.
migrate ==
    /\ alive /\ tunnel \in Served /\ hint
    /\ tunnel' = "scan" /\ hint' = FALSE
    /\ UNCHANGED <<Supervisor, alive>>

engineDies ==
    /\ alive /\ stopEngine
    /\ UNCHANGED <<Supervisor, hint>>

-----------------------------------------------------------------------------
(* superviseEngine.                                                        *)

\* onAvailable and onLost of the network callback.
onNetworkChange ==
    /\ ~networkChanged /\ pc # "gone"
    /\ networkChanged' = TRUE
    /\ UNCHANGED <<probeFailures, pc, window, counters, switched, state, sessions,
                   engine, hint>>

\* awaitExit returns after a check's time or because the engine is gone.
awaitExit ==
    /\ pc = "watch" /\ alive
    /\ pc' = "probe"
    /\ switched' = networkChanged /\ networkChanged' = FALSE
    /\ timeLeft' = IF recovering /\ timeLeft > 0 THEN timeLeft - 1 ELSE timeLeft
    /\ UNCHANGED <<probeFailures, socksOpened, recovering, counters, state, sessions,
                   engine, hint>>

\* The engine was found dead before or after the wait.
engineGone ==
    /\ pc \in {"watch", "probe"} /\ ~alive
    /\ pc' = "backoff" /\ state' = "Reconnecting"
    /\ UNCHANGED <<probeFailures, window, counters, switched, networkChanged, sessions,
                   engine, hint>>

\* probeTunnelCycle: success means that the tunnel carried a connection; on a
\* lossy path three attempts may fail on a working tunnel.
probeTunnelCycle ==
    /\ pc = "probe" /\ alive
    /\ \/ tunnel = "up" /\ pc' = "healthy"
       \/ pc' = "failed"
    /\ UNCHANGED <<probeFailures, window, counters, switched, networkChanged, state,
                   sessions, alive, tunnel, hint>>

\* Mutant: a passed check forgets to clear the failures.
MutKeepFailures ==
    /\ pc = "healthy"
    /\ pc' = "watch"
    /\ socksOpened' = TRUE /\ recovering' = FALSE /\ timeLeft' = 0
    /\ healthyChecks' =
           IF healthyChecks < HealthyChecks THEN healthyChecks + 1 ELSE healthyChecks
    /\ migrateStreak' =
           IF healthyChecks + 1 >= HealthyChecks THEN 0 ELSE migrateStreak
    /\ UNCHANGED <<probeFailures, switched, networkChanged, state, sessions, engine,
                   hint>>

checkPassed ==
    /\ pc = "healthy"
    /\ pc' = "watch"
    /\ probeFailures' = 0
    /\ socksOpened' = TRUE /\ recovering' = FALSE /\ timeLeft' = 0
    /\ healthyChecks' =
           IF healthyChecks < HealthyChecks THEN healthyChecks + 1 ELSE healthyChecks
    /\ migrateStreak' =
           IF healthyChecks + 1 >= HealthyChecks THEN 0 ELSE migrateStreak
    /\ UNCHANGED <<switched, networkChanged, state, sessions, engine, hint>>

\* A failed check right after a network switch restarts at once.
fastRestart ==
    /\ pc = "failed" /\ switched
    /\ pc' = "watch"
    /\ probeFailures' = 0 /\ recovering' = FALSE /\ timeLeft' = 0
    /\ stopEngine
    /\ UNCHANGED <<socksOpened, counters, switched, networkChanged, state, sessions,
                   hint>>

\* Nothing has opened since the engine started or since the hop was asked for.
stillRecovering ==
    /\ pc = "failed" /\ ~switched /\ ~socksOpened
    /\ ~(recovering /\ timeLeft = 0)
    /\ pc' = "watch"
    /\ UNCHANGED <<probeFailures, window, counters, switched, networkChanged, state,
                   sessions, engine, hint>>

\* Mutant: the recovery window is never enforced.
MutEndlessRecovery ==
    /\ pc = "failed" /\ ~switched /\ ~socksOpened /\ recovering /\ timeLeft = 0
    /\ pc' = "watch"
    /\ UNCHANGED <<probeFailures, window, counters, switched, networkChanged, state,
                   sessions, engine, hint>>

recoveryExpired ==
    /\ pc = "failed" /\ ~switched /\ ~socksOpened /\ recovering /\ timeLeft = 0
    /\ pc' = "watch"
    /\ recovering' = FALSE
    /\ probeFailures' = 0 /\ migrateStreak' = 0
    /\ stopEngine
    /\ UNCHANGED <<socksOpened, timeLeft, healthyChecks, switched, networkChanged,
                   state, sessions, hint>>

Exhausted ==
    probeFailures + 1 >= FailCycles \/ migrateStreak >= MaxMigrates

coldRestart ==
    /\ pc = "failed" /\ ~switched /\ socksOpened /\ Exhausted
    /\ pc' = "watch"
    /\ healthyChecks' = 0 /\ probeFailures' = 0 /\ migrateStreak' = 0
    /\ stopEngine
    /\ UNCHANGED <<window, switched, networkChanged, state, sessions, hint>>

\* Mutant: the tunnel still counts as opened after a hop was asked for.
MutStackedHops ==
    /\ pc = "failed" /\ ~switched /\ socksOpened /\ ~Exhausted
    /\ pc' = "watch"
    /\ healthyChecks' = 0 /\ probeFailures' = probeFailures + 1
    /\ hint' = TRUE
    /\ migrateStreak' = migrateStreak + 1
    /\ recovering' = TRUE /\ timeLeft' = Window
    /\ UNCHANGED <<socksOpened, switched, networkChanged, state, sessions, engine>>

requestEngineMigrate ==
    /\ pc = "failed" /\ ~switched /\ socksOpened /\ ~Exhausted
    /\ pc' = "watch"
    /\ healthyChecks' = 0 /\ probeFailures' = probeFailures + 1
    /\ hint' = TRUE
    /\ migrateStreak' = migrateStreak + 1
    /\ socksOpened' = FALSE /\ recovering' = TRUE /\ timeLeft' = Window
    /\ UNCHANGED <<switched, networkChanged, state, sessions, engine>>

\* After the back-off a new engine is spawned, which scans.  Until awaitOpen
\* returns the supervisor does not watch.
respawn ==
    /\ pc = "backoff"
    /\ startEngine("scan")
    /\ socksOpened' = FALSE /\ recovering' = FALSE /\ timeLeft' = 0
    /\ migrateStreak' = 0 /\ healthyChecks' = 0
    /\ pc' = "opened"
    /\ UNCHANGED <<probeFailures, switched, networkChanged, state, sessions>>

\* awaitOpen sees the port, and the self-test passes ...
selfTestPasses ==
    /\ pc = "opened" /\ alive /\ tunnel = "up"
    /\ state' = "Connected" /\ pc' = "watch"
    /\ UNCHANGED <<probeFailures, window, counters, switched, networkChanged, sessions,
                   engine, hint>>

\* ... or fails, and the engine is stopped ...
selfTestFails ==
    /\ pc = "opened" /\ alive /\ tunnel \in Served
    /\ state' = "Verifying" /\ pc' = "watch"
    /\ stopEngine
    /\ UNCHANGED <<probeFailures, window, counters, switched, networkChanged, sessions,
                   hint>>

\* ... or the port has not opened in time: back to the loop, whatever runs.
portNeverOpens ==
    /\ pc = "opened" /\ (~alive \/ tunnel \notin Served)
    /\ pc' = "watch"
    /\ UNCHANGED <<probeFailures, window, counters, switched, networkChanged, state,
                   sessions, engine, hint>>

\* The user disconnects, or the retries are spent.
sessionEnds ==
    /\ pc # "gone"
    /\ pc' = "gone"
    /\ stopEngine
    /\ UNCHANGED <<probeFailures, window, counters, switched, networkChanged, state,
                   sessions, hint>>

\* Another connect on the same service instance, up to its own Connected.
nextSession ==
    /\ pc = "gone" /\ sessions < MaxSessions
    /\ pc' = "watch"
    /\ sessions' = sessions + 1
    /\ socksOpened' = FALSE /\ recovering' = FALSE /\ timeLeft' = 0
    /\ migrateStreak' = 0 /\ healthyChecks' = 0
    /\ switched' = FALSE /\ networkChanged' = FALSE
    /\ state' = "Connected"
    /\ startEngine("up")
    /\ UNCHANGED probeFailures

SupervisorStep ==
    \/ awaitExit \/ engineGone \/ probeTunnelCycle \/ checkPassed \/ fastRestart
    \/ stillRecovering \/ recoveryExpired \/ coldRestart \/ requestEngineMigrate
    \/ respawn \/ selfTestPasses \/ selfTestFails \/ portNeverOpens

EngineStep ==
    \/ establish_masque \/ dialFails \/ serve_masque \/ tunnelStalls \/ tunnelExits
    \/ migrate \/ engineDies

Next == SupervisorStep \/ EngineStep \/ onNetworkChange \/ sessionEnds \/ nextSession

Spec == Init /\ [][Next]_vars

\* The supervisor's coroutine and the engine's timers keep running.
Fairness == WF_vars(SupervisorStep) /\ WF_vars(migrate)
FairSpec == Spec /\ Fairness

-----------------------------------------------------------------------------
(* Properties.                                                             *)

\* The supervisor watches an engine whose tunnel carries nothing.
Stuck == pc \in {"watch", "probe", "failed"} /\ alive /\ tunnel # "up"

\* While the tunnel is not back, a supervisor that has seen it working once
\* does something about it: the engine is restarted, the tunnel comes back, or
\* the session ends.
DeadTunnelRestarted == (Stuck /\ socksOpened) ~> ~Stuck

\* superviseEngine asks for one hop and then waits: it never asks again, and
\* never restarts the engine cold, while a hop it asked for is still being
\* waited for.
OneHopAtATime == [][coldRestart \/ requestEngineMigrate => ~recovering]_vars

\* A cold restart is earned: the hops of the episode were spent first.
RestartEarned == [][coldRestart => migrateStreak >= MaxMigrates]_vars

=============================================================================
