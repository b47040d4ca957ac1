----------------------------- MODULE VpnService -----------------------------
(***************************************************************************)
(* The session lifecycle of SoildTunnelVpnService: the Android main thread *)
(* (onStartCommand, onRevoke, onDestroy) against the coroutines it         *)
(* launches on Dispatchers.IO.  A coroutine is a job: a session            *)
(* (startTunnel), a teardown (stopEverything) or a lockdown                *)
(* (enterLockdown).  Jobs run in parallel; a job's step below is the code  *)
(* between two points where another thread can make a difference.          *)
(*                                                                         *)
(* Cancellation is cooperative, as in Kotlin: Job.cancel() only sets a     *)
(* flag, a job that was never dispatched does not run at all, and a        *)
(* running job notices the flag only where it suspends (delay, join) or    *)
(* calls ensureActive().  Blocking calls do not notice it.                 *)
(*                                                                         *)
(* Several classes keep the result: an engine process is named by the job  *)
(* that spawned it, the TUN by what it does, the two forwarders (hev, the  *)
(* userspace bridge) and the proxy listeners by one flag.                  *)
(***************************************************************************)
EXTENDS Naturals, FiniteSets

CONSTANTS
    Profiles,       \* connection profiles the user may connect with
    KillSwitch,     \* those with killSwitch or strictKillSwitch
    Strict,         \* those with strictKillSwitch
    ProxyMode,      \* those with proxyMode (no TUN)
    Rungs,          \* strategies in the ladder of runLadder
    MaxRetries,     \* maxRetries(profile)
    MaxJobs,        \* bound: coroutines launched by one service instance
    Faults,         \* which calls may fail: "spawn" (port busy, exec failure),
                    \* "establish" (Builder.establish, ShareBridge.startSync),
                    \* "config" (TUIC credentials missing)
    NoProfile       \* lastProfile == null

ASSUME ProfilesAssumption ==
    /\ KillSwitch \subseteq Profiles
    /\ Strict \subseteq KillSwitch
    /\ ProxyMode \subseteq Profiles
    /\ NoProfile \notin Profiles
ASSUME BoundsAssumption ==
    /\ Rungs \in Nat \ {0} /\ MaxRetries \in Nat \ {0} /\ MaxJobs \in Nat
    /\ Faults \subseteq {"spawn", "establish", "config"}

None   == 0                  \* null job, null process, free lock
Jobs   == 1 .. MaxJobs
Main   == MaxJobs + 1        \* the main thread, as an actor that cleans up
Actors == Jobs \cup {Main}

VARIABLES
    \* fields of the service
    runJob, stopJob, lastProfile, lockdownTunActive,
    engine,         \* the registered process, or None
    engineLock,     \* the actor inside synchronized(engineLock), or None
    tun,            \* "none", "vpn" (forwarded) or "blackhole"
    forwarding,     \* tunnelStarted / tunBridge / ShareBridge
    \* coroutines
    jobs,           \* how many have been launched
    kind, pc, ret, cancelled, joinRun, joinStop, profile, rung, attempt, phase,
    \* outside the service object
    live,           \* engine processes the OS runs
    state,          \* SoildTunnelController.state
    leftover,       \* an engine of a crashed app process still runs
    stopping,       \* stopSelf() was called
    lastCommand     \* what the user asked for last

fields  == <<runJob, stopJob, lastProfile, lockdownTunActive>>
procs   == <<engine, engineLock, live>>
tunnel  == <<tun, forwarding>>
spawned == <<kind, joinRun, joinStop, profile, jobs>>
ladder  == <<rung, attempt, phase>>
env     == <<leftover, stopping, lastCommand>>
vars == <<fields, procs, tunnel, spawned, ladder, env, pc, ret, cancelled, state>>

Kinds == {"unborn", "run", "stop", "lock"}

States == {"Idle", "Launching", "Connecting", "Verifying", "Connected",
           "Reconnecting", "Disconnecting", "Error", "KillSwitch"}

\* Where a coroutine (or the main thread) is.
PCs == {"unborn", "new", "stopForwarding", "stopEngine", "closeTun", "joinRun",
        "joinStop", "flow", "attempt", "reap", "grace", "port", "lock", "start",
        "register", "waitOpen", "open", "establish", "forward", "verify", "connected",
        "rungFailed", "nextRung", "failed", "supervise", "look", "watch",
        "backoff", "goIdle", "swapTun", "blackhole", "idle", "cancelScope",
        "done"}

\* Where a cleanup returns to.
Returns == {"joinRun", "reap", "nextRung", "goIdle", "swapTun", "cancelScope",
            "done"}

TypeOK ==
    /\ runJob \in {None} \cup Jobs /\ stopJob \in {None} \cup Jobs
    /\ lastProfile \in Profiles \cup {NoProfile}
    /\ lockdownTunActive \in BOOLEAN
    /\ engine \in {None} \cup Jobs /\ live \subseteq Jobs
    /\ engineLock \in {None} \cup Jobs
    /\ tun \in {"none", "vpn", "blackhole"} /\ forwarding \in BOOLEAN
    /\ jobs \in 0 .. MaxJobs
    /\ kind \in [Jobs -> Kinds]
    /\ pc \in [Actors -> PCs] /\ ret \in [Actors -> Returns]
    /\ cancelled \in [Jobs -> BOOLEAN]
    /\ joinRun \in [Jobs -> {None} \cup Jobs]
    /\ joinStop \in [Jobs -> {None} \cup Jobs]
    /\ profile \in [Jobs -> Profiles \cup {NoProfile}]
    /\ rung \in [Jobs -> 1 .. Rungs]
    /\ attempt \in [Jobs -> 0 .. MaxRetries]
    /\ phase \in [Jobs -> {"connect", "supervise"}]
    /\ state \in States
    /\ leftover \in BOOLEAN /\ stopping \in BOOLEAN
    /\ lastCommand \in {"none", "connect", "disconnect"}

Init ==
    /\ runJob = None /\ stopJob = None /\ lastProfile = NoProfile
    /\ lockdownTunActive = FALSE
    /\ engine = None /\ live = {} /\ engineLock = None
    /\ tun = "none" /\ forwarding = FALSE
    /\ jobs = 0
    /\ kind = [j \in Jobs |-> "unborn"]
    /\ pc = [a \in Actors |-> IF a = Main THEN "idle" ELSE "unborn"]
    /\ ret = [a \in Actors |-> "done"]
    /\ cancelled = [j \in Jobs |-> FALSE]
    /\ joinRun = [j \in Jobs |-> None] /\ joinStop = [j \in Jobs |-> None]
    /\ profile = [j \in Jobs |-> NoProfile]
    /\ rung = [j \in Jobs |-> 1] /\ attempt = [j \in Jobs |-> 0]
    /\ phase = [j \in Jobs |-> "connect"]
    /\ state = "Idle" /\ leftover \in BOOLEAN /\ stopping = FALSE /\ lastCommand = "none"

-----------------------------------------------------------------------------
(* Control flow and frames.                                                *)

At(a, label) == pc[a] = label
Goto(a, label) == pc' = [pc EXCEPT ![a] = label]

\* a goes on at label; the step changes at most the engine variables, ...
EngineStep(a, label) ==
    /\ Goto(a, label)
    /\ UNCHANGED <<fields, tunnel, spawned, ladder, env, ret, cancelled, state>>

\* ... at most the TUN, the forwarders and the published state, ...
TunnelStep(a, label) ==
    /\ Goto(a, label)
    /\ UNCHANGED <<fields, procs, spawned, ladder, env, ret, cancelled>>

\* ... the published state, ...
Report(a, s, label) ==
    state' = s /\ TunnelStep(a, label) /\ UNCHANGED tunnel

\* ... or nothing.
Move(a, label) == Report(a, state, label)

\* Call cleanupNativeOnly (in a lockdown job cleanupForwardingOnly) and go on
\* at label.
CallCleanup(a, label) ==
    /\ Goto(a, "stopForwarding")
    /\ ret' = [ret EXCEPT ![a] = label]
    /\ UNCHANGED <<procs, tunnel, spawned, ladder, env>>

\* scope.launch of a k job that will join run and stop.
Launch(k, p, run, stop) ==
    LET j == jobs + 1 IN
    /\ jobs < MaxJobs
    /\ jobs' = j
    /\ kind' = [kind EXCEPT ![j] = k]
    /\ profile' = [profile EXCEPT ![j] = p]
    /\ joinRun' = [joinRun EXCEPT ![j] = run]
    /\ joinStop' = [joinStop EXCEPT ![j] = stop]

\* job?.cancel()
Cancel(j) == cancelled' = [i \in Jobs |-> cancelled[i] \/ i = j]

\* currentScopeActive(): asks the runJob field, not the calling coroutine.
currentScopeActive ==
    runJob # None /\ ~cancelled[runJob] /\ pc[runJob] # "done"

\* engine?.isAlive() == true
engineAlive == engine # None /\ engine \in live

\* Bound on user commands: each running session of a profile with the kill
\* switch may still launch one lockdown of its own, and the model keeps a slot
\* for it.
Room ==
    jobs + 2 + Cardinality({j \in 1 .. jobs : /\ kind[j] = "run" /\ pc[j] # "done"
                                              /\ profile[j] \in KillSwitch})
        =< MaxJobs

-----------------------------------------------------------------------------
(* Main thread.                                                            *)

startTunnel(p) ==
    /\ lastProfile' = p
    /\ Launch("run", p, runJob, stopJob)
    /\ runJob' = jobs + 1
    /\ Goto(jobs + 1, "new")
    /\ UNCHANGED <<stopJob, lockdownTunActive, cancelled, state>>

stopEverything ==
    /\ state' = "Disconnecting"
    /\ Launch("stop", lastProfile, runJob, None)
    /\ Cancel(runJob)
    /\ runJob' = None
    /\ stopJob' = jobs + 1
    /\ Goto(jobs + 1, "new")
    /\ UNCHANGED <<lastProfile, lockdownTunActive>>

\* Called by the main thread and, once its retries are spent, by a session;
\* caller then goes on at next.
enterLockdown(caller, next, p) ==
    /\ Launch("lock", p, runJob, None)
    /\ Cancel(runJob)
    /\ runJob' = None
    /\ stopJob' = jobs + 1
    /\ pc' = [pc EXCEPT ![jobs + 1] = "new", ![caller] = next]
    /\ UNCHANGED <<lastProfile, lockdownTunActive, state>>

\* A user command reaches the main thread while this instance is not stopping.
Command(c) ==
    /\ At(Main, "idle") /\ ~stopping /\ Room
    /\ lastCommand' = c
    /\ UNCHANGED <<procs, tunnel, ladder, ret, leftover, stopping>>

onStartConnect(p) == Command("connect") /\ startTunnel(p)

onStartDisconnect ==
    /\ Command("disconnect")
    /\ IF ~lockdownTunActive /\ lastProfile \in Strict
       THEN enterLockdown(Main, "idle", lastProfile)
       ELSE stopEverything

onRevoke == Command("disconnect") /\ stopEverything

\* stopSelf() without a start id stops the service whatever was started since.
onDestroy ==
    /\ At(Main, "idle") /\ stopping
    /\ Cancel(runJob)
    /\ CallCleanup(Main, "cancelScope")
    /\ UNCHANGED <<fields, state>>

onDestroyCancelScope ==
    /\ At(Main, "cancelScope")
    /\ cancelled' = [j \in Jobs |-> j =< jobs]
    /\ Goto(Main, "done")
    /\ UNCHANGED <<fields, procs, tunnel, spawned, ladder, env, ret, state>>

-----------------------------------------------------------------------------
(* cleanupNativeOnly and cleanupForwardingOnly, by any actor: stop the      *)
(* forwarders, stop the engine under the lock, close the TUN.  The lockdown *)
(* variant leaves the TUN alone.                                            *)

cleanupForwarders(a) ==
    /\ At(a, "stopForwarding")
    /\ forwarding' = FALSE /\ UNCHANGED <<tun, state>>
    /\ TunnelStep(a, "stopEngine")

\* Mutant: the field is cleared and the process left running.
MutForgetEngine(a) ==
    /\ At(a, "stopEngine")
    /\ engineLock = None
    /\ engine' = None /\ UNCHANGED <<live, engineLock>>
    /\ EngineStep(a, IF ret[a] = "swapTun" THEN "swapTun" ELSE "closeTun")

\* Mutant: a lockdown calls cleanupNativeOnly, which closes the TUN.
MutCloseInLockdown(a) ==
    /\ At(a, "stopEngine")
    /\ engineLock = None
    /\ live' = live \ {engine} /\ engine' = None /\ UNCHANGED engineLock
    /\ EngineStep(a, "closeTun")

cleanupEngine(a) ==
    /\ At(a, "stopEngine")
    /\ engineLock = None
    /\ live' = live \ {engine} /\ engine' = None /\ UNCHANGED engineLock
    /\ EngineStep(a, IF ret[a] = "swapTun" THEN "swapTun" ELSE "closeTun")

cleanupTun(a) ==
    /\ At(a, "closeTun")
    /\ tun' = "none" /\ UNCHANGED <<forwarding, state>>
    /\ TunnelStep(a, ret[a])

Cleanup(a) == cleanupForwarders(a) \/ cleanupEngine(a) \/ cleanupTun(a)

-----------------------------------------------------------------------------
(* Coroutine machinery.                                                    *)

\* Cancelled before it was dispatched: the body never runs.
neverDispatched(j) == At(j, "new") /\ cancelled[j] /\ Move(j, "done")

\* A suspension point throws CancellationException in a cancelled job, and no
\* handler on the way out cleans up.
Suspending == {"joinRun", "joinStop", "flow", "grace", "port", "open", "watch",
               "backoff"}

cancelledWhileSuspended(j) ==
    /\ pc[j] \in Suspending /\ cancelled[j]
    /\ At(j, "joinStop") => joinStop[j] # None
    /\ Move(j, "done")

\* Job.join() on a session, for every kind of job.
joinFinished(j) ==
    /\ At(j, "joinRun") /\ ~cancelled[j]
    /\ joinRun[j] # None => pc[joinRun[j]] = "done"
    /\ Move(j, IF kind[j] = "run" THEN "joinStop" ELSE "done")

\* previousStop?.join() does not suspend when there is nothing to wait for.
previousStopJoined(j) ==
    /\ At(j, "joinStop")
    /\ joinStop[j] # None => ~cancelled[j] /\ pc[joinStop[j]] = "done"
    /\ Move(j, "flow")

-----------------------------------------------------------------------------
(* Sessions: startTunnel's coroutine.                                      *)

\* Mutant: join the old session without killing its natives first.
MutJoinFirst(j) ==
    /\ At(j, "new") /\ kind[j] = "run" /\ ~cancelled[j] /\ joinRun[j] # None
    /\ Cancel(joinRun[j])
    /\ Goto(j, "joinRun")
    /\ UNCHANGED <<fields, procs, tunnel, spawned, ladder, env, ret, state>>

\* previousRun.cancel(); cleanupNativeOnly(); previousRun.join()
sessionTakesOver(j) ==
    /\ At(j, "new") /\ kind[j] = "run" /\ ~cancelled[j] /\ joinRun[j] # None
    /\ Cancel(joinRun[j])
    /\ CallCleanup(j, "joinRun")
    /\ UNCHANGED <<fields, state>>

sessionStarts(j) ==
    /\ At(j, "new") /\ kind[j] = "run" /\ ~cancelled[j] /\ joinRun[j] = None
    /\ Move(j, "joinStop")

\* connectFlow up to the ladder, or its refusal of an incomplete TUIC profile.
connectFlow(j) ==
    At(j, "flow") /\ Report(j, "Launching", "attempt")

tuicIncomplete(j) == At(j, "flow") /\ "config" \in Faults /\ Move(j, "failed")

\* connectAttempt: leave lockdown, tear everything down, then spawnEngine.
connectAttempt(j) ==
    /\ At(j, "attempt")
    /\ state' = "Launching"
    /\ lockdownTunActive' = FALSE
    /\ CallCleanup(j, "reap")
    /\ UNCHANGED <<runJob, stopJob, lastProfile, cancelled>>

\* An exception (not a cancellation): the ladder catches it and cleans up
\* while connecting; afterwards it reaches startTunnel's own handler.
Handler(j) == IF phase[j] = "connect" THEN "rungFailed" ELSE "failed"

\* reapOrphanEngines: every engine process of the app is killed, whoever
\* started it; the grace period that follows is a suspension point.
reapOrphanEngines(j) ==
    /\ At(j, "reap")
    /\ live' = {} /\ leftover' = FALSE
    /\ Goto(j, IF live = {} /\ ~leftover THEN "port" ELSE "grace")
    /\ UNCHANGED <<fields, engine, engineLock, tunnel, spawned, ladder, stopping,
                   lastCommand, ret, cancelled, state>>

graceOver(j) == At(j, "grace") /\ ~cancelled[j] /\ Move(j, "port")

\* PortProbe.awaitClosed: a free port is seen without suspending.
portFree(j) == At(j, "port") /\ Move(j, "lock")

portStaysBusy(j) ==
    At(j, "port") /\ "spawn" \in Faults /\ ~cancelled[j] /\ Move(j, Handler(j))

\* Mutants: the spawn outside the lock; without ensureActive().
MutSpawnUnlocked(j) ==
    /\ At(j, "lock") /\ ~cancelled[j]
    /\ live' = live \ {engine} /\ engine' = None /\ UNCHANGED engineLock
    /\ EngineStep(j, "start")

MutSpawnCancelled(j) ==
    /\ At(j, "lock") /\ engineLock = None
    /\ live' = live \ {engine} /\ engine' = None /\ engineLock' = j
    /\ EngineStep(j, "start")

\* synchronized(engineLock) { ensureActive(); engine?.stop(); engine = null ...
spawnLock(j) ==
    /\ At(j, "lock") /\ engineLock = None /\ ~cancelled[j]
    /\ live' = live \ {engine} /\ engine' = None /\ engineLock' = j
    /\ EngineStep(j, "start")

\* ... ensureActive() throws in a cancelled session ...
spawnRefused(j) ==
    At(j, "lock") /\ engineLock = None /\ cancelled[j] /\ Move(j, "done")

\* ... fresh.start(profile) ...
spawnStart(j) ==
    /\ At(j, "start")
    /\ live' = live \cup {j} /\ UNCHANGED <<engine, engineLock>>
    /\ EngineStep(j, "register")

\* ... which may throw and so release the lock ...
spawnStartFails(j) ==
    /\ At(j, "start") /\ "spawn" \in Faults
    /\ engineLock' = None /\ UNCHANGED <<engine, live>>
    /\ EngineStep(j, Handler(j))

\* ... engine = fresh }
spawnRegister(j) ==
    /\ At(j, "register")
    /\ engine' = j /\ engineLock' = None /\ UNCHANGED live
    /\ EngineStep(j, "waitOpen")

reportConnecting(j) ==
    /\ At(j, "waitOpen")
    /\ Report(j, IF phase[j] = "connect" THEN "Connecting" ELSE state, "open")

\* PortProbe.awaitOpen: true when something listens, false when the engine is
\* gone or time is up.  It suspends only while it waits.
portOpens(j) ==
    /\ At(j, "open") /\ live # {}
    /\ IF phase[j] = "connect" THEN Move(j, "establish")
                               ELSE Report(j, "Verifying", "verify")

portNeverOpens(j) ==
    /\ At(j, "open")
    /\ engineAlive => ~cancelled[j]
    /\ Move(j, IF phase[j] = "connect" THEN "rungFailed" ELSE "supervise")

\* establishTun
tunEstablished(j) ==
    /\ At(j, "establish") /\ profile[j] \notin ProxyMode
    /\ tun' = "vpn" /\ UNCHANGED <<forwarding, state>>
    /\ TunnelStep(j, "forward")

\* startTun2Socks throws when another actor has closed the descriptor.
startTun2Socks(j) ==
    /\ At(j, "forward") /\ tun # "none"
    /\ forwarding' = TRUE /\ state' = "Verifying" /\ UNCHANGED tun
    /\ TunnelStep(j, "verify")

tunDescriptorGone(j) ==
    At(j, "forward") /\ tun = "none" /\ Move(j, "rungFailed")

\* ShareBridge.startSync in proxy mode
proxyStarted(j) ==
    /\ At(j, "establish") /\ profile[j] \in ProxyMode
    /\ forwarding' = TRUE /\ state' = "Verifying" /\ UNCHANGED tun
    /\ TunnelStep(j, "verify")

establishFails(j) ==
    At(j, "establish") /\ "establish" \in Faults /\ Move(j, "rungFailed")

\* runCatching { Diagnostics.run() }.getOrDefault(false): the four checks.
selfTestPasses(j) ==
    At(j, "verify") /\ ~cancelled[j] /\ live # {} /\ Move(j, "connected")

\* A failed check and a CancellationException both come out as "unhealthy".
\* While supervising, the engine is stopped without the lock.
selfTestFails(j) ==
    /\ At(j, "verify")
    /\ live' = IF phase[j] = "connect" THEN live ELSE live \ {engine}
    /\ UNCHANGED <<engine, engineLock>>
    /\ EngineStep(j, IF phase[j] = "connect" THEN "rungFailed" ELSE "supervise")

reportConnected(j) ==
    /\ At(j, "connected")
    /\ state' = "Connected"
    /\ attempt' = [attempt EXCEPT ![j] = 0]
    /\ phase' = [phase EXCEPT ![j] = "supervise"]
    /\ Goto(j, "supervise")
    /\ UNCHANGED <<fields, procs, tunnel, spawned, rung, env, ret, cancelled>>

\* runLadder's catch: tear the rung down ...
rungFailed(j) ==
    /\ At(j, "rungFailed")
    /\ CallCleanup(j, "nextRung")
    /\ UNCHANGED <<fields, cancelled, state>>

\* ... and try the next one.
nextRung(j) ==
    /\ At(j, "nextRung") /\ rung[j] < Rungs
    /\ rung' = [rung EXCEPT ![j] = @ + 1]
    /\ Goto(j, "attempt")
    /\ UNCHANGED <<fields, procs, tunnel, spawned, attempt, phase, env, ret,
                   cancelled, state>>

ladderExhausted(j) == At(j, "nextRung") /\ rung[j] = Rungs /\ Move(j, "failed")

\* startTunnel's catch (e: Exception).
sessionFails(j) ==
    /\ At(j, "failed")
    /\ state' = "Error"
    /\ CallCleanup(j, "done")
    /\ UNCHANGED <<fields, cancelled>>

-----------------------------------------------------------------------------
(* superviseEngine; its probe counters are in module Watchdog.             *)

superviseHead(j) ==
    /\ At(j, "supervise")
    /\ Move(j, IF currentScopeActive THEN "look" ELSE "done")

superviseAlive(j) ==
    /\ At(j, "look") /\ engineAlive
    /\ attempt' = [attempt EXCEPT ![j] = 0]
    /\ Goto(j, "watch")
    /\ UNCHANGED <<fields, procs, tunnel, spawned, rung, phase, env, ret,
                   cancelled, state>>

\* awaitExit, then one probe cycle: the tunnel is healthy or left to recover, ...
probeLeavesEngine(j) == At(j, "watch") /\ Move(j, "supervise")

\* ... or the engine is stopped, without the lock.
probeStopsEngine(j) ==
    /\ At(j, "watch") /\ ~cancelled[j]
    /\ live' = live \ {engine} /\ UNCHANGED <<engine, engineLock>>
    /\ EngineStep(j, "supervise")

\* Mutant: the retry limit is not checked.
MutRetryForever(j) ==
    /\ At(j, "look") /\ ~engineAlive
    /\ attempt' = [attempt EXCEPT ![j] = @ + 1]
    /\ state' = "Reconnecting"
    /\ Goto(j, "backoff")
    /\ UNCHANGED <<fields, procs, tunnel, spawned, rung, phase, env, ret, cancelled>>

superviseReconnect(j) ==
    /\ At(j, "look") /\ ~engineAlive /\ attempt[j] < MaxRetries
    /\ attempt' = [attempt EXCEPT ![j] = @ + 1]
    /\ state' = "Reconnecting"
    /\ Goto(j, "backoff")
    /\ UNCHANGED <<fields, procs, tunnel, spawned, rung, phase, env, ret, cancelled>>

backoffOver(j) == At(j, "backoff") /\ ~cancelled[j] /\ Move(j, "reap")

GivesUp(j) == At(j, "look") /\ ~engineAlive /\ attempt[j] >= MaxRetries

retriesExhausted(j) ==
    GivesUp(j) /\ profile[j] \notin KillSwitch /\ Move(j, "failed")

retriesExhaustedLockdown(j) ==
    /\ GivesUp(j) /\ profile[j] \in KillSwitch
    /\ enterLockdown(j, "done", profile[j])
    /\ UNCHANGED <<procs, tunnel, ladder, env, ret>>

-----------------------------------------------------------------------------
(* Teardown and lockdown coroutines.                                       *)

stopStarts(j) ==
    /\ At(j, "new") /\ kind[j] \in {"stop", "lock"} /\ ~cancelled[j]
    /\ CallCleanup(j, IF kind[j] = "stop" THEN "goIdle" ELSE "swapTun")
    /\ UNCHANGED <<fields, cancelled, state>>

\* Mutant: stopSelf() is forgotten.
MutNoStopSelf(j) == At(j, "goIdle") /\ Report(j, "Idle", "joinRun")

\* setState(Idle); stopSelf()
stopGoesIdle(j) ==
    /\ At(j, "goIdle")
    /\ state' = "Idle"
    /\ stopping' = TRUE
    /\ Goto(j, "joinRun")
    /\ UNCHANGED <<fields, procs, tunnel, spawned, ladder, leftover, lastCommand,
                   ret, cancelled>>

\* ensureLockdownTun closes the old TUN first ...
lockdownClosesTun(j) ==
    /\ At(j, "swapTun")
    /\ tun' = "none" /\ UNCHANGED <<forwarding, state>>
    /\ TunnelStep(j, "blackhole")

\* ... then establishes the blackhole, whose failure goes unnoticed.
lockdownBlackhole(j) ==
    /\ At(j, "blackhole")
    /\ tun' = "blackhole" \/ ("establish" \in Faults /\ tun' = "none")
    /\ lockdownTunActive' = TRUE
    /\ state' = "KillSwitch"
    /\ Goto(j, "joinRun")
    /\ UNCHANGED <<runJob, stopJob, lastProfile, procs, forwarding, spawned,
                   ladder, env, ret, cancelled>>

-----------------------------------------------------------------------------
\* The engine exits by itself.
engineExits(p) ==
    /\ p \in live
    /\ live' = live \ {p}
    /\ UNCHANGED <<fields, engine, engineLock, tunnel, spawned, ladder, env, pc,
                   ret, cancelled, state>>

Spawn(j) ==
    \/ reapOrphanEngines(j) \/ graceOver(j) \/ portFree(j) \/ portStaysBusy(j)
    \/ spawnLock(j) \/ spawnRefused(j) \/ spawnStart(j) \/ spawnStartFails(j)
    \/ spawnRegister(j)

Connect(j) ==
    \/ sessionTakesOver(j) \/ sessionStarts(j) \/ previousStopJoined(j)
    \/ connectFlow(j) \/ tuicIncomplete(j) \/ connectAttempt(j) \/ reportConnecting(j)
    \/ portOpens(j) \/ portNeverOpens(j)
    \/ tunEstablished(j) \/ startTun2Socks(j) \/ tunDescriptorGone(j)
    \/ proxyStarted(j) \/ establishFails(j)
    \/ selfTestPasses(j) \/ selfTestFails(j) \/ reportConnected(j)
    \/ rungFailed(j) \/ nextRung(j) \/ ladderExhausted(j) \/ sessionFails(j)

Supervise(j) ==
    \/ superviseHead(j) \/ superviseAlive(j) \/ probeLeavesEngine(j)
    \/ probeStopsEngine(j) \/ superviseReconnect(j) \/ backoffOver(j)
    \/ retriesExhausted(j) \/ retriesExhaustedLockdown(j)

Teardown(j) ==
    stopStarts(j) \/ stopGoesIdle(j) \/ lockdownClosesTun(j) \/ lockdownBlackhole(j)

JobStep(j) ==
    \/ neverDispatched(j) \/ cancelledWhileSuspended(j) \/ joinFinished(j)
    \/ Cleanup(j) \/ Spawn(j) \/ Connect(j) \/ Supervise(j) \/ Teardown(j)

MainStep == onDestroy \/ Cleanup(Main) \/ onDestroyCancelScope

Next ==
    \/ \E p \in Profiles : onStartConnect(p)
    \/ onStartDisconnect \/ onRevoke
    \/ MainStep
    \/ \E j \in Jobs : JobStep(j) \/ engineExits(j)

Spec == Init /\ [][Next]_vars

\* Dispatchers.IO and the main looper run whatever is runnable.  The fairness is
\* strong for engineLock's sake, the only thing that stops an actor now and then:
\* it is held for the start of one process, and no waiter is passed for ever.
Fairness == SF_vars(MainStep) /\ \A j \in Jobs : SF_vars(JobStep(j))
FairSpec == Spec /\ Fairness

-----------------------------------------------------------------------------
(* Properties.                                                             *)

\* spawnEngine and both cleanups share engineLock so that a teardown never
\* passes between ProcessBuilder.start() and the field write: every engine the
\* OS runs is the registered one, or belongs to the job that holds the lock
\* and is about to register it.  So there is never a second engine.
NoOrphanEngine ==
    /\ \A p \in live : p = engine \/ (p = engineLock /\ At(p, "register"))
    /\ engineLock # None => engine = None

\* Some actor is still going to run the engine part of a cleanup.
CleanupPending ==
    \/ \E a \in Actors : pc[a] \in {"stopForwarding", "stopEngine"}
    \/ \E j \in Jobs : At(j, "new") /\ kind[j] \in {"stop", "lock"}

\* A session that was cancelled never leaks its engine: as long as one of its
\* engines runs or is being spawned, whoever cancelled the session still has
\* its cleanup to run.  (Until onDestroy cancels the whole scope, which no
\* cleanup follows.)
DoomedEngine ==
    ~At(Main, "done") =>
        \A p \in live \cup {engineLock} : p # None /\ cancelled[p] => CleanupPending

\* The state of EngineSlot in the service's.
Slot == INSTANCE EngineSlot WITH
            running <- live, holder <- engineLock, slot <- engine,
            barred <- {j \in Jobs : cancelled[j]}

\* The engine processes keep to the one slot that EngineSlot describes: a
\* session enters spawnEngine's critical section only if it is not cancelled
\* and starts its engine alone, and a cleanup that gets through leaves none.
SlotSpec == Slot!Spec

\* j is the only session, the user asked for nothing else since, and its
\* profile wants the kill switch: nothing may leave the device directly.
Guarded(j) ==
    /\ kind[j] = "run" /\ phase[j] = "supervise"
    /\ profile[j] \in KillSwitch \ ProxyMode
    /\ \A i \in Jobs : kind[i] \in {"run", "stop"} => i = j
    /\ lastCommand = "connect"

\* The kill switch: from the first Connected on, until the user acts or the
\* service reports Error, and however often the engine dies or a respawn fails,
\* the TUN is up, forwarding or as a blackhole; the only gap is ensureLockdownTun's
\* own swap.  Error is the way out that the documents do not know: an exception of
\* a respawn leaves superviseEngine for startTunnel's handler, which reports it and
\* closes the TUN without a look at the kill switch.
KillSwitchUntilError ==
    \A j \in Jobs : Guarded(j) /\ state # "Error" =>
        tun # "none" \/ \E i \in Jobs : At(i, "blackhole")

\* The strict kill switch: once the lockdown that a disconnect launched has put
\* up its blackhole, and until the next command, nothing takes it down.  The
\* session it cancelled does: one cancelled between two suspension points, or
\* whose self-test swallowed the cancellation, still runs cleanupNativeOnly,
\* which closes whatever TUN the shared field holds by then.
StrictLockdownHolds ==
    \A j \in Jobs :
        /\ kind[j] = "lock" /\ pc[j] \in {"joinRun", "done"}
        /\ j = jobs /\ \A i \in Jobs : kind[i] \in {"lock", "stop"} => i = j
        => tun # "none"

\* Every teardown completes: once stopEverything has launched one, onDestroy
\* runs to its end, whatever the sessions are doing.
DisconnectCompletes ==
    (\E j \in Jobs : kind[j] = "stop") ~> At(Main, "done")

\* A cancelled session winds down, unless it supervises a newer session's engine.
\* awaitExit swallows the cancellation, and currentScopeActive asks runJob: of
\* three connects in a row the second session is cancelled while it joins the
\* first and ends, the third joins only the second, and the first, still between
\* two checks, goes on with the third one's engine.  Nothing else keeps a
\* cancelled session: the cleanup that follows every cancel takes away its own
\* engine, and every join it waits in ends.
OnlyNewerEngineDetains ==
    []<>(\A j \in Jobs : cancelled[j] =>
            \/ At(j, "done")
            \/ pc[j] \in {"supervise", "look", "watch"} /\ engineAlive /\ engine > j)

=============================================================================
