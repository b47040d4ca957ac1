-------------------------- MODULE VpnServiceProofs --------------------------
(***************************************************************************)
(* Proofs about the session lifecycle, for any number of coroutines,       *)
(* profiles, ladder rungs and retries and any set of faults; the kill      *)
(* switch needs the blackhole's establish not to fail, and no spawn that   *)
(* fails if it is to hold without end.                                     *)
(***************************************************************************)
EXTENDS VpnService, TLAPS

-----------------------------------------------------------------------------
(* The inductive invariant.                                                *)

\* The lock is held exactly by the job inside spawnEngine's critical section.
LockHeld ==
    \A j \in Jobs : (engineLock = j) <=> (pc[j] \in {"start", "register"})

\* Nothing has happened yet to a coroutine that was not launched.
UnbornUntouched ==
    \A j \in Jobs : j > jobs =>
        pc[j] = "unborn" /\ kind[j] = "unborn" /\ ~cancelled[j]

\* Only sessions are ever cancelled one by one.
OnlySessionsCancelled ==
    /\ runJob # None => kind[runJob] = "run"
    /\ \A j \in Jobs : joinRun[j] # None => kind[joinRun[j]] = "run"
    /\ ~At(Main, "done") =>
           \A j \in Jobs : kind[j] \in {"stop", "lock"} => ~cancelled[j]

IndInv ==
    /\ TypeOK
    /\ LockHeld
    /\ UnbornUntouched
    /\ OnlySessionsCancelled
    /\ NoOrphanEngine
    /\ DoomedEngine

-----------------------------------------------------------------------------
(* Type correctness.  First the frames the actions are built from.         *)

LEMMA ActorFacts == Jobs \subseteq Actors /\ Main \in Actors /\ Main \notin Jobs
BY BoundsAssumption DEF Jobs, Actors, Main

LEMMA GotoType ==
    ASSUME TypeOK, NEW a \in Actors, NEW label \in PCs, Goto(a, label)
    PROVE  pc' \in [Actors -> PCs]
BY DEF TypeOK, Goto

LEMMA TunnelStepType ==
    ASSUME TypeOK, NEW a \in Actors, NEW label \in PCs, TunnelStep(a, label),
           tun' \in {"none", "vpn", "blackhole"}, forwarding' \in BOOLEAN,
           state' \in States
    PROVE  TypeOK'
<1>1. pc' \in [Actors -> PCs]
    BY GotoType DEF TunnelStep
<1> QED
    BY <1>1 DEF TypeOK, TunnelStep, fields, procs, spawned, ladder, env

LEMMA ReportType ==
    ASSUME TypeOK, NEW a \in Actors, NEW label \in PCs, NEW s \in States,
           Report(a, s, label)
    PROVE  TypeOK'
<1>1. TunnelStep(a, label) /\ UNCHANGED tunnel /\ state' = s
    BY DEF Report
<1>2. tun' \in {"none", "vpn", "blackhole"} /\ forwarding' \in BOOLEAN
    BY <1>1 DEF TypeOK, tunnel
<1> QED
    BY <1>1, <1>2, TunnelStepType

LEMMA MoveType ==
    ASSUME TypeOK, NEW a \in Actors, NEW label \in PCs, Move(a, label)
    PROVE  TypeOK'
<1>1. state \in States
    BY DEF TypeOK
<1>2. Report(a, state, label)
    BY DEF Move
<1> QED
    BY <1>1, <1>2, ReportType

LEMMA EngineStepType ==
    ASSUME TypeOK, NEW a \in Actors, NEW label \in PCs, EngineStep(a, label),
           engine' \in {None} \cup Jobs, engineLock' \in {None} \cup Jobs,
           live' \subseteq Jobs
    PROVE  TypeOK'
<1>1. pc' \in [Actors -> PCs]
    BY GotoType DEF EngineStep
<1> QED
    BY <1>1 DEF TypeOK, EngineStep, fields, tunnel, spawned, ladder, env

LEMMA CallCleanupType ==
    ASSUME TypeOK, NEW a \in Actors, NEW label \in Returns, CallCleanup(a, label),
           runJob' \in {None} \cup Jobs, stopJob' \in {None} \cup Jobs,
           lastProfile' \in Profiles \cup {NoProfile},
           lockdownTunActive' \in BOOLEAN, state' \in States,
           cancelled' \in [Jobs -> BOOLEAN]
    PROVE  TypeOK'
<1>1. pc' \in [Actors -> PCs]
    BY GotoType DEF CallCleanup, PCs
<1>2. ret' \in [Actors -> Returns]
    BY DEF TypeOK, CallCleanup
<1> QED
    BY <1>1, <1>2 DEF TypeOK, CallCleanup, procs, tunnel, spawned, ladder, env

LEMMA LaunchType ==
    ASSUME TypeOK, NEW k \in Kinds, NEW p \in Profiles \cup {NoProfile},
           NEW run \in {None} \cup Jobs, NEW stop \in {None} \cup Jobs,
           Launch(k, p, run, stop)
    PROVE  /\ jobs + 1 \in Jobs
           /\ jobs' \in 0 .. MaxJobs /\ kind' \in [Jobs -> Kinds]
           /\ profile' \in [Jobs -> Profiles \cup {NoProfile}]
           /\ joinRun' \in [Jobs -> {None} \cup Jobs]
           /\ joinStop' \in [Jobs -> {None} \cup Jobs]
<1>1. jobs + 1 \in Jobs /\ jobs' \in 0 .. MaxJobs
    BY BoundsAssumption DEF TypeOK, Launch, Jobs
<1> QED
    BY <1>1 DEF TypeOK, Launch

LEMMA CancelType == ASSUME TypeOK, NEW j, Cancel(j)
                    PROVE  cancelled' \in [Jobs -> BOOLEAN]
BY DEF TypeOK, Cancel

LEMMA CleanupType ==
    ASSUME TypeOK, NEW a \in Actors, Cleanup(a)
    PROVE  TypeOK'
<1>1. CASE cleanupForwarders(a)
    BY <1>1, TunnelStepType DEF cleanupForwarders, PCs, TypeOK
<1>2. CASE cleanupEngine(a)
  <2>1. live' \subseteq Jobs /\ engine' \in {None} \cup Jobs
        /\ engineLock' \in {None} \cup Jobs
    BY <1>2 DEF cleanupEngine, TypeOK
  <2> QED
    BY <1>2, <2>1, EngineStepType DEF cleanupEngine, PCs
<1>3. CASE cleanupTun(a)
  <2>1. ret[a] \in PCs
    BY DEF TypeOK, Returns, PCs
  <2> QED
    BY <1>3, <2>1, TunnelStepType DEF cleanupTun, TypeOK
<1> QED
    BY <1>1, <1>2, <1>3 DEF Cleanup

LEMMA SpawnType ==
    ASSUME TypeOK, NEW j \in Jobs, Spawn(j)
    PROVE  TypeOK'
<1> USE ActorFacts
<1>1. Handler(j) \in PCs
    BY DEF Handler, PCs
<1>2. CASE graceOver(j) \/ portFree(j) \/ portStaysBusy(j) \/ spawnRefused(j)
    BY <1>1, <1>2, MoveType DEF graceOver, portFree, portStaysBusy, spawnRefused, PCs
<1>3. CASE reapOrphanEngines(j)
  <2>1. pc' \in [Actors -> PCs]
    BY <1>3, GotoType DEF reapOrphanEngines, PCs
  <2>2. live' \subseteq Jobs /\ leftover' \in BOOLEAN
    BY <1>3 DEF reapOrphanEngines
  <2>3. UNCHANGED <<fields, engine, engineLock, tunnel, spawned, ladder, stopping,
                    lastCommand, ret, cancelled, state>>
    BY <1>3 DEF reapOrphanEngines
  <2> QED
    BY <2>1, <2>2, <2>3 DEF fields, tunnel, spawned, ladder, TypeOK
<1>4. CASE spawnLock(j)
  <2>1. live' \subseteq Jobs /\ engine' \in {None} \cup Jobs
        /\ engineLock' \in {None} \cup Jobs
    BY <1>4 DEF spawnLock, TypeOK
  <2> QED
    BY <1>4, <2>1, EngineStepType DEF spawnLock, PCs
<1>5. CASE spawnStart(j)
  <2>1. live' \subseteq Jobs /\ engine' \in {None} \cup Jobs
        /\ engineLock' \in {None} \cup Jobs
    BY <1>5 DEF spawnStart, TypeOK
  <2> QED
    BY <1>5, <2>1, EngineStepType DEF spawnStart, PCs
<1>6. CASE spawnStartFails(j)
    BY <1>1, <1>6, EngineStepType DEF spawnStartFails, TypeOK
<1>7. CASE spawnRegister(j)
    BY <1>7, EngineStepType DEF spawnRegister, TypeOK, PCs
<1> QED
    BY <1>2, <1>3, <1>4, <1>5, <1>6, <1>7 DEF Spawn

LEMMA ConnectType ==
    ASSUME TypeOK, NEW j \in Jobs, Connect(j)
    PROVE  TypeOK'
<1> USE ActorFacts
<1>1. CASE sessionStarts(j) \/ previousStopJoined(j) \/ portNeverOpens(j)
           \/ tunDescriptorGone(j) \/ establishFails(j) \/ selfTestPasses(j)
           \/ ladderExhausted(j) \/ tuicIncomplete(j)
    BY <1>1, MoveType DEF sessionStarts, tuicIncomplete, previousStopJoined, portNeverOpens,
       tunDescriptorGone, establishFails, selfTestPasses, ladderExhausted, PCs
<1>2. CASE connectFlow(j) \/ reportConnecting(j) \/ portOpens(j)
  <2>1. {"attempt", "open", "establish", "verify"} \subseteq PCs
    BY DEF PCs
  <2>2. {"Launching", "Connecting", "Verifying", state} \subseteq States
    BY DEF States, TypeOK
  <2>3. CASE connectFlow(j)
    BY <2>1, <2>2, <2>3, ReportType DEF connectFlow
  <2>4. CASE reportConnecting(j)
    BY <2>1, <2>2, <2>4, ReportType DEF reportConnecting
  <2>5. CASE portOpens(j)
    <3>1. Move(j, "establish") \/ Report(j, "Verifying", "verify")
      BY <2>5 DEF portOpens
    <3> QED
      BY <2>1, <2>2, <3>1, MoveType, ReportType
  <2> QED
    BY <1>2, <2>3, <2>4, <2>5
<1>3. CASE tunEstablished(j) \/ startTun2Socks(j) \/ proxyStarted(j)
  <2>1. TunnelStep(j, "forward") \/ TunnelStep(j, "verify")
    BY <1>3 DEF tunEstablished, startTun2Socks, proxyStarted
  <2>2. tun' \in {"none", "vpn", "blackhole"} /\ forwarding' \in BOOLEAN /\ state' \in States
    BY <1>3 DEF tunEstablished, startTun2Socks, proxyStarted, States, TypeOK
  <2>3. "forward" \in PCs /\ "verify" \in PCs
    BY DEF PCs
  <2> QED
    BY <2>1, <2>2, <2>3, TunnelStepType
<1>4. CASE sessionTakesOver(j)
    BY <1>4, CancelType, CallCleanupType
       DEF sessionTakesOver, fields, Returns, TypeOK
<1>5. CASE connectAttempt(j) \/ rungFailed(j) \/ sessionFails(j)
    BY <1>5, CallCleanupType
       DEF connectAttempt, rungFailed, sessionFails, fields, Returns, States, TypeOK
<1>6. CASE selfTestFails(j)
  <2>1. live' \subseteq Jobs /\ engine' \in {None} \cup Jobs
        /\ engineLock' \in {None} \cup Jobs
    BY <1>6 DEF selfTestFails, TypeOK
  <2> QED
    BY <1>6, <2>1, EngineStepType DEF selfTestFails, PCs
<1>7. CASE reportConnected(j)
  <2>1. pc' \in [Actors -> PCs]
    BY <1>7, GotoType DEF reportConnected, PCs
  <2> QED
    BY <1>7, <2>1, BoundsAssumption
       DEF reportConnected, fields, procs, tunnel, spawned, env, States, TypeOK
<1>8. CASE nextRung(j)
  <2>1. pc' \in [Actors -> PCs]
    BY <1>8, GotoType DEF nextRung, PCs
  <2> QED
    BY <1>8, <2>1, BoundsAssumption
       DEF nextRung, fields, procs, tunnel, spawned, env, TypeOK
<1> QED
    BY <1>1, <1>2, <1>3, <1>4, <1>5, <1>6, <1>7, <1>8 DEF Connect

\* enterLockdown, whoever calls it.
LEMMA LockdownType ==
    ASSUME TypeOK, NEW a \in Actors, NEW next \in PCs,
           NEW p \in Profiles \cup {NoProfile}, enterLockdown(a, next, p),
           UNCHANGED <<procs, tunnel, ladder, ret>>,
           leftover' \in BOOLEAN, stopping' \in BOOLEAN,
           lastCommand' \in {"none", "connect", "disconnect"}
    PROVE  TypeOK'
<1> USE ActorFacts
<1>1. Launch("lock", p, runJob, None) /\ Cancel(runJob)
    BY DEF enterLockdown
<1>2. /\ jobs + 1 \in Jobs /\ jobs' \in 0 .. MaxJobs /\ kind' \in [Jobs -> Kinds]
      /\ profile' \in [Jobs -> Profiles \cup {NoProfile}]
      /\ joinRun' \in [Jobs -> {None} \cup Jobs]
      /\ joinStop' \in [Jobs -> {None} \cup Jobs]
    BY <1>1, LaunchType DEF Kinds, TypeOK
<1>3. cancelled' \in [Jobs -> BOOLEAN]
    BY <1>1, CancelType
<1>4. pc' \in [Actors -> PCs]
    BY <1>2 DEF enterLockdown, TypeOK, PCs
<1> QED
    BY <1>2, <1>3, <1>4 DEF enterLockdown, procs, tunnel, ladder, TypeOK

LEMMA SuperviseType ==
    ASSUME TypeOK, NEW j \in Jobs, Supervise(j)
    PROVE  TypeOK'
<1> USE ActorFacts
<1>1. CASE superviseHead(j) \/ probeLeavesEngine(j) \/ backoffOver(j)
           \/ retriesExhausted(j)
    BY <1>1, MoveType
       DEF superviseHead, probeLeavesEngine, backoffOver, retriesExhausted, PCs
<1>2. CASE probeStopsEngine(j)
  <2>1. live' \subseteq Jobs /\ engine' \in {None} \cup Jobs
        /\ engineLock' \in {None} \cup Jobs
    BY <1>2 DEF probeStopsEngine, TypeOK
  <2> QED
    BY <1>2, <2>1, EngineStepType DEF probeStopsEngine, PCs
<1>3. CASE superviseAlive(j)
  <2>1. pc' \in [Actors -> PCs]
    BY <1>3, GotoType DEF superviseAlive, PCs
  <2> QED
    BY <1>3, <2>1, BoundsAssumption
       DEF superviseAlive, fields, procs, tunnel, spawned, env, TypeOK
<1>4. CASE superviseReconnect(j)
  <2>1. pc' \in [Actors -> PCs]
    BY <1>4, GotoType DEF superviseReconnect, PCs
  <2>2. attempt' \in [Jobs -> 0 .. MaxRetries]
    BY <1>4, BoundsAssumption DEF superviseReconnect, TypeOK
  <2> QED
    BY <1>4, <2>1, <2>2
       DEF superviseReconnect, fields, procs, tunnel, spawned, env, States, TypeOK
<1>5. CASE retriesExhaustedLockdown(j)
  <2>1. profile[j] \in Profiles \cup {NoProfile}
    BY DEF TypeOK
  <2>2. enterLockdown(j, "done", profile[j]) /\ UNCHANGED <<procs, tunnel, ladder, env, ret>>
    BY <1>5 DEF retriesExhaustedLockdown
  <2>3. "done" \in PCs
    BY DEF PCs
  <2> QED
    BY <2>1, <2>2, <2>3, LockdownType DEF env, TypeOK
<1> QED
    BY <1>1, <1>2, <1>3, <1>4, <1>5 DEF Supervise

LEMMA TeardownType ==
    ASSUME TypeOK, NEW j \in Jobs, Teardown(j)
    PROVE  TypeOK'
<1> USE ActorFacts
<1>1. CASE stopStarts(j)
    BY <1>1, CallCleanupType DEF stopStarts, fields, Returns, TypeOK
<1>2. CASE stopGoesIdle(j)
  <2>1. pc' \in [Actors -> PCs]
    BY <1>2, GotoType DEF stopGoesIdle, PCs
  <2> QED
    BY <1>2, <2>1
       DEF stopGoesIdle, fields, procs, tunnel, spawned, ladder, States, TypeOK
<1>3. CASE lockdownClosesTun(j)
    BY <1>3, TunnelStepType DEF lockdownClosesTun, PCs, TypeOK
<1>4. CASE lockdownBlackhole(j)
  <2>1. pc' \in [Actors -> PCs]
    BY <1>4, GotoType DEF lockdownBlackhole, PCs
  <2> QED
    BY <1>4, <2>1
       DEF lockdownBlackhole, procs, spawned, ladder, env, States, TypeOK
<1> QED
    BY <1>1, <1>2, <1>3, <1>4 DEF Teardown

LEMMA JobStepType ==
    ASSUME TypeOK, NEW j \in Jobs, JobStep(j)
    PROVE  TypeOK'
<1> USE ActorFacts
<1>1. CASE neverDispatched(j) \/ cancelledWhileSuspended(j) \/ joinFinished(j)
    BY <1>1, MoveType
       DEF neverDispatched, cancelledWhileSuspended, joinFinished, PCs
<1> QED
    BY <1>1, CleanupType, SpawnType, ConnectType, SuperviseType, TeardownType
       DEF JobStep

LEMMA CommandType ==
    ASSUME TypeOK,
           (\E p \in Profiles : onStartConnect(p)) \/ onStartDisconnect \/ onRevoke
    PROVE  TypeOK'
<1> USE ActorFacts
<1>1. CASE \E p \in Profiles : onStartConnect(p)
  <2>1. PICK p \in Profiles : onStartConnect(p)
    BY <1>1
  <2>2. Launch("run", p, runJob, stopJob) /\ Goto(jobs + 1, "new")
    BY <2>1 DEF onStartConnect, startTunnel
  <2>3. /\ jobs + 1 \in Jobs /\ jobs' \in 0 .. MaxJobs /\ kind' \in [Jobs -> Kinds]
        /\ profile' \in [Jobs -> Profiles \cup {NoProfile}]
        /\ joinRun' \in [Jobs -> {None} \cup Jobs]
        /\ joinStop' \in [Jobs -> {None} \cup Jobs]
    BY <2>2, LaunchType DEF Kinds, TypeOK
  <2>4. pc' \in [Actors -> PCs]
    BY <2>2, <2>3, GotoType DEF PCs
  <2> QED
    BY <2>1, <2>3, <2>4
       DEF onStartConnect, startTunnel, Command, procs, tunnel, ladder, TypeOK
<1>2. ASSUME Command("disconnect"), stopEverything PROVE TypeOK'
  <2>1. Launch("stop", lastProfile, runJob, None) /\ Cancel(runJob)
        /\ Goto(jobs + 1, "new")
    BY <1>2 DEF stopEverything
  <2>2. /\ jobs + 1 \in Jobs /\ jobs' \in 0 .. MaxJobs /\ kind' \in [Jobs -> Kinds]
        /\ profile' \in [Jobs -> Profiles \cup {NoProfile}]
        /\ joinRun' \in [Jobs -> {None} \cup Jobs]
        /\ joinStop' \in [Jobs -> {None} \cup Jobs]
    BY <2>1, LaunchType DEF Kinds, TypeOK
  <2>3. pc' \in [Actors -> PCs] /\ cancelled' \in [Jobs -> BOOLEAN]
    BY <2>1, <2>2, GotoType, CancelType DEF PCs
  <2> QED
    BY <1>2, <2>2, <2>3
       DEF stopEverything, Command, procs, tunnel, ladder, States, TypeOK
<1>3. ASSUME Command("disconnect"), enterLockdown(Main, "idle", lastProfile)
      PROVE  TypeOK'
    BY <1>3, LockdownType DEF Command, PCs, TypeOK
<1> QED
    BY <1>1, <1>2, <1>3 DEF onStartDisconnect, onRevoke

LEMMA MainStepType ==
    ASSUME TypeOK, MainStep
    PROVE  TypeOK'
<1> USE ActorFacts
<1>1. CASE onDestroy
    BY <1>1, CancelType, CallCleanupType DEF onDestroy, fields, Returns, TypeOK
<1>2. CASE onDestroyCancelScope
  <2>1. pc' \in [Actors -> PCs]
    BY <1>2, GotoType DEF onDestroyCancelScope, PCs
  <2> QED
    BY <1>2, <2>1
       DEF onDestroyCancelScope, fields, procs, tunnel, spawned, ladder, env, TypeOK
<1> QED
    BY <1>1, <1>2, CleanupType DEF MainStep

LEMMA EngineExitsType ==
    ASSUME TypeOK, NEW p \in Jobs, engineExits(p)
    PROVE  TypeOK'
BY DEF engineExits, fields, tunnel, spawned, ladder, env, TypeOK

LEMMA TypeInvariant == TypeOK /\ [Next]_vars => TypeOK'
<1> SUFFICES ASSUME TypeOK, [Next]_vars PROVE TypeOK'
    OBVIOUS
<1>1. CASE UNCHANGED vars
    BY <1>1 DEF vars, fields, procs, tunnel, spawned, ladder, env, TypeOK
<1> QED
    BY <1>1, CommandType, MainStepType, JobStepType, EngineExitsType DEF Next

LEMMA TypeInit == Init => TypeOK
<1>1. 1 \in 1 .. Rungs /\ 0 \in 0 .. MaxRetries /\ 0 \in 0 .. MaxJobs
  BY BoundsAssumption
<1>2. Init => pc \in [Actors -> PCs] /\ ret \in [Actors -> Returns]
  BY DEF Init, PCs, Returns
<1>3. Init => /\ rung \in [Jobs -> 1 .. Rungs]
              /\ attempt \in [Jobs -> 0 .. MaxRetries]
              /\ jobs \in 0 .. MaxJobs
  BY <1>1 DEF Init
<1>4. Init => /\ kind \in [Jobs -> Kinds] /\ cancelled \in [Jobs -> BOOLEAN]
              /\ joinRun \in [Jobs -> {None} \cup Jobs]
              /\ joinStop \in [Jobs -> {None} \cup Jobs]
              /\ profile \in [Jobs -> Profiles \cup {NoProfile}]
              /\ phase \in [Jobs -> {"connect", "supervise"}]
  BY DEF Init, Kinds
<1>5. Init => /\ engine \in {None} \cup Jobs /\ live \subseteq Jobs
              /\ state \in States
  BY DEF Init, States
<1> QED
  BY <1>2, <1>3, <1>4, <1>5 DEF Init, TypeOK

\* Every variable of the service, its coroutines and its surroundings keeps its
\* type, however many commands and coroutines there are.
THEOREM TypeCorrect == Spec => []TypeOK
BY TypeInit, TypeInvariant, PTL DEF Spec

-----------------------------------------------------------------------------
(* Engines.  Most steps only move one coroutine, and kill at most some      *)
(* engines on the way; what matters is where it comes from and goes to.     *)

LEMMA NoneNotJob == None \notin Jobs
BY BoundsAssumption DEF None, Jobs

\* j is not inside the critical section and owes nobody an engine cleanup.
Unconcerned(j) ==
    /\ pc[j] \notin {"unborn", "start", "register", "stopForwarding", "stopEngine"}
    /\ At(j, "new") => kind[j] = "run" \/ cancelled[j]

LEMMA MovingStep ==
    ASSUME IndInv, TypeOK', NEW j \in Jobs, Unconcerned(j),
           NEW label \in PCs \ {"unborn", "start", "register"}, Goto(j, label),
           UNCHANGED <<engine, engineLock, spawned, cancelled, runJob>>,
           live' \subseteq live
    PROVE  IndInv'
<1> USE ActorFacts
<1>1. \A a \in Actors : pc'[a] = IF a = j THEN label ELSE pc[a]
    BY DEF Goto, IndInv, TypeOK
<1>2. LockHeld'
    BY <1>1 DEF LockHeld, IndInv, Unconcerned
<1>3. UnbornUntouched'
    BY <1>1 DEF UnbornUntouched, IndInv, Unconcerned, spawned
<1>4. OnlySessionsCancelled'
    BY <1>1 DEF OnlySessionsCancelled, IndInv, spawned, At
<1>5. NoOrphanEngine'
    BY <1>1 DEF NoOrphanEngine, IndInv, TypeOK, Unconcerned, At
<1>6. DoomedEngine'
  <2> SUFFICES ASSUME ~At(Main, "done"), CleanupPending PROVE CleanupPending'
    BY <1>1 DEF DoomedEngine, IndInv, At
  <2>1. CASE \E a \in Actors : pc[a] \in {"stopForwarding", "stopEngine"}
    BY <1>1, <2>1 DEF CleanupPending, Unconcerned
  <2>2. CASE \E i \in Jobs : At(i, "new") /\ kind[i] \in {"stop", "lock"}
    BY <1>1, <2>2 DEF CleanupPending, Unconcerned, At, spawned, IndInv,
       OnlySessionsCancelled
  <2> QED
    BY <2>1, <2>2 DEF CleanupPending
<1> QED
    BY <1>2, <1>3, <1>4, <1>5, <1>6 DEF IndInv

\* An engine cleanup, whoever runs it, leaves no engine at all.
LEMMA CleanupSafe ==
    ASSUME IndInv, TypeOK', NEW a \in Actors, Cleanup(a)
    PROVE  IndInv'
<1> USE ActorFacts
<1>1. CASE cleanupForwarders(a)
  <2>1. /\ pc[a] = "stopForwarding"
        /\ \A b \in Actors : pc'[b] = IF b = a THEN "stopEngine" ELSE pc[b]
        /\ UNCHANGED <<engine, engineLock, live, kind, joinRun, jobs, cancelled, runJob>>
    BY <1>1 DEF cleanupForwarders, TunnelStep, Goto, At, procs, spawned, fields,
       IndInv, TypeOK
  <2>2. CleanupPending'
    BY <2>1 DEF CleanupPending
  <2>3. LockHeld' /\ UnbornUntouched' /\ OnlySessionsCancelled' /\ NoOrphanEngine'
    BY <2>1 DEF IndInv, TypeOK, LockHeld, UnbornUntouched, OnlySessionsCancelled,
       NoOrphanEngine, At
  <2> QED
    BY <2>2, <2>3 DEF IndInv, DoomedEngine
<1>2. CASE cleanupEngine(a)
  <2> DEFINE l == IF ret[a] = "swapTun" THEN "swapTun" ELSE "closeTun"
  <2>1. /\ pc[a] = "stopEngine" /\ engineLock = None /\ engine' = None
        /\ live' = live \ {engine}
        /\ \A b \in Actors : pc'[b] = IF b = a THEN l ELSE pc[b]
        /\ UNCHANGED <<engineLock, kind, joinRun, jobs, cancelled, runJob>>
    BY <1>2 DEF cleanupEngine, EngineStep, Goto, At, spawned, fields, IndInv, TypeOK
  <2>2. live' = {}
    BY <2>1, NoneNotJob DEF IndInv, NoOrphanEngine, TypeOK
  <2>3. LockHeld' /\ UnbornUntouched' /\ OnlySessionsCancelled'
    BY <2>1 DEF IndInv, TypeOK, LockHeld, UnbornUntouched, OnlySessionsCancelled, At
  <2> QED
    BY <2>1, <2>2, <2>3 DEF IndInv, NoOrphanEngine, DoomedEngine
<1>3. CASE cleanupTun(a)
  <2>1. /\ pc[a] = "closeTun" /\ ret[a] \in Returns
        /\ \A b \in Actors : pc'[b] = IF b = a THEN ret[a] ELSE pc[b]
        /\ UNCHANGED <<engine, engineLock, live, kind, joinRun, jobs, cancelled, runJob>>
    BY <1>3 DEF cleanupTun, TunnelStep, Goto, At, procs, spawned, fields,
       IndInv, TypeOK
  <2>2. LockHeld' /\ UnbornUntouched' /\ OnlySessionsCancelled' /\ NoOrphanEngine'
    BY <2>1 DEF IndInv, TypeOK, LockHeld, UnbornUntouched, OnlySessionsCancelled,
       NoOrphanEngine, At, Returns
  <2>3. ~At(Main, "done")' => ~At(Main, "done")
    BY <2>1 DEF At
  <2>4. CleanupPending => CleanupPending'
    BY <2>1 DEF CleanupPending, At
  <2>5. DoomedEngine'
    BY <2>1, <2>3, <2>4 DEF IndInv, DoomedEngine
  <2> QED
    BY <2>2, <2>5 DEF IndInv
<1> QED
    BY <1>1, <1>2, <1>3 DEF Cleanup

\* The critical section of spawnEngine.
LEMMA SpawnSafe ==
    ASSUME IndInv, TypeOK', NEW j \in Jobs, Spawn(j)
    PROVE  IndInv'
<1> USE ActorFacts
<1>1. CASE graceOver(j) \/ portFree(j) \/ portStaysBusy(j) \/ spawnRefused(j)
           \/ reapOrphanEngines(j)
  <2>1. Unconcerned(j)
    BY <1>1 DEF graceOver, portFree, portStaysBusy, spawnRefused,
       reapOrphanEngines, Unconcerned, At
  <2>2. PICK label \in PCs \ {"unborn", "start", "register"} : Goto(j, label)
    BY <1>1 DEF graceOver, portFree, portStaysBusy, spawnRefused,
       reapOrphanEngines, Move, Report, TunnelStep, EngineStep, Handler, PCs
  <2>3. /\ UNCHANGED <<engine, engineLock, spawned, cancelled, runJob>>
        /\ live' \subseteq live
    BY <1>1 DEF graceOver, portFree, portStaysBusy, spawnRefused,
       reapOrphanEngines, Move, Report, TunnelStep, EngineStep, procs, fields
  <2> QED
    BY <2>1, <2>2, <2>3, MovingStep
<1>2. ASSUME NEW label \in PCs \ {"unborn", "new"}, EngineStep(j, label),
             pc[j] \in {"lock", "start", "register"}
      PROVE  /\ \A a \in Actors : pc'[a] = IF a = j THEN label ELSE pc[a]
             /\ UNCHANGED <<kind, joinRun, jobs, cancelled, runJob>>
             /\ UnbornUntouched' /\ OnlySessionsCancelled'
             /\ CleanupPending => CleanupPending'
             /\ At(Main, "done")' <=> At(Main, "done")
  <2>1. /\ \A a \in Actors : pc'[a] = IF a = j THEN label ELSE pc[a]
        /\ UNCHANGED <<kind, joinRun, jobs, cancelled, runJob>>
    BY <1>2 DEF EngineStep, Goto, spawned, fields, IndInv, TypeOK
  <2> QED
    BY <1>2, <2>1 DEF IndInv, TypeOK, UnbornUntouched, OnlySessionsCancelled,
       CleanupPending, At
<1>3. CASE spawnLock(j)
  <2>1. EngineStep(j, "start") /\ pc[j] = "lock" /\ engineLock = None
        /\ ~cancelled[j] /\ live' = live \ {engine} /\ engine' = None
        /\ engineLock' = j
    BY <1>3 DEF spawnLock, At
  <2>2. live' = {}
    BY <2>1, NoneNotJob DEF IndInv, NoOrphanEngine, TypeOK
  <2>3. \A a \in Actors : pc'[a] = IF a = j THEN "start" ELSE pc[a]
    BY <1>2, <2>1 DEF PCs
  <2>4. UnbornUntouched' /\ OnlySessionsCancelled' /\ UNCHANGED cancelled
    BY <1>2, <2>1 DEF PCs
  <2>5. LockHeld'
    BY <2>1, <2>3, NoneNotJob DEF IndInv, LockHeld
  <2> QED
    BY <2>1, <2>2, <2>4, <2>5 DEF IndInv, NoOrphanEngine, DoomedEngine
<1>4. ASSUME pc[j] = "start" PROVE engineLock = j /\ live = {} /\ engine = None
    BY <1>4, NoneNotJob DEF IndInv, LockHeld, NoOrphanEngine, TypeOK, At
<1>5. CASE spawnStart(j)
  <2>1. EngineStep(j, "register") /\ pc[j] = "start" /\ live' = live \cup {j}
        /\ UNCHANGED <<engine, engineLock>>
    BY <1>5 DEF spawnStart, At
  <2>2. \A a \in Actors : pc'[a] = IF a = j THEN "register" ELSE pc[a]
    BY <1>2, <2>1 DEF PCs
  <2>3. UnbornUntouched' /\ OnlySessionsCancelled' /\ UNCHANGED cancelled
        /\ (CleanupPending => CleanupPending')
        /\ (At(Main, "done")' <=> At(Main, "done"))
    BY <1>2, <2>1 DEF PCs
  <2>4. LockHeld'
    BY <2>1, <2>2 DEF IndInv, LockHeld
  <2>5. NoOrphanEngine'
    BY <1>4, <2>1, <2>2 DEF NoOrphanEngine, At
  <2>6. DoomedEngine'
    BY <1>4, <2>1, <2>3 DEF IndInv, DoomedEngine
  <2> QED
    BY <2>3, <2>4, <2>5, <2>6 DEF IndInv
<1>6. CASE spawnStartFails(j)
  <2>1. EngineStep(j, Handler(j)) /\ pc[j] = "start" /\ engineLock' = None
        /\ UNCHANGED <<engine, live>> /\ Handler(j) \in {"rungFailed", "failed"}
    BY <1>6 DEF spawnStartFails, At, Handler
  <2>2. \A a \in Actors : pc'[a] = IF a = j THEN Handler(j) ELSE pc[a]
    BY <1>2, <2>1 DEF PCs
  <2>3. UnbornUntouched' /\ OnlySessionsCancelled'
    BY <1>2, <2>1 DEF PCs
  <2>4. LockHeld'
    BY <1>4, <2>1, <2>2, NoneNotJob DEF IndInv, LockHeld
  <2> QED
    BY <1>4, <2>1, <2>3, <2>4 DEF IndInv, NoOrphanEngine, DoomedEngine
<1>7. CASE spawnRegister(j)
  <2>1. EngineStep(j, "waitOpen") /\ pc[j] = "register" /\ engine' = j
        /\ engineLock' = None /\ UNCHANGED live
    BY <1>7 DEF spawnRegister, At
  <2>2. engineLock = j /\ live \subseteq {j}
    BY <2>1, NoneNotJob DEF IndInv, LockHeld, NoOrphanEngine, TypeOK
  <2>3. \A a \in Actors : pc'[a] = IF a = j THEN "waitOpen" ELSE pc[a]
    BY <1>2, <2>1 DEF PCs
  <2>4. UnbornUntouched' /\ OnlySessionsCancelled' /\ UNCHANGED cancelled
        /\ (CleanupPending => CleanupPending')
        /\ (At(Main, "done")' <=> At(Main, "done"))
    BY <1>2, <2>1 DEF PCs
  <2>5. LockHeld'
    BY <2>1, <2>2, <2>3, NoneNotJob DEF IndInv, LockHeld
  <2>6. NoOrphanEngine' /\ DoomedEngine'
    BY <2>1, <2>2, <2>4 DEF IndInv, NoOrphanEngine, DoomedEngine
  <2> QED
    BY <2>4, <2>5, <2>6 DEF IndInv
<1> QED
    BY <1>1, <1>3, <1>5, <1>6, <1>7 DEF Spawn

LEMMA ConnectSafe ==
    ASSUME IndInv, TypeOK', NEW j \in Jobs, Connect(j)
    PROVE  IndInv'
<1> USE ActorFacts
<1>1. CASE sessionTakesOver(j)
  <2>1. /\ joinRun[j] \in Jobs /\ kind[joinRun[j]] = "run" /\ pc[j] = "new"
        /\ \A i \in Jobs : cancelled'[i] = (cancelled[i] \/ i = joinRun[j])
        /\ \A a \in Actors : pc'[a] = IF a = j THEN "stopForwarding" ELSE pc[a]
        /\ UNCHANGED <<engine, engineLock, live, kind, joinRun, jobs, runJob>>
    BY <1>1 DEF sessionTakesOver, Cancel, CallCleanup, Goto, At, procs, spawned,
       fields, IndInv, TypeOK, OnlySessionsCancelled
  <2>2. CleanupPending'
    BY <2>1 DEF CleanupPending
  <2>3. LockHeld' /\ UnbornUntouched' /\ OnlySessionsCancelled' /\ NoOrphanEngine'
    BY <2>1 DEF IndInv, TypeOK, LockHeld, UnbornUntouched, OnlySessionsCancelled,
       NoOrphanEngine, At
  <2> QED
    BY <2>2, <2>3 DEF IndInv, DoomedEngine
<1>2. CASE sessionStarts(j) \/ previousStopJoined(j) \/ connectFlow(j)
           \/ connectAttempt(j) \/ reportConnecting(j) \/ portOpens(j)
           \/ portNeverOpens(j) \/ tuicIncomplete(j)
  <2>1. Unconcerned(j)
    BY <1>2 DEF sessionStarts, previousStopJoined, connectFlow, connectAttempt,
       tuicIncomplete, reportConnecting, portOpens, portNeverOpens,
       Unconcerned, At
  <2>2. PICK label \in PCs \ {"unborn", "start", "register"} : Goto(j, label)
    BY <1>2 DEF sessionStarts, previousStopJoined, connectFlow, connectAttempt,
       tuicIncomplete, reportConnecting, portOpens, portNeverOpens, CallCleanup,
       Move, Report, TunnelStep, PCs
  <2>3. UNCHANGED <<engine, engineLock, live, spawned, cancelled, runJob>>
    BY <1>2 DEF sessionStarts, previousStopJoined, connectFlow, connectAttempt,
       tuicIncomplete, reportConnecting, portOpens, portNeverOpens, CallCleanup,
       Move, Report, TunnelStep, procs, fields
  <2> QED
    BY <2>1, <2>2, <2>3, MovingStep
<1>3. CASE tunEstablished(j) \/ startTun2Socks(j) \/ tunDescriptorGone(j)
           \/ proxyStarted(j) \/ establishFails(j) \/ selfTestPasses(j)
           \/ selfTestFails(j)
  <2>1. Unconcerned(j)
    BY <1>3 DEF tunEstablished, startTun2Socks, tunDescriptorGone, proxyStarted,
       establishFails, selfTestPasses, selfTestFails, Unconcerned, At
  <2>2. PICK label \in PCs \ {"unborn", "start", "register"} : Goto(j, label)
    BY <1>3 DEF tunEstablished, startTun2Socks, tunDescriptorGone, proxyStarted,
       establishFails, selfTestPasses, selfTestFails, Move, Report, TunnelStep,
       EngineStep, PCs
  <2>3. /\ UNCHANGED <<engine, engineLock, spawned, cancelled, runJob>>
        /\ live' \subseteq live
    BY <1>3 DEF tunEstablished, startTun2Socks, tunDescriptorGone, proxyStarted,
       establishFails, selfTestPasses, selfTestFails, Move, Report, TunnelStep,
       EngineStep, procs, fields
  <2> QED
    BY <2>1, <2>2, <2>3, MovingStep
<1>4. CASE reportConnected(j) \/ rungFailed(j) \/ nextRung(j)
           \/ ladderExhausted(j) \/ sessionFails(j)
  <2>1. Unconcerned(j)
    BY <1>4 DEF reportConnected, rungFailed, nextRung, ladderExhausted,
       sessionFails, Unconcerned, At
  <2>2. PICK label \in PCs \ {"unborn", "start", "register"} : Goto(j, label)
    BY <1>4 DEF reportConnected, rungFailed, nextRung, ladderExhausted,
       sessionFails, CallCleanup, Move, Report, TunnelStep, PCs
  <2>3. UNCHANGED <<engine, engineLock, live, spawned, cancelled, runJob>>
    BY <1>4 DEF reportConnected, rungFailed, nextRung, ladderExhausted,
       sessionFails, CallCleanup, Move, Report, TunnelStep, procs, fields
  <2> QED
    BY <2>1, <2>2, <2>3, MovingStep
<1> QED
    BY <1>1, <1>2, <1>3, <1>4 DEF Connect

\* Launching a teardown or a lockdown: the session it cancels is doomed by the
\* new coroutine itself.
LEMMA StopLaunchSafe ==
    ASSUME IndInv, TypeOK', NEW a \in Actors, NEW next \in PCs,
           NEW k \in {"stop", "lock"}, NEW p, Launch(k, p, runJob, None),
           Cancel(runJob), runJob' = None,
           a # jobs + 1, a \in Jobs => Unconcerned(a) /\ next = "done",
           a = Main => next = pc[Main],
           pc' = [pc EXCEPT ![jobs + 1] = "new", ![a] = next],
           UNCHANGED procs
    PROVE  IndInv'
<1> USE ActorFacts
<1> DEFINE n == jobs + 1
<1>1. n \in Jobs /\ jobs' = n /\ n > jobs /\ jobs \in Nat
    BY BoundsAssumption DEF Launch, IndInv, TypeOK, Jobs
<1>2. \A b \in Actors : pc'[b] = IF b = a THEN next ELSE IF b = n THEN "new" ELSE pc[b]
    BY <1>1 DEF IndInv, TypeOK
<1>3. /\ \A j \in Jobs : kind'[j] = IF j = n THEN k ELSE kind[j]
      /\ \A j \in Jobs : joinRun'[j] = IF j = n THEN runJob ELSE joinRun[j]
      /\ \A j \in Jobs : cancelled'[j] = (cancelled[j] \/ j = runJob)
      /\ UNCHANGED <<engine, engineLock, live>>
    BY <1>1 DEF Launch, Cancel, procs, IndInv, TypeOK
<1>4. /\ pc[n] = "unborn" /\ kind[n] = "unborn" /\ ~cancelled[n]
      /\ engineLock # n
    BY <1>1 DEF IndInv, UnbornUntouched, LockHeld
<1>5. LockHeld'
    BY <1>1, <1>2, <1>3, <1>4 DEF IndInv, LockHeld, Unconcerned, TypeOK
<1>6. UnbornUntouched'
  <2> SUFFICES ASSUME NEW j \in Jobs, j > n
               PROVE  pc'[j] = "unborn" /\ kind'[j] = "unborn" /\ ~cancelled'[j]
    BY <1>1 DEF UnbornUntouched
  <2>1. j > jobs /\ j # n
    BY <1>1 DEF Jobs
  <2>2. pc[j] = "unborn" /\ kind[j] = "unborn" /\ ~cancelled[j]
    BY <2>1 DEF IndInv, UnbornUntouched
  <2>3. j # runJob
    BY <2>2, NoneNotJob DEF IndInv, OnlySessionsCancelled
  <2>4. j # a
    BY <2>2 DEF Unconcerned
  <2> QED
    BY <1>2, <1>3, <2>1, <2>2, <2>3, <2>4
<1>7. OnlySessionsCancelled'
    BY <1>1, <1>2, <1>3, <1>4, NoneNotJob
       DEF IndInv, OnlySessionsCancelled, At, TypeOK
<1>8. NoOrphanEngine'
    BY <1>1, <1>2, <1>3, <1>4
       DEF IndInv, NoOrphanEngine, Unconcerned, At, TypeOK
<1>9. CleanupPending'
    BY <1>1, <1>2, <1>3 DEF CleanupPending, At
<1> QED
    BY <1>5, <1>6, <1>7, <1>8, <1>9 DEF IndInv, DoomedEngine

LEMMA SuperviseSafe ==
    ASSUME IndInv, TypeOK', NEW j \in Jobs, Supervise(j)
    PROVE  IndInv'
<1> USE ActorFacts
<1>1. CASE superviseHead(j) \/ superviseAlive(j) \/ probeLeavesEngine(j)
           \/ probeStopsEngine(j) \/ superviseReconnect(j) \/ backoffOver(j)
           \/ retriesExhausted(j)
  <2>1. Unconcerned(j)
    BY <1>1 DEF superviseHead, superviseAlive, probeLeavesEngine,
       probeStopsEngine, superviseReconnect, backoffOver, retriesExhausted,
       GivesUp, Unconcerned, At
  <2>2. PICK label \in PCs \ {"unborn", "start", "register"} : Goto(j, label)
    BY <1>1 DEF superviseHead, superviseAlive, probeLeavesEngine,
       probeStopsEngine, superviseReconnect, backoffOver, retriesExhausted,
       Move, Report, TunnelStep, EngineStep, PCs
  <2>3. /\ UNCHANGED <<engine, engineLock, spawned, cancelled, runJob>>
        /\ live' \subseteq live
    BY <1>1 DEF superviseHead, superviseAlive, probeLeavesEngine,
       probeStopsEngine, superviseReconnect, backoffOver, retriesExhausted,
       Move, Report, TunnelStep, EngineStep, procs, fields
  <2> QED
    BY <2>1, <2>2, <2>3, MovingStep
<1>2. CASE retriesExhaustedLockdown(j)
  <2>1. pc[j] = "look" /\ enterLockdown(j, "done", profile[j]) /\ UNCHANGED procs
    BY <1>2 DEF retriesExhaustedLockdown, GivesUp, At
  <2>2. Unconcerned(j) /\ j # jobs + 1
    BY <2>1, BoundsAssumption
       DEF Unconcerned, IndInv, UnbornUntouched, At, TypeOK, Jobs
  <2> QED
    BY <2>1, <2>2, StopLaunchSafe DEF enterLockdown, PCs
<1> QED
    BY <1>1, <1>2 DEF Supervise

LEMMA TeardownSafe ==
    ASSUME IndInv, TypeOK', NEW j \in Jobs, Teardown(j)
    PROVE  IndInv'
<1> USE ActorFacts
<1>1. CASE stopStarts(j)
  <2>1. /\ pc[j] = "new"
        /\ \A a \in Actors : pc'[a] = IF a = j THEN "stopForwarding" ELSE pc[a]
        /\ UNCHANGED <<engine, engineLock, live, kind, joinRun, jobs, cancelled, runJob>>
    BY <1>1 DEF stopStarts, CallCleanup, Goto, At, procs, spawned, fields,
       IndInv, TypeOK
  <2>2. CleanupPending'
    BY <2>1 DEF CleanupPending
  <2>3. LockHeld' /\ UnbornUntouched' /\ OnlySessionsCancelled' /\ NoOrphanEngine'
    BY <2>1 DEF IndInv, TypeOK, LockHeld, UnbornUntouched, OnlySessionsCancelled,
       NoOrphanEngine, At
  <2> QED
    BY <2>2, <2>3 DEF IndInv, DoomedEngine
<1>2. CASE stopGoesIdle(j) \/ lockdownClosesTun(j) \/ lockdownBlackhole(j)
  <2>1. Unconcerned(j)
    BY <1>2 DEF stopGoesIdle, lockdownClosesTun, lockdownBlackhole, Unconcerned, At
  <2>2. PICK label \in PCs \ {"unborn", "start", "register"} : Goto(j, label)
    BY <1>2 DEF stopGoesIdle, lockdownClosesTun, lockdownBlackhole, TunnelStep, PCs
  <2>3. UNCHANGED <<engine, engineLock, live, spawned, cancelled, runJob>>
    BY <1>2 DEF stopGoesIdle, lockdownClosesTun, lockdownBlackhole, TunnelStep,
       procs, fields
  <2> QED
    BY <2>1, <2>2, <2>3, MovingStep
<1> QED
    BY <1>1, <1>2 DEF Teardown

LEMMA JobStepSafe ==
    ASSUME IndInv, TypeOK', NEW j \in Jobs, JobStep(j)
    PROVE  IndInv'
<1> USE ActorFacts
<1>1. CASE neverDispatched(j) \/ cancelledWhileSuspended(j) \/ joinFinished(j)
  <2>1. Unconcerned(j)
    BY <1>1 DEF neverDispatched, cancelledWhileSuspended, joinFinished,
       Suspending, Unconcerned, At
  <2>2. PICK label \in PCs \ {"unborn", "start", "register"} : Goto(j, label)
    BY <1>1 DEF neverDispatched, cancelledWhileSuspended, joinFinished, Move,
       Report, TunnelStep, PCs
  <2>3. UNCHANGED <<engine, engineLock, live, spawned, cancelled, runJob>>
    BY <1>1 DEF neverDispatched, cancelledWhileSuspended, joinFinished, Move,
       Report, TunnelStep, procs, fields
  <2> QED
    BY <2>1, <2>2, <2>3, MovingStep
<1> QED
    BY <1>1, CleanupSafe, SpawnSafe, ConnectSafe, SuperviseSafe, TeardownSafe
       DEF JobStep

LEMMA CommandSafe ==
    ASSUME IndInv, TypeOK',
           (\E p \in Profiles : onStartConnect(p)) \/ onStartDisconnect \/ onRevoke
    PROVE  IndInv'
<1> USE ActorFacts
<1> DEFINE n == jobs + 1
<1>1. CASE \E p \in Profiles : onStartConnect(p)
  <2>1. PICK p \in Profiles : onStartConnect(p)
    BY <1>1
  <2>2. /\ n \in Jobs /\ jobs' = n /\ n > jobs /\ jobs \in Nat /\ runJob' = n
        /\ UNCHANGED <<engine, engineLock, live, cancelled>>
    BY <2>1, BoundsAssumption DEF onStartConnect, startTunnel, Launch, Command,
       procs, IndInv, TypeOK, Jobs
  <2>3. /\ \A a \in Actors : pc'[a] = IF a = n THEN "new" ELSE pc[a]
        /\ \A j \in Jobs : kind'[j] = IF j = n THEN "run" ELSE kind[j]
        /\ \A j \in Jobs : joinRun'[j] = IF j = n THEN runJob ELSE joinRun[j]
    BY <2>1, <2>2 DEF onStartConnect, startTunnel, Launch, Goto, IndInv, TypeOK
  <2>4. pc[n] = "unborn" /\ kind[n] = "unborn" /\ engineLock # n
    BY <2>2 DEF IndInv, UnbornUntouched, LockHeld
  <2>5. LockHeld' /\ NoOrphanEngine'
    BY <2>2, <2>3, <2>4 DEF IndInv, LockHeld, NoOrphanEngine, At, TypeOK
  <2>6. UnbornUntouched'
    BY <2>2, <2>3 DEF IndInv, UnbornUntouched, Jobs
  <2>7. OnlySessionsCancelled'
    BY <2>2, <2>3, <2>4 DEF IndInv, OnlySessionsCancelled, At, TypeOK
  <2>8. CleanupPending => CleanupPending'
    BY <2>2, <2>3, <2>4 DEF CleanupPending, At
  <2>9. DoomedEngine'
    BY <2>2, <2>3, <2>8 DEF IndInv, DoomedEngine, At
  <2> QED
    BY <2>5, <2>6, <2>7, <2>9 DEF IndInv
<1>2. Main # jobs + 1 \/ jobs >= MaxJobs
    BY BoundsAssumption DEF IndInv, TypeOK, Main
<1>3. ASSUME Command("disconnect"), stopEverything PROVE IndInv'
  <2>1. /\ Launch("stop", lastProfile, runJob, None) /\ Cancel(runJob)
        /\ runJob' = None /\ UNCHANGED procs /\ Main # jobs + 1
        /\ pc' = [pc EXCEPT ![jobs + 1] = "new"]
    BY <1>2, <1>3, BoundsAssumption
       DEF stopEverything, Command, Goto, Launch, IndInv, TypeOK
  <2>2. pc' = [pc EXCEPT ![jobs + 1] = "new", ![Main] = pc[Main]]
    BY <2>1 DEF IndInv, TypeOK
  <2>3. pc[Main] \in PCs
    BY DEF IndInv, TypeOK
  <2> QED
    BY <2>1, <2>2, <2>3, StopLaunchSafe
<1>4. ASSUME Command("disconnect"), enterLockdown(Main, "idle", lastProfile)
      PROVE  IndInv'
  <2>1. /\ Launch("lock", lastProfile, runJob, None) /\ Cancel(runJob)
        /\ runJob' = None /\ UNCHANGED procs /\ Main # jobs + 1
        /\ pc' = [pc EXCEPT ![jobs + 1] = "new", ![Main] = "idle"]
        /\ pc[Main] = "idle" /\ "idle" \in PCs
    BY <1>2, <1>4, BoundsAssumption
       DEF enterLockdown, Command, At, Launch, IndInv, TypeOK, PCs
  <2> QED
    BY <2>1, StopLaunchSafe
<1> QED
    BY <1>1, <1>3, <1>4 DEF onStartDisconnect, onRevoke

LEMMA MainStepSafe ==
    ASSUME IndInv, TypeOK', MainStep
    PROVE  IndInv'
<1> USE ActorFacts
<1>1. CASE onDestroy
  <2>1. /\ pc[Main] = "idle"
        /\ \A j \in Jobs : cancelled'[j] = (cancelled[j] \/ j = runJob)
        /\ \A a \in Actors : pc'[a] = IF a = Main THEN "stopForwarding" ELSE pc[a]
        /\ UNCHANGED <<engine, engineLock, live, kind, joinRun, jobs, runJob>>
    BY <1>1 DEF onDestroy, Cancel, CallCleanup, Goto, At, procs, spawned, fields,
       IndInv, TypeOK
  <2>2. CleanupPending'
    BY <2>1 DEF CleanupPending
  <2>3. LockHeld' /\ UnbornUntouched' /\ NoOrphanEngine'
    BY <2>1, NoneNotJob DEF IndInv, TypeOK, LockHeld, UnbornUntouched,
       OnlySessionsCancelled, NoOrphanEngine, At
  <2>4. OnlySessionsCancelled'
    BY <2>1, NoneNotJob DEF IndInv, TypeOK, OnlySessionsCancelled, At
  <2> QED
    BY <2>2, <2>3, <2>4 DEF IndInv, DoomedEngine
<1>2. CASE onDestroyCancelScope
  <2>1. /\ \A j \in Jobs : cancelled'[j] = (j =< jobs)
        /\ \A a \in Actors : pc'[a] = IF a = Main THEN "done" ELSE pc[a]
        /\ UNCHANGED <<engine, engineLock, live, kind, joinRun, jobs, runJob>>
    BY <1>2 DEF onDestroyCancelScope, Goto, procs, spawned, fields, IndInv, TypeOK
  <2>2. /\ \A j \in Jobs : pc'[j] = pc[j]
        /\ live \subseteq Jobs /\ engineLock \in {None} \cup Jobs
    BY <2>1, ActorFacts DEF IndInv, TypeOK
  <2>3. At(Main, "done")'
    BY <2>1, ActorFacts DEF At
  <2>4. OnlySessionsCancelled' /\ DoomedEngine'
    BY <2>1, <2>3, NoneNotJob DEF IndInv, TypeOK, OnlySessionsCancelled, DoomedEngine
  <2>5. UNCHANGED <<engine, engineLock, live>>
    BY <2>1
  <2>6. LockHeld' /\ NoOrphanEngine'
    <3>1. LockHeld'
      BY <2>2, <2>5 DEF IndInv, LockHeld
    <3>2. NoOrphanEngine'
      BY <2>2, <2>5 DEF IndInv, NoOrphanEngine, At
    <3> QED
      BY <3>1, <3>2
  <2>7. \A j \in Jobs : j > jobs' => ~cancelled'[j]
    BY <2>1, BoundsAssumption DEF IndInv, TypeOK, Jobs
  <2>8. UNCHANGED <<kind, jobs>>
    BY <2>1
  <2>9. UnbornUntouched'
    BY <2>2, <2>7, <2>8 DEF IndInv, UnbornUntouched
  <2> QED
    BY <2>4, <2>9, <2>6 DEF IndInv
<1> QED
    BY <1>1, <1>2, CleanupSafe DEF MainStep

LEMMA EngineExitsSafe ==
    ASSUME IndInv, TypeOK', NEW p \in Jobs, engineExits(p)
    PROVE  IndInv'
<1>1. /\ live' \subseteq live
      /\ UNCHANGED <<engine, engineLock, kind, joinRun, jobs, cancelled, runJob, pc>>
    BY DEF engineExits, fields, spawned
<1> QED
    BY <1>1 DEF IndInv, LockHeld, UnbornUntouched, OnlySessionsCancelled,
       NoOrphanEngine, DoomedEngine, CleanupPending, At

LEMMA InductiveInvariant == IndInv /\ [Next]_vars => IndInv'
<1> SUFFICES ASSUME IndInv, [Next]_vars PROVE IndInv'
    OBVIOUS
<1>1. TypeOK'
    BY TypeInvariant DEF IndInv
<1>2. CASE UNCHANGED vars
    BY <1>1, <1>2 DEF vars, fields, procs, spawned, IndInv, LockHeld,
       UnbornUntouched, OnlySessionsCancelled, NoOrphanEngine, DoomedEngine,
       CleanupPending, At
<1> QED
    BY <1>1, <1>2, CommandSafe, MainStepSafe, JobStepSafe, EngineExitsSafe DEF Next

LEMMA IndInvHolds == Spec => []IndInv
<1>1. Init => IndInv
  <2> SUFFICES ASSUME Init PROVE IndInv
    OBVIOUS
  <2>1. TypeOK
    BY TypeInit
  <2>2. LockHeld
    BY NoneNotJob, ActorFacts DEF Init, LockHeld
  <2>3. UnbornUntouched
    BY ActorFacts DEF Init, UnbornUntouched
  <2>4. OnlySessionsCancelled /\ NoOrphanEngine /\ DoomedEngine
    BY DEF Init, OnlySessionsCancelled, NoOrphanEngine, DoomedEngine
  <2> QED
    BY <2>1, <2>2, <2>3, <2>4 DEF IndInv
<1> QED
    BY <1>1, InductiveInvariant, PTL DEF Spec

\* The orphan fix of spawnEngine, for any number of sessions, teardowns and
\* lockdowns: no engine process ever runs that the service has not registered
\* or is not about to register under engineLock.
THEOREM EngineNeverOrphaned == Spec => []NoOrphanEngine
<1>1. IndInv => NoOrphanEngine
    BY DEF IndInv
<1> QED
    BY <1>1, IndInvHolds, PTL

\* Until onDestroy cancels the scope, the engine of a cancelled session always
\* has a teardown, a lockdown or a new session that is still going to kill it.
THEOREM CancelledEngineDoomed == Spec => []DoomedEngine
<1>1. IndInv => DoomedEngine
    BY DEF IndInv
<1> QED
    BY <1>1, IndInvHolds, PTL

-----------------------------------------------------------------------------
(* The kill switch.  Its inductive invariant follows the only session while *)
(* no teardown was launched; the only other coroutine there can then be is  *)
(* the lockdown that the session itself launched when it gave up.           *)

LockPath == {"new", "stopForwarding", "stopEngine", "swapTun", "blackhole",
             "joinRun", "done"}
SupervisePath ==
    {"supervise", "look", "watch", "backoff", "reap", "grace", "port", "lock",
     "start", "register", "waitOpen", "open", "verify", "connected", "failed", "done"}

\* What a coroutine does belongs to its kind: only a lockdown swaps the TUN, a
\* lockdown never closes it in a cleanup, only a teardown goes idle.
Place(i) ==
    /\ kind[i] = "unborn" => pc[i] = "unborn" /\ phase[i] = "connect"
    /\ kind[i] = "lock" => pc[i] \in LockPath
    /\ kind[i] = "lock" /\ pc[i] \in {"stopForwarding", "stopEngine"}
           => ret[i] = "swapTun"
    /\ pc[i] \in {"swapTun", "blackhole"} \/ ret[i] = "swapTun" => kind[i] = "lock"
    /\ pc[i] = "goIdle" \/ ret[i] = "goIdle" => kind[i] = "stop"

\* No lockdown without a session before it, no onDestroy without a teardown.
Origins ==
    /\ lastProfile # NoProfile => \E i \in Jobs : kind[i] = "run"
    /\ \A i \in Jobs : kind[i] = "lock" \/ profile[i] # NoProfile
                          => \E k \in Jobs : kind[k] = "run"
    /\ stopping => \E i \in Jobs : kind[i] = "stop"
    /\ pc[Main] # "idle" => stopping

\* j is the only session, and the user asked for nothing since.
Alone(j) ==
    /\ kind[j] = "run" /\ lastCommand = "connect"
    /\ \A i \in Jobs : kind[i] \in {"run", "stop"} => i = j

\* Session j has its TUN: from the self-test on, and while it supervises.
HasTun(j, up) ==
    /\ /\ phase[j] = "connect" /\ profile[j] \notin ProxyMode
       /\ pc[j] \in {"verify", "connected"}
       => tun # "none"
    /\ phase[j] = "supervise" /\ profile[j] \in KillSwitch \ ProxyMode =>
         \/ /\ pc[j] \in SupervisePath /\ up
            /\ pc[j] = "failed" => "spawn" \in Faults
         \* a spawn failed: startTunnel's handler reports Error and cleans up
         \/ /\ "spawn" \in Faults /\ state = "Error" /\ ret[j] = "done"
            /\ pc[j] \in {"stopForwarding", "stopEngine", "closeTun", "done"}
            /\ \A i \in Jobs : kind[i] # "lock"

Shield(j) ==
    /\ \A i \in Jobs : kind[i] = "lock" => pc[j] = "done"
    /\ \A i, k \in Jobs : kind[i] = "lock" /\ kind[k] = "lock" => i = k
    /\ HasTun(j, tun # "none" \/ \E i \in Jobs : At(i, "blackhole"))

ShieldInv ==
    /\ \A i \in Jobs : Place(i)
    /\ Origins
    /\ \A j \in Jobs : Alone(j) => Shield(j)

\* A step that launches nothing and moves at most job i.
Moves(i, label) ==
    /\ pc[i] # "unborn" /\ Goto(i, label)
    /\ \A k \in Jobs : k # i => ret'[k] = ret[k] /\ phase'[k] = phase[k]
    /\ UNCHANGED <<kind, profile, lastProfile, lastCommand>>

\* A session or a teardown moves.  While a session is alone it is this one.
LEMMA SessionMoves ==
    ASSUME TypeOK, ShieldInv, TypeOK', NEW i \in Jobs, NEW label \in PCs,
           Moves(i, label), kind[i] # "lock", pc[i] # "done",
           label \notin {"swapTun", "blackhole"}, ret'[i] # "swapTun",
           label = "goIdle" \/ ret'[i] = "goIdle" => kind[i] = "stop",
           stopping => stopping', stopping' => stopping \/ kind[i] = "stop",
           kind[i] = "run" /\ (\A k \in Jobs : kind[k] # "lock") =>
               (HasTun(i, tun # "none") => HasTun(i, tun # "none")')
    PROVE  ShieldInv'
<1> USE ActorFacts
<1>1. /\ \A a \in Actors : pc'[a] = IF a = i THEN label ELSE pc[a]
      /\ UNCHANGED <<kind, profile, lastProfile, lastCommand>>
    BY DEF Moves, Goto, TypeOK
<1>2. \A k \in Jobs : Place(k)'
    BY <1>1 DEF ShieldInv, Place, Moves
<1>3. Origins'
    BY <1>1 DEF ShieldInv, Origins
<1>4. ASSUME NEW j \in Jobs, Alone(j)' PROVE Shield(j)'
  <2>1. Alone(j) /\ Shield(j)
    BY <1>1, <1>4 DEF ShieldInv, Alone
  <2>2. i = j
    BY <1>1, <2>1 DEF Alone, ShieldInv, Place, Moves, TypeOK, Kinds
  <2>3. \A k \in Jobs : kind[k] # "lock"
    BY <2>1, <2>2 DEF Shield
  <2>4. \A k \in Jobs : ~At(k, "blackhole") /\ ~At(k, "blackhole")'
    BY <1>1, <1>2, <2>3 DEF ShieldInv, Place, At
  <2>5. HasTun(i, tun # "none")
    BY <2>1, <2>2, <2>4 DEF Shield, HasTun
  <2>6. HasTun(i, tun # "none")'
    BY <2>1, <2>2, <2>3, <2>5 DEF Alone
  <2>7. HasTun(j, tun # "none" \/ \E k \in Jobs : At(k, "blackhole"))'
    BY <2>2, <2>6 DEF HasTun
  <2> QED
    BY <1>1, <2>3, <2>7 DEF Shield
<1> QED
    BY <1>2, <1>3, <1>4 DEF ShieldInv

\* A lockdown moves along its path, and has replaced the TUN at its end.
LEMMA LockMoves ==
    ASSUME TypeOK, ShieldInv, TypeOK', NEW i \in Jobs, NEW label \in LockPath,
           Moves(i, label), kind[i] = "lock", ret'[i] # "goIdle",
           label \in {"stopForwarding", "stopEngine"} => ret'[i] = "swapTun",
           UNCHANGED <<phase, stopping>>,
           tun # "none" \/ At(i, "blackhole") => tun' # "none" \/ label = "blackhole"
    PROVE  ShieldInv'
<1> USE ActorFacts
<1>1. /\ \A a \in Actors : pc'[a] = IF a = i THEN label ELSE pc[a]
      /\ UNCHANGED <<kind, profile, lastProfile, lastCommand>>
    BY DEF Moves, Goto, TypeOK
<1>2. \A k \in Jobs : Place(k)'
    BY <1>1 DEF ShieldInv, Place, Moves, LockPath
<1>3. Origins'
    BY <1>1 DEF ShieldInv, Origins
<1>4. ASSUME NEW j \in Jobs, Alone(j)' PROVE Shield(j)'
  <2>1. Alone(j) /\ Shield(j) /\ j # i
    BY <1>1, <1>4 DEF ShieldInv, Alone
  <2>2. pc[j] = "done" /\ pc'[j] = "done"
    BY <1>1, <2>1 DEF Shield
  <2>3. \A k \in Jobs : At(k, "blackhole") => k = i
    BY <2>1 DEF Shield, ShieldInv, Place, At
  <2>4. tun # "none" \/ (\E k \in Jobs : At(k, "blackhole"))
        => tun' # "none" \/ At(i, "blackhole")'
    BY <1>1, <2>3 DEF At
  <2>5. HasTun(j, tun # "none" \/ \E k \in Jobs : At(k, "blackhole"))'
    BY <1>1, <2>1, <2>2, <2>4 DEF Shield, HasTun
  <2> QED
    BY <1>1, <2>1, <2>2, <2>5 DEF Shield
<1> QED
    BY <1>2, <1>3, <1>4 DEF ShieldInv

\* Once a teardown was launched no session is alone any more.
LEMMA TeardownMoves ==
    ASSUME TypeOK, ShieldInv, TypeOK', stopping, stopping',
           \A k \in Jobs : pc'[k] = pc[k] /\ ret'[k] = ret[k],
           UNCHANGED <<kind, profile, phase, lastProfile>>
    PROVE  ShieldInv'
BY DEF ShieldInv, Place, Origins, Alone

LEMMA SpawnShield ==
    ASSUME TypeOK, ShieldInv, TypeOK', NEW j \in Jobs, Spawn(j)
    PROVE  ShieldInv'
<1> DEFINE at == {"reap", "grace", "port", "lock", "start", "register"}
           to == {"grace", "port", "lock", "start", "register", "waitOpen", "done",
                  "rungFailed", "failed"}
<1>1. /\ pc[j] \in at
      /\ UNCHANGED <<kind, profile, lastProfile, lastCommand, ret, phase, tun, state,
                     stopping>>
    BY DEF Spawn, reapOrphanEngines, graceOver, portFree, portStaysBusy, spawnLock,
       spawnRefused, spawnStart, spawnStartFails, spawnRegister, Move, Report,
       TunnelStep, EngineStep, At, fields, spawned, ladder, env, tunnel
<1>2. PICK label \in to :
        /\ Goto(j, label)
        /\ label \in {"rungFailed", "failed"} => "spawn" \in Faults /\ label = Handler(j)
    BY DEF Spawn, reapOrphanEngines, graceOver, portFree, portStaysBusy, spawnLock,
       spawnRefused, spawnStart, spawnStartFails, spawnRegister, Move, Report,
       TunnelStep, EngineStep, Handler
<1>3. kind[j] # "lock"
    BY <1>1 DEF ShieldInv, Place, LockPath
<1>4. Moves(j, label)
    BY <1>1, <1>2 DEF Moves
<1>5. pc'[j] = label /\ ret'[j] # "swapTun" /\ (ret'[j] = "goIdle" => kind[j] = "stop")
    BY <1>1, <1>2, <1>3, ActorFacts DEF ShieldInv, Place, Goto, TypeOK
<1>6. HasTun(j, tun # "none") => HasTun(j, tun # "none")'
    BY <1>1, <1>2, <1>5 DEF HasTun, SupervisePath, Handler
<1> QED
    BY <1>1, <1>2, <1>3, <1>4, <1>5, <1>6, SessionMoves DEF PCs

LEMMA SuperviseShield ==
    ASSUME TypeOK, ShieldInv, TypeOK', NEW j \in Jobs, Supervise(j),
           ~retriesExhaustedLockdown(j)
    PROVE  ShieldInv'
<1> DEFINE at == {"supervise", "look", "watch", "backoff"}
<1>1. /\ pc[j] \in at
      /\ UNCHANGED <<kind, profile, lastProfile, lastCommand, ret, phase, tun, stopping>>
    BY DEF Supervise, superviseHead, superviseAlive, probeLeavesEngine,
       probeStopsEngine, superviseReconnect, backoffOver, retriesExhausted, GivesUp,
       Move, Report, TunnelStep, EngineStep, At, fields, spawned, ladder, env, tunnel
<1>2. PICK label \in at \cup {"reap", "done", "failed"} :
        Goto(j, label) /\ (label = "failed" => profile[j] \notin KillSwitch)
    BY DEF Supervise, superviseHead, superviseAlive, probeLeavesEngine,
       probeStopsEngine, superviseReconnect, backoffOver, retriesExhausted, GivesUp,
       Move, Report, TunnelStep, EngineStep
<1>3. kind[j] # "lock"
    BY <1>1 DEF ShieldInv, Place, LockPath
<1>4. Moves(j, label)
    BY <1>1, <1>2 DEF Moves
<1>5. pc'[j] = label /\ ret'[j] # "swapTun" /\ (ret'[j] = "goIdle" => kind[j] = "stop")
    BY <1>1, <1>2, <1>3, ActorFacts DEF ShieldInv, Place, Goto, TypeOK
<1>6. HasTun(j, tun # "none") => HasTun(j, tun # "none")'
    BY <1>1, <1>2, <1>5 DEF HasTun, SupervisePath
<1> QED
    BY <1>1, <1>2, <1>3, <1>4, <1>5, <1>6, SessionMoves DEF PCs

\* A session gives up under the kill switch: the lockdown it launches is the
\* first and only one.
LEMMA GiveUpShield ==
    ASSUME TypeOK, IndInv, ShieldInv, TypeOK', NEW j \in Jobs,
           retriesExhaustedLockdown(j)
    PROVE  ShieldInv'
<1> USE ActorFacts
<1> DEFINE n == jobs + 1
<1>1. /\ pc[j] = "look" /\ enterLockdown(j, "done", profile[j])
      /\ UNCHANGED <<tun, phase, ret, stopping, lastCommand>>
    BY DEF retriesExhaustedLockdown, GivesUp, At, tunnel, ladder, env
<1>2. n \in Jobs /\ n > jobs /\ n # j
    BY <1>1, BoundsAssumption
       DEF enterLockdown, Launch, IndInv, UnbornUntouched, TypeOK, Jobs
<1>3. /\ \A a \in Actors : pc'[a] = IF a = j THEN "done" ELSE IF a = n THEN "new" ELSE pc[a]
      /\ \A i \in Jobs : kind'[i] = IF i = n THEN "lock" ELSE kind[i]
      /\ \A i \in Jobs : profile'[i] = IF i = n THEN profile[j] ELSE profile[i]
      /\ UNCHANGED <<lastProfile, tun, phase, ret, stopping, lastCommand, state>>
    BY <1>1, <1>2 DEF enterLockdown, Launch, TypeOK
<1>4. pc[n] = "unborn" /\ kind[n] = "unborn"
    BY <1>2 DEF IndInv, UnbornUntouched
<1>5. \A i \in Jobs : Place(i)'
    BY <1>1, <1>2, <1>3, <1>4 DEF ShieldInv, Place, LockPath
<1>6. kind[j] = "run" \/ kind[j] = "stop"
    BY <1>1 DEF ShieldInv, Place, LockPath, TypeOK, Kinds
<1>7. Origins'
  <2>1. (\E i \in Jobs : kind[i] = "run") => (\E i \in Jobs : kind'[i] = "run")
    BY <1>2, <1>3, <1>4
  <2>2. (\E i \in Jobs : kind[i] = "stop") => (\E i \in Jobs : kind'[i] = "stop")
    BY <1>2, <1>3, <1>4
  <2>3. \E i \in Jobs : kind[i] = "run"
    <3>1. profile[j] # NoProfile
      BY ProfilesAssumption DEF retriesExhaustedLockdown
    <3> QED
      BY <3>1 DEF ShieldInv, Origins
  <2>4. pc'[Main] = pc[Main]
    BY <1>2, <1>3
  <2> QED
    BY <1>3, <2>1, <2>2, <2>3, <2>4 DEF ShieldInv, Origins
<1>8. ASSUME NEW i \in Jobs, Alone(i)' PROVE Shield(i)'
  <2>1. Alone(i) /\ i = j
    BY <1>2, <1>3, <1>4, <1>6, <1>8 DEF Alone
  <2>2. Shield(j) /\ \A k \in Jobs : kind[k] # "lock"
    BY <1>1, <2>1 DEF ShieldInv, Shield
  <2>3. \A k \in Jobs : ~At(k, "blackhole")
    BY <2>2 DEF ShieldInv, Place, At
  <2>4. HasTun(j, tun # "none")
    BY <2>2, <2>3 DEF Shield, HasTun
  <2>5. HasTun(j, tun # "none")'
    BY <1>1, <1>2, <1>3, <2>4 DEF HasTun, SupervisePath
  <2> QED
    BY <1>2, <1>3, <2>1, <2>2, <2>5 DEF Shield, HasTun
<1> QED
    BY <1>5, <1>7, <1>8 DEF ShieldInv

\* connectFlow, its ladder and its self-test: the TUN is up before the session
\* can become Connected, and a supervisor never comes back to the ladder.
LEMMA ConnectShield ==
    ASSUME TypeOK, ShieldInv, TypeOK', NEW j \in Jobs, Connect(j)
    PROVE  ShieldInv'
<1> USE ActorFacts
<1>1. CASE sessionTakesOver(j) \/ sessionStarts(j)
  <2>1. /\ kind[j] = "run" /\ pc[j] = "new" /\ UNCHANGED tun
        /\ UNCHANGED <<kind, profile, lastProfile, lastCommand, phase, stopping>>
    BY <1>1 DEF sessionTakesOver, sessionStarts, CallCleanup, Move, Report, TunnelStep,
       At, fields, spawned, ladder, env, tunnel
  <2>2. PICK label \in {"stopForwarding", "joinStop"} : Goto(j, label)
    BY <1>1 DEF sessionTakesOver, sessionStarts, CallCleanup, Move, Report, TunnelStep
  <2>3. ret' = ret \/ ret' = [ret EXCEPT ![j] = "joinRun"]
    BY <1>1 DEF sessionTakesOver, sessionStarts, CallCleanup, Move, Report, TunnelStep
  <2>4. pc'[j] = label /\ ret'[j] # "swapTun" /\ ret'[j] # "goIdle"
    BY <2>1, <2>2, <2>3 DEF ShieldInv, Place, Goto, TypeOK
  <2>5. Moves(j, label)
    BY <2>1, <2>2, <2>3 DEF Moves, TypeOK
  <2>6. HasTun(j, tun # "none") => HasTun(j, tun # "none")'
    BY <2>1, <2>2, <2>4 DEF HasTun, SupervisePath
  <2> QED
    BY <2>1, <2>2, <2>4, <2>5, <2>6, SessionMoves DEF PCs
<1>2. CASE previousStopJoined(j) \/ connectFlow(j) \/ tuicIncomplete(j)
           \/ connectAttempt(j) \/ rungFailed(j) \/ nextRung(j) \/ ladderExhausted(j)
           \/ tunDescriptorGone(j) \/ proxyStarted(j) \/ establishFails(j)
           \/ tunEstablished(j) \/ startTun2Socks(j)
  <2> DEFINE at == {"joinStop", "flow", "attempt", "rungFailed", "nextRung", "forward",
                    "establish"}
             to == {"flow", "attempt", "failed", "stopForwarding", "forward", "verify",
                    "rungFailed"}
  <2>1. /\ pc[j] \in at
        /\ UNCHANGED <<kind, profile, lastProfile, lastCommand, phase, stopping>>
    BY <1>2 DEF previousStopJoined, connectFlow, tuicIncomplete, connectAttempt,
       rungFailed, nextRung, ladderExhausted, tunDescriptorGone, proxyStarted,
       establishFails, tunEstablished, startTun2Socks, CallCleanup, Move, Report,
       TunnelStep, At, fields, spawned, ladder, env
  <2>2. PICK label \in to : Goto(j, label)
    BY <1>2 DEF previousStopJoined, connectFlow, tuicIncomplete, connectAttempt,
       rungFailed, nextRung, ladderExhausted, tunDescriptorGone, proxyStarted,
       establishFails, tunEstablished, startTun2Socks, CallCleanup, Move, Report,
       TunnelStep
  <2>3. ret' = ret \/ \E l \in {"reap", "nextRung"} : ret' = [ret EXCEPT ![j] = l]
    BY <1>2 DEF previousStopJoined, connectFlow, tuicIncomplete, connectAttempt,
       rungFailed, nextRung, ladderExhausted, tunDescriptorGone, proxyStarted,
       establishFails, tunEstablished, startTun2Socks, CallCleanup, Move, Report,
       TunnelStep
  <2>4. kind[j] # "lock"
    BY <2>1 DEF ShieldInv, Place, LockPath
  <2>5. /\ pc'[j] = label /\ ret'[j] # "swapTun"
        /\ ret'[j] = "goIdle" => kind[j] = "stop"
    BY <2>1, <2>2, <2>3, <2>4 DEF ShieldInv, Place, Goto, TypeOK
  <2>6. Moves(j, label)
    BY <2>1, <2>2, <2>3 DEF Moves, TypeOK
  <2>7. label = "verify" => tun' # "none" \/ profile[j] \in ProxyMode
    <3>1. CASE startTun2Socks(j) \/ proxyStarted(j)
      BY <3>1 DEF startTun2Socks, proxyStarted
    <3>2. CASE ~startTun2Socks(j) /\ ~proxyStarted(j)
      <4>1. \E l \in to \ {"verify"} : Goto(j, l)
        BY <1>2, <3>2 DEF previousStopJoined, connectFlow, tuicIncomplete,
           connectAttempt, rungFailed, nextRung, ladderExhausted, tunDescriptorGone,
           establishFails, tunEstablished, CallCleanup, Move, Report, TunnelStep
      <4> QED
        BY <2>5, <4>1 DEF Goto, TypeOK
    <3> QED
      BY <3>1, <3>2
  <2>8. HasTun(j, tun # "none") => HasTun(j, tun # "none")'
    BY <2>1, <2>2, <2>5, <2>7 DEF HasTun, SupervisePath
  <2> QED
    BY <2>1, <2>2, <2>4, <2>5, <2>6, <2>8, SessionMoves DEF PCs
<1>3. CASE reportConnecting(j) \/ portOpens(j) \/ portNeverOpens(j)
           \/ selfTestPasses(j) \/ selfTestFails(j)
  <2> DEFINE to == {"open", "establish", "verify", "rungFailed", "supervise", "connected"}
  <2>1. /\ pc[j] \in {"waitOpen", "open", "verify"}
        /\ UNCHANGED <<kind, profile, lastProfile, lastCommand, phase, stopping, ret, tun>>
    BY <1>3 DEF reportConnecting, portOpens, portNeverOpens, selfTestPasses,
       selfTestFails, Move, Report, TunnelStep, EngineStep, At, fields, spawned,
       ladder, env, tunnel
  <2>2. PICK label \in to :
          /\ Goto(j, label)
          /\ phase[j] = "connect" => label # "verify"
          /\ phase[j] # "connect" => label \notin {"establish", "rungFailed"}
          /\ label = "connected" => pc[j] = "verify"
    BY <1>3 DEF reportConnecting, portOpens, portNeverOpens, selfTestPasses,
       selfTestFails, Move, Report, TunnelStep, EngineStep, At
  <2>3. kind[j] # "lock"
    BY <2>1 DEF ShieldInv, Place, LockPath
  <2>4. /\ pc'[j] = label /\ ret'[j] # "swapTun"
        /\ ret'[j] = "goIdle" => kind[j] = "stop"
    BY <2>1, <2>2, <2>3 DEF ShieldInv, Place, Goto, TypeOK
  <2>5. Moves(j, label)
    BY <2>1, <2>2 DEF Moves
  <2>6. HasTun(j, tun # "none") => HasTun(j, tun # "none")'
    BY <2>1, <2>2, <2>4 DEF HasTun, SupervisePath
  <2> QED
    BY <2>1, <2>2, <2>3, <2>4, <2>5, <2>6, SessionMoves DEF PCs
<1>4. CASE reportConnected(j)
  <2>1. /\ pc[j] = "connected" /\ Goto(j, "supervise")
        /\ phase' = [phase EXCEPT ![j] = "supervise"]
        /\ UNCHANGED <<kind, profile, lastProfile, lastCommand, stopping, ret, tun>>
    BY <1>4 DEF reportConnected, At, fields, spawned, env, tunnel
  <2>2. kind[j] # "lock"
    BY <2>1 DEF ShieldInv, Place, LockPath
  <2>3. /\ pc'[j] = "supervise" /\ phase'[j] = "supervise" /\ ret'[j] # "swapTun"
        /\ ret'[j] = "goIdle" => kind[j] = "stop"
    BY <2>1, <2>2 DEF ShieldInv, Place, Goto, TypeOK
  <2>4. Moves(j, "supervise")
    BY <2>1 DEF Moves, TypeOK
  <2>5. HasTun(j, tun # "none") => HasTun(j, tun # "none")'
    BY <2>1, <2>3 DEF HasTun, SupervisePath, TypeOK
  <2> QED
    BY <2>1, <2>2, <2>3, <2>4, <2>5, SessionMoves DEF PCs
<1>5. CASE sessionFails(j)
  <2>1. /\ pc[j] = "failed" /\ Goto(j, "stopForwarding") /\ state' = "Error"
        /\ ret' = [ret EXCEPT ![j] = "done"]
        /\ UNCHANGED <<kind, profile, lastProfile, lastCommand, stopping, phase, tun>>
    BY <1>5 DEF sessionFails, CallCleanup, At, fields, spawned, ladder, env, tunnel
  <2>2. kind[j] # "lock"
    BY <2>1 DEF ShieldInv, Place, LockPath
  <2>3. pc'[j] = "stopForwarding" /\ ret'[j] = "done"
    BY <2>1 DEF Goto, TypeOK
  <2>4. Moves(j, "stopForwarding")
    BY <2>1 DEF Moves, TypeOK
  <2>5. (\A k \in Jobs : kind[k] # "lock") =>
            (HasTun(j, tun # "none") => HasTun(j, tun # "none")')
    BY <2>1, <2>3 DEF HasTun
  <2> QED
    BY <2>1, <2>2, <2>3, <2>4, <2>5, SessionMoves DEF PCs
<1> QED
    BY <1>1, <1>2, <1>3, <1>4, <1>5 DEF Connect

\* A cleanup by a coroutine.  Only a session that has reported Error closes the
\* TUN under the kill switch; a lockdown goes on to its swap.
LEMMA CleanupShield ==
    ASSUME TypeOK, ShieldInv, TypeOK', NEW j \in Jobs, Cleanup(j)
    PROVE  ShieldInv'
<1> USE ActorFacts
<1>1. UNCHANGED <<kind, profile, lastProfile, lastCommand, phase, stopping, ret, state>>
    BY DEF Cleanup, cleanupForwarders, cleanupEngine, cleanupTun, TunnelStep,
       EngineStep, fields, spawned, ladder, env
<1>2. ret'[j] = "swapTun" => kind[j] = "lock"
    BY <1>1 DEF ShieldInv, Place
<1>3. ret'[j] = "goIdle" => kind[j] = "stop"
    BY <1>1 DEF ShieldInv, Place
<1>4. CASE cleanupForwarders(j) \/ cleanupEngine(j)
  <2>1. pc[j] \in {"stopForwarding", "stopEngine"} /\ UNCHANGED tun
    BY <1>4 DEF cleanupForwarders, cleanupEngine, TunnelStep, EngineStep, At, tunnel
  <2>2. PICK label \in {"stopEngine", "swapTun", "closeTun"} :
          /\ Goto(j, label)
          /\ label = "swapTun" => ret[j] = "swapTun"
          /\ label = "closeTun" => ret[j] # "swapTun"
    BY <1>4 DEF cleanupForwarders, cleanupEngine, TunnelStep, EngineStep
  <2>3. pc'[j] = label /\ Moves(j, label)
    BY <1>1, <2>1, <2>2 DEF Moves, Goto, TypeOK
  <2>4. CASE kind[j] = "lock"
    <3>1. ret[j] = "swapTun" /\ label \in LockPath
      BY <2>1, <2>2, <2>4 DEF ShieldInv, Place, LockPath
    <3> QED
      BY <1>1, <1>3, <2>1, <2>2, <2>3, <2>4, <3>1, LockMoves DEF At
  <2>5. CASE kind[j] # "lock"
    <3>1. HasTun(j, tun # "none") => HasTun(j, tun # "none")'
      BY <1>1, <1>2, <2>1, <2>2, <2>3, <2>5 DEF HasTun, SupervisePath
    <3> QED
      BY <1>1, <1>2, <1>3, <2>1, <2>2, <2>3, <2>5, <3>1, SessionMoves DEF PCs
  <2> QED
    BY <2>4, <2>5
<1>5. CASE cleanupTun(j)
  <2>1. pc[j] = "closeTun" /\ Goto(j, ret[j])
    BY <1>5 DEF cleanupTun, TunnelStep, At
  <2>2. kind[j] # "lock"
    BY <2>1 DEF ShieldInv, Place, LockPath
  <2>3. ret[j] \in Returns /\ ret[j] \in PCs /\ pc'[j] = ret[j] /\ Moves(j, ret[j])
    BY <1>1, <2>1 DEF Moves, Goto, TypeOK, Returns, PCs
  <2>4. HasTun(j, tun # "none") => HasTun(j, tun # "none")'
    BY <1>1, <2>1, <2>3 DEF HasTun, SupervisePath, Returns
  <2> QED
    BY <1>1, <1>2, <1>3, <2>1, <2>2, <2>3, <2>4, SessionMoves DEF Returns
<1> QED
    BY <1>4, <1>5 DEF Cleanup

\* A coroutine ends, or waits for another one no longer.
LEMMA MachineryShield ==
    ASSUME TypeOK, ShieldInv, TypeOK', NEW j \in Jobs,
           neverDispatched(j) \/ cancelledWhileSuspended(j) \/ joinFinished(j)
    PROVE  ShieldInv'
<1> USE ActorFacts
<1>1. /\ UNCHANGED <<kind, profile, lastProfile, lastCommand, phase, stopping, ret, state, tun>>
      /\ pc[j] \in Suspending \cup {"new"}
    BY DEF neverDispatched, cancelledWhileSuspended, joinFinished, Move, Report,
       TunnelStep, At, fields, spawned, ladder, env, tunnel, Suspending
<1>2. PICK label \in {"done", "joinStop"} :
        Goto(j, label) /\ (label = "joinStop" => kind[j] = "run" /\ pc[j] = "joinRun")
    BY DEF neverDispatched, cancelledWhileSuspended, joinFinished, Move, Report,
       TunnelStep, At
<1>3. pc'[j] = label /\ Moves(j, label)
    BY <1>1, <1>2 DEF Moves, Goto, TypeOK, Suspending
<1>4. /\ ret'[j] = "swapTun" => kind[j] = "lock"
      /\ ret'[j] = "goIdle" => kind[j] = "stop"
    BY <1>1 DEF ShieldInv, Place
<1>5. CASE kind[j] = "lock"
    BY <1>1, <1>2, <1>3, <1>4, <1>5, LockMoves DEF At, LockPath, Suspending
<1>6. CASE kind[j] # "lock"
  <2>1. HasTun(j, tun # "none") => HasTun(j, tun # "none")'
    BY <1>1, <1>2, <1>3 DEF HasTun, SupervisePath, Suspending
  <2> QED
    BY <1>1, <1>2, <1>3, <1>4, <1>6, <2>1, SessionMoves DEF PCs, Suspending
<1> QED
    BY <1>5, <1>6

LEMMA TeardownShield ==
    ASSUME TypeOK, ShieldInv, TypeOK', NEW j \in Jobs, Teardown(j),
           "establish" \notin Faults
    PROVE  ShieldInv'
<1> USE ActorFacts
<1>1. UNCHANGED <<kind, profile, lastProfile, lastCommand, phase>>
    BY DEF Teardown, stopStarts, stopGoesIdle, lockdownClosesTun, lockdownBlackhole,
       CallCleanup, TunnelStep, fields, spawned, ladder, env
<1>2. CASE stopStarts(j)
  <2>1. /\ pc[j] = "new" /\ kind[j] \in {"stop", "lock"} /\ Goto(j, "stopForwarding")
        /\ ret' = [ret EXCEPT ![j] = IF kind[j] = "stop" THEN "goIdle" ELSE "swapTun"]
        /\ UNCHANGED <<tun, stopping>>
    BY <1>2 DEF stopStarts, CallCleanup, At, tunnel, env
  <2>2. Moves(j, "stopForwarding")
    BY <1>1, <2>1 DEF Moves, TypeOK
  <2>3. ret'[j] = IF kind[j] = "stop" THEN "goIdle" ELSE "swapTun"
    BY <2>1 DEF TypeOK
  <2>4. CASE kind[j] = "lock"
    BY <1>1, <2>1, <2>2, <2>3, <2>4, LockMoves DEF At, LockPath
  <2>5. CASE kind[j] = "stop"
    BY <1>1, <2>1, <2>2, <2>3, <2>5, SessionMoves DEF PCs
  <2> QED
    BY <2>1, <2>4, <2>5
<1>3. CASE stopGoesIdle(j)
  <2>1. pc[j] = "goIdle" /\ Goto(j, "joinRun") /\ stopping' = TRUE /\ UNCHANGED ret
    BY <1>3 DEF stopGoesIdle, At
  <2>2. kind[j] = "stop" /\ ret[j] # "swapTun"
    BY <2>1 DEF ShieldInv, Place
  <2>3. Moves(j, "joinRun")
    BY <1>1, <2>1 DEF Moves
  <2> QED
    BY <1>1, <2>1, <2>2, <2>3, SessionMoves DEF PCs
<1>4. CASE lockdownClosesTun(j) \/ lockdownBlackhole(j)
  <2>1. /\ pc[j] \in {"swapTun", "blackhole"} /\ UNCHANGED <<ret, stopping>>
        /\ \/ Goto(j, "blackhole")
           \/ Goto(j, "joinRun") /\ tun' = "blackhole"
    BY <1>4 DEF lockdownClosesTun, lockdownBlackhole, TunnelStep, At, env
  <2>2. kind[j] = "lock" /\ ret[j] # "goIdle"
    BY <2>1 DEF ShieldInv, Place
  <2>3. PICK label \in {"blackhole", "joinRun"} :
          Goto(j, label) /\ (tun' # "none" \/ label = "blackhole")
    BY <2>1
  <2>4. Moves(j, label)
    BY <1>1, <2>1, <2>3 DEF Moves
  <2> QED
    BY <1>1, <2>1, <2>2, <2>3, <2>4, LockMoves DEF LockPath
<1> QED
    BY <1>2, <1>3, <1>4 DEF Teardown

\* A coroutine the main thread launches: the first session is alone, and any
\* other command ends the time in which one was.
LEMMA LaunchShield ==
    ASSUME TypeOK, IndInv, ShieldInv, TypeOK', NEW k \in {"run", "stop", "lock"},
           NEW p, NEW run, NEW stop, Launch(k, p, run, stop),
           pc' = [pc EXCEPT ![jobs + 1] = "new"],
           lastProfile' # NoProfile \/ p # NoProfile
               => k = "run" \/ lastProfile # NoProfile,
           k = "lock" => lastProfile # NoProfile,
           k = "run" \/ lastCommand' # "connect",
           UNCHANGED <<tun, phase, ret, stopping>>
    PROVE  ShieldInv'
<1> USE ActorFacts
<1> DEFINE n == jobs + 1
<1>1. n \in Jobs /\ n > jobs
    BY BoundsAssumption DEF Launch, TypeOK, Jobs
<1>2. /\ \A a \in Actors : pc'[a] = IF a = n THEN "new" ELSE pc[a]
      /\ \A i \in Jobs : kind'[i] = IF i = n THEN k ELSE kind[i]
      /\ \A i \in Jobs : profile'[i] = IF i = n THEN p ELSE profile[i]
    BY <1>1 DEF Launch, TypeOK
<1>3. pc[n] = "unborn" /\ kind[n] = "unborn"
    BY <1>1 DEF IndInv, UnbornUntouched
<1>4. \A i \in Jobs : Place(i)'
    BY <1>1, <1>2, <1>3 DEF ShieldInv, Place, LockPath
<1>5. Origins'
  <2>1. (\E i \in Jobs : kind[i] = "run") \/ k = "run" => \E i \in Jobs : kind'[i] = "run"
    BY <1>1, <1>2, <1>3
  <2>2. (\E i \in Jobs : kind[i] = "stop") => \E i \in Jobs : kind'[i] = "stop"
    BY <1>1, <1>2, <1>3
  <2>3. pc'[Main] = pc[Main]
    BY <1>1, <1>2
  <2> QED
    BY <1>2, <2>1, <2>2, <2>3 DEF ShieldInv, Origins
<1>6. ASSUME NEW j \in Jobs, Alone(j)' PROVE Shield(j)'
  <2>1. k = "run" /\ j = n
    BY <1>1, <1>2, <1>6 DEF Alone
  <2>2. \A i \in Jobs : kind[i] # "run"
    BY <1>2, <1>3, <1>6, <2>1 DEF Alone
  <2>3. \A i \in Jobs : kind'[i] # "lock"
    BY <1>2, <2>1, <2>2 DEF ShieldInv, Origins
  <2>4. phase'[j] = "connect" /\ pc'[j] = "new"
    BY <1>1, <1>2, <1>3, <2>1 DEF ShieldInv, Place
  <2> QED
    BY <2>3, <2>4 DEF Shield, HasTun
<1> QED
    BY <1>4, <1>5, <1>6 DEF ShieldInv

LEMMA CommandShield ==
    ASSUME TypeOK, IndInv, ShieldInv, TypeOK',
           (\E p \in Profiles : onStartConnect(p)) \/ onStartDisconnect \/ onRevoke
    PROVE  ShieldInv'
<1> USE ActorFacts
<1>1. UNCHANGED <<tun, phase, ret, stopping>>
    BY DEF onStartConnect, onStartDisconnect, onRevoke, Command, tunnel, ladder
<1>2. CASE \E p \in Profiles : onStartConnect(p)
  <2>1. PICK p \in Profiles : onStartConnect(p)
    BY <1>2
  <2>2. Launch("run", p, runJob, stopJob) /\ pc' = [pc EXCEPT ![jobs + 1] = "new"]
    BY <2>1 DEF onStartConnect, startTunnel, Goto
  <2> QED
    BY <1>1, <2>2, LaunchShield
<1>3. CASE Command("disconnect") /\ stopEverything
  <2>1. /\ Launch("stop", lastProfile, runJob, None)
        /\ pc' = [pc EXCEPT ![jobs + 1] = "new"]
        /\ lastProfile' = lastProfile /\ lastCommand' = "disconnect"
    BY <1>3 DEF stopEverything, Command, Goto
  <2> QED
    BY <1>1, <2>1, LaunchShield
<1>4. CASE Command("disconnect") /\ lastProfile \in Strict
           /\ enterLockdown(Main, "idle", lastProfile)
  <2>1. /\ Launch("lock", lastProfile, runJob, None)
        /\ pc' = [pc EXCEPT ![jobs + 1] = "new", ![Main] = "idle"] /\ pc[Main] = "idle"
        /\ lastProfile' = lastProfile /\ lastCommand' = "disconnect"
    BY <1>4 DEF enterLockdown, Command, At
  <2>2. jobs + 1 \in Jobs /\ jobs + 1 # Main
    BY <2>1, BoundsAssumption DEF Launch, TypeOK, Jobs, Main
  <2>3. pc' = [pc EXCEPT ![jobs + 1] = "new"]
    BY <2>1, <2>2 DEF TypeOK
  <2>4. lastProfile # NoProfile
    BY <1>4, ProfilesAssumption
  <2> QED
    BY <1>1, <2>1, <2>3, <2>4, LaunchShield
<1> QED
    BY <1>2, <1>3, <1>4 DEF onStartDisconnect, onRevoke

LEMMA MainStepShield ==
    ASSUME TypeOK, ShieldInv, TypeOK', MainStep
    PROVE  ShieldInv'
<1> USE ActorFacts
<1>1. UNCHANGED <<kind, profile, phase, lastProfile, stopping>>
    BY DEF MainStep, onDestroy, onDestroyCancelScope, Cleanup, cleanupForwarders,
       cleanupEngine, cleanupTun, CallCleanup, TunnelStep, EngineStep, fields, spawned,
       ladder, env
<1>2. stopping
    BY DEF MainStep, onDestroy, onDestroyCancelScope, Cleanup, cleanupForwarders,
       cleanupEngine, cleanupTun, At, ShieldInv, Origins
<1>3. \A k \in Jobs : pc'[k] = pc[k]
  <2>1. PICK label : Goto(Main, label)
    BY DEF MainStep, onDestroy, onDestroyCancelScope, Cleanup, cleanupForwarders,
       cleanupEngine, cleanupTun, CallCleanup, TunnelStep, EngineStep
  <2> QED
    BY <2>1 DEF Goto, TypeOK
<1>4. \A k \in Jobs : ret'[k] = ret[k]
  <2>1. ret' = ret \/ \E l \in Returns : ret' = [ret EXCEPT ![Main] = l]
    BY DEF MainStep, onDestroy, onDestroyCancelScope, Cleanup, cleanupForwarders,
       cleanupEngine, cleanupTun, CallCleanup, TunnelStep, EngineStep, Returns
  <2> QED
    BY <2>1 DEF TypeOK
<1> QED
    BY <1>1, <1>2, <1>3, <1>4, TeardownMoves

LEMMA ShieldStep ==
    ASSUME "establish" \notin Faults, IndInv, ShieldInv, [Next]_vars
    PROVE  ShieldInv'
<1> USE ActorFacts
<1>1. TypeOK /\ TypeOK'
    BY TypeInvariant DEF IndInv
<1>2. CASE UNCHANGED vars \/ \E p \in Jobs : engineExits(p)
  <2>1. UNCHANGED <<kind, profile, phase, lastProfile, stopping, pc, ret, tun, state,
                    lastCommand>>
    BY <1>2 DEF vars, engineExits, fields, tunnel, spawned, ladder, env
  <2> QED
    BY <2>1 DEF ShieldInv, Place, Origins, Alone, Shield, HasTun, At
<1>3. ASSUME NEW j \in Jobs, JobStep(j) PROVE ShieldInv'
    BY <1>1, <1>3, MachineryShield, CleanupShield, SpawnShield, ConnectShield,
       SuperviseShield, GiveUpShield, TeardownShield DEF JobStep
<1> QED
    BY <1>1, <1>2, <1>3, CommandShield, MainStepShield DEF Next

LEMMA ShieldInit == Init => ShieldInv
<1> SUFFICES ASSUME Init PROVE ShieldInv
    OBVIOUS
<1>1. \A i \in Jobs : kind[i] = "unborn" /\ pc[i] = "unborn" /\ ret[i] = "done"
                      /\ phase[i] = "connect" /\ profile[i] = NoProfile
    BY ActorFacts DEF Init
<1>2. pc[Main] = "idle" /\ ~stopping /\ lastProfile = NoProfile
    BY ActorFacts DEF Init
<1> QED
    BY <1>1, <1>2 DEF ShieldInv, Place, Origins, Alone

LEMMA ShieldHolds == "establish" \notin Faults => (Spec => []ShieldInv)
<1> SUFFICES ASSUME "establish" \notin Faults PROVE Spec => []ShieldInv
    OBVIOUS
<1>1. IndInv /\ ShieldInv /\ [Next]_vars => ShieldInv'
    BY ShieldStep
<1> QED
    BY <1>1, ShieldInit, IndInvHolds, PTL DEF Spec

\* The kill switch, for any number of reconnects and whatever call fails except
\* the one that establishes the blackhole itself, whose result
\* ensureLockdownTun does not look at: the TUN is up until startTunnel's handler
\* reports Error.
THEOREM KillSwitchKept == "establish" \notin Faults => (Spec => []KillSwitchUntilError)
<1> SUFFICES ASSUME "establish" \notin Faults PROVE Spec => []KillSwitchUntilError
    OBVIOUS
<1>1. ShieldInv => KillSwitchUntilError
    BY DEF ShieldInv, Shield, HasTun, Alone, Guarded, KillSwitchUntilError
<1> QED
    BY <1>1, ShieldHolds, PTL

-----------------------------------------------------------------------------
(* The engine processes as EngineSlot promises them.  Most steps are not    *)
(* about engines, or end some.                                              *)

LEMMA BarStep ==
    ASSUME UNCHANGED <<live, engineLock, engine>>,
           \A j \in Jobs : cancelled[j] => cancelled'[j]
    PROVE  Slot!Next
<1>1. /\ {j \in Jobs : cancelled'[j]} \in SUBSET Jobs
      /\ {j \in Jobs : cancelled[j]} \subseteq {j \in Jobs : cancelled'[j]}
    OBVIOUS
<1>2. Slot!Bar
    BY <1>1 DEF Slot!Bar
<1> QED
    BY <1>2 DEF Slot!Next

LEMMA StopStep ==
    ASSUME live' \subseteq live, UNCHANGED <<engineLock, engine, cancelled>>
    PROVE  Slot!Next
<1>1. Slot!Stop
    BY DEF Slot!Stop
<1> QED
    BY <1>1 DEF Slot!Next

\* Outside the critical section the registered engine is the only one, in it
\* there is none but the one just started.
LEMMA LiveFacts ==
    ASSUME IndInv
    PROVE  /\ engineLock = None => live \ {engine} = {}
           /\ \A j \in Jobs : pc[j] = "start" =>
                 engineLock = j /\ live = {} /\ engine = None
           /\ \A j \in Jobs : pc[j] = "register" => engineLock = j /\ live \subseteq {j}
<1>1. live \subseteq Jobs /\ LockHeld /\ NoOrphanEngine
    BY DEF IndInv, TypeOK
<1>2. engineLock = None => live \ {engine} = {}
    BY <1>1, NoneNotJob DEF NoOrphanEngine
<1>3. ASSUME NEW j \in Jobs, pc[j] = "start"
      PROVE  engineLock = j /\ live = {} /\ engine = None
  <2>1. engineLock = j /\ engine = None
    BY <1>1, <1>3, NoneNotJob DEF LockHeld, NoOrphanEngine
  <2> QED
    BY <1>1, <1>3, <2>1, NoneNotJob DEF NoOrphanEngine, At
<1>4. ASSUME NEW j \in Jobs, pc[j] = "register"
      PROVE  engineLock = j /\ live \subseteq {j}
  <2>1. engineLock = j /\ engine = None
    BY <1>1, <1>4, NoneNotJob DEF LockHeld, NoOrphanEngine
  <2> QED
    BY <1>1, <2>1, NoneNotJob DEF NoOrphanEngine, At
<1> QED
    BY <1>2, <1>3, <1>4

LEMMA CleanupSlot ==
    ASSUME IndInv, NEW a \in Actors, Cleanup(a)
    PROVE  Slot!Next
<1>1. CASE cleanupForwarders(a) \/ cleanupTun(a)
  <2>1. UNCHANGED <<live, engineLock, engine, cancelled>>
    BY <1>1 DEF cleanupForwarders, cleanupTun, TunnelStep, procs
  <2> QED
    BY <2>1, BarStep
<1>2. CASE cleanupEngine(a)
  <2>1. /\ engineLock = None /\ live' = {} /\ engine' = None
        /\ engineLock' = engineLock /\ cancelled' = cancelled
    BY <1>2, LiveFacts DEF cleanupEngine, EngineStep
  <2>2. Slot!Clear
    BY <2>1 DEF Slot!Clear
  <2> QED
    BY <2>2 DEF Slot!Next
<1> QED
    BY <1>1, <1>2 DEF Cleanup

\* The critical section of spawnEngine.
LEMMA SpawnSlot ==
    ASSUME IndInv, NEW j \in Jobs, Spawn(j)
    PROVE  Slot!Next
<1>1. CASE graceOver(j) \/ portFree(j) \/ portStaysBusy(j) \/ spawnRefused(j)
  <2>1. UNCHANGED <<live, engineLock, engine, cancelled>>
    BY <1>1 DEF graceOver, portFree, portStaysBusy, spawnRefused, Move, Report,
       TunnelStep, procs
  <2> QED
    BY <2>1, BarStep
<1>2. CASE reapOrphanEngines(j)
  <2>1. live' = {} /\ UNCHANGED <<engineLock, engine, cancelled>>
    BY <1>2 DEF reapOrphanEngines
  <2> QED
    BY <2>1, StopStep
<1>3. CASE spawnLock(j)
  <2>1. /\ engineLock = None /\ ~cancelled[j] /\ live' = {} /\ engine' = None
        /\ engineLock' = j /\ cancelled' = cancelled
    BY <1>3, LiveFacts DEF spawnLock, EngineStep
  <2>2. Slot!Take(j)
    BY <2>1 DEF Slot!Take
  <2> QED
    BY <2>2 DEF Slot!Next
<1>4. CASE spawnStart(j)
  <2>1. /\ engineLock = j /\ live = {} /\ live' = {j}
        /\ UNCHANGED <<engine, engineLock, cancelled>>
    BY <1>4, LiveFacts DEF spawnStart, EngineStep, At
  <2>2. Slot!Start(j)
    BY <2>1 DEF Slot!Start
  <2> QED
    BY <2>2 DEF Slot!Next
<1>5. CASE spawnStartFails(j)
  <2>1. /\ engineLock = j /\ live = {} /\ engine = None /\ engineLock' = None
        /\ UNCHANGED <<engine, live, cancelled>>
    BY <1>5, LiveFacts DEF spawnStartFails, EngineStep, At
  <2>2. Slot!Abort(j)
    BY <2>1 DEF Slot!Abort
  <2> QED
    BY <2>2 DEF Slot!Next
<1>6. CASE spawnRegister(j)
  <2>1. /\ engineLock = j /\ live \subseteq {j} /\ engine' = j /\ engineLock' = None
        /\ UNCHANGED <<live, cancelled>>
    BY <1>6, LiveFacts DEF spawnRegister, EngineStep, At
  <2>2. Slot!Fill(j)
    BY <2>1 DEF Slot!Fill
  <2> QED
    BY <2>2 DEF Slot!Next
<1> QED
    BY <1>1, <1>2, <1>3, <1>4, <1>5, <1>6 DEF Spawn

LEMMA ConnectSlot ==
    ASSUME IndInv, NEW j \in Jobs, Connect(j)
    PROVE  Slot!Next
<1>1. CASE sessionTakesOver(j)
  <2>1. /\ UNCHANGED <<live, engineLock, engine>>
        /\ \A i \in Jobs : cancelled'[i] = (cancelled[i] \/ i = joinRun[j])
    BY <1>1 DEF sessionTakesOver, Cancel, CallCleanup, procs
  <2> QED
    BY <2>1, BarStep
<1>2. CASE \/ sessionStarts(j) \/ previousStopJoined(j) \/ connectFlow(j)
           \/ tuicIncomplete(j) \/ reportConnecting(j) \/ portOpens(j)
           \/ portNeverOpens(j) \/ tunDescriptorGone(j) \/ establishFails(j)
           \/ selfTestPasses(j) \/ ladderExhausted(j)
  <2>1. UNCHANGED <<live, engineLock, engine, cancelled>>
    BY <1>2 DEF sessionStarts, previousStopJoined, connectFlow, tuicIncomplete,
       reportConnecting, portOpens, portNeverOpens, tunDescriptorGone,
       establishFails, selfTestPasses, ladderExhausted, Move, Report,
       TunnelStep, procs
  <2> QED
    BY <2>1, BarStep
<1>3. CASE \/ connectAttempt(j) \/ tunEstablished(j) \/ startTun2Socks(j)
           \/ proxyStarted(j) \/ reportConnected(j) \/ rungFailed(j)
           \/ nextRung(j) \/ sessionFails(j)
  <2>1. UNCHANGED <<live, engineLock, engine, cancelled>>
    BY <1>3 DEF connectAttempt, tunEstablished, startTun2Socks, proxyStarted,
       reportConnected, rungFailed, nextRung, sessionFails, CallCleanup,
       TunnelStep, procs
  <2> QED
    BY <2>1, BarStep
<1>4. CASE selfTestFails(j)
  <2>1. live' \subseteq live /\ UNCHANGED <<engineLock, engine, cancelled>>
    BY <1>4 DEF selfTestFails, EngineStep
  <2> QED
    BY <2>1, StopStep
<1> QED
    BY <1>1, <1>2, <1>3, <1>4 DEF Connect

LEMMA SuperviseSlot ==
    ASSUME IndInv, NEW j \in Jobs, Supervise(j)
    PROVE  Slot!Next
<1>1. CASE \/ superviseHead(j) \/ superviseAlive(j) \/ probeLeavesEngine(j)
           \/ superviseReconnect(j) \/ backoffOver(j) \/ retriesExhausted(j)
  <2>1. UNCHANGED <<live, engineLock, engine, cancelled>>
    BY <1>1 DEF superviseHead, superviseAlive, probeLeavesEngine,
       superviseReconnect, backoffOver, retriesExhausted, Move, Report,
       TunnelStep, procs
  <2> QED
    BY <2>1, BarStep
<1>2. CASE probeStopsEngine(j)
  <2>1. live' \subseteq live /\ UNCHANGED <<engineLock, engine, cancelled>>
    BY <1>2 DEF probeStopsEngine, EngineStep
  <2> QED
    BY <2>1, StopStep
<1>3. CASE retriesExhaustedLockdown(j)
  <2>1. /\ UNCHANGED <<live, engineLock, engine>>
        /\ \A i \in Jobs : cancelled'[i] = (cancelled[i] \/ i = runJob)
    BY <1>3 DEF retriesExhaustedLockdown, enterLockdown, Cancel, procs
  <2> QED
    BY <2>1, BarStep
<1> QED
    BY <1>1, <1>2, <1>3 DEF Supervise

LEMMA TeardownSlot ==
    ASSUME IndInv, NEW j \in Jobs,
           \/ Teardown(j) \/ neverDispatched(j) \/ cancelledWhileSuspended(j)
           \/ joinFinished(j)
    PROVE  Slot!Next
<1>1. UNCHANGED <<live, engineLock, engine, cancelled>>
    BY DEF Teardown, stopStarts, stopGoesIdle, lockdownClosesTun, lockdownBlackhole,
       neverDispatched, cancelledWhileSuspended, joinFinished, CallCleanup, Move,
       Report, TunnelStep, procs
<1> QED
    BY <1>1, BarStep

\* Commands and onDestroy cancel sessions and leave the engines to the cleanups.
LEMMA MainSlot ==
    ASSUME IndInv,
           \/ \E p \in Profiles : onStartConnect(p)
           \/ onStartDisconnect \/ onRevoke \/ onDestroy \/ onDestroyCancelScope
    PROVE  Slot!Next
<1>1. CASE \E p \in Profiles : onStartConnect(p)
  <2>1. UNCHANGED <<live, engineLock, engine, cancelled>>
    BY <1>1 DEF onStartConnect, Command, startTunnel, procs
  <2> QED
    BY <2>1, BarStep
<1>2. CASE onStartDisconnect \/ onRevoke \/ onDestroy
  <2>1. UNCHANGED <<live, engineLock, engine>>
    BY <1>2 DEF onStartDisconnect, onRevoke, onDestroy, Command, CallCleanup, procs
  <2>2. Cancel(runJob)
    BY <1>2 DEF onStartDisconnect, onRevoke, onDestroy, stopEverything, enterLockdown
  <2>3. \A i \in Jobs : cancelled'[i] = (cancelled[i] \/ i = runJob)
    BY <2>2 DEF Cancel
  <2> QED
    BY <2>1, <2>3, BarStep
<1>3. CASE onDestroyCancelScope
  <2>1. UNCHANGED <<live, engineLock, engine>>
    BY <1>3 DEF onDestroyCancelScope, procs
  <2>2. \A i \in Jobs : cancelled'[i] = (i =< jobs)
    BY <1>3 DEF onDestroyCancelScope
  <2>3. \A i \in Jobs : i > jobs => ~cancelled[i]
    BY DEF IndInv, UnbornUntouched
  <2>4. \A i \in Jobs : i =< jobs \/ i > jobs
    BY BoundsAssumption DEF IndInv, TypeOK, Jobs
  <2> QED
    BY <2>1, <2>2, <2>3, <2>4, BarStep
<1> QED
    BY <1>1, <1>2, <1>3

LEMMA SlotInit == Init => Slot!Init
BY DEF Init, Slot!Init

LEMMA SlotStep == IndInv /\ [Next]_vars => Slot!Next
<1> SUFFICES ASSUME IndInv, [Next]_vars PROVE Slot!Next
    OBVIOUS
<1>1. CASE UNCHANGED vars
  <2>1. UNCHANGED <<live, engineLock, engine, cancelled>>
    BY <1>1 DEF vars, procs
  <2> QED
    BY <2>1, BarStep
<1>2. ASSUME NEW j \in Jobs, JobStep(j) PROVE Slot!Next
  <2>1. j \in Actors
    BY ActorFacts
  <2> QED
    BY <1>2, <2>1, CleanupSlot, SpawnSlot, ConnectSlot, SuperviseSlot, TeardownSlot
       DEF JobStep
<1>3. CASE MainStep
    BY <1>3, ActorFacts, MainSlot, CleanupSlot DEF MainStep
<1>4. ASSUME NEW j \in Jobs, engineExits(j) PROVE Slot!Next
  <2>1. live' \subseteq live /\ UNCHANGED <<engineLock, engine, cancelled>>
    BY <1>4 DEF engineExits
  <2> QED
    BY <2>1, StopStep
<1> QED
    BY <1>1, <1>2, <1>3, <1>4, MainSlot DEF Next

\* The engine processes keep to the slot: spawnEngine's critical section is
\* entered by one session at a time and never by a cancelled one, the engine is
\* started there after every other was stopped, and a cleanup that gets the lock
\* leaves no engine, for any number of sessions, teardowns and failures.
THEOREM SlotImplemented == Spec => SlotSpec
<1>1. IndInv /\ [Next]_vars =>
         [Slot!Next]_<<live, engineLock, engine, {j \in Jobs : cancelled[j]}>>
    BY SlotStep
<1> QED
    BY <1>1, SlotInit, IndInvHolds, PTL DEF Spec, SlotSpec, Slot!Spec

=============================================================================
