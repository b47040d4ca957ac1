-------------------------------- MODULE WgLoop --------------------------------
(***************************************************************************)
(* The WireGuard engine's choice of endpoint: run_wireguard.  Endpoints    *)
(* that failed twice in a row, and endpoints a migrate request left, are   *)
(* parked: kept out of the scan for a cooldown, counted in clock ticks     *)
(* that remain, and until the top of the loop next removes the entry.      *)
(* verify_endpoint is a handshake and a data-plane check, the ones a new   *)
(* tunnel has to pass, so one predicate stands for both.  Sleeps are       *)
(* stuttering.                                                             *)
(***************************************************************************)
EXTENDS Naturals, FiniteSets

CONSTANTS
    Endpoints, None,
    Pins,           \* what SOILDTUNNEL_WG_PEER may be set to, None among it
    Assigned,       \* SOILDTUNNEL_TEAM_ENDPOINT, or None
    MaxFails,       \* MAX_CONSECUTIVE_FAILS
    Cooldown,       \* wg_endpoint_cooldown, in ticks
    MaxKills        \* bound: kills of the engine

ASSUME WgAssumption ==
    /\ None \notin Endpoints
    /\ Pins \subseteq Endpoints \cup {None} /\ Assigned \in Endpoints \cup {None}
    /\ MaxFails \in Nat \ {0} /\ Cooldown \in Nat \ {0} /\ MaxKills \in Nat

VARIABLES
    answers, kills,             \* endpoints that answer, kills so far
    cached,                     \* file: the last connection
    pc, forced, quick, lastGood, peer,
    fails,                      \* consecutive_fails_on_peer
    parked, cool                \* endpoint_cooldowns: its keys, ticks that remain

picks == <<forced, quick, lastGood, peer>>
world == <<answers, kills>>
cooldowns == <<parked, cool>>
vars == <<world, cached, pc, picks, fails, cooldowns>>

Endpoint == Endpoints \cup {None}

TypeOK ==
    /\ answers \subseteq Endpoints /\ kills \in 0 .. MaxKills
    /\ cached \in Endpoint
    /\ pc \in {"down", "assigned", "cached", "turn", "pick", "use", "dial", "up"}
    /\ forced \in Endpoint /\ quick \in Endpoint /\ lastGood \in Endpoint
    /\ peer \in Endpoint
    /\ fails \in 0 .. MaxFails
    /\ parked \subseteq Endpoints /\ cool \in [Endpoints -> 0 .. Cooldown]

Init ==
    /\ answers \in SUBSET Endpoints /\ kills = 0
    /\ cached = None
    /\ pc = "down" /\ forced = None /\ quick = None /\ lastGood = None /\ peer = None
    /\ fails = 0 /\ parked = {} /\ cool = [e \in Endpoints |-> 0]

-----------------------------------------------------------------------------

launch ==
    /\ pc = "down"
    /\ pc' = "assigned" /\ forced' \in Pins
    /\ quick' = None /\ lastGood' = None /\ peer' = None
    /\ fails' = 0 /\ parked' = {} /\ cool' = [e \in Endpoints |-> 0]
    /\ UNCHANGED <<world, cached>>

verify_endpoint(e) == e \in answers

tryAssigned ==
    /\ pc = "assigned"
    /\ quick' = IF forced = None /\ verify_endpoint(Assigned) THEN Assigned ELSE None
    /\ pc' = "cached"
    /\ UNCHANGED <<world, cached, forced, lastGood, peer, fails, cooldowns>>

\* wanted: want_quick_reconnect.
tryCached ==
    /\ pc = "cached"
    /\ \E wanted \in BOOLEAN :
          quick' = IF forced = None /\ quick = None /\ wanted /\ verify_endpoint(cached)
                   THEN cached ELSE quick
    /\ pc' = "turn"
    /\ UNCHANGED <<world, cached, forced, lastGood, peer, fails, cooldowns>>

retained == {e \in parked : cool[e] > 0}

\* Mutant: the endpoint that failed twice is parked and still retried.
MutParkAndRetry ==
    /\ pc = "turn" /\ pc' = "pick"
    /\ IF fails >= MaxFails /\ lastGood # None
       THEN /\ parked' = retained \cup {lastGood}
            /\ cool' = [cool EXCEPT ![lastGood] = Cooldown]
            /\ fails' = 0
       ELSE parked' = retained /\ UNCHANGED <<cool, fails>>
    /\ UNCHANGED <<world, cached, picks>>

\* Mutant: an entry is kept when its cooldown is over.
MutNoRetain ==
    /\ pc = "turn" /\ pc' = "pick"
    /\ IF fails >= MaxFails /\ lastGood # None
       THEN /\ parked' = parked \cup {lastGood}
            /\ cool' = [cool EXCEPT ![lastGood] = Cooldown]
       ELSE UNCHANGED cooldowns
    /\ IF fails >= MaxFails
       THEN lastGood' = None /\ fails' = 0
       ELSE UNCHANGED <<lastGood, fails>>
    /\ UNCHANGED <<world, cached, forced, quick, peer>>

\* The top of the loop: entries whose cooldown is over go, an endpoint that
\* failed too often is parked.
turn ==
    /\ pc = "turn" /\ pc' = "pick"
    /\ IF fails >= MaxFails /\ lastGood # None
       THEN /\ parked' = retained \cup {lastGood}
            /\ cool' = [cool EXCEPT ![lastGood] = Cooldown]
       ELSE parked' = retained /\ UNCHANGED cool
    /\ IF fails >= MaxFails
       THEN lastGood' = None /\ fails' = 0
       ELSE UNCHANGED <<lastGood, fails>>
    /\ UNCHANGED <<world, cached, forced, quick, peer>>

Picked(e) ==
    /\ peer' = e /\ pc' = "use"
    /\ UNCHANGED <<world, cached, forced, lastGood, fails, cooldowns>>

pickQuick ==
    /\ pc = "pick" /\ quick # None
    /\ Picked(quick) /\ quick' = None

retryLastGood ==
    /\ pc = "pick" /\ quick = None /\ lastGood # None /\ verify_endpoint(lastGood)
    /\ Picked(lastGood) /\ UNCHANGED quick

noRetry ==
    /\ pc = "pick" /\ quick = None
    /\ lastGood = None \/ ~verify_endpoint(lastGood)

useForced ==
    /\ noRetry /\ forced # None /\ verify_endpoint(forced)
    /\ Picked(forced) /\ UNCHANGED quick

\* A pinned endpoint that does not answer ends the engine.
forcedDead ==
    /\ noRetry /\ forced # None /\ ~verify_endpoint(forced)
    /\ pc' = "down"
    /\ UNCHANGED <<world, cached, picks, fails, cooldowns>>

hunt_wg_peer ==
    /\ noRetry /\ forced = None
    /\ \E e \in answers \ parked : Picked(e)
    /\ UNCHANGED quick

\* Nothing but parked endpoints answered: once more from the top.
scanFails ==
    /\ noRetry /\ forced = None /\ answers \subseteq parked
    /\ pc' = "turn"
    /\ UNCHANGED <<world, cached, picks, fails, cooldowns>>

usePeer ==
    /\ pc = "use" /\ pc' = "dial"
    /\ cached' = IF forced = None THEN peer ELSE cached
    /\ fails' = IF peer = lastGood THEN fails ELSE 0
    /\ lastGood' = peer
    /\ UNCHANGED <<world, forced, quick, peer, cooldowns>>

\* Ok(()) or Err(e): both count as a failure of the endpoint.
TunnelOver ==
    /\ fails' = fails + 1 /\ pc' = "turn"
    /\ UNCHANGED <<world, cached, picks, cooldowns>>

dialFails == pc = "dial" /\ ~verify_endpoint(peer) /\ TunnelOver

dialUp ==
    /\ pc = "dial" /\ verify_endpoint(peer) /\ pc' = "up"
    /\ UNCHANGED <<world, cached, picks, fails, cooldowns>>

tunnelEnds == pc = "up" /\ TunnelOver

migrate ==
    /\ pc = "up" /\ pc' = "turn"
    /\ parked' = parked \cup {peer} /\ cool' = [cool EXCEPT ![peer] = Cooldown]
    /\ lastGood' = None /\ fails' = 0
    /\ UNCHANGED <<world, cached, forced, quick, peer>>

-----------------------------------------------------------------------------

kill ==
    /\ pc # "down" /\ kills < MaxKills
    /\ kills' = kills + 1 /\ pc' = "down"
    /\ UNCHANGED <<answers, cached, picks, fails, cooldowns>>

tick ==
    /\ \E e \in Endpoints : cool[e] > 0
    /\ cool' = [e \in Endpoints |-> IF cool[e] > 0 THEN cool[e] - 1 ELSE 0]
    /\ UNCHANGED <<world, cached, pc, picks, fails, parked>>

networkChanges ==
    /\ answers' \in SUBSET Endpoints
    /\ UNCHANGED <<kills, cached, pc, picks, fails, cooldowns>>

EngineStep ==
    \/ launch \/ tryAssigned \/ tryCached \/ turn
    \/ pickQuick \/ retryLastGood \/ useForced \/ forcedDead \/ hunt_wg_peer
    \/ scanFails \/ usePeer \/ dialFails \/ dialUp

Next ==
    EngineStep \/ tunnelEnds \/ migrate \/ kill \/ tick \/ networkChanges

Spec == Init /\ [][Next]_vars

\* The engine's steps happen, the app restarts an engine that is gone, and time
\* passes.
Fairness == WF_vars(EngineStep) /\ WF_vars(tick)

-----------------------------------------------------------------------------
(* Properties.                                                             *)

\* A parked endpoint carries no tunnel of an engine free to choose until its
\* cooldown is over, whichever way the loop picks.
ParkedNotUsed ==
    forced = None /\ pc \in {"use", "dial", "up"} => cool[peer] = 0

\* Parking cannot lock the engine out: once the network has settled and an
\* endpoint answers, every loss of the tunnel is followed by a tunnel.
Reconnects ==
    \A stable \in SUBSET Endpoints \ {{}} :
        <>[](answers = stable /\ forced = None) => []<>(pc = "up")

=============================================================================
