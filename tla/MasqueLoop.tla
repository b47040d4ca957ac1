------------------------------ MODULE MasqueLoop ------------------------------
(***************************************************************************)
(* The MASQUE engine's choice of gateway: run_masque, the carried hop that *)
(* judges a gateway by the country it exits in, and the two files that     *)
(* survive the process, the last connection and the avoided gateways.      *)
(* The engine may be killed between any two steps and started again.       *)
(* Sleeps and failed scans change nothing and are stuttering steps.        *)
(***************************************************************************)
EXTENDS Naturals, Sequences, FiniteSets

CONSTANTS
    Gateways, None,
    Pins,           \* what SOILDTUNNEL_PEER may be set to, None among it
    Assigned,       \* SOILDTUNNEL_TEAM_ENDPOINT, or None
    Modes,          \* values of inner_path.is_some(): gool on MASQUE or plain
    Iran,           \* gateways that exit in Iran
    Ttl,            \* AVOID_TTL_SECS
    PipeAfter,      \* PIPE_AFTER_IR
    RankedGateways, \* RANKED_GATEWAYS
    MaxTime,        \* bound: clock
    MaxKills        \* bound: kills of the engine

ASSUME MasqueAssumption ==
    /\ IsFiniteSet(Gateways) /\ None \notin Gateways
    /\ Pins \subseteq Gateways \cup {None} /\ Assigned \in Gateways \cup {None}
    /\ Modes \subseteq BOOLEAN /\ Iran \subseteq Gateways
    /\ Ttl \in Nat /\ PipeAfter \in Nat \ {0} /\ RankedGateways \in Nat \ {0}
    /\ MaxTime \in Nat \ {0} /\ MaxKills \in Nat

VARIABLES
    now, kills,                 \* clock, kills so far
    answers,                    \* gateways that answer the verification
    carries,                    \* gateways through which a tunnel comes up, the
                                \* carried hop included.  The verification is not
                                \* that tunnel: it leaves ECH out, for one
    cached, avoidAt, saved,     \* files: lastconn, avoid list (0: no entry),
                                \* whether the carried identity exists
    pc, forced,
    carried,                    \* this engine runs with an inner path
    quick, lastGood, ranked, peer,
    avoid,                      \* the avoided gateways in memory
    streak,                     \* OUTER_IR_STREAK
    judged                      \* history: the gateways that the streak counts

files == <<cached, avoidAt, saved>>
settings == <<forced, carried>>
picks == <<settings, quick, lastGood, ranked, peer>>
world == <<now, kills, answers, carries>>
verdicts == <<streak, judged>>
vars == <<world, files, pc, picks, avoid, verdicts>>

Gateway == Gateways \cup {None}

TypeOK ==
    /\ now \in 1 .. MaxTime /\ kills \in 0 .. MaxKills
    /\ answers \subseteq Gateways /\ carries \subseteq Gateways
    /\ cached \in Gateway /\ avoidAt \in [Gateways -> Nat] /\ saved \in BOOLEAN
    /\ pc \in {"down", "assigned", "cached", "load", "pick", "gate", "dial", "egress",
               "hop", "up", "forget"}
    /\ forced \in Gateway /\ carried \in BOOLEAN
    /\ quick \in Gateway /\ lastGood \in Gateway /\ peer \in Gateway
    /\ ranked \in Seq(Gateways)
    /\ avoid \subseteq Gateways /\ judged \subseteq Gateways
    /\ streak \in 0 .. PipeAfter - 1

Init ==
    /\ now = 1 /\ kills = 0
    /\ answers \in SUBSET Gateways /\ carries \in SUBSET Gateways
    /\ cached = None /\ avoidAt = [g \in Gateways |-> 0] /\ saved = FALSE
    /\ pc = "down" /\ forced = None /\ carried = FALSE
    /\ quick = None /\ lastGood = None /\ ranked = <<>> /\ peer = None
    /\ avoid = {} /\ streak = 0 /\ judged = {}

-----------------------------------------------------------------------------
(* Start-up: a shortcut past the scan.                                     *)

launch ==
    /\ pc = "down"
    /\ pc' = "assigned" /\ forced' \in Pins /\ carried' \in Modes
    /\ quick' = None /\ lastGood' = None /\ ranked' = <<>> /\ peer' = None
    /\ avoid' = {} /\ streak' = 0 /\ judged' = {}
    /\ UNCHANGED <<world, files>>

quick_verify_masque_peer(g) == g \in answers

tryAssigned ==
    /\ pc = "assigned"
    /\ quick' = IF forced = None /\ quick_verify_masque_peer(Assigned)
                THEN Assigned ELSE None
    /\ pc' = "cached"
    /\ UNCHANGED <<world, files, settings, lastGood, ranked, peer, avoid, verdicts>>

\* wanted: want_quick_reconnect, a setting or the user's answer.
tryCached ==
    /\ pc = "cached"
    /\ \E wanted \in BOOLEAN :
          quick' = IF /\ forced = None /\ quick = None /\ wanted
                      /\ quick_verify_masque_peer(cached)
                   THEN cached ELSE quick
    /\ pc' = "load"
    /\ UNCHANGED <<world, files, settings, lastGood, ranked, peer, avoid, verdicts>>

\* An entry of the avoid list that has not expired.
fresh(g) == avoidAt[g] # 0 /\ now - avoidAt[g] < Ttl

load_avoided ==
    /\ pc = "load"
    /\ avoid' = {g \in Gateways : fresh(g)}
    /\ pc' = "pick"
    /\ UNCHANGED <<world, files, picks, verdicts>>

-----------------------------------------------------------------------------
(* One turn of the loop: choose a gateway.                                 *)

Picked(g) ==
    /\ peer' = g /\ pc' = "gate"
    /\ UNCHANGED <<world, files, settings, lastGood, avoid, verdicts>>

pickQuick ==
    /\ pc = "pick" /\ quick # None
    /\ quick' = None /\ Picked(quick) /\ UNCHANGED ranked

retryLastGood ==
    /\ pc = "pick" /\ quick = None /\ lastGood # None
    /\ quick_verify_masque_peer(lastGood)
    /\ Picked(lastGood) /\ UNCHANGED <<quick, ranked>>

noRetry ==
    /\ pc = "pick" /\ quick = None
    /\ lastGood = None \/ ~quick_verify_masque_peer(lastGood)

useForced ==
    /\ noRetry /\ forced # None
    /\ Picked(forced) /\ UNCHANGED <<quick, ranked>>

hunt_masque_peer ==
    /\ noRetry /\ forced = None /\ ~carried
    /\ \E g \in answers \ avoid : Picked(g)
    /\ UNCHANGED <<quick, ranked>>

walkRanked ==
    /\ noRetry /\ forced = None /\ carried /\ ranked # <<>>
    /\ Picked(Head(ranked)) /\ ranked' = Tail(ranked) /\ UNCHANGED quick

\* Mutant: the scan is not told which gateways are avoided.
MutHuntAll ==
    /\ noRetry /\ forced = None /\ carried /\ ranked = <<>>
    /\ \E g \in answers : Picked(g)
    /\ UNCHANGED <<quick, ranked>>

\* The best gateways of one scan, best first; the first one is tried at once.
hunt_masque_peers ==
    /\ noRetry /\ forced = None /\ carried /\ ranked = <<>>
    /\ \E n \in 1 .. RankedGateways :
       \E found \in [1 .. n -> answers \ avoid] :
          /\ \A i, j \in 1 .. n : found[i] = found[j] => i = j
          /\ Picked(found[1]) /\ ranked' = [i \in 1 .. n - 1 |-> found[i + 1]]
    /\ UNCHANGED quick

\* The gateway picked is avoided.
gateRejects ==
    /\ pc = "gate" /\ forced = None /\ peer \in avoid
    /\ lastGood' = None /\ pc' = "pick"
    /\ UNCHANGED <<world, files, settings, quick, ranked, peer, avoid, verdicts>>

\* Mutant: the avoid list is not asked once a gateway is chosen.
MutGateOpen ==
    /\ pc = "gate"
    /\ cached' = IF forced = None THEN peer ELSE cached
    /\ lastGood' = peer /\ pc' = "dial"
    /\ UNCHANGED <<world, avoidAt, saved, settings, quick, ranked, peer, avoid, verdicts>>

gatePasses ==
    /\ pc = "gate" /\ (forced # None \/ peer \notin avoid)
    /\ cached' = IF forced = None THEN peer ELSE cached
    /\ lastGood' = peer /\ pc' = "dial"
    /\ UNCHANGED <<world, avoidAt, saved, settings, quick, ranked, peer, avoid, verdicts>>

-----------------------------------------------------------------------------
(* The tunnel and how it ends.                                             *)

\* Err(e) of the tunnel: the loop turns.
TunnelError ==
    /\ lastGood' = IF carried THEN None ELSE lastGood
    /\ pc' = "pick"
    /\ UNCHANGED <<world, files, settings, quick, ranked, peer, avoid, verdicts>>

\* The tunnel exits before it is validated, or is not in time.
dialFails == pc = "dial" /\ peer \notin carries /\ TunnelError

\* The outer tunnel may come up although the carried hop will not.
dialUp ==
    /\ pc = "dial" /\ (carried \/ peer \in carries)
    /\ pc' = IF carried THEN "egress" ELSE "up"
    /\ UNCHANGED <<world, files, picks, avoid, verdicts>>

\* exit_country: abroad, or inconclusive and trusted.
egressForeign ==
    /\ pc = "egress" /\ pc' = "hop"
    /\ \/ peer \notin Iran /\ streak' = 0 /\ judged' = {}
       \/ UNCHANGED verdicts
    /\ UNCHANGED <<world, files, picks, avoid>>

\* Judged Iranian, and still used: the identity exists, or every recent gateway
\* was judged the same.
egressPipe ==
    /\ pc = "egress" /\ peer \in Iran /\ pc' = "hop"
    /\ \/ saved /\ UNCHANGED verdicts
       \/ ~saved /\ streak + 1 >= PipeAfter /\ streak' = 0 /\ judged' = {}
    /\ UNCHANGED <<world, files, picks, avoid>>

\* The avoid list is written with every gateway avoided in memory; an entry that
\* is not in the file any more is written anew.
save_avoided(peers) ==
    avoidAt' = [g \in Gateways |-> IF fresh(g) THEN avoidAt[g]
                                   ELSE IF g \in peers THEN now ELSE 0]

\* Mutant: no limit on the streak.
MutNoLimit ==
    /\ pc = "egress" /\ peer \in Iran /\ ~saved
    /\ streak' = streak + 1 /\ judged' = judged \cup {peer}
    /\ avoid' = avoid \cup {peer} /\ save_avoided(avoid')
    /\ pc' = "forget"
    /\ UNCHANGED <<world, cached, saved, picks>>

\* Err(IranianEgress), up to the write of the avoid list.
iranianEgress ==
    /\ pc = "egress" /\ peer \in Iran /\ ~saved /\ streak + 1 < PipeAfter
    /\ streak' = streak + 1 /\ judged' = judged \cup {peer}
    /\ avoid' = avoid \cup {peer} /\ save_avoided(avoid')
    /\ pc' = "forget"
    /\ UNCHANGED <<world, cached, saved, picks>>

\* ... and from lastconn::forget on.
forget ==
    /\ pc = "forget"
    /\ cached' = IF cached = peer THEN None ELSE cached
    /\ lastGood' = None
    /\ pc' = IF forced # None THEN "down" ELSE "pick"
    /\ UNCHANGED <<world, avoidAt, saved, settings, quick, ranked, peer, avoid, verdicts>>

\* carried_wg_identity and the inner tunnel.
carriedHop ==
    /\ pc = "hop" /\ peer \in carries
    /\ saved' = TRUE /\ pc' = "up"
    /\ UNCHANGED <<world, cached, avoidAt, picks, avoid, verdicts>>

hopFails == pc = "hop" /\ peer \notin carries /\ TunnelError

\* Ok(()): only a tunnel without a carried hop ends this way.
tunnelCloses ==
    /\ pc = "up" /\ ~carried
    /\ ranked' = <<>> /\ pc' = "pick"
    /\ UNCHANGED <<world, files, settings, quick, lastGood, peer, avoid, verdicts>>

tunnelEnds == pc = "up" /\ TunnelError

migrate ==
    /\ pc = "up"
    /\ lastGood' = None /\ pc' = "pick"
    /\ UNCHANGED <<world, files, settings, quick, ranked, peer, avoid, verdicts>>

-----------------------------------------------------------------------------

kill ==
    /\ pc # "down" /\ kills < MaxKills
    /\ kills' = kills + 1 /\ pc' = "down"
    /\ UNCHANGED <<now, answers, carries, files, picks, avoid, verdicts>>

tick ==
    /\ now < MaxTime /\ now' = now + 1
    /\ UNCHANGED <<kills, answers, carries, files, pc, picks, avoid, verdicts>>

\* One gateway begins or ceases to answer, or to carry a tunnel.
networkChanges ==
    /\ \E g \in Gateways :
          \/ answers' \in {answers \cup {g}, answers \ {g}} /\ UNCHANGED carries
          \/ carries' \in {carries \cup {g}, carries \ {g}} /\ UNCHANGED answers
    /\ UNCHANGED <<now, kills, files, pc, picks, avoid, verdicts>>

EngineStep ==
    \/ launch \/ tryAssigned \/ tryCached \/ load_avoided
    \/ pickQuick \/ retryLastGood \/ useForced \/ hunt_masque_peer \/ walkRanked
    \/ hunt_masque_peers \/ gateRejects \/ gatePasses
    \/ dialFails \/ dialUp \/ egressForeign \/ egressPipe \/ iranianEgress \/ forget
    \/ carriedHop \/ hopFails

Next ==
    \/ EngineStep \/ tunnelCloses \/ tunnelEnds \/ migrate
    \/ kill \/ tick \/ networkChanges

Spec == Init /\ [][Next]_vars

\* The app restarts an engine that is gone, and the engine's own steps happen.
FairSpec == Spec /\ WF_vars(EngineStep)

-----------------------------------------------------------------------------
(* Properties.                                                             *)

\* A gateway with a live entry in the avoid list carries no tunnel, whatever
\* shortcut chose it and however often the engine was killed in between.
AvoidedNeverUsed ==
    forced = None /\ pc \in {"dial", "egress", "hop", "up"} => ~fresh(peer)

\* The streak that opens the pipe counts different gateways: none is judged
\* twice in it, although the counter is a static, the list of avoided gateways is
\* read anew at every start and its entries expire.
StreakCountsGateways == streak = Cardinality(judged)

\* Once the network has settled, a gateway outside Iran answers and those that
\* answer carry a tunnel, an engine free to choose is back in a tunnel after
\* every loss of one: neither the retry of the last gateway nor the gate that
\* sends avoided ones back keeps it out.
Reconnects ==
    \A stable \in SUBSET Gateways \ SUBSET Iran :
        <>[](answers = stable /\ stable \subseteq carries /\ forced = None)
            => []<>(pc = "up")

=============================================================================
