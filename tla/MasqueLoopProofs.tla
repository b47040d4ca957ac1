--------------------------- MODULE MasqueLoopProofs ---------------------------
(***************************************************************************)
(* A gateway on the avoid list is never used while its entry lives, for    *)
(* any set of gateways, any lifetime of the entries, any number of kills;  *)
(* and the streak counts different gateways.                               *)
(***************************************************************************)
EXTENDS MasqueLoop, FiniteSetTheorems, TLAPS

Labels == {"down", "assigned", "cached", "load", "pick", "gate", "dial", "egress",
           "hop", "up", "forget"}

\* The list was read from the file.
Loaded == pc \in {"pick", "gate", "dial", "egress", "hop", "up", "forget"}

\* A gateway was let through.
InUse == pc \in {"dial", "egress", "hop", "up"}

\* The memory knows every live entry of the file: it was loaded from the file
\* and every entry written since was in memory first.
FileKnown == Loaded => \A g \in Gateways : fresh(g) => g \in avoid

\* The gateway in use passed the gate.
PeerPassed ==
    /\ pc \in {"gate", "forget"} \/ InUse => peer \in Gateways
    /\ forced = None /\ InUse => peer \notin avoid

IndInv == TypeOK /\ FileKnown /\ PeerPassed

\* The invariant holds before the engine is started.
LEMMA InitInv == Init => IndInv
<1> SUFFICES ASSUME Init PROVE IndInv
    OBVIOUS
<1>1. now \in 1 .. MaxTime /\ kills \in 0 .. MaxKills /\ streak \in 0 .. PipeAfter - 1
    BY MasqueAssumption DEF Init
<1>2. avoidAt \in [Gateways -> Nat]
    BY DEF Init
<1>7. ranked \in Seq(Gateways)
    BY DEF Init
<1>8. /\ avoid \subseteq Gateways /\ judged \subseteq Gateways
      /\ answers \subseteq Gateways /\ carries \subseteq Gateways
    BY DEF Init
<1>5. saved \in BOOLEAN /\ pc \in Labels
    BY DEF Init, Labels
<1>6. /\ cached \in Gateway /\ quick \in Gateway /\ lastGood \in Gateway /\ peer \in Gateway
      /\ forced \in Gateway /\ carried \in BOOLEAN
    BY DEF Init, Gateway
<1>3. TypeOK
    BY <1>1, <1>2, <1>5, <1>6, <1>7, <1>8 DEF TypeOK, verdicts, Labels
<1>4. FileKnown /\ PeerPassed
    BY DEF Init, FileKnown, PeerPassed, Loaded, InUse
<1> QED
    BY <1>3, <1>4 DEF IndInv

\* A step that leaves the list, the file and the clock alone keeps the memory
\* complete, provided the list was loaded before.
LEMMA SameList ==
    ASSUME FileKnown, Loaded' => Loaded, UNCHANGED <<now, avoidAt, avoid>>
    PROVE  FileKnown'
BY DEF FileKnown, fresh

\* Start-up.
LEMMA StartInv ==
    ASSUME IndInv, launch \/ tryAssigned \/ tryCached \/ load_avoided PROVE IndInv'
<1>1. CASE launch
    <2>1. 0 \in 0 .. PipeAfter - 1
        BY MasqueAssumption
    <2>2. <<>> \in Seq(Gateways)
        OBVIOUS
    <2>3. TypeOK'
        BY <1>1, <2>1, <2>2, MasqueAssumption DEF launch, IndInv, TypeOK, verdicts, Gateway, world, settings, files
    <2>4. FileKnown' /\ PeerPassed'
        BY <1>1 DEF launch, FileKnown, PeerPassed, Loaded, InUse, settings
    <2> QED
        BY <2>3, <2>4 DEF IndInv
<1>2. CASE tryAssigned
    <2>1. TypeOK'
        BY <1>2, MasqueAssumption
           DEF tryAssigned, IndInv, TypeOK, verdicts, Gateway, world, settings, files
    <2>2. FileKnown' /\ PeerPassed'
        BY <1>2 DEF tryAssigned, FileKnown, PeerPassed, Loaded, InUse, settings
    <2> QED
        BY <2>1, <2>2 DEF IndInv
<1>3. CASE tryCached
    <2>1. TypeOK'
        BY <1>3 DEF tryCached, IndInv, TypeOK, verdicts, Gateway, world, settings, files
    <2>2. FileKnown' /\ PeerPassed'
        BY <1>3 DEF tryCached, FileKnown, PeerPassed, Loaded, InUse, settings
    <2> QED
        BY <2>1, <2>2 DEF IndInv
<1>4. CASE load_avoided
    <2>1. TypeOK'
        BY <1>4 DEF load_avoided, IndInv, TypeOK, verdicts, world, settings, files, picks
    <2>2. FileKnown' /\ PeerPassed'
        BY <1>4 DEF load_avoided, FileKnown, PeerPassed, Loaded, InUse, fresh, world, settings, files,
                    picks
    <2> QED
        BY <2>1, <2>2 DEF IndInv
<1> QED
    BY <1>1, <1>2, <1>3, <1>4

\* A choice of a gateway goes to the gate.
LEMMA PickedInv ==
    ASSUME IndInv, pc = "pick", NEW g \in Gateways, Picked(g),
           quick' \in Gateway, ranked' \in Seq(Gateways)
    PROVE  IndInv'
<1>1. TypeOK'
    BY DEF Picked, IndInv, TypeOK, verdicts, Gateway, world, settings, files
<1>2. FileKnown'
    BY SameList DEF Picked, IndInv, Loaded, world, settings, files
<1>3. PeerPassed'
    BY DEF Picked, PeerPassed, InUse, settings
<1> QED
    BY <1>1, <1>2, <1>3 DEF IndInv

\* Every way to choose a gateway.
LEMMA PickInv ==
    ASSUME IndInv,
           \/ pickQuick \/ retryLastGood \/ useForced \/ hunt_masque_peer \/ walkRanked
           \/ hunt_masque_peers
    PROVE  IndInv'
<1> USE DEF noRetry
<1>t. quick \in Gateway /\ ranked \in Seq(Gateways)
    BY DEF IndInv, TypeOK
<1>1. CASE pickQuick
    BY <1>1, <1>t, PickedInv DEF pickQuick, Gateway
<1>2. CASE retryLastGood
    BY <1>2, <1>t, PickedInv DEF retryLastGood, Gateway, IndInv, TypeOK
<1>3. CASE useForced
    BY <1>3, <1>t, PickedInv DEF useForced, Gateway, IndInv, TypeOK
<1>4. CASE hunt_masque_peer
    BY <1>4, <1>t, PickedInv DEF hunt_masque_peer, IndInv, TypeOK
<1>5. CASE walkRanked
    <2>1. Head(ranked) \in Gateways /\ Tail(ranked) \in Seq(Gateways)
        BY <1>5, <1>t DEF walkRanked
    <2> QED
        BY <1>5, <1>t, <2>1, PickedInv DEF walkRanked
<1>6. CASE hunt_masque_peers
    <2>0. PICK n \in 1 .. RankedGateways :
             \E found \in [1 .. n -> answers \ avoid] :
                /\ Picked(found[1]) /\ ranked' = [i \in 1 .. n - 1 |-> found[i + 1]]
        BY <1>6 DEF hunt_masque_peers
    <2>1. PICK found \in [1 .. n -> answers \ avoid] :
             /\ Picked(found[1]) /\ ranked' = [i \in 1 .. n - 1 |-> found[i + 1]]
        BY <2>0
    <2>2. answers \subseteq Gateways /\ n \in Nat \ {0}
        BY MasqueAssumption DEF IndInv, TypeOK
    <2>3. found[1] \in Gateways
        BY <2>2
    <2>4. \A i \in 1 .. n - 1 : found[i + 1] \in Gateways
        BY <2>2
    <2>5. ranked' \in Seq(Gateways)
        BY <2>1, <2>2, <2>4
    <2> QED
        BY <1>6, <1>t, <2>1, <2>3, <2>5, PickedInv DEF hunt_masque_peers
<1> QED
    BY <1>1, <1>2, <1>3, <1>4, <1>5, <1>6

\* The gate: what passes is not avoided.
LEMMA GateInv ==
    ASSUME IndInv, gateRejects \/ gatePasses PROVE IndInv'
<1>1. CASE gateRejects
    <2>1. TypeOK'
        BY <1>1 DEF gateRejects, IndInv, TypeOK, verdicts, Gateway, world, settings, files
    <2>2. FileKnown'
        BY <1>1, SameList DEF gateRejects, IndInv, Loaded, world, settings, files
    <2>3. PeerPassed'
        BY <1>1 DEF gateRejects, PeerPassed, InUse, settings
    <2> QED
        BY <2>1, <2>2, <2>3 DEF IndInv
<1>2. CASE gatePasses
    <2>0. peer \in Gateways
        BY <1>2 DEF gatePasses, IndInv, PeerPassed, settings
    <2>1. TypeOK'
        BY <1>2, <2>0 DEF gatePasses, IndInv, TypeOK, verdicts, Gateway, world, settings
    <2>2. FileKnown'
        BY <1>2, SameList DEF gatePasses, IndInv, Loaded, world, settings
    <2>3. PeerPassed'
        BY <1>2, <2>0 DEF gatePasses, PeerPassed, InUse, settings
    <2> QED
        BY <2>1, <2>2, <2>3 DEF IndInv
<1> QED
    BY <1>1, <1>2

\* An error turns the loop and chooses nothing.
LEMMA ErrorInv ==
    ASSUME IndInv, Loaded, TunnelError PROVE IndInv'
<1>1. TypeOK'
    BY DEF TunnelError, IndInv, TypeOK, verdicts, Gateway, world, settings, files
<1>2. FileKnown'
    BY SameList DEF TunnelError, IndInv, Loaded, world, settings, files
<1>3. PeerPassed'
    BY DEF TunnelError, PeerPassed, InUse, settings
<1> QED
    BY <1>1, <1>2, <1>3 DEF IndInv

\* The tunnel comes up, is judged, carries the hop or ends; the list is not
\* touched.
LEMMA TunnelInv ==
    ASSUME IndInv,
           \/ dialFails \/ dialUp \/ egressForeign \/ egressPipe \/ carriedHop \/ hopFails
           \/ tunnelCloses \/ tunnelEnds \/ migrate
    PROVE  IndInv'
<1>1. CASE dialFails \/ hopFails \/ tunnelEnds
    BY <1>1, ErrorInv DEF dialFails, hopFails, tunnelEnds, Loaded
<1>2. CASE dialUp
    <2>1. TypeOK'
        BY <1>2 DEF dialUp, IndInv, TypeOK, verdicts, Gateway, world, settings, files, picks
    <2>2. FileKnown'
        BY <1>2, SameList DEF dialUp, IndInv, Loaded, world, settings, files
    <2>3. PeerPassed'
        BY <1>2 DEF dialUp, IndInv, PeerPassed, InUse, picks, settings
    <2> QED
        BY <2>1, <2>2, <2>3 DEF IndInv
<1>3. CASE egressForeign
    <2>1. streak' \in 0 .. PipeAfter - 1
        BY <1>3, MasqueAssumption DEF egressForeign, IndInv, TypeOK, verdicts, settings
    <2>2. TypeOK'
        BY <1>3, <2>1 DEF egressForeign, IndInv, TypeOK, verdicts, world, settings, files, picks
    <2>3. FileKnown'
        BY <1>3, SameList DEF egressForeign, IndInv, Loaded, world, settings, files
    <2>4. PeerPassed'
        BY <1>3 DEF egressForeign, IndInv, PeerPassed, InUse, picks, settings
    <2> QED
        BY <2>2, <2>3, <2>4 DEF IndInv
<1>4. CASE egressPipe
    <2>1. streak' \in 0 .. PipeAfter - 1
        BY <1>4, MasqueAssumption DEF egressPipe, IndInv, TypeOK, verdicts, settings
    <2>3. TypeOK'
        BY <1>4, <2>1 DEF egressPipe, IndInv, TypeOK, verdicts, world, settings, files, picks
    <2>4. FileKnown'
        BY <1>4, SameList DEF egressPipe, IndInv, Loaded, world, settings, files
    <2>5. PeerPassed'
        BY <1>4 DEF egressPipe, IndInv, PeerPassed, InUse, picks, settings
    <2> QED
        BY <2>3, <2>4, <2>5 DEF IndInv
<1>5. CASE carriedHop
    <2>1. TypeOK'
        BY <1>5 DEF carriedHop, IndInv, TypeOK, verdicts, world, settings, picks
    <2>2. FileKnown'
        BY <1>5, SameList DEF carriedHop, IndInv, Loaded, world, settings
    <2>3. PeerPassed'
        BY <1>5 DEF carriedHop, IndInv, PeerPassed, InUse, picks, settings
    <2> QED
        BY <2>1, <2>2, <2>3 DEF IndInv
<1>6. CASE tunnelCloses
    <2>0. ranked' \in Seq(Gateways)
        BY <1>6 DEF tunnelCloses, settings
    <2>1. TypeOK'
        BY <1>6, <2>0 DEF tunnelCloses, IndInv, TypeOK, verdicts, world, settings, files
    <2>2. FileKnown'
        BY <1>6, SameList DEF tunnelCloses, IndInv, Loaded, world, settings, files
    <2>3. PeerPassed'
        BY <1>6 DEF tunnelCloses, PeerPassed, InUse, settings
    <2> QED
        BY <2>1, <2>2, <2>3 DEF IndInv
<1>7. CASE migrate
    <2>1. TypeOK'
        BY <1>7 DEF migrate, IndInv, TypeOK, verdicts, Gateway, world, settings, files
    <2>2. FileKnown'
        BY <1>7, SameList DEF migrate, IndInv, Loaded, world, settings, files
    <2>3. PeerPassed'
        BY <1>7 DEF migrate, PeerPassed, InUse, settings
    <2> QED
        BY <2>1, <2>2, <2>3 DEF IndInv
<1> QED
    BY <1>1, <1>2, <1>3, <1>4, <1>5, <1>6, <1>7

\* A verdict enters the memory before the file, and both before the loop turns.
LEMMA VerdictInv ==
    ASSUME IndInv, iranianEgress \/ forget PROVE IndInv'
<1>1. CASE iranianEgress
    <2>0. peer \in Gateways
        BY <1>1 DEF iranianEgress, IndInv, PeerPassed, InUse, settings
    <2>1. streak' \in 0 .. PipeAfter - 1
        BY <1>1, MasqueAssumption DEF iranianEgress, IndInv, TypeOK, verdicts, settings
    <2>2. avoidAt' \in [Gateways -> Nat]
        BY <1>1 DEF iranianEgress, save_avoided, IndInv, TypeOK, verdicts, settings
    <2>3. avoid' \subseteq Gateways
        BY <1>1, <2>0 DEF iranianEgress, IndInv, TypeOK, verdicts, settings
    <2>4. TypeOK'
        BY <1>1, <2>1, <2>2, <2>3 DEF iranianEgress, IndInv, TypeOK, verdicts, world, settings, picks
    <2>5. FileKnown'
        <3> SUFFICES ASSUME NEW g \in Gateways, fresh(g)' PROVE g \in avoid'
            BY DEF FileKnown
        <3>1. CASE fresh(g)
            BY <1>1, <3>1 DEF iranianEgress, IndInv, FileKnown, Loaded, settings
        <3>2. CASE ~fresh(g)
            BY <1>1, <3>2 DEF iranianEgress, save_avoided, fresh, settings
        <3> QED
            BY <3>1, <3>2
    <2>6. PeerPassed'
        BY <1>1, <2>0 DEF iranianEgress, PeerPassed, InUse, picks, settings
    <2> QED
        BY <2>4, <2>5, <2>6 DEF IndInv
<1>2. CASE forget
    <2>1. TypeOK'
        BY <1>2 DEF forget, IndInv, TypeOK, verdicts, Gateway, world, settings
    <2>2. FileKnown'
        BY <1>2, SameList DEF forget, IndInv, Loaded, world, settings
    <2>3. PeerPassed'
        BY <1>2 DEF forget, PeerPassed, InUse, settings
    <2> QED
        BY <2>1, <2>2, <2>3 DEF IndInv
<1> QED
    BY <1>1, <1>2

\* Kills, time and the network.
LEMMA WorldInv ==
    ASSUME IndInv, kill \/ tick \/ networkChanges PROVE IndInv'
<1>1. CASE kill
    <2>0. kills' \in 0 .. MaxKills
        BY <1>1, MasqueAssumption DEF kill, IndInv, TypeOK, verdicts, settings
    <2>1. TypeOK'
        BY <1>1, <2>0 DEF kill, IndInv, TypeOK, verdicts, settings, files, picks
    <2>2. FileKnown' /\ PeerPassed'
        BY <1>1 DEF kill, FileKnown, PeerPassed, Loaded, InUse, settings
    <2> QED
        BY <2>1, <2>2 DEF IndInv
<1>2. CASE tick
    <2>0. now' \in 1 .. MaxTime /\ now \in Nat /\ now' = now + 1
        BY <1>2, MasqueAssumption DEF tick, IndInv, TypeOK, verdicts, settings
    <2>1. TypeOK'
        BY <1>2, <2>0 DEF tick, IndInv, TypeOK, verdicts, settings, files, picks
    <2>2. \A g \in Gateways : fresh(g)' => fresh(g)
        BY <1>2, <2>0, MasqueAssumption DEF tick, fresh, IndInv, TypeOK, verdicts, files, settings
    <2>3. FileKnown'
        BY <1>2, <2>2 DEF tick, IndInv, FileKnown, Loaded, settings
    <2>4. PeerPassed'
        BY <1>2 DEF tick, IndInv, PeerPassed, InUse, picks, settings
    <2> QED
        BY <2>1, <2>3, <2>4 DEF IndInv
<1>3. CASE networkChanges
    <2>1. TypeOK'
        BY <1>3 DEF networkChanges, IndInv, TypeOK, verdicts, settings, files, picks
    <2>2. FileKnown'
        BY <1>3, SameList DEF networkChanges, IndInv, Loaded, files, settings
    <2>3. PeerPassed'
        BY <1>3 DEF networkChanges, IndInv, PeerPassed, InUse, picks, settings
    <2> QED
        BY <2>1, <2>2, <2>3 DEF IndInv
<1> QED
    BY <1>1, <1>2, <1>3

\* Every step keeps the invariant.
LEMMA NextInv == IndInv /\ [Next]_vars => IndInv'
<1> SUFFICES ASSUME IndInv, [Next]_vars PROVE IndInv'
    OBVIOUS
<1>1. CASE Next
    BY <1>1, StartInv, PickInv, GateInv, TunnelInv, VerdictInv, WorldInv DEF Next, EngineStep
<1>2. CASE UNCHANGED vars
    <2>1. TypeOK'
        BY <1>2 DEF vars, IndInv, TypeOK, verdicts, world, settings, files, picks
    <2>2. FileKnown'
        BY <1>2, SameList DEF vars, IndInv, Loaded, world, settings, files
    <2>3. PeerPassed'
        BY <1>2 DEF vars, IndInv, PeerPassed, InUse, picks, settings
    <2> QED
        BY <2>1, <2>2, <2>3 DEF IndInv
<1> QED
    BY <1>1, <1>2

\* The invariant holds throughout.
LEMMA Invariant == Spec => []IndInv
BY InitInv, NextInv, PTL DEF Spec

\* run_masque never serves through a gateway whose entry in the avoid list has
\* not expired, even when the kill fell between the write of the list and the
\* removal of the cached gateway.
THEOREM AvoidListRespected == Spec => []AvoidedNeverUsed
<1>1. IndInv => AvoidedNeverUsed
    BY DEF IndInv, FileKnown, PeerPassed, Loaded, InUse, AvoidedNeverUsed
<1> QED
    BY <1>1, Invariant, PTL

\* The state of run_masque keeps its types; OUTER_IR_STREAK stays below
\* PIPE_AFTER_IR.
THEOREM MasqueTypeCorrect == Spec => []TypeOK
<1>1. IndInv => TypeOK
    BY DEF IndInv
<1> QED
    BY <1>1, Invariant, PTL

\* A gateway judged in the streak is avoided, so that it is not judged again.  A
\* pinned gateway may be judged although it is avoided, but then the loop ends.
StreakOK ==
    /\ streak = Cardinality(judged)
    /\ Loaded => judged \subseteq avoid
    /\ pc \in {"assigned", "cached", "load"} => judged = {}
    /\ forced # None /\ pc \notin {"forget", "down"} => judged = {}

\* A verdict adds a gateway for every step of the streak.
LEMMA VerdictStreak ==
    ASSUME IndInv, StreakOK, iranianEgress PROVE StreakOK'
<1>1. peer \in Gateways /\ (forced = None => peer \notin avoid)
    BY DEF iranianEgress, IndInv, PeerPassed, InUse
<1>2. peer \notin judged
    BY <1>1 DEF StreakOK, iranianEgress, Loaded
<1>3. IsFiniteSet(judged)
    BY FS_Subset, MasqueAssumption DEF IndInv, TypeOK
<1>4. /\ avoid' = avoid \cup {peer} /\ streak' = streak + 1
      /\ judged' = judged \cup {peer} /\ pc' = "forget"
    BY DEF iranianEgress
<1>5. Cardinality(judged') = Cardinality(judged) + 1
    BY <1>2, <1>3, <1>4, FS_AddElement
<1>6. judged \subseteq avoid
    BY DEF StreakOK, iranianEgress, Loaded
<1> QED
    BY <1>4, <1>5, <1>6 DEF StreakOK

\* Every step keeps the bound.
LEMMA NextStreak ==
    ASSUME IndInv, StreakOK, [Next]_vars PROVE StreakOK'
<1> USE DEF StreakOK
<1>1. CASE launch
    <2>1. judged' = {} /\ streak' = 0
        BY <1>1 DEF launch
    <2> QED
        BY <2>1, FS_EmptySet
<1>2. CASE load_avoided
    BY <1>2 DEF load_avoided, verdicts, picks, settings
<1>3. CASE egressForeign \/ egressPipe
    <2>1. /\ avoid' = avoid /\ forced' = forced /\ pc' = "hop" /\ pc = "egress"
          /\ UNCHANGED verdicts \/ (streak' = 0 /\ judged' = {})
        BY <1>3 DEF egressForeign, egressPipe, picks, settings
    <2>2. Loaded
        BY <2>1 DEF Loaded
    <2> QED
        BY <2>1, <2>2, FS_EmptySet DEF verdicts
<1>4. CASE iranianEgress
    BY <1>4, VerdictStreak
<1>5. CASE /\ avoid' = avoid /\ UNCHANGED verdicts /\ forced' = forced
           /\ Loaded' => Loaded
           /\ pc' \in {"assigned", "cached", "load"} => pc \in {"assigned", "cached", "load"}
           /\ forced # None /\ pc' \notin {"forget", "down"} => pc \notin {"forget", "down"}
    BY <1>5 DEF verdicts
<1>6. ASSUME \/ tryAssigned \/ tryCached \/ pickQuick \/ retryLastGood \/ useForced
             \/ hunt_masque_peer \/ walkRanked \/ hunt_masque_peers \/ gateRejects
             \/ gatePasses
      PROVE  StreakOK'
    BY <1>5, <1>6 DEF tryAssigned, tryCached, pickQuick, retryLastGood, useForced,
       hunt_masque_peer, walkRanked, hunt_masque_peers, gateRejects, gatePasses, Picked,
       noRetry, Loaded, picks, settings
<1>7. ASSUME \/ dialFails \/ dialUp \/ forget \/ carriedHop \/ hopFails \/ tunnelCloses
             \/ tunnelEnds \/ migrate \/ kill \/ tick \/ networkChanges \/ UNCHANGED vars
      PROVE  StreakOK'
    BY <1>5, <1>7 DEF dialFails, dialUp, forget, carriedHop, hopFails, tunnelCloses,
       tunnelEnds, migrate, TunnelError, kill, tick, networkChanges, Loaded, vars, picks, settings
<1> QED
    BY <1>1, <1>2, <1>3, <1>4, <1>6, <1>7 DEF Next, EngineStep

\* The streak that opens the pipe counts different gateways: OUTER_IR_STREAK is
\* the number of gateways judged in it, though it is a static and the list that
\* keeps a gateway from being judged again is read anew at every start.
THEOREM StreakGateways == Spec => []StreakCountsGateways
<1>1. Init => StreakOK
    BY FS_EmptySet DEF Init, StreakOK
<1>2. StreakOK => StreakCountsGateways
    BY DEF StreakOK, StreakCountsGateways
<1> QED
    BY <1>1, <1>2, Invariant, NextStreak, PTL DEF Spec

=============================================================================
