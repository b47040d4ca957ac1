----------------------------- MODULE WgLoopProofs -----------------------------
(***************************************************************************)
(* A parked endpoint is not used before its cooldown is over, for any set  *)
(* of endpoints, any limits and any number of kills; and for warp-in-warp, *)
(* of GoolLoop, whose loop is built the same way, the two edges always     *)
(* differ.                                                                 *)
(***************************************************************************)
EXTENDS WgLoop, GoolLoop, TLAPS

\* Nothing is parked and nothing has failed before the first choice.
Fresh == /\ \A e \in Endpoints : cool[e] = 0
         /\ fails = 0 /\ lastGood = None

Starting == /\ pc \in {"assigned", "cached"} => Fresh
            /\ pc # "down" /\ quick # None =>
                  Fresh /\ pc \in {"assigned", "cached", "turn", "pick"}

\* The count is below the limit wherever a tunnel may still fail.
Counted == pc \in {"pick", "use", "dial", "up"} => fails < MaxFails

\* The endpoint in use and the one to be retried are not parked.
InUse == pc \in {"use", "dial", "up"} => peer \in Endpoints
PeerFree == ParkedNotUsed
RetryFree == forced = None /\ lastGood # None => cool[lastGood] = 0

\* An endpoint whose cooldown runs is still in the map that the scan leaves out.
Kept == \A e \in Endpoints : cool[e] > 0 => e \in parked

Rest == Starting /\ Counted /\ InUse /\ PeerFree /\ RetryFree /\ Kept

IndInv ==
    TypeOK /\ Starting /\ Counted /\ InUse /\ PeerFree /\ RetryFree /\ Kept

\* The invariant holds before the engine is started.
LEMMA InitInv == Init => IndInv
<1> SUFFICES ASSUME Init PROVE IndInv
    OBVIOUS
<1>1. /\ kills \in 0 .. MaxKills /\ cool \in [Endpoints -> 0 .. Cooldown]
      /\ fails \in 0 .. MaxFails
    BY WgAssumption DEF Init
<1>2. TypeOK
    BY <1>1 DEF Init, TypeOK, Endpoint
<1>3. Rest
    BY DEF Init, Rest, Starting, Counted, InUse, Kept, PeerFree, ParkedNotUsed, cooldowns,
           RetryFree
<1> QED
    BY <1>2, <1>3 DEF IndInv, Rest

\* Start-up.
LEMMA StartInv ==
    ASSUME IndInv, launch \/ tryAssigned \/ tryCached PROVE IndInv'
<1>1. CASE launch
    <2>1. /\ cool' \in [Endpoints -> 0 .. Cooldown] /\ fails' \in 0 .. MaxFails
          /\ forced' \in Endpoint
        BY <1>1, WgAssumption DEF launch, Endpoint
    <2>2. TypeOK'
        BY <1>1, <2>1 DEF launch, IndInv, TypeOK, Endpoint, world, cooldowns
    <2>3. Rest'
        BY <1>1 DEF launch, Rest, Starting, Fresh, Counted, InUse, Kept, PeerFree,
                    ParkedNotUsed, cooldowns, RetryFree
    <2> QED
        BY <2>2, <2>3 DEF IndInv, Rest
<1>2. CASE tryAssigned
    <2>1. TypeOK'
        BY <1>2, WgAssumption DEF tryAssigned, IndInv, TypeOK, Endpoint, world, cooldowns
    <2>2. Rest'
        BY <1>2 DEF tryAssigned, IndInv, Rest, Starting, Fresh, Counted, InUse, Kept,
                    PeerFree, ParkedNotUsed, cooldowns, RetryFree
    <2> QED
        BY <2>1, <2>2 DEF IndInv, Rest
<1>3. CASE tryCached
    <2>1. TypeOK'
        BY <1>3 DEF tryCached, IndInv, TypeOK, Endpoint, world, cooldowns
    <2>2. Rest'
        BY <1>3 DEF tryCached, IndInv, Rest, Starting, Fresh, Counted, InUse, Kept,
                    PeerFree, ParkedNotUsed, cooldowns, RetryFree
    <2> QED
        BY <2>1, <2>2 DEF IndInv, Rest
<1> QED
    BY <1>1, <1>2, <1>3

\* The top of the loop parks only the endpoint it also forgets.
LEMMA TurnInv ==
    ASSUME IndInv, turn PROVE IndInv'
<1>0. /\ fails \in 0 .. MaxFails /\ lastGood \in Endpoint
      /\ parked \subseteq Endpoints /\ cool \in [Endpoints -> 0 .. Cooldown]
    BY DEF IndInv, TypeOK
<1>k. Kept' /\ parked' \subseteq Endpoints /\ cool' \in [Endpoints -> 0 .. Cooldown]
    <2>1. CASE fails >= MaxFails /\ lastGood # None
        <3>1. lastGood \in Endpoints /\ Cooldown \in 0 .. Cooldown
            BY <1>0, <2>1, WgAssumption DEF Endpoint
        <3>2. parked' = retained \cup {lastGood} /\ cool' = [cool EXCEPT ![lastGood] = Cooldown]
            BY <2>1 DEF turn
        <3> QED
            BY <1>0, <3>1, <3>2 DEF retained, IndInv, Kept
    <2>2. CASE ~(fails >= MaxFails /\ lastGood # None)
        <3>1. parked' = retained /\ cool' = cool
            BY <2>2 DEF turn
        <3> QED
            BY <1>0, <3>1 DEF retained, IndInv, Kept
    <2> QED
        BY <2>1, <2>2
<1>1. CASE fails >= MaxFails
    <2>1. fails' \in 0 .. MaxFails /\ fails' < MaxFails /\ fails' = 0 /\ lastGood' = None
        BY <1>1, WgAssumption DEF turn
    <2>3. TypeOK'
        BY <1>k, <2>1 DEF turn, IndInv, TypeOK, Endpoint, world, cooldowns
    <2>4. quick = None
        BY <1>1, WgAssumption DEF turn, IndInv, Starting, Fresh
    <2>5. Rest'
        BY <1>k, <2>1, <2>4 DEF turn, Rest, Starting, Counted, InUse, Kept, PeerFree,
                                ParkedNotUsed, cooldowns, RetryFree
    <2> QED
        BY <2>3, <2>5 DEF IndInv, Rest
<1>2. CASE ~(fails >= MaxFails)
    <2>1. fails < MaxFails
        BY <1>0, <1>2, WgAssumption
    <2>2. TypeOK'
        BY <1>2, <1>k DEF turn, IndInv, TypeOK, world, cooldowns
    <2>3. Rest'
        BY <1>2, <1>k, <2>1 DEF turn, IndInv, Rest, Starting, Fresh, Counted, InUse, Kept,
                                PeerFree, ParkedNotUsed, cooldowns, RetryFree
    <2> QED
        BY <2>2, <2>3 DEF IndInv, Rest
<1> QED
    BY <1>1, <1>2

\* A choice of an endpoint that is not parked.
LEMMA PickedInv ==
    ASSUME IndInv, pc = "pick", NEW e \in Endpoints, Picked(e), quick' = None,
           forced = None => cool[e] = 0
    PROVE  IndInv'
<1>1. TypeOK'
    BY DEF Picked, IndInv, TypeOK, Endpoint, world, cooldowns
<1>2. Rest'
    BY DEF Picked, IndInv, Rest, Starting, Counted, InUse, Kept, PeerFree, ParkedNotUsed,
           cooldowns, RetryFree
<1> QED
    BY <1>1, <1>2 DEF IndInv, Rest

\* Every way to choose an endpoint.
LEMMA PickInv ==
    ASSUME IndInv, pickQuick \/ retryLastGood \/ useForced \/ forcedDead \/ hunt_wg_peer
                   \/ scanFails
    PROVE  IndInv'
<1> USE DEF noRetry
<1>1. CASE pickQuick
    <2>1. quick \in Endpoints /\ cool[quick] = 0
        BY <1>1 DEF pickQuick, IndInv, TypeOK, Endpoint, Starting, Fresh
    <2> QED
        BY <1>1, <2>1, PickedInv DEF pickQuick
<1>2. CASE retryLastGood
    <2>1. lastGood \in Endpoints /\ (forced = None => cool[lastGood] = 0)
        BY <1>2 DEF retryLastGood, IndInv, TypeOK, Endpoint, RetryFree
    <2> QED
        BY <1>2, <2>1, PickedInv DEF retryLastGood
<1>3. CASE useForced
    <2>1. forced \in Endpoints
        BY <1>3 DEF useForced, IndInv, TypeOK, Endpoint
    <2> QED
        BY <1>3, <2>1, PickedInv DEF useForced
<1>4. CASE forcedDead \/ scanFails
    <2>1. TypeOK'
        BY <1>4 DEF forcedDead, scanFails, IndInv, TypeOK, world, cooldowns, picks
    <2>2. Rest'
        BY <1>4 DEF forcedDead, scanFails, IndInv, Rest, Starting, Counted, InUse, Kept,
                    PeerFree, ParkedNotUsed, cooldowns, RetryFree, picks, cooldowns
    <2> QED
        BY <2>1, <2>2 DEF IndInv, Rest
<1>5. CASE hunt_wg_peer
    <2>1. PICK e \in answers \ parked : Picked(e)
        BY <1>5 DEF hunt_wg_peer
    <2>2. e \in Endpoints
        BY DEF IndInv, TypeOK
    <2>3. cool[e] = 0
        BY <2>1, <2>2, WgAssumption DEF IndInv, TypeOK, Kept
    <2> QED
        BY <1>5, <2>1, <2>2, <2>3, PickedInv DEF hunt_wg_peer
<1> QED
    BY <1>1, <1>2, <1>3, <1>4, <1>5

\* The tunnel's life.
LEMMA TunnelInv ==
    ASSUME IndInv, usePeer \/ dialFails \/ dialUp \/ tunnelEnds \/ migrate PROVE IndInv'
<1>0. /\ fails \in 0 .. MaxFails /\ cool \in [Endpoints -> 0 .. Cooldown]
      /\ peer \in Endpoint
    BY DEF IndInv, TypeOK
<1>1. CASE usePeer
    <2>1. fails' \in 0 .. MaxFails /\ fails' < MaxFails
        BY <1>0, <1>1, WgAssumption DEF usePeer, IndInv, Counted
    <2>2. cached' \in Endpoint /\ lastGood' \in Endpoint
        BY <1>0, <1>1 DEF usePeer, IndInv, TypeOK
    <2>3. TypeOK'
        BY <1>1, <2>1, <2>2 DEF usePeer, IndInv, TypeOK, world, cooldowns
    <2>4. Rest'
        BY <1>1, <2>1 DEF usePeer, IndInv, Rest, Starting, Counted, InUse, Kept, PeerFree,
                          ParkedNotUsed, cooldowns, RetryFree
    <2> QED
        BY <2>3, <2>4 DEF IndInv, Rest
<1>2. CASE dialFails \/ tunnelEnds
    <2>0. pc \in {"dial", "up"} /\ TunnelOver
        BY <1>2 DEF dialFails, tunnelEnds
    <2>1. fails' \in 0 .. MaxFails
        BY <1>0, <2>0, WgAssumption DEF TunnelOver, IndInv, Counted
    <2>2. TypeOK'
        BY <2>0, <2>1 DEF TunnelOver, IndInv, TypeOK, world, cooldowns, picks
    <2>3. quick = None
        BY <2>0 DEF IndInv, Starting
    <2>4. Rest'
        BY <2>0, <2>3 DEF TunnelOver, IndInv, Rest, Starting, Counted, InUse, Kept,
                          PeerFree, ParkedNotUsed, cooldowns, RetryFree, picks, cooldowns
    <2> QED
        BY <2>2, <2>4 DEF IndInv, Rest
<1>3. CASE dialUp
    <2>1. TypeOK'
        BY <1>3 DEF dialUp, IndInv, TypeOK, world, cooldowns, picks
    <2>2. Rest'
        BY <1>3 DEF dialUp, IndInv, Rest, Starting, Counted, InUse, Kept, PeerFree,
                    ParkedNotUsed, cooldowns, RetryFree, picks, cooldowns
    <2> QED
        BY <2>1, <2>2 DEF IndInv, Rest
<1>4. CASE migrate
    <2>1. fails' \in 0 .. MaxFails /\ cool' \in [Endpoints -> 0 .. Cooldown]
        <3>1. 0 \in 0 .. MaxFails /\ Cooldown \in 0 .. Cooldown
            BY WgAssumption
        <3>2. fails' = 0 /\ cool' = [cool EXCEPT ![peer] = Cooldown]
            BY <1>4 DEF migrate
        <3> QED
            BY <1>0, <3>1, <3>2
    <2>k. Kept' /\ parked' \subseteq Endpoints
        <3>1. peer \in Endpoints /\ parked \subseteq Endpoints
            BY <1>4 DEF migrate, IndInv, InUse, TypeOK
        <3>2. parked' = parked \cup {peer} /\ cool' = [cool EXCEPT ![peer] = Cooldown]
            BY <1>4 DEF migrate
        <3> QED
            BY <1>0, <3>1, <3>2 DEF IndInv, Kept
    <2>2. TypeOK'
        BY <1>4, <2>1, <2>k DEF migrate, IndInv, TypeOK, Endpoint, world, cooldowns
    <2>3. quick = None
        BY <1>4 DEF migrate, IndInv, Starting
    <2>4. Rest'
        BY <1>4, <2>3, <2>k DEF migrate, Rest, Starting, Counted, InUse, Kept, PeerFree,
                                ParkedNotUsed, cooldowns, RetryFree
    <2> QED
        BY <2>2, <2>4 DEF IndInv, Rest
<1> QED
    BY <1>1, <1>2, <1>3, <1>4

\* Kills, time and the network.
LEMMA WorldInv ==
    ASSUME IndInv, kill \/ tick \/ networkChanges PROVE IndInv'
<1>1. CASE kill
    <2>0. kills' \in 0 .. MaxKills
        BY <1>1, WgAssumption DEF kill, IndInv, TypeOK
    <2>1. TypeOK'
        BY <1>1, <2>0 DEF kill, IndInv, TypeOK, picks, cooldowns
    <2>2. Rest'
        BY <1>1 DEF kill, IndInv, Rest, Starting, Counted, InUse, Kept, PeerFree,
                    ParkedNotUsed, cooldowns, RetryFree, picks, cooldowns
    <2> QED
        BY <2>1, <2>2 DEF IndInv, Rest
<1>2. CASE tick
    <2>0. cool \in [Endpoints -> 0 .. Cooldown]
        BY DEF IndInv, TypeOK
    <2>1. cool' \in [Endpoints -> 0 .. Cooldown]
        BY <1>2, <2>0, WgAssumption DEF tick
    <2>2. \A e \in Endpoints : cool[e] = 0 => cool'[e] = 0
        BY <1>2, <2>0 DEF tick
    <2>k. Kept'
        BY <1>2, <2>0 DEF tick, IndInv, Kept
    <2>3. TypeOK'
        BY <1>2, <2>1 DEF tick, IndInv, TypeOK, world, cooldowns, picks
    <2>4. Starting' /\ Counted' /\ InUse'
        BY <1>2, <2>2 DEF tick, IndInv, Starting, Fresh, Counted, InUse, picks, cooldowns
    <2>5. PeerFree' /\ RetryFree'
        BY <1>2, <2>2 DEF tick, IndInv, TypeOK, Endpoint, InUse, Kept, PeerFree,
                          ParkedNotUsed, cooldowns, RetryFree, picks, cooldowns
    <2> QED
        BY <2>3, <2>4, <2>5, <2>k DEF IndInv
<1>3. CASE networkChanges
    <2>1. TypeOK'
        BY <1>3 DEF networkChanges, IndInv, TypeOK, picks, cooldowns
    <2>2. Rest'
        BY <1>3 DEF networkChanges, IndInv, Rest, Starting, Fresh, Counted, InUse, Kept,
                    PeerFree, ParkedNotUsed, cooldowns, RetryFree, picks, cooldowns
    <2> QED
        BY <2>1, <2>2 DEF IndInv, Rest
<1> QED
    BY <1>1, <1>2, <1>3

\* Every step keeps the invariant.
LEMMA NextInv == IndInv /\ [Next]_vars => IndInv'
<1> SUFFICES ASSUME IndInv, [Next]_vars PROVE IndInv'
    OBVIOUS
<1>1. CASE Next
    BY <1>1, StartInv, TurnInv, PickInv, TunnelInv, WorldInv DEF Next, EngineStep
<1>2. CASE UNCHANGED vars
    <2>1. TypeOK'
        BY <1>2 DEF vars, IndInv, TypeOK, world, cooldowns, picks
    <2>2. Rest'
        BY <1>2 DEF vars, IndInv, Rest, Starting, Fresh, Counted, InUse, Kept, PeerFree,
                    ParkedNotUsed, cooldowns, RetryFree, picks, cooldowns
    <2> QED
        BY <2>1, <2>2 DEF IndInv, Rest
<1> QED
    BY <1>1, <1>2

\* The invariant holds throughout.
LEMMA Invariant == Spec => []IndInv
BY InitInv, NextInv, PTL DEF Spec

\* The state of run_wireguard keeps its types; the count of failures never
\* passes MAX_CONSECUTIVE_FAILS.
THEOREM WgTypeCorrect == Spec => []TypeOK
<1>1. IndInv => TypeOK
    BY DEF IndInv
<1> QED
    BY <1>1, Invariant, PTL

\* run_wireguard keeps its word to a parked endpoint: no shortcut, retry or scan
\* of an engine free to choose returns to it before its cooldown is over.
THEOREM ParkedStaysParked == Spec => []ParkedNotUsed
<1>1. IndInv => ParkedNotUsed
    BY DEF IndInv, PeerFree
<1> QED
    BY <1>1, Invariant, PTL

-----------------------------------------------------------------------------
(* Warp-in-warp.                                                           *)

\* A pair being dialled or used is a pair.
PairSet == stage \in {"dial", "up"} => pair \in Pairs

GoolInv == PairsOK /\ PairSet

\* The invariant holds before the engine is started.
LEMMA GoolInitInv == ASSUME GoolInit PROVE GoolInv
<1>1. exits \in 0 .. MaxExits /\ cooling \in [Edges -> 0 .. PairCooldown]
    BY GoolAssumption DEF GoolInit
<1>2. PairsOK
    BY <1>1 DEF GoolInit, PairsOK, Pair
<1>3. PairSet
    BY DEF GoolInit, PairSet
<1> QED
    BY <1>2, <1>3 DEF GoolInv

\* Using a pair of two different edges.
LEMMA UseInv ==
    ASSUME GoolInv, NEW p \in Pairs, Use(p), saved' \in Pair PROVE GoolInv'
<1>1. PairsOK'
    BY DEF Use, parking, GoolInv, PairsOK, Pair
<1>2. PairSet'
    BY DEF Use, parking, PairSet
<1> QED
    BY <1>1, <1>2 DEF GoolInv

\* Dropping a pair.
LEMMA DropInv ==
    ASSUME GoolInv, stage \in {"dial", "up"}, dropPair PROVE GoolInv'
<1>1. pair \in Pairs /\ held \subseteq Edges
    BY DEF GoolInv, PairsOK, PairSet
<1>2. cooling' \in [Edges -> 0 .. PairCooldown]
    BY GoolAssumption DEF dropPair, parking, GoolInv, PairsOK
<1>3. file' \in Pair /\ held' \subseteq Edges /\ saved' \in Pair
    BY <1>1 DEF dropPair, parking, GoolInv, PairsOK, Pair, Pairs
<1>4. PairsOK'
    BY <1>2, <1>3 DEF dropPair, parking, GoolInv, PairsOK
<1>5. PairSet'
    BY DEF dropPair, parking, PairSet
<1> QED
    BY <1>4, <1>5 DEF GoolInv

\* Every step keeps the invariant.
LEMMA GoolNextInv ==
    ASSUME GoolInv, [GoolNext]_goolVars PROVE GoolInv'
<1>1. CASE launch_gool
    <2>1. cooling' \in [Edges -> 0 .. PairCooldown] /\ saved' \in Pair
        BY <1>1, GoolAssumption DEF launch_gool, parking, GoolInv, PairsOK, Pair
    <2>2. PairsOK'
        BY <1>1, <2>1 DEF launch_gool, parking, GoolInv, PairsOK
    <2>3. PairSet'
        BY <1>1 DEF launch_gool, parking, PairSet
    <2> QED
        BY <2>2, <2>3 DEF GoolInv
<1>2. CASE reuse
    <2>1. saved \in Pairs /\ saved' \in Pair
        BY <1>2 DEF reuse, GoolInv, PairsOK, Pair
    <2> QED
        BY <1>2, <2>1, UseInv DEF reuse
<1>3. CASE select_wg_peers \/ ignoreCooldowns
    <2>1. saved' \in Pair
        BY <1>3 DEF select_wg_peers, ignoreCooldowns, GoolInv, PairsOK
    <2>2. \E p \in Pairs : Use(p)
        BY <1>3 DEF select_wg_peers, ignoreCooldowns
    <2> QED
        BY <2>1, <2>2, UseInv
<1>4. CASE pairUp \/ retain \/ scanShort
    <2>1. PairsOK'
        BY <1>4 DEF pairUp, retain, scanShort, parking, GoolInv, PairsOK
    <2>2. PairSet'
        BY <1>4 DEF pairUp, retain, scanShort, parking, GoolInv, PairSet
    <2> QED
        BY <2>1, <2>2 DEF GoolInv
<1>5. CASE pairFails \/ pairEnds \/ migrate_pair
    BY <1>5, DropInv DEF pairFails, pairEnds, migrate_pair
<1>6. CASE portBusy \/ kill_gool
    <2>1. exits' \in 0 .. MaxExits
        BY <1>6, GoolAssumption DEF portBusy, kill_gool, parking, GoolInv, PairsOK
    <2>3. PairsOK'
        BY <1>6, <2>1 DEF portBusy, kill_gool, parking, GoolInv, PairsOK
    <2>4. PairSet'
        BY <1>6 DEF portBusy, kill_gool, parking, GoolInv, PairSet
    <2> QED
        BY <2>3, <2>4 DEF GoolInv
<1>7. CASE edgesChange
    <2>1. PairsOK'
        BY <1>7 DEF edgesChange, parking, GoolInv, PairsOK
    <2>2. PairSet'
        BY <1>7 DEF edgesChange, parking, GoolInv, PairSet
    <2> QED
        BY <2>1, <2>2 DEF GoolInv
<1>8. CASE tick_gool
    <2>1. cooling' \in [Edges -> 0 .. PairCooldown]
        BY <1>8, GoolAssumption DEF tick_gool, parking, GoolInv, PairsOK
    <2>2. PairsOK'
        BY <1>8, <2>1 DEF tick_gool, parking, GoolInv, PairsOK
    <2>3. PairSet'
        BY <1>8 DEF tick_gool, parking, GoolInv, PairSet
    <2> QED
        BY <2>2, <2>3 DEF GoolInv
<1>9. CASE UNCHANGED goolVars
    BY <1>9 DEF goolVars, parking, GoolInv, PairsOK, PairSet
<1> QED
    BY <1>1, <1>2, <1>3, <1>4, <1>5, <1>6, <1>7, <1>8, <1>9 DEF GoolNext, GoolStep

\* The invariant holds throughout.
LEMMA GoolInvariant == GoolSpec => []GoolInv
<1>1. GoolInit => GoolInv
    BY GoolInitInv
<1>2. GoolInv /\ [GoolNext]_goolVars => GoolInv'
    BY GoolNextInv
<1> QED
    BY <1>1, <1>2, PTL DEF GoolSpec

\* Every pair run_gool holds, writes or reads back has two different edges.
THEOREM EdgesDiffer == GoolSpec => []PairsOK
<1>1. GoolInv => PairsOK
    BY DEF GoolInv
<1> QED
    BY <1>1, GoolInvariant, PTL

=============================================================================
