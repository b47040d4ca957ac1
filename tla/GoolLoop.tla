------------------------------- MODULE GoolLoop -------------------------------
(***************************************************************************)
(* Warp-in-warp's choice of its two edges: run_gool.  A pair that failed   *)
(* is parked and its file removed.  run_warp_in_warp never returns         *)
(* Ok: join_outcome turns every exit into an error, so the branches of     *)
(* run_gool that follow Ok(()), last_peer and consecutive_fails among      *)
(* them, are never taken and are left out.  The names differ from those of *)
(* WgLoop, so that one module can prove about both.                        *)
(***************************************************************************)
EXTENDS Naturals, FiniteSets

CONSTANTS
    Edges, NoPair,
    PairCooldown,   \* wg_endpoint_cooldown, in ticks
    MaxExits        \* bound: exits and kills of the engine

ASSUME GoolAssumption ==
    /\ NoPair \notin Edges \X Edges
    /\ PairCooldown \in Nat \ {0} /\ MaxExits \in Nat

Pairs == {p \in Edges \X Edges : p[1] # p[2]}
Pair == Pairs \cup {NoPair}

VARIABLES
    answering, exits,   \* edges that answer a scan, exits so far
    file,               \* lastconn: the pair on disk
    saved,              \* the pair read from it, taken once
    stage, pair,
    held, cooling       \* endpoint_cooldowns: its keys, ticks that remain

parking == <<held, cooling>>
goolVars == <<answering, exits, file, saved, stage, pair, parking>>

\* Types: every pair that run_gool holds or stores has two different edges.
PairsOK ==
    /\ answering \subseteq Edges /\ exits \in 0 .. MaxExits
    /\ file \in Pair /\ saved \in Pair /\ pair \in Pair
    /\ stage \in {"down", "turn", "pick", "dial", "up"}
    /\ held \subseteq Edges /\ cooling \in [Edges -> 0 .. PairCooldown]

GoolInit ==
    /\ answering \in SUBSET Edges /\ exits = 0
    /\ file = NoPair /\ saved = NoPair /\ pair = NoPair
    /\ stage = "down" /\ held = {} /\ cooling = [e \in Edges |-> 0]

Within(p, edges) == {p[1], p[2]} \subseteq edges

-----------------------------------------------------------------------------

\* A pinned range or peer in the settings makes the engine ignore the file.
launch_gool ==
    /\ stage = "down" /\ stage' = "turn"
    /\ \E pinned \in BOOLEAN : saved' = IF pinned THEN NoPair ELSE file
    /\ held' = {} /\ cooling' = [e \in Edges |-> 0]
    /\ UNCHANGED <<answering, exits, file, pair>>

\* Mutant: entries whose cooldown is over are not removed.
MutNoRetainPair ==
    /\ stage = "turn" /\ stage' = "pick"
    /\ UNCHANGED <<answering, exits, file, saved, pair, parking>>

\* The top of the loop: entries whose cooldown is over go.
retain ==
    /\ stage = "turn" /\ stage' = "pick"
    /\ held' = {e \in held : cooling[e] > 0}
    /\ UNCHANGED <<answering, exits, file, saved, pair, cooling>>

\* The pair is written to the file before it is dialled.
Use(p) ==
    /\ pair' = p /\ file' = p /\ stage' = "dial"
    /\ UNCHANGED <<answering, exits, parking>>

reuse ==
    /\ stage = "pick" /\ saved # NoPair
    /\ Use(saved) /\ saved' = NoPair

\* Mutant: the two edges need not differ.
MutSameEdge ==
    /\ stage = "pick" /\ saved = NoPair
    /\ \E o, i \in answering \ held : Use(<<o, i>>)
    /\ UNCHANGED saved

\* Two edges on separate addresses, the parked ones left out.
select_wg_peers ==
    /\ stage = "pick" /\ saved = NoPair
    /\ \E p \in Pairs : Within(p, answering \ held) /\ Use(p)
    /\ UNCHANGED saved

\* Nothing but parked edges answered: scan once more among all.
ignoreCooldowns ==
    /\ stage = "pick" /\ saved = NoPair
    /\ held # {} /\ answering \subseteq held
    /\ \E p \in Pairs : Within(p, answering) /\ Use(p)
    /\ UNCHANGED saved

\* The scan found no edge, or a single one: once more from the top.
scanShort ==
    /\ stage = "pick" /\ saved = NoPair /\ stage' = "turn"
    /\ Cardinality(IF answering \subseteq held THEN answering ELSE answering \ held) < 2
    /\ UNCHANGED <<answering, exits, file, saved, pair, parking>>

pairUp ==
    /\ stage = "dial" /\ Within(pair, answering)
    /\ stage' = "up"
    /\ UNCHANGED <<answering, exits, file, saved, pair, parking>>

\* Park both edges, forget the file if it names them, start over.
dropPair ==
    /\ stage' = "turn" /\ saved' = NoPair
    /\ held' = held \cup {pair[1], pair[2]}
    /\ cooling' = [e \in Edges |->
                    IF e \in {pair[1], pair[2]} THEN PairCooldown ELSE cooling[e]]
    /\ file' = IF file = pair THEN NoPair ELSE file
    /\ UNCHANGED <<answering, exits, pair>>

pairFails == stage = "dial" /\ ~Within(pair, answering) /\ dropPair

pairEnds == stage = "up" /\ dropPair

migrate_pair == stage = "up" /\ dropPair

\* The local port is taken by another instance: the process exits.
portBusy ==
    /\ stage = "up" /\ exits < MaxExits
    /\ exits' = exits + 1 /\ stage' = "down"
    /\ UNCHANGED <<answering, file, saved, pair, parking>>

-----------------------------------------------------------------------------

kill_gool ==
    /\ stage # "down" /\ exits < MaxExits
    /\ exits' = exits + 1 /\ stage' = "down"
    /\ UNCHANGED <<answering, file, saved, pair, parking>>

tick_gool ==
    /\ \E e \in Edges : cooling[e] > 0
    /\ cooling' = [e \in Edges |-> IF cooling[e] > 0 THEN cooling[e] - 1 ELSE 0]
    /\ UNCHANGED <<answering, exits, file, saved, stage, pair, held>>

edgesChange ==
    /\ answering' \in SUBSET Edges
    /\ UNCHANGED <<exits, file, saved, stage, pair, parking>>

GoolStep ==
    \/ launch_gool \/ retain \/ reuse \/ select_wg_peers \/ ignoreCooldowns
    \/ scanShort \/ pairUp \/ pairFails

GoolNext ==
    \/ GoolStep \/ pairEnds \/ migrate_pair \/ portBusy
    \/ kill_gool \/ tick_gool \/ edgesChange

GoolSpec == GoolInit /\ [][GoolNext]_goolVars

\* The engine's steps happen, the app restarts an engine that is gone, and time
\* passes.
GoolFairness == WF_goolVars(GoolStep) /\ WF_goolVars(tick_gool)

-----------------------------------------------------------------------------
(* Properties.                                                             *)

\* Parking cannot lock the engine out: once the network has settled and two
\* edges answer, every loss of the tunnel is followed by a tunnel.
PairReconnects ==
    \A stable \in SUBSET Edges :
        Cardinality(stable) >= 2 /\ <>[](answering = stable) => []<>(stage = "up")

=============================================================================
