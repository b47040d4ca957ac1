----------------------------- MODULE EngineSlot -----------------------------
(***************************************************************************)
(* What the service promises about engine processes, whatever its          *)
(* coroutines do: there is one slot for them.  A job starts its engine     *)
(* while it holds the slot, alone and after all others were stopped; a     *)
(* job that was barred before does not get it.  A teardown waits for the   *)
(* holder and leaves no engine behind.                                     *)
(***************************************************************************)
CONSTANTS Jobs, None

VARIABLES
    running,    \* jobs whose engine process runs
    holder,     \* the job that is filling the slot, or None
    slot,       \* the job whose engine is in it, or None
    barred      \* jobs that must not start an engine any more

Init == running = {} /\ holder = None /\ slot = None /\ barred = {}

Take(j) ==
    /\ holder = None /\ j \notin barred
    /\ running' = {} /\ slot' = None /\ holder' = j
    /\ UNCHANGED barred

Start(j) ==
    /\ holder = j /\ running = {}
    /\ running' = {j}
    /\ UNCHANGED <<holder, slot, barred>>

\* The holder leaves its engine in the slot, or leaves without one.
Fill(j) ==
    /\ holder = j /\ running \subseteq {j}
    /\ slot' = j /\ holder' = None
    /\ UNCHANGED <<running, barred>>

Abort(j) ==
    /\ holder = j /\ running = {} /\ slot = None
    /\ holder' = None
    /\ UNCHANGED <<running, slot, barred>>

Clear ==
    /\ holder = None
    /\ running' = {} /\ slot' = None
    /\ UNCHANGED <<holder, barred>>

\* Engines end, by themselves or because somebody stops them.
Stop ==
    /\ running' \subseteq running
    /\ UNCHANGED <<holder, slot, barred>>

Bar ==
    /\ barred' \in SUBSET Jobs /\ barred \subseteq barred'
    /\ UNCHANGED <<running, holder, slot>>

Next == Clear \/ Stop \/ Bar \/ \E j \in Jobs : Take(j) \/ Start(j) \/ Fill(j) \/ Abort(j)

Spec == Init /\ [][Next]_<<running, holder, slot, barred>>

=============================================================================
