------------------------------ MODULE WarpEngine ------------------------------
(***************************************************************************)
(* An engine of one of the two WireGuard protocols.  run_with looks at the *)
(* protocol once and then runs either run_wireguard or run_gool, classic   *)
(* warp-in-warp, to the end of the process; an engine that is started      *)
(* again has the same settings.                                            *)
(***************************************************************************)
EXTENDS WgLoop, GoolLoop

VARIABLE protocol       \* "wg" or "gool": SOILDTUNNEL_PROTOCOL

warpVars == <<protocol, vars, goolVars>>

WarpInit == protocol \in {"wg", "gool"} /\ Init /\ GoolInit

wireguard == protocol = "wg" /\ Next /\ UNCHANGED <<protocol, goolVars>>

warpInWarp == protocol = "gool" /\ GoolNext /\ UNCHANGED <<protocol, vars>>

run_with == wireguard \/ warpInWarp

\* The fairness is that of the loop that runs.
WarpSpec ==
    /\ WarpInit /\ [][run_with]_warpVars
    /\ protocol = "wg" => Fairness
    /\ protocol = "gool" => GoolFairness

\* Parking cannot lock run_wireguard out.
WgReconnects == protocol = "wg" => Reconnects

\* Nor can it lock run_gool out, which parks two edges at a time and needs two.
GoolReconnects == protocol = "gool" => PairReconnects

===============================================================================
