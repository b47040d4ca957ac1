------------------------------ MODULE MCNetstack ------------------------------
(***************************************************************************)
(* Netstack on a small instance: one connection that can fill every buffer *)
(* and every queue, and a UDP association that shares data_in with it.     *)
(***************************************************************************)
EXTENDS Netstack

CONSTANTS Up, Down

MCUp == [i \in Conns |-> Up]
MCDown == [i \in Conns |-> Down]

=============================================================================
