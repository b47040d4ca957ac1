---------------------------- MODULE MCProvisioning ----------------------------
(***************************************************************************)
(* Provisioning on a small instance.  Devices and keys are interchangeable *)
(* and the run checks no liveness, so both may be permuted.                *)
(***************************************************************************)
EXTENDS Provisioning, TLC

Symmetry == Permutations(Devices) \cup Permutations(Keys)

=============================================================================
