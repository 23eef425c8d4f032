--------------------------- MODULE MCProvisioning ---------------------------
(* Instances of Provisioning for TLC. *)
EXTENDS Provisioning, TLC

CONSTANTS r1, r2, e1, e2

Everything == AllFaults

Executors == Permutations(Executor)
=============================================================================
