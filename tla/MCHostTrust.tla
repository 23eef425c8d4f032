---------------------------- MODULE MCHostTrust ----------------------------
(* Instances of HostTrust for TLC. *)
EXTENDS HostTrust, TLC

Symmetry == Permutations(Machine) \cup Permutations(Executor)
=============================================================================
