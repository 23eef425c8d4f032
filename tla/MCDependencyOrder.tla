------------------------- MODULE MCDependencyOrder -------------------------
(* Every dependency graph of three Configurations that may also name one   *)
(* that is not there.                                                      *)
EXTENDS DependencyOrder

CONSTANTS a, b, c, absent

Three == <<a, b, c>>
=============================================================================
