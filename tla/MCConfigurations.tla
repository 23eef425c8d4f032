-------------------------- MODULE MCConfigurations --------------------------
(* Instances of Configurations for TLC. *)
EXTENDS Configurations

CONSTANTS base, app, e1, e2, h1, h2

\* app depends on base; base runs on one host, app on both.
Chain == [c \in {base, app} |-> IF c = app THEN {base} ELSE {}]
Spread == [c \in {base, app} |-> IF c = app THEN <<h1, h2>> ELSE <<h1>>]

\* One pipeline for each Configuration, or one pipeline for both.
Apart == [e \in {e1, e2} |-> IF e = e1 THEN <<base>> ELSE <<app>>]
Together == [e \in {e1} |-> <<base, app>>]
=============================================================================
