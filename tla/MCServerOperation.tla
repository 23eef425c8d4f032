-------------------------- MODULE MCServerOperation --------------------------
(* Instances of ServerOperation for TLC.                                    *)
EXTENDS ServerOperation

\* Two executors that contend for one target, each running another caller.
Mix(first, second) ==
  [e \in Executor |-> IF e = CHOOSE x \in Executor : TRUE THEN first ELSE second]

\* The caller with the most stages and the one with mixed checks.
MixedOperators == Mix("configurations", "ssh-host-keys")
SystemOnly == [e \in Executor |-> "system-operations"]
Unclassified == Outcomes \ {"signalled"}
=============================================================================
