----------------------------- MODULE TargetLock -----------------------------
(***************************************************************************)
(* What operators/server_operation.py promises its callers, without saying *)
(* how: a claim owns at most the target it acquired, remote work is only   *)
(* done under a claim, and a claim is given up only when its remote work   *)
(* is known to have stopped ("without time-based unsafe release").         *)
(*                                                                         *)
(* ServerOperation is shown to implement this module.                      *)
(***************************************************************************)
CONSTANTS Target,    \* the resources that can be claimed
          Claim,     \* the lifetimes of claims, never reused
          NoClaim    \* the owner of a free target

VARIABLES owner,     \* owner[t]: the claim that holds target t, or NoClaim
          spent,     \* claims that were acquired at some time
          working    \* claims whose remote work may still be running

lockVars == <<owner, spent, working>>

Init ==
  /\ owner = [t \in Target |-> NoClaim]
  /\ spent = {}
  /\ working = {}

Holds(c) == \E t \in Target : owner[t] = c

Acquire(t, c) ==
  /\ owner[t] = NoClaim
  /\ c \notin spent
  /\ owner' = [owner EXCEPT ![t] = c]
  /\ spent' = spent \cup {c}
  /\ UNCHANGED working

Begin(c) ==
  /\ Holds(c)
  /\ working' = working \cup {c}
  /\ UNCHANGED <<owner, spent>>

End(c) ==
  /\ working' = working \ {c}
  /\ UNCHANGED <<owner, spent>>

\* A free target has no work under way, so a target is always freed safely.
Release(t) ==
  /\ owner[t] \notin working
  /\ owner' = [owner EXCEPT ![t] = NoClaim]
  /\ UNCHANGED <<spent, working>>

Next ==
  \/ \E t \in Target : Release(t) \/ \E c \in Claim : Acquire(t, c)
  \/ \E c \in Claim : Begin(c) \/ End(c)

LockSpec == Init /\ [][Next]_lockVars
=============================================================================
