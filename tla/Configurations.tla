--------------------------- MODULE Configurations ---------------------------
(***************************************************************************)
(* The configuration operator (operators/configurations.py): passes that   *)
(* plan each Configuration of their capture group, claim all of its hosts, *)
(* run its command under those claims and report what was verified.        *)
(*                                                                         *)
(* A claim is the abstract lock that ServerOperation implements: a host    *)
(* has one owner, and a claim that is not known to have ended is retained  *)
(* until an administrator resolves it.  An input revision is the digest of *)
(* everything a plan reads; it is modelled by those inputs themselves, so  *)
(* two revisions are equal exactly when the inputs are.                    *)
(***************************************************************************)
EXTENDS Integers, Sequences, FiniteSets

CONSTANTS
  Config,      \* Configurations
  Host,        \* the Servers their capture groups select
  Executor,    \* passes that may overlap (one pipeline per capture group)
  DependsOn,   \* DependsOn[c]: the Configurations c names in spec.dependsOn
  Order,       \* Order[e]: the order in which a pass of e takes its Configurations
  Hosts,       \* Hosts[c]: the sorted hosts of c's capture group
  MaxEdits,    \* bound: the generation of a Configuration
  MaxChanges,  \* bound: changes of a host's inputs
  Faults       \* which of AllFaults may happen

AllFaults == {"fail", "uncertain", "api", "terminate", "kill"}

ASSUME ConstantsAssumption ==
  /\ DependsOn \in [Config -> SUBSET Config]
  /\ Order \in [Executor -> Seq(Config)]
  /\ \A e \in Executor : Order[e] # <<>>
  /\ Hosts \in [Config -> Seq(Host)]
  /\ \A c \in Config : \A i, j \in 1 .. Len(Hosts[c]) : Hosts[c][i] = Hosts[c][j] => i = j
  /\ "free" \notin Executor /\ "retained" \notin Executor
  /\ MaxEdits \in Nat /\ MaxChanges \in Nat
  /\ Faults \subseteq AllFaults

VARIABLES
  spec,        \* spec[c]: metadata.generation and spec.suspended of c
  status,      \* status[c]: what was last reported for c
  inputs,      \* inputs[h]: the lifetime and settings member_inputs fingerprints
  leased,      \* leased[h]: a provisioning run owns h
  stale,       \* executors whose Configuration was written since they read it to report
  owner,       \* owner[h]: the executor whose claim holds h, "free" or "retained"
  orphans,     \* orphans[h]: commands nobody waits for that may still run on h
  ex,          \* ex[e]: the local state of executor e
  verified     \* history: <<c, revision>> whose command and guards completed

apiVars == <<spec, status, inputs, leased, stale>>
vars == <<apiVars, owner, orphans, ex, verified>>

\* c and everything its plan resolves recursively: the least set with c that has the
\* prerequisites of its members.
Closed(S) == \A c \in S : DependsOn[c] \subseteq S
Upstreams ==
  [c \in Config |-> {d \in Config : \A S \in SUBSET Config : c \in S /\ Closed(S) => d \in S}]
Upstream(c) == Upstreams[c]
HostSet(c) == {Hosts[c][i] : i \in 1 .. Len(Hosts[c])}

RevisionOf(c, generations, fingerprints) ==
  [generations |-> [d \in Upstream(c) |-> generations[d]],
   members |-> [h \in UNION {HostSet(d) : d \in Upstream(c)} |-> fingerprints[h]]]
\* The revision of c when specs are read as given by sp.
Revision(c, sp) == RevisionOf(c, [d \in Config |-> sp[d].generation], inputs)
NoRevision == [generations |-> <<>>, members |-> <<>>]

NewSpec == [generation |-> 0, suspended |-> FALSE]
Idle == [pc |-> "list", at |-> 1, listed |-> [c \in Config |-> NewSpec],
         revision |-> NoRevision, held |-> 0, stage |-> 1, outcome |-> "none"]

Init ==
  /\ spec = [c \in Config |-> NewSpec]
  /\ status = [c \in Config |-> [phase |-> "Pending", observed |-> 0, revision |-> NoRevision]]
  /\ inputs = [h \in Host |-> 0]
  /\ leased = [h \in Host |-> FALSE]
  /\ stale = {}
  /\ owner = [h \in Host |-> "free"]
  /\ orphans = [h \in Host |-> 0]
  /\ ex = [e \in Executor |-> Idle]
  /\ verified = {}

-----------------------------------------------------------------------------
(* Planning and reporting.                                                 *)

conf(e) == Order[e][ex[e].at]
Held(e) == {Hosts[conf(e)][i] : i \in 1 .. ex[e].held}

\* plan() of one Configuration as sp describes it, without its prerequisites.
Resolvable(c, sp) ==
  /\ ~sp[c].suspended
  /\ \A h \in HostSet(c) : ~leased[h]

\* Mutant of UpToDate: the Ready flag of the present generation is enough.
UpToDateByFlag(c) == status[c].phase = "Ready" /\ status[c].observed = spec[c].generation

\* A prerequisite counts when its report describes its present inputs.
UpToDate(c) ==
  /\ status[c].phase = "Ready"
  /\ status[c].observed = spec[c].generation
  /\ status[c].revision = Revision(c, spec)

\* No Configuration is met again on the way to its own prerequisites.
Acyclic(c) == \A d \in Upstream(c) : \A x \in DependsOn[d] : d \notin Upstream(x)
Available(c, sp) ==
  /\ \A d \in Upstream(c) : Resolvable(d, sp)
  /\ \A d \in Upstream(c) \ {c} : UpToDate(d)
Plannable(c, sp) == Acyclic(c) /\ Available(c, sp)

\* What plan() reads in this pass: prerequisites afresh, but the Configuration
\* itself as it was when the pass listed them.
Seen(e) == [spec EXCEPT ![conf(e)] = ex[e].listed[conf(e)]]

\* plan() again, and compare with the revision this execution started from.
InputsUnchanged(e) ==
  Plannable(conf(e), Seen(e)) /\ Revision(conf(e), Seen(e)) = ex[e].revision

\* How plan() fails.  A cycle is met before or after something that is missing,
\* by the order of the declarations.
PlanFailures(e) ==
  IF Seen(e)[conf(e)].suspended THEN {"suspended"}
  ELSE {o \in {"pending", "failed"} :
          IF o = "pending" THEN ~Available(conf(e), Seen(e)) ELSE ~Acyclic(conf(e))}

\* The phase main reports for a Configuration that was not verified.
FailurePhase(e) ==
  CASE ex[e].outcome = "suspended" -> "Suspended"
    [] ex[e].outcome = "pending" -> "Pending"
    [] OTHER -> "Failed"

\* A report is written only for the generation the pass read; a status the
\* report does not name keeps its revision.
SameGeneration(e) == spec[conf(e)].generation = ex[e].listed[conf(e)].generation
Reported(e, phase, revision) ==
  [status EXCEPT ![conf(e)] =
     [phase |-> phase, observed |-> spec[conf(e)].generation, revision |-> revision]]

\* The others that read c to report on it have an old resourceVersion now.
Overtaken(c, others) == stale \cup {x \in others : conf(x) = c}

Local(e, state) ==
  /\ ex' = [ex EXCEPT ![e] = state]
  /\ UNCHANGED <<apiVars, owner, orphans, verified>>
Goto(e, pc) == [ex[e] EXCEPT !.pc = pc]

\* report() reads the Configuration and patches what it read, conditionally on the
\* resourceVersion it had then.
ReadToReport(e, pc) ==
  /\ stale' = stale \ {e}
  /\ ex' = [ex EXCEPT ![e] = Goto(e, pc)]
  /\ UNCHANGED <<spec, status, inputs, leased, owner, orphans, verified>>
PatchStatus(e, phase, revision, state) ==
  /\ e \notin stale
  /\ status' = Reported(e, phase, revision)
  /\ stale' = Overtaken(conf(e), Executor \ {e})
  /\ ex' = [ex EXCEPT ![e] = state]
  /\ UNCHANGED <<spec, inputs, leased, owner, orphans, verified>>

\* Leave the claims with a known outcome, or with an unknown one.
Unwind(e, outcome) == [ex[e] EXCEPT !.pc = "unwind", !.outcome = outcome]

\* Mutant of Advance: a later pass goes on with the listing of the first.
AdvanceWithOldListing(e) ==
  [Idle EXCEPT !.pc = "plan", !.listed = ex[e].listed,
               !.at = IF ex[e].at = Len(Order[e]) THEN 1 ELSE ex[e].at + 1]

\* The next Configuration of this pass, or a later pass.
Advance(e) ==
  IF ex[e].at = Len(Order[e]) THEN Idle
  ELSE [Idle EXCEPT !.pc = "plan", !.at = ex[e].at + 1, !.listed = ex[e].listed]

\* main lists the Configurations of its capture group once for the whole pass.
List(e) ==
  /\ ex[e].pc = "list"
  /\ Local(e, [ex[e] EXCEPT !.pc = "plan", !.listed = spec])

Plan(e) ==
  /\ ex[e].pc = "plan"
  /\ \/ /\ Plannable(conf(e), Seen(e))
        /\ Local(e, [ex[e] EXCEPT !.pc = "claim", !.revision = Revision(conf(e), Seen(e))])
     \/ \E outcome \in PlanFailures(e) :
          Local(e, [ex[e] EXCEPT !.pc = "report", !.outcome = outcome])

-----------------------------------------------------------------------------
(* execute(): claim every host, run the stages, recheck, report.           *)

\* refresh_claim_target and reservation() of the next host, in sorted order.
Acquire(e) ==
  /\ ex[e].pc = "claim" /\ ex[e].held < Len(Hosts[conf(e)])
  /\ LET h == Hosts[conf(e)][ex[e].held + 1] IN
     \/ /\ inputs[h] = ex[e].revision.members[h] /\ owner[h] = "free" /\ ~leased[h]
        /\ owner' = [owner EXCEPT ![h] = e]
        /\ ex' = [ex EXCEPT ![e].held = @ + 1]
        /\ UNCHANGED <<apiVars, orphans, verified>>
     \/ /\ ~(inputs[h] = ex[e].revision.members[h] /\ owner[h] = "free" /\ ~leased[h])
        /\ Local(e, Unwind(e, "pending"))

Replan(e) ==
  /\ ex[e].pc = "claim" /\ ex[e].held = Len(Hosts[conf(e)])
  /\ Local(e, IF InputsUnchanged(e) THEN Goto(e, "reconciling") ELSE Unwind(e, "pending"))

ReportReconciling(e) ==
  /\ ex[e].pc = "reconciling"
  /\ \/ SameGeneration(e) /\ ReadToReport(e, "reconcilePatch")
     \/ ~SameGeneration(e) /\ Local(e, Unwind(e, "pending"))

\* A conflict is an HTTPError that nothing classifies here: every claim becomes
\* uncertain, although no command was started.
PatchReconciling(e) ==
  /\ ex[e].pc = "reconcilePatch"
  /\ \/ PatchStatus(e, "Reconciling", ex[e].revision, Goto(e, "verify"))
     \/ e \in stale /\ Local(e, Unwind(e, "uncertain"))

\* verify_claims and operation_progress; before the command itself the inputs
\* are planned once more.
ClaimsHeld(e) == \A h \in HostSet(conf(e)) : owner[h] = e

VerifyStage(e) ==
  /\ ex[e].pc = "verify"
  /\ Local(e, IF ~ClaimsHeld(e) THEN Unwind(e, "failed")
              ELSE IF ex[e].stage = 2 /\ ~InputsUnchanged(e) THEN Unwind(e, "pending")
              ELSE Goto(e, "running"))

\* The guard before, the command, the guard after: each ends as it should ...
StageSucceeds(e) ==
  /\ ex[e].pc = "running"
  /\ \/ ex[e].stage < 3 /\ Local(e, [ex[e] EXCEPT !.pc = "verify", !.stage = @ + 1])
     \/ /\ ex[e].stage = 3
        /\ ex' = [ex EXCEPT ![e] = Goto(e, "confirm")]
        /\ verified' = verified \cup {<<conf(e), ex[e].revision>>}
        /\ UNCHANGED <<apiVars, owner, orphans>>

\* ... or is known to have failed, after which the observations of a command are
\* published: their inputs may have changed, or the API may not answer ...
Failures(e) ==
  {"failed"} \cup (IF ex[e].stage = 1 THEN {} ELSE {"pending"})
             \cup (IF ex[e].stage = 1 \/ "api" \notin Faults THEN {} ELSE {"uncertain"})

StageFails(e) ==
  /\ ex[e].pc = "running" /\ "fail" \in Faults
  /\ \E outcome \in Failures(e) : Local(e, Unwind(e, outcome))

\* ... or was cut off or timed out, and may still be running on its hosts.
Orphaned(e) == [h \in Host |-> orphans[h] + IF h \in HostSet(conf(e)) THEN 1 ELSE 0]

StageUncertain(e) ==
  /\ ex[e].pc = "running" /\ "uncertain" \in Faults
  /\ orphans' = Orphaned(e)
  /\ ex' = [ex EXCEPT ![e] = Unwind(e, "uncertain")]
  /\ UNCHANGED <<apiVars, owner, verified>>

\* The claims and the inputs once more, then the public results: a result file may
\* be invalid, and the target's status may stay in conflict.
Confirm(e) ==
  /\ ex[e].pc = "confirm"
  /\ \/ Local(e, Unwind(e, IF ~ClaimsHeld(e) THEN "failed"
                           ELSE IF InputsUnchanged(e) THEN "succeeded" ELSE "pending"))
     \/ "fail" \in Faults /\ Local(e, Unwind(e, "failed"))
     \/ "fail" \in Faults /\ Local(e, Unwind(e, "pending"))

\* Mutants of Release: a claim whose work may go on is given up with the others;
\* a claim of an execution that did not get to its command is kept.
ReleaseRetainsPending(e) ==
  /\ ex[e].pc = "unwind" /\ ex[e].held > 0
  /\ owner' = [owner EXCEPT ![Hosts[conf(e)][ex[e].held]] =
                 IF ex[e].outcome = "succeeded" THEN "free" ELSE "retained"]
  /\ ex' = [ex EXCEPT ![e].held = @ - 1]
  /\ UNCHANGED <<apiVars, orphans, verified>>
ReleaseUncertain(e) ==
  /\ ex[e].pc = "unwind" /\ ex[e].held > 0
  /\ owner' = [owner EXCEPT ![Hosts[conf(e)][ex[e].held]] = "free"]
  /\ ex' = [ex EXCEPT ![e].held = @ - 1]
  /\ UNCHANGED <<apiVars, orphans, verified>>

\* ExitStack leaves the claims in reverse order.  Only a known outcome frees a
\* host; an unknown one is recorded and the host stays owned.
Release(e) ==
  /\ ex[e].pc = "unwind" /\ ex[e].held > 0
  /\ owner' = [owner EXCEPT ![Hosts[conf(e)][ex[e].held]] =
                 IF ex[e].outcome \in {"uncertain", "terminated"} THEN "retained" ELSE "free"]
  /\ ex' = [ex EXCEPT ![e].held = @ - 1]
  /\ UNCHANGED <<apiVars, orphans, verified>>

\* Completing one claim fails: the exception that replaces the first one, a
\* termination included, makes every claim acquired before it uncertain.
ReleaseFails(e) ==
  /\ ex[e].pc = "unwind" /\ ex[e].held > 0 /\ "api" \in Faults
  /\ owner' = [owner EXCEPT ![Hosts[conf(e)][ex[e].held]] = "retained"]
  /\ ex' = [ex EXCEPT ![e].held = @ - 1, ![e].outcome = "uncertain"]
  /\ UNCHANGED <<apiVars, orphans, verified>>

\* Mutant of Unwound: the pass reports while it still holds claims.
UnwoundEarly(e) ==
  /\ ex[e].pc = "unwind"
  /\ Local(e, IF ex[e].outcome = "terminated" THEN Idle ELSE Goto(e, "report"))

\* An aborted pass ends here; any other goes on to report.
Unwound(e) ==
  /\ ex[e].pc = "unwind" /\ ex[e].held = 0
  /\ Local(e, IF ex[e].outcome = "terminated" THEN Idle ELSE Goto(e, "report"))

\* Ready is reported after the claims are gone, with the revision they covered.
Report(e) ==
  /\ ex[e].pc = "report"
  /\ \/ SameGeneration(e) /\ ReadToReport(e, "reportPatch")
     \/ ~SameGeneration(e) /\ Local(e, Advance(e))

\* A Ready report that fails is replaced by Failed, any other is only printed.
ReportRefused(e) ==
  IF ex[e].outcome = "succeeded" THEN [ex[e] EXCEPT !.pc = "report", !.outcome = "failed"]
                                 ELSE Advance(e)

PatchReport(e) ==
  /\ ex[e].pc = "reportPatch"
  /\ \/ /\ ex[e].outcome = "succeeded"
        /\ PatchStatus(e, "Ready", ex[e].revision, Advance(e))
     \/ /\ ex[e].outcome # "succeeded"
        /\ PatchStatus(e, FailurePhase(e), status[conf(e)].revision, Advance(e))
     \/ e \in stale /\ Local(e, ReportRefused(e))

-----------------------------------------------------------------------------
(* Faults, and what others do.                                             *)

\* An API request of the pass fails.  Outside run_commands nothing classifies
\* it, so the claims become uncertain; inside, it is a failed command.
ApiFault(e) ==
  /\ "api" \in Faults
  /\ \/ ex[e].pc = "plan" /\ Local(e, [ex[e] EXCEPT !.pc = "report", !.outcome = "failed"])
     \/ /\ ex[e].pc \in {"claim", "reconciling", "reconcilePatch", "confirm"}
        /\ Local(e, Unwind(e, "uncertain"))
     \/ ex[e].pc = "verify" /\ \E outcome \in Failures(e) : Local(e, Unwind(e, outcome))
     \/ ex[e].pc \in {"report", "reportPatch"} /\ Local(e, ReportRefused(e))

\* The POST of a claim takes effect and its answer is lost.
ClaimLost(e) ==
  /\ "api" \in Faults
  /\ ex[e].pc = "claim" /\ ex[e].held < Len(Hosts[conf(e)])
  /\ LET h == Hosts[conf(e)][ex[e].held + 1] IN
     /\ owner[h] = "free" /\ ~leased[h]
     /\ owner' = [owner EXCEPT ![h] = "retained"]
  /\ ex' = [ex EXCEPT ![e] = Unwind(e, "uncertain")]
  /\ UNCHANGED <<apiVars, orphans, verified>>

\* SIGTERM unwinds the claims as uncertain and ends the pass without a report.  A
\* claim that is being completed is left as it is stored.
Terminate(e) ==
  /\ "terminate" \in Faults
  /\ ex[e].pc # "list" /\ ex[e].outcome # "terminated"
  /\ orphans' = IF ex[e].pc = "running" THEN Orphaned(e) ELSE orphans
  /\ IF ex[e].pc = "unwind" /\ ex[e].held > 0
     THEN /\ owner' = [owner EXCEPT ![Hosts[conf(e)][ex[e].held]] = "retained"]
          /\ ex' = [ex EXCEPT ![e].held = @ - 1, ![e].outcome = "terminated"]
     ELSE /\ ex' = [ex EXCEPT ![e] = Unwind(e, "terminated")]
          /\ UNCHANGED owner
  /\ UNCHANGED <<apiVars, verified>>

\* SIGKILL leaves everything as it is stored.
Kill(e) ==
  /\ "kill" \in Faults
  /\ ex[e].pc # "list"
  /\ orphans' = IF ex[e].pc = "running" THEN Orphaned(e) ELSE orphans
  /\ owner' = [h \in Host |-> IF owner[h] = e THEN "retained" ELSE owner[h]]
  /\ ex' = [ex EXCEPT ![e] = Idle]
  /\ UNCHANGED <<apiVars, verified>>

OrphanEnds(h) ==
  /\ orphans[h] > 0
  /\ orphans' = [orphans EXCEPT ![h] = @ - 1]
  /\ UNCHANGED <<apiVars, owner, ex, verified>>

\* An administrator resolves a retained claim once nothing runs on the host.
Resolve(h) ==
  /\ owner[h] = "retained" /\ orphans[h] = 0
  /\ owner' = [owner EXCEPT ![h] = "free"]
  /\ UNCHANGED <<apiVars, orphans, ex, verified>>

EditSpec(c) ==
  /\ spec[c].generation < MaxEdits
  /\ \E s \in BOOLEAN :
       spec' = [spec EXCEPT ![c] = [generation |-> spec[c].generation + 1, suspended |-> s]]
  /\ stale' = Overtaken(c, Executor)
  /\ UNCHANGED <<status, inputs, leased, owner, orphans, ex, verified>>

\* A run is created for an unowned host; its success renews the installation.
Provision(h) ==
  /\ owner[h] = "free" /\ inputs[h] < MaxChanges
  /\ leased' = [leased EXCEPT ![h] = ~@]
  /\ inputs' = IF leased[h] THEN [inputs EXCEPT ![h] = @ + 1] ELSE inputs
  /\ UNCHANGED <<spec, status, stale, owner, orphans, ex, verified>>

\* Labels, annotations or the address of a host change at any time.
EditHost(h) ==
  /\ inputs[h] < MaxChanges
  /\ inputs' = [inputs EXCEPT ![h] = @ + 1]
  /\ UNCHANGED <<spec, status, leased, stale, owner, orphans, ex, verified>>

Pass(e) ==
  \/ List(e) \/ Plan(e) \/ Acquire(e) \/ Replan(e) \/ ReportReconciling(e)
  \/ PatchReconciling(e) \/ VerifyStage(e) \/ StageSucceeds(e) \/ Confirm(e) \/ Release(e)
  \/ Unwound(e) \/ Report(e) \/ PatchReport(e)

Next ==
  \/ \E e \in Executor :
       Pass(e) \/ StageFails(e) \/ StageUncertain(e) \/ ReleaseFails(e) \/ ApiFault(e)
       \/ ClaimLost(e) \/ Terminate(e) \/ Kill(e)
  \/ \E h \in Host : OrphanEnds(h) \/ Resolve(h) \/ Provision(h) \/ EditHost(h)
  \/ \E c \in Config : EditSpec(c)

Spec == Init /\ [][Next]_vars

-----------------------------------------------------------------------------
(* Properties.                                                             *)

Phases == {"Pending", "Suspended", "Reconciling", "Ready", "Failed"}
PCs == {"list", "plan", "claim", "reconciling", "reconcilePatch", "verify", "running",
        "confirm", "unwind", "report", "reportPatch"}

\* Every variable keeps its type, and an executor outside execute() counts no
\* claims as its own.
TypeOK ==
  /\ spec \in [Config -> [generation : 0 .. MaxEdits, suspended : BOOLEAN]]
  /\ \A c \in Config : status[c].phase \in Phases /\ status[c].observed \in 0 .. MaxEdits
  /\ inputs \in [Host -> 0 .. MaxChanges] /\ leased \in [Host -> BOOLEAN]
  /\ stale \subseteq Executor
  /\ owner \in [Host -> Executor \cup {"free", "retained"}]
  /\ orphans \in [Host -> Nat]
  /\ \A e \in Executor :
       /\ ex[e].pc \in PCs /\ ex[e].stage \in 1 .. 3
       /\ ex[e].at \in 1 .. Len(Order[e])
       /\ ex[e].held \in 0 .. Len(Hosts[conf(e)])
       /\ ex[e].pc \in {"list", "plan", "report", "reportPatch"} => ex[e].held = 0

\* Never two at work on one host: a command, one that nobody waits for any more, or
\* a provisioning run.  A pass that cannot tell whether its work has stopped keeps all
\* its hosts, and the two kinds of ownership exclude each other although neither
\* reads the other's lock.
SoleWorker ==
  \A h \in Host :
    Cardinality({e \in Executor : ex[e].pc = "running" /\ h \in HostSet(conf(e))})
      + orphans[h] + (IF leased[h] THEN 1 ELSE 0) <= 1

\* "not stale Ready flags alone": what a Ready report vouches for was really
\* done.  Its own command was verified at the reported revision, and so was each
\* prerequisite's at the part of that revision that is the prerequisite's, even
\* when passes overlap and specs are edited under them.
Grounded(c) ==
  \A d \in Upstream(c) :
    <<d, RevisionOf(d, status[c].revision.generations, status[c].revision.members)>>
      \in verified

ReadyIsGrounded == \A c \in Config : status[c].phase = "Ready" => Grounded(c)

\* Passes are started again and run on; nothing is assumed of the others.
FairSpec == Spec /\ \A e \in Executor : WF_vars(Pass(e))

\* Once specs and hosts stop changing, a Configuration whose hosts are there and
\* that nothing suspends is brought up to date by verified work, over and over: its
\* prerequisites come first in the pass, and a claim never outlives the execution it
\* is for.  An edit between the two halves of a Reconciling report leaves its claims
\* retained, and nothing but an administrator frees those hosts.
Usable(d) == Resolvable(d, spec) /\ \A h \in HostSet(d) : owner[h] # "retained"
Converges ==
  \A c \in Config :
    <>[](\A d \in Upstream(c) : Usable(d)) => []<>(UpToDate(c) /\ Grounded(c))

\* Where no request fails, nobody is interrupted and a Configuration has one pass, an
\* execution that keeps its hosts for an administrator had its own spec edited under
\* it: whatever else changed and however its commands end, its outcome is known and
\* every claim is given up.
OnePassEach ==
  \A e, f \in Executor : \A i \in 1 .. Len(Order[e]), j \in 1 .. Len(Order[f]) :
    Order[e][i] = Order[f][j] => e = f
RetainedAfterEdit ==
  [][Faults \subseteq {"fail"} /\ OnePassEach =>
       \A e \in Executor, h \in Host :
         owner[h] = e /\ owner'[h] = "retained" => ~SameGeneration(e)]_vars

\* "Preparation can outlive desired edits; recheck before execution": a command is
\* started only for the spec its Configuration has when the recheck is made.
CommandForCurrentSpec ==
  [][\A e \in Executor :
       ex[e].pc = "verify" /\ ex[e].stage = 2 /\ ex'[e].pc = "running"
         => spec[conf(e)] = ex[e].listed[conf(e)]]_vars
=============================================================================
