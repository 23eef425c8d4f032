--------------------------- MODULE ServerOperation ---------------------------
(***************************************************************************)
(* Exclusive target ownership through Operation resources:                 *)
(* operators/server_operation.py, the termination handler and status CAS   *)
(* of operators/common.py, and the way the three callers of reservation()  *)
(* (configurations, ssh-host-keys, system-operations) classify the result  *)
(* of each remote command they run under a claim.                          *)
(*                                                                         *)
(* Every executor pass creates one Operation, so the Operation of pass n   *)
(* of executor e is named <<e, n>> (the code draws a fresh uuid).  The     *)
(* Stigmergy API, the administrator and the managed node are outside the   *)
(* repository and are modelled by what this code relies on.                *)
(***************************************************************************)
EXTENDS Integers

CONSTANTS
  Target,        \* claimable resources (Servers)
  Executor,      \* Concourse tasks that may run at the same time
  Operator,      \* Operator[e]: which of the callers executor e runs
  MaxPasses,     \* bound: passes per executor
  Attempts,      \* tries of complete_operation (range(5) in the code)
  Outcome,       \* the ways a remote command may end, see Outcomes
  Terminations,  \* TRUE: Concourse may abort an executor with SIGTERM
  Kills,         \* TRUE: an executor may be SIGKILLed
  ApiFaults,     \* TRUE: an API request may fail although it took effect
  MaxTouches,    \* bound: edits by others, of one Operation in a behaviour
  NoOp           \* "no operationRef"

Operators == {"configurations", "ssh-host-keys", "system-operations"}
Outcomes == {"ok", "failed", "unreachable", "timeout", "signalled", "notStarted"}
Op == Executor \X (1 .. MaxPasses)

ASSUME ConstantsAssumption ==
  /\ Operator \in [Executor -> Operators]
  /\ MaxPasses \in Nat \ {0}
  /\ Attempts \in Nat \ {0}
  /\ MaxTouches \in Nat
  /\ Outcome \subseteq Outcomes
  /\ Terminations \in BOOLEAN /\ Kills \in BOOLEAN
  /\ ApiFaults \in BOOLEAN
  /\ Target # {}
  /\ NoOp \notin Op

VARIABLES
  \* stored by the API
  phase,         \* phase[o]: status.phase of Operation o, "Absent" before POST
  targetRef,     \* targetRef[o]: spec.targetRef of o, set once by POST
  revision,      \* revision[o]: metadata.resourceVersion of o
  operationRef,  \* operationRef[t]: status.operationRef of target t
  leased,        \* leased[t]: a provisioning run holds t (activeRunRef)
  \* the managed node
  remote,        \* remote[o]: work started under o may still be running
  \* local to an executor
  pc, pass, snapshot, stage, seen, tries, result, signalled,
  touches,       \* history: touches[o] edits of o by others than its executor
  forced,        \* history: Operations resolved while their executor used them
  cut            \* history: Operations whose executor was interrupted or unheard

apiVars == <<phase, targetRef, revision, operationRef, leased>>
localVars == <<pc, pass, snapshot, stage, seen, tries, result, signalled>>
aux == <<touches, forced, cut>>
vars == <<apiVars, remote, localVars, aux>>

Terminal == {"Succeeded", "Failed"}
PCs == {"idle", "create", "confirm", "verify", "progress", "start", "remote",
        "completeRead", "completePatch"}

TypeOK ==
  /\ phase \in [Op -> Terminal \cup {"Absent", "Running", "Uncertain"}]
  /\ targetRef \in [Op -> Target]
  /\ revision \in [Op -> Nat]
  /\ operationRef \in [Target -> Op \cup {NoOp}]
  /\ leased \in [Target -> BOOLEAN]
  /\ remote \in [Op -> BOOLEAN]
  /\ pc \in [Executor -> PCs]
  /\ pass \in [Executor -> 0 .. MaxPasses]
  /\ snapshot \in [Executor -> Target]
  /\ stage \in [Executor -> 1 .. 3]
  /\ seen \in [Executor -> Nat]
  /\ tries \in [Executor -> 0 .. Attempts]
  /\ result \in [Executor -> Terminal \cup {"Uncertain"}]
  /\ signalled \in [Executor -> BOOLEAN]
  /\ touches \in [Op -> 0 .. MaxTouches]
  /\ forced \subseteq Op /\ cut \subseteq Op

\* The Operation of executor e's present pass.
cur(e) == <<e, pass[e]>>

\* The executor of o is interrupted, or an answer of the API is lost to it.
CutOff(o) == cut' = cut \cup {o} /\ UNCHANGED <<touches, forced>>

\* Between creating its Operation and leaving reservation().
InReservation(e) == pc[e] \notin {"idle", "create"}

\* A placeholder where no target has been named yet.
AnyTarget == CHOOSE t \in Target : TRUE

Init ==
  /\ phase = [o \in Op |-> "Absent"]
  /\ targetRef = [o \in Op |-> AnyTarget]
  /\ revision = [o \in Op |-> 0]
  /\ operationRef = [t \in Target |-> NoOp]
  /\ leased = [t \in Target |-> FALSE]
  /\ remote = [o \in Op |-> FALSE]
  /\ pc = [e \in Executor |-> "idle"]
  /\ pass = [e \in Executor |-> 0]
  /\ snapshot = [e \in Executor |-> AnyTarget]
  /\ stage = [e \in Executor |-> 1]
  /\ seen = [e \in Executor |-> 0]
  /\ tries = [e \in Executor |-> 0]
  /\ result = [e \in Executor |-> "Uncertain"]
  /\ signalled = [e \in Executor |-> FALSE]
  /\ touches = [o \in Op |-> 0] /\ forced = {} /\ cut = {}

-----------------------------------------------------------------------------
(* What the callers of reservation() do with their remote commands.        *)

\* How many guarded commands each caller runs under one claim: guard, command
\* and guard; the key play and the trust play; the one system play.
Stages(e) ==
  CASE Operator[e] = "configurations" -> 3
    [] Operator[e] = "ssh-host-keys" -> 2
    [] Operator[e] = "system-operations" -> 1

\* Mutants of ResultOf: a lost connection counts as a failed play; a timeout
\* leaves the phase as it is.
ResultOfLosesUnreachable(e, how) == IF how \in {"failed", "unreachable"} THEN "Failed" ELSE "Uncertain"
ResultOfKeepsTimeout(e, how) == IF how = "timeout" THEN "Running" ELSE "Uncertain"

\* The phase reservation() reports for a body that did not succeed.  A timeout
\* is not an OperatorError outside configurations, so it is unclassified there;
\* only configurations looks for a negative return code.  configurations turns
\* every OSError, the API's HTTPError included, into CommandFailed.
ResultOf(e, how) ==
  CASE how = "failed" -> "Failed"
    [] how \in {"unreachable", "timeout"} -> "Uncertain"
    [] how = "signalled" ->
         IF Operator[e] = "configurations" THEN "Uncertain" ELSE "Failed"
    [] how \in {"notStarted", "httpError"} ->
         IF Operator[e] = "configurations" THEN "Failed" ELSE "Uncertain"

\* Leave the body of reservation() and enter complete_operation.
Complete(e, outcome) ==
  /\ pc' = [pc EXCEPT ![e] = "completeRead"]
  /\ result' = [result EXCEPT ![e] = outcome]
  /\ tries' = [tries EXCEPT ![e] = 0]

\* The pass ends and its local variables are gone.
Exit(e) ==
  /\ pc' = [pc EXCEPT ![e] = "idle"]
  /\ stage' = [stage EXCEPT ![e] = 1]
  /\ seen' = [seen EXCEPT ![e] = 0]
  /\ tries' = [tries EXCEPT ![e] = 0]
  /\ result' = [result EXCEPT ![e] = "Uncertain"]

-----------------------------------------------------------------------------
(* reservation(): acquire.                                                 *)

\* A new pass reads the target; a target that is owned is left for a later
\* pass (OperationBusy), which changes nothing.
Observe(e, t) ==
  /\ pc[e] = "idle"
  /\ pass[e] < MaxPasses
  /\ operationRef[t] = NoOp /\ ~leased[t]
  /\ pc' = [pc EXCEPT ![e] = "create"]
  /\ pass' = [pass EXCEPT ![e] = pass[e] + 1]
  /\ snapshot' = [snapshot EXCEPT ![e] = t]
  /\ signalled' = [signalled EXCEPT ![e] = FALSE]
  /\ UNCHANGED <<apiVars, remote, stage, seen, tries, result, aux>>

\* POST of an Operation: the API refuses an owned target and otherwise sets
\* its operationRef in the same transaction.
PostOperation(o, t) ==
  /\ operationRef[t] = NoOp /\ ~leased[t]
  /\ phase' = [phase EXCEPT ![o] = "Running"]
  /\ targetRef' = [targetRef EXCEPT ![o] = t]
  /\ operationRef' = [operationRef EXCEPT ![t] = o]
  /\ UNCHANGED <<revision, leased>>

Create(e) ==
  /\ pc[e] = "create"
  /\ PostOperation(cur(e), snapshot[e])
  /\ pc' = [pc EXCEPT ![e] = "confirm"]
  /\ UNCHANGED <<remote, pass, snapshot, stage, seen, tries, result, signalled, aux>>

CreateRefused(e) ==
  /\ pc[e] = "create"
  /\ operationRef[snapshot[e]] # NoOp \/ leased[snapshot[e]]
  /\ Exit(e)
  /\ UNCHANGED <<apiVars, remote, pass, snapshot, signalled, aux>>

\* The POST took effect but its answer did not arrive, or SIGTERM came before
\* the try block was entered: nothing completes the Operation.
CreateLost(e) ==
  /\ pc[e] = "create"
  /\ PostOperation(cur(e), snapshot[e])
  /\ Exit(e)
  /\ \/ ApiFaults /\ UNCHANGED signalled
     \/ Terminations /\ signalled' = [signalled EXCEPT ![e] = TRUE]
  /\ CutOff(cur(e))
  /\ UNCHANGED <<remote, pass, snapshot>>

Confirm(e) ==
  /\ pc[e] = "confirm"
  /\ \/ /\ operationRef[snapshot[e]] = cur(e)
        /\ pc' = [pc EXCEPT ![e] = "verify"]
        /\ UNCHANGED <<tries, result>>
     \/ /\ operationRef[snapshot[e]] # cur(e)
        /\ Complete(e, "Failed")
  /\ stage' = [stage EXCEPT ![e] = 1]
  /\ UNCHANGED <<apiVars, remote, pass, snapshot, seen, signalled, aux>>

-----------------------------------------------------------------------------
(* The body of reservation(): verify, report progress, run a command.      *)

\* configurations and the first stage of ssh-host-keys reread the target, not
\* only the Operation, before they run a command.
RereadsTarget(e) ==
  \/ Operator[e] = "configurations"
  \/ Operator[e] = "ssh-host-keys" /\ stage[e] = 1

ClaimVerified(e) ==
  /\ phase[cur(e)] = "Running"
  /\ RereadsTarget(e) => operationRef[snapshot[e]] = cur(e)

Verify(e) ==
  /\ pc[e] = "verify"
  /\ \/ /\ ClaimVerified(e)
        /\ pc' = [pc EXCEPT ![e] = "progress"]
        /\ seen' = [seen EXCEPT ![e] = revision[cur(e)]]
        /\ UNCHANGED <<tries, result>>
     \/ /\ ~ClaimVerified(e)
        /\ Complete(e, IF Operator[e] = "ssh-host-keys" /\ stage[e] = 1
                       THEN "Uncertain" ELSE "Failed")
        /\ UNCHANGED seen
  /\ UNCHANGED <<apiVars, remote, pass, snapshot, stage, signalled, aux>>

\* Mutant of Progress: the report is patched without the revision just read.
ProgressUnconditional(e) ==
  /\ pc[e] = "progress"
  /\ revision' = [revision EXCEPT ![cur(e)] = @ + 1]
  /\ pc' = [pc EXCEPT ![e] = "start"]
  /\ UNCHANGED <<phase, targetRef, operationRef, leased, remote, pass, snapshot, stage,
                 seen, tries, result, signalled, aux>>

\* operation_progress patches the Operation it has just verified.
Progress(e) ==
  /\ pc[e] = "progress"
  /\ revision[cur(e)] = seen[e]
  /\ revision' = [revision EXCEPT ![cur(e)] = @ + 1]
  /\ pc' = [pc EXCEPT ![e] = "start"]
  /\ UNCHANGED <<phase, targetRef, operationRef, leased, remote, pass, snapshot, stage,
                 seen, tries, result, signalled, aux>>

ProgressFailed(e) ==
  /\ pc[e] = "progress"
  /\ revision[cur(e)] # seen[e] \/ ApiFaults
  /\ Complete(e, ResultOf(e, "httpError"))
  /\ UNCHANGED <<apiVars, remote, pass, snapshot, stage, seen, signalled, aux>>

Start(e) ==
  /\ pc[e] = "start"
  /\ pc' = [pc EXCEPT ![e] = "remote"]
  /\ remote' = [remote EXCEPT ![cur(e)] = TRUE]
  /\ UNCHANGED <<apiVars, pass, snapshot, stage, seen, tries, result, signalled, aux>>

StartFailed(e) ==
  /\ pc[e] = "start"
  /\ "notStarted" \in Outcome
  /\ Complete(e, ResultOf(e, "notStarted"))
  /\ UNCHANGED <<apiVars, remote, pass, snapshot, stage, seen, signalled, aux>>

\* Work on the node ends on its own, whether or not anyone still waits for it.
RemoteEnds(o) ==
  /\ remote[o]
  /\ remote' = [remote EXCEPT ![o] = FALSE]
  /\ UNCHANGED <<apiVars, localVars, aux>>

CommandSucceeded(e) ==
  /\ pc[e] = "remote"
  /\ "ok" \in Outcome /\ ~remote[cur(e)]
  /\ \/ /\ stage[e] < Stages(e)
        /\ pc' = [pc EXCEPT ![e] = "verify"]
        /\ stage' = [stage EXCEPT ![e] = @ + 1]
        /\ UNCHANGED <<tries, result>>
     \/ /\ stage[e] = Stages(e)
        /\ Complete(e, "Succeeded")
        /\ UNCHANGED stage
  /\ UNCHANGED <<apiVars, remote, pass, snapshot, seen, signalled, aux>>

\* Between its plays ssh-host-keys probes the node, rereads the Server and reads
\* the key: ssh_probe raises an OperatorError, anything else is unclassified.
CheckFailed(e) ==
  /\ Operator[e] = "ssh-host-keys"
  /\ pc[e] = "verify" \/ (pc[e] = "remote" /\ "ok" \in Outcome /\ ~remote[cur(e)])
  /\ \E outcome \in {"Failed", "Uncertain"} : Complete(e, outcome)
  /\ UNCHANGED <<apiVars, remote, pass, snapshot, stage, seen, signalled, aux>>

\* Only a failure that the play itself reported proves the work has stopped.
CommandFailed(e, how) ==
  /\ pc[e] = "remote"
  /\ how \in Outcome \ {"ok", "notStarted"}
  /\ how = "failed" => ~remote[cur(e)]
  /\ Complete(e, ResultOf(e, how))
  /\ UNCHANGED <<apiVars, remote, pass, snapshot, stage, seen, signalled, aux>>

-----------------------------------------------------------------------------
(* complete_operation().                                                   *)

\* Mutant of CompleteRead: the phase is not looked at before it is replaced.
CompleteReadBlind(e) ==
  /\ pc[e] = "completeRead"
  /\ pc' = [pc EXCEPT ![e] = "completePatch"]
  /\ seen' = [seen EXCEPT ![e] = revision[cur(e)]]
  /\ UNCHANGED <<apiVars, remote, pass, snapshot, stage, tries, result, signalled, aux>>

CompleteRead(e) ==
  /\ pc[e] = "completeRead"
  /\ \/ /\ phase[cur(e)] \in {"Running", "Uncertain"}
        /\ pc' = [pc EXCEPT ![e] = "completePatch"]
        /\ seen' = [seen EXCEPT ![e] = revision[cur(e)]]
        /\ UNCHANGED <<stage, tries, result>>
     \/ /\ phase[cur(e)] \notin {"Running", "Uncertain"}
        /\ Exit(e)
  /\ UNCHANGED <<apiVars, remote, pass, snapshot, signalled, aux>>

\* The API's side of a status PATCH with a new phase: a terminal phase clears
\* the target's reference in the same transaction.
PatchPhase(o, p) ==
  /\ phase' = [phase EXCEPT ![o] = p]
  /\ revision' = [revision EXCEPT ![o] = @ + 1]
  /\ operationRef' = IF p \in Terminal
                     THEN [operationRef EXCEPT ![targetRef[o]] = NoOp]
                     ELSE operationRef
  /\ UNCHANGED <<targetRef, leased>>

CompletePatch(e) ==
  /\ pc[e] = "completePatch"
  /\ revision[cur(e)] = seen[e]
  /\ PatchPhase(cur(e), result[e])
  /\ Exit(e)
  /\ UNCHANGED <<remote, pass, snapshot, signalled, aux>>

\* Mutant of CompleteConflict: the first 409 ends the pass.
CompleteConflictGivesUp(e) ==
  /\ pc[e] = "completePatch"
  /\ revision[cur(e)] # seen[e]
  /\ Exit(e)
  /\ UNCHANGED <<apiVars, remote, pass, snapshot, signalled, aux>>

CompleteConflict(e) ==
  /\ pc[e] = "completePatch"
  /\ revision[cur(e)] # seen[e]
  /\ \/ /\ tries[e] + 1 < Attempts
        /\ pc' = [pc EXCEPT ![e] = "completeRead"]
        /\ tries' = [tries EXCEPT ![e] = @ + 1]
        /\ UNCHANGED <<stage, seen, result>>
     \/ /\ tries[e] + 1 >= Attempts
        /\ Exit(e)
  /\ UNCHANGED <<apiVars, remote, pass, snapshot, signalled, aux>>

CompleteFault(e) ==
  /\ pc[e] \in {"completeRead", "completePatch"}
  /\ ApiFaults
  /\ Exit(e)
  /\ CutOff(cur(e))
  /\ UNCHANGED <<apiVars, remote, pass, snapshot, signalled>>

-----------------------------------------------------------------------------
(* Interruption, the administrator and other writers.                      *)

\* Mutant of Terminate: an interrupted body is reported as a failed one.
TerminateReportsFailed(e) ==
  /\ Terminations
  /\ pc[e] \in {"confirm", "verify", "progress", "start", "remote"} /\ ~signalled[e]
  /\ signalled' = [signalled EXCEPT ![e] = TRUE]
  /\ Complete(e, "Failed")
  /\ CutOff(cur(e))
  /\ UNCHANGED <<apiVars, remote, pass, snapshot, stage, seen>>

\* raise_on_termination: the first signal unwinds, later ones are ignored.
\* Inside the try of reservation() the unwinding reports Uncertain; before it,
\* and inside complete_operation, it just leaves.  run_command kills the local
\* process group only, so remote work goes on.
Terminate(e) ==
  /\ Terminations
  /\ pc[e] # "idle" /\ ~signalled[e]
  /\ signalled' = [signalled EXCEPT ![e] = TRUE]
  /\ \/ /\ pc[e] \in {"create", "completeRead", "completePatch"}
        /\ Exit(e)
     \/ /\ pc[e] \in {"confirm", "verify", "progress", "start", "remote"}
        /\ Complete(e, "Uncertain")
        /\ UNCHANGED <<stage, seen>>
  /\ CutOff(cur(e))
  /\ UNCHANGED <<apiVars, remote, pass, snapshot>>

Kill(e) ==
  /\ Kills
  /\ pc[e] # "idle"
  /\ Exit(e)
  /\ CutOff(cur(e))
  /\ UNCHANGED <<apiVars, remote, pass, snapshot, signalled>>

\* An administrator resolves a claim after inspecting the node: a retained one,
\* or, against the procedure, one whose executor has not left it.
InUse(o) == cur(o[1]) = o /\ InReservation(o[1])
AdminResolve(o) ==
  /\ phase[o] \in {"Running", "Uncertain"}
  /\ ~remote[o]
  /\ PatchPhase(o, "Failed")
  /\ forced' = IF InUse(o) THEN forced \cup {o} ELSE forced
  /\ UNCHANGED <<remote, localVars, touches, cut>>

\* Another writer of the Operation's status, for instance an edited message (the
\* bound on touches leaves the other Operations alone).
Touch(o) ==
  /\ phase[o] # "Absent"
  /\ touches[o] < MaxTouches /\ \A p \in Op \ {o} : touches[p] = 0
  /\ touches' = [touches EXCEPT ![o] = @ + 1]
  /\ revision' = [revision EXCEPT ![o] = @ + 1]
  /\ UNCHANGED <<phase, targetRef, operationRef, leased, remote, localVars, forced, cut>>

\* A ProvisioningRun is created for a free target, and later released.
Lease(t) ==
  /\ operationRef[t] = NoOp
  /\ leased' = [leased EXCEPT ![t] = ~leased[t]]
  /\ UNCHANGED <<phase, targetRef, revision, operationRef, remote, localVars, aux>>

-----------------------------------------------------------------------------

ExecutorStep(e) ==
  \/ \E t \in Target : Observe(e, t)
  \/ Create(e) \/ CreateRefused(e) \/ CreateLost(e) \/ Confirm(e)
  \/ Verify(e) \/ Progress(e) \/ ProgressFailed(e) \/ Start(e) \/ StartFailed(e)
  \/ CheckFailed(e) \/ CommandSucceeded(e) \/ \E how \in Outcome : CommandFailed(e, how)
  \/ CompleteRead(e) \/ CompletePatch(e) \/ CompleteConflict(e) \/ CompleteFault(e)

Environment ==
  \/ \E e \in Executor : Terminate(e) \/ Kill(e)
  \/ \E o \in Op : RemoteEnds(o) \/ AdminResolve(o) \/ Touch(o)
  \/ \E t \in Target : Lease(t)

Next == Environment \/ \E e \in Executor : ExecutorStep(e)

Spec == Init /\ [][Next]_vars

\* A live executor keeps running, and a managed node finishes what it was
\* given; nothing is assumed of signals, administrators or other writers.
FairSpec ==
  /\ Spec
  /\ \A e \in Executor : WF_vars(pc[e] # "idle" /\ ExecutorStep(e))
  /\ \A o \in Op : WF_vars(RemoteEnds(o))

-----------------------------------------------------------------------------
(* Properties.                                                             *)

\* No caller can be told of a signal it does not classify: every executor that
\* may see a negative return code runs configurations, the one that checks it.
SignalsClassified ==
  "signalled" \in Outcome => \A e \in Executor : Operator[e] = "configurations"

\* "unknown remote outcomes always retain ownership" (reservation): while work
\* started under an Operation may still run on the node, the target's
\* operationRef names that Operation, so no other caller can start work there,
\* whoever is interrupted, unless an administrator resolved it while in use.
WorkHoldsTarget ==
  \A o \in Op \ forced : remote[o] => operationRef[targetRef[o]] = o

\* "refusing to overwrite its outcome" (complete_operation): an Operation that
\* reached Succeeded or Failed keeps that outcome, whoever raced to report it.
OutcomeIsFinal ==
  [][\A o \in Op : phase[o] \in Terminal => phase'[o] = phase[o]]_vars

\* operation_progress makes verification and the start of a stage one step: when
\* the progress report of a stage is accepted, the claim is running at that
\* moment, although it was read in an earlier step.
StageNeedsRunningClaim ==
  [][\A e \in Executor :
        pc[e] = "progress" /\ pc'[e] = "start" => phase[cur(e)] = "Running"]_vars

\* Whatever its commands do, an executor that is not interrupted ends every
\* claim, also when others write its Operation in between: a Running Operation
\* does not stay Running.  complete_operation loses a try to each of these
\* writes and, when the last try conflicts too, raises and leaves the claim: only a
\* claim that met a write for every try may stay Running with nobody to end it.
ClaimSettles ==
  \A o \in Op :
    phase[o] = "Running" ~>
      phase[o] # "Running" \/ o \in cut \/ touches[o] >= Attempts

\* This module implements the abstract lock.
Lock == INSTANCE TargetLock WITH
          Claim <- Op, NoClaim <- NoOp, owner <- operationRef,
          spent <- {o \in Op : phase[o] # "Absent"},
          working <- {o \in Op \ forced : remote[o]}

\* Ownership as the callers see it is the abstract TargetLock: work only under
\* a claim, and a target is freed only when no work of its owner can be running;
\* what an executor does after its claim was resolved under it is outside the lock.
ImplementsLock == Lock!LockSpec
=============================================================================
