------------------------ MODULE ServerOperationProofs ------------------------
(***************************************************************************)
(* Proofs about ServerOperation for every set of targets and executors.    *)
(***************************************************************************)
EXTENDS ServerOperation, TLAPS

\* An Operation exists exactly from the POST of its pass on, and an executor
\* inside reservation() is in the pass of an Operation that exists.
PassInv ==
  /\ \A e \in Executor : pc[e] # "idle" => pass[e] \in 1 .. MaxPasses
  /\ \A e \in Executor : pc[e] = "create" => phase[cur(e)] = "Absent"
  /\ \A o \in Op : o[2] > pass[o[1]] => phase[o] = "Absent"
  /\ \A e \in Executor : InReservation(e) =>
        /\ phase[cur(e)] # "Absent"
        /\ targetRef[cur(e)] = snapshot[e]

\* What the compare-and-swap of an Operation's status relies on: a revision
\* that is unchanged since it was read means the phase is unchanged too.
CasInv ==
  \A e \in Executor :
    /\ pc[e] \in {"progress", "completePatch"} => seen[e] <= revision[cur(e)]
    /\ pc[e] = "progress" /\ seen[e] = revision[cur(e)] => phase[cur(e)] = "Running"
    /\ pc[e] = "completePatch" /\ seen[e] = revision[cur(e)]
         => phase[cur(e)] \in {"Running", "Uncertain"}

\* The API keeps a target's reference and the phase of its Operation together.
RefInv ==
  \A o \in Op : \A t \in Target :
    operationRef[t] = o <=> targetRef[o] = t /\ phase[o] \in {"Running", "Uncertain"}

BaseInv == TypeOK /\ PassInv /\ CasInv /\ RefInv

-----------------------------------------------------------------------------

\* The Operation an executor works on, cur(e), is the one of its current pass.
LEMMA CurIsOp ==
  ASSUME TypeOK, PassInv, NEW e \in Executor, pc[e] # "idle"
  PROVE  /\ cur(e) \in Op /\ cur(e)[1] = e /\ cur(e)[2] = pass[e]
         /\ \A o \in Op : o[1] = e /\ o[2] = pass[e] => o = cur(e)
  BY DEF TypeOK, PassInv, cur, Op

\* An Operation is named by the executor and the pass that created it.
LEMMA OpParts ==
  ASSUME NEW o \in Op
  PROVE  o[1] \in Executor /\ o[2] \in 1 .. MaxPasses /\ o = <<o[1], o[2]>>
  BY DEF Op

\* Every failure that a caller classifies ends as Failed or as Uncertain.
LEMMA ResultOfType ==
  ASSUME NEW e \in Executor,
         NEW how \in {"failed", "unreachable", "timeout", "signalled", "notStarted", "httpError"}
  PROVE  ResultOf(e, how) \in {"Failed", "Uncertain"}
  BY DEF ResultOf

\* Every operator runs one, two or three stages under a claim.
LEMMA StagesType ==
  ASSUME NEW e \in Executor
  PROVE  Stages(e) \in 1 .. 3
  BY ConstantsAssumption DEF ConstantsAssumption, Operators, Stages

\* No Operation exists when the executors start, so the basic invariant holds.
LEMMA InitBase == Init => BaseInv
  <1> SUFFICES ASSUME Init PROVE BaseInv
    OBVIOUS
  <1> USE ConstantsAssumption DEF ConstantsAssumption
  <1>0. AnyTarget \in Target
    BY DEF AnyTarget
  <1>1. TypeOK
    BY <1>0 DEF Init, TypeOK, PCs, Terminal
  <1>2. PassInv
    BY DEF Init, PassInv, InReservation
  <1>3. CasInv
    BY DEF Init, CasInv
  <1>4. RefInv
    BY DEF Init, RefInv
  <1> QED
    BY <1>1, <1>2, <1>3, <1>4 DEF BaseInv

\* The basic invariant is inductive: acquisition, verification, progress,
\* completion, interruption and the administrators' resolutions each keep it.
LEMMA NextBase ==
  BaseInv /\ [Next]_vars => BaseInv'
  <1> SUFFICES ASSUME BaseInv, [Next]_vars PROVE BaseInv'
    OBVIOUS
  <1> USE ConstantsAssumption DEF ConstantsAssumption, BaseInv, apiVars, localVars, aux, CutOff
  <1>1. ASSUME NEW e \in Executor, NEW t \in Target, Observe(e, t) PROVE BaseInv'
    <2>0. /\ pc[e] # "idle" => cur(e) \in Op
      BY CurIsOp
    <2>1. TypeOK'
      BY <1>1, <2>0 DEF Observe, TypeOK, PCs, Terminal
    <2>2. PassInv'
      BY <1>1, <2>0 DEF Observe, TypeOK, PCs, PassInv, InReservation, cur, Op
    <2>3. CasInv'
      BY <1>1, <2>0 DEF Observe, TypeOK, PCs, PassInv, CasInv, InReservation, cur, Op
    <2>4. RefInv'
      BY <1>1, <2>0, CurIsOp DEF Observe, TypeOK, PCs, PassInv, RefInv, Terminal
    <2> QED
      BY <2>1, <2>2, <2>3, <2>4
  <1>2. ASSUME NEW e \in Executor, Create(e) PROVE BaseInv'
    <2>0. /\ pc[e] # "idle" => cur(e) \in Op
      BY CurIsOp
    <2>1. TypeOK'
      BY <1>2, <2>0 DEF Create, PostOperation, TypeOK, PCs, Terminal
    <2>2. PassInv'
      BY <1>2, <2>0 DEF Create, PostOperation, TypeOK, PCs, PassInv, InReservation, cur, Op
    <2>3. CasInv'
      BY <1>2, <2>0 DEF Create, PostOperation, TypeOK, PCs, PassInv, CasInv, InReservation, cur, Op
    <2>4. RefInv'
      BY <1>2, <2>0, CurIsOp DEF Create, PostOperation, TypeOK, PCs, PassInv, RefInv, Terminal
    <2> QED
      BY <2>1, <2>2, <2>3, <2>4
  <1>3. ASSUME NEW e \in Executor, CreateRefused(e) PROVE BaseInv'
    <2>0. /\ pc[e] # "idle" => cur(e) \in Op
      BY CurIsOp
    <2>1. TypeOK'
      BY <1>3, <2>0 DEF CreateRefused, Exit, TypeOK, PCs, Terminal
    <2>2. PassInv'
      BY <1>3, <2>0 DEF CreateRefused, Exit, TypeOK, PCs, PassInv, InReservation, cur, Op
    <2>3. CasInv'
      BY <1>3, <2>0 DEF CreateRefused, Exit, TypeOK, PCs, PassInv, CasInv, InReservation, cur, Op
    <2>4. RefInv'
      BY <1>3, <2>0, CurIsOp DEF CreateRefused, Exit, TypeOK, PCs, PassInv, RefInv, Terminal
    <2> QED
      BY <2>1, <2>2, <2>3, <2>4
  <1>4. ASSUME NEW e \in Executor, CreateLost(e) PROVE BaseInv'
    <2>0. /\ pc[e] # "idle" => cur(e) \in Op
      BY CurIsOp
    <2>1. TypeOK'
      <3>1. signalled' \in [Executor -> BOOLEAN]
        BY <1>4 DEF CreateLost, TypeOK
      <3>2. /\ pc[e] = "create" /\ PostOperation(cur(e), snapshot[e]) /\ Exit(e)
            /\ CutOff(cur(e)) /\ UNCHANGED <<remote, pass, snapshot>>
        BY <1>4 DEF CreateLost
      <3> QED
        BY <2>0, <3>1, <3>2 DEF PostOperation, Exit, TypeOK, PCs, Terminal
    <2>2. PassInv'
      BY <1>4, <2>0 DEF CreateLost, PostOperation, Exit, TypeOK, PCs, PassInv, InReservation, cur, Op
    <2>3. CasInv'
      BY <1>4, <2>0 DEF CreateLost, PostOperation, Exit, TypeOK, PCs, PassInv, CasInv, InReservation, cur, Op
    <2>4. RefInv'
      BY <1>4, <2>0, CurIsOp DEF CreateLost, PostOperation, Exit, TypeOK, PCs, PassInv, RefInv, Terminal
    <2> QED
      BY <2>1, <2>2, <2>3, <2>4
  <1>5. ASSUME NEW e \in Executor, Confirm(e) PROVE BaseInv'
    <2>0. /\ pc[e] # "idle" => cur(e) \in Op
      BY CurIsOp
    <2>1. TypeOK'
      BY <1>5, <2>0 DEF Confirm, Complete, TypeOK, PCs, Terminal
    <2>2. PassInv'
      BY <1>5, <2>0 DEF Confirm, Complete, TypeOK, PCs, PassInv, InReservation, cur, Op
    <2>3. CasInv'
      BY <1>5, <2>0 DEF Confirm, Complete, TypeOK, PCs, PassInv, CasInv, InReservation, cur, Op
    <2>4. RefInv'
      BY <1>5, <2>0, CurIsOp DEF Confirm, Complete, TypeOK, PCs, PassInv, RefInv, Terminal
    <2> QED
      BY <2>1, <2>2, <2>3, <2>4
  <1>6. ASSUME NEW e \in Executor, Verify(e) PROVE BaseInv'
    <2>0. /\ pc[e] # "idle" => cur(e) \in Op
      BY CurIsOp
    <2>1. TypeOK'
      BY <1>6, <2>0 DEF Verify, Complete, ClaimVerified, TypeOK, PCs, Terminal
    <2>2. PassInv'
      BY <1>6, <2>0 DEF Verify, Complete, ClaimVerified, TypeOK, PCs, PassInv, InReservation, cur, Op
    <2>3. CasInv'
      <3>1. /\ pc'[e] = "progress" => seen'[e] = revision[cur(e)] /\ phase[cur(e)] = "Running"
            /\ pc'[e] # "completePatch"
            /\ \A f \in Executor \ {e} : pc'[f] = pc[f] /\ seen'[f] = seen[f]
        BY <1>6 DEF Verify, Complete, ClaimVerified, TypeOK
      <3>2. UNCHANGED <<phase, revision, pass>> /\ revision[cur(e)] \in Nat
        BY <1>6, <2>0 DEF Verify, TypeOK
      <3> QED
        BY <3>1, <3>2 DEF CasInv, cur
    <2>4. RefInv'
      BY <1>6, <2>0, CurIsOp DEF Verify, Complete, ClaimVerified, TypeOK, PCs, PassInv, RefInv, Terminal
    <2> QED
      BY <2>1, <2>2, <2>3, <2>4
  <1>7. ASSUME NEW e \in Executor, Progress(e) PROVE BaseInv'
    <2>0. /\ pc[e] # "idle" => cur(e) \in Op
      BY CurIsOp
    <2>1. TypeOK'
      BY <1>7, <2>0 DEF Progress, TypeOK, PCs, Terminal
    <2>2. PassInv'
      BY <1>7, <2>0 DEF Progress, TypeOK, PCs, PassInv, InReservation, cur, Op
    <2>3. CasInv'
      BY <1>7, <2>0 DEF Progress, TypeOK, PCs, PassInv, CasInv, InReservation, cur, Op
    <2>4. RefInv'
      BY <1>7, <2>0, CurIsOp DEF Progress, TypeOK, PCs, PassInv, RefInv, Terminal
    <2> QED
      BY <2>1, <2>2, <2>3, <2>4
  <1>8. ASSUME NEW e \in Executor, ProgressFailed(e) PROVE BaseInv'
    <2>0. /\ pc[e] # "idle" => cur(e) \in Op
      BY CurIsOp
    <2>1. TypeOK'
      BY <1>8, <2>0, ResultOfType DEF ProgressFailed, Complete, TypeOK, PCs, Terminal
    <2>2. PassInv'
      BY <1>8, <2>0 DEF ProgressFailed, Complete, TypeOK, PCs, PassInv, InReservation, cur, Op
    <2>3. CasInv'
      BY <1>8, <2>0 DEF ProgressFailed, Complete, TypeOK, PCs, PassInv, CasInv, InReservation, cur, Op
    <2>4. RefInv'
      BY <1>8, <2>0, CurIsOp DEF ProgressFailed, Complete, TypeOK, PCs, PassInv, RefInv, Terminal
    <2> QED
      BY <2>1, <2>2, <2>3, <2>4
  <1>9. ASSUME NEW e \in Executor, Start(e) PROVE BaseInv'
    <2>0. /\ pc[e] # "idle" => cur(e) \in Op
      BY CurIsOp
    <2>1. TypeOK'
      BY <1>9, <2>0 DEF Start, TypeOK, PCs, Terminal
    <2>2. PassInv'
      BY <1>9, <2>0 DEF Start, TypeOK, PCs, PassInv, InReservation, cur, Op
    <2>3. CasInv'
      BY <1>9, <2>0 DEF Start, TypeOK, PCs, PassInv, CasInv, InReservation, cur, Op
    <2>4. RefInv'
      BY <1>9, <2>0, CurIsOp DEF Start, TypeOK, PCs, PassInv, RefInv, Terminal
    <2> QED
      BY <2>1, <2>2, <2>3, <2>4
  <1>10. ASSUME NEW e \in Executor, StartFailed(e) PROVE BaseInv'
    <2>0. /\ pc[e] # "idle" => cur(e) \in Op
      BY CurIsOp
    <2>1. TypeOK'
      BY <1>10, <2>0, ResultOfType DEF StartFailed, Complete, TypeOK, PCs, Terminal
    <2>2. PassInv'
      BY <1>10, <2>0 DEF StartFailed, Complete, TypeOK, PCs, PassInv, InReservation, cur, Op
    <2>3. CasInv'
      BY <1>10, <2>0 DEF StartFailed, Complete, TypeOK, PCs, PassInv, CasInv, InReservation, cur, Op
    <2>4. RefInv'
      BY <1>10, <2>0, CurIsOp DEF StartFailed, Complete, TypeOK, PCs, PassInv, RefInv, Terminal
    <2> QED
      BY <2>1, <2>2, <2>3, <2>4
  <1>11. ASSUME NEW e \in Executor, CommandSucceeded(e) PROVE BaseInv'
    <2>0. /\ pc[e] # "idle" => cur(e) \in Op
      BY CurIsOp
    <2>1. TypeOK'
      BY <1>11, <2>0, StagesType DEF CommandSucceeded, Complete, TypeOK, PCs, Terminal
    <2>2. PassInv'
      BY <1>11, <2>0 DEF CommandSucceeded, Complete, TypeOK, PCs, PassInv, InReservation, cur, Op
    <2>3. CasInv'
      BY <1>11, <2>0 DEF CommandSucceeded, Complete, TypeOK, PCs, PassInv, CasInv, InReservation, cur, Op
    <2>4. RefInv'
      BY <1>11, <2>0, CurIsOp DEF CommandSucceeded, Complete, TypeOK, PCs, PassInv, RefInv, Terminal
    <2> QED
      BY <2>1, <2>2, <2>3, <2>4
  <1>12. ASSUME NEW e \in Executor, NEW how \in Outcome, CommandFailed(e, how) PROVE BaseInv'
    <2>0. /\ pc[e] # "idle" => cur(e) \in Op
      BY CurIsOp
    <2>1. TypeOK'
      BY <1>12, <2>0, ResultOfType DEF CommandFailed, Complete, TypeOK, PCs, Terminal, Outcomes
    <2>2. PassInv'
      BY <1>12, <2>0 DEF CommandFailed, Complete, TypeOK, PCs, PassInv, InReservation, cur, Op
    <2>3. CasInv'
      BY <1>12, <2>0 DEF CommandFailed, Complete, TypeOK, PCs, PassInv, CasInv, InReservation, cur, Op
    <2>4. RefInv'
      BY <1>12, <2>0, CurIsOp DEF CommandFailed, Complete, TypeOK, PCs, PassInv, RefInv, Terminal
    <2> QED
      BY <2>1, <2>2, <2>3, <2>4
  <1>12b. ASSUME NEW e \in Executor, CheckFailed(e) PROVE BaseInv'
    <2>0. /\ pc[e] # "idle" => cur(e) \in Op
      BY CurIsOp
    <2>1. TypeOK'
      BY <1>12b, <2>0 DEF CheckFailed, Complete, TypeOK, PCs, Terminal
    <2>2. PassInv'
      BY <1>12b, <2>0 DEF CheckFailed, Complete, TypeOK, PCs, PassInv, InReservation, cur, Op
    <2>3. CasInv'
      BY <1>12b, <2>0 DEF CheckFailed, Complete, TypeOK, PCs, PassInv, CasInv, InReservation, cur, Op
    <2>4. RefInv'
      BY <1>12b, <2>0, CurIsOp DEF CheckFailed, Complete, TypeOK, PCs, PassInv, RefInv, Terminal
    <2> QED
      BY <2>1, <2>2, <2>3, <2>4
  <1>13. ASSUME NEW e \in Executor, CompleteRead(e) PROVE BaseInv'
    <2>0. /\ pc[e] # "idle" => cur(e) \in Op
      BY CurIsOp
    <2>1. TypeOK'
      BY <1>13, <2>0 DEF CompleteRead, Exit, TypeOK, PCs, Terminal
    <2>2. PassInv'
      BY <1>13, <2>0 DEF CompleteRead, Exit, TypeOK, PCs, PassInv, InReservation, cur, Op
    <2>3. CasInv'
      <3>1. /\ pc'[e] = "completePatch" =>
                 seen'[e] = revision[cur(e)] /\ phase[cur(e)] \in {"Running", "Uncertain"}
            /\ pc'[e] # "progress"
            /\ \A f \in Executor \ {e} : pc'[f] = pc[f] /\ seen'[f] = seen[f]
        BY <1>13 DEF CompleteRead, Exit, TypeOK
      <3>2. UNCHANGED <<phase, revision, pass>> /\ revision[cur(e)] \in Nat
        BY <1>13, <2>0 DEF CompleteRead, TypeOK
      <3> QED
        BY <3>1, <3>2 DEF CasInv, cur
    <2>4. RefInv'
      BY <1>13, <2>0, CurIsOp DEF CompleteRead, Exit, TypeOK, PCs, PassInv, RefInv, Terminal
    <2> QED
      BY <2>1, <2>2, <2>3, <2>4
  <1>14. ASSUME NEW e \in Executor, CompletePatch(e) PROVE BaseInv'
    <2>0. /\ pc[e] # "idle" => cur(e) \in Op
      BY CurIsOp
    <2>1. TypeOK'
      BY <1>14, <2>0 DEF CompletePatch, PatchPhase, Exit, TypeOK, PCs, Terminal
    <2>2. PassInv'
      BY <1>14, <2>0 DEF CompletePatch, PatchPhase, Exit, TypeOK, PCs, PassInv, InReservation, cur, Op
    <2>3. CasInv'
      BY <1>14, <2>0 DEF CompletePatch, PatchPhase, Exit, TypeOK, PCs, PassInv, CasInv, InReservation, cur, Op
    <2>4. RefInv'
      <3>1. cur(e) \in Op /\ phase[cur(e)] \in {"Running", "Uncertain"}
        BY <1>14, <2>0 DEF CompletePatch, CasInv, TypeOK
      <3> QED
        BY <1>14, <3>1 DEF CompletePatch, PatchPhase, TypeOK, RefInv, Terminal
    <2> QED
      BY <2>1, <2>2, <2>3, <2>4
  <1>15. ASSUME NEW e \in Executor, CompleteConflict(e) PROVE BaseInv'
    <2>0. /\ pc[e] # "idle" => cur(e) \in Op
      BY CurIsOp
    <2>1. TypeOK'
      BY <1>15, <2>0 DEF CompleteConflict, Exit, TypeOK, PCs, Terminal
    <2>2. PassInv'
      BY <1>15, <2>0 DEF CompleteConflict, Exit, TypeOK, PCs, PassInv, InReservation, cur, Op
    <2>3. CasInv'
      BY <1>15, <2>0 DEF CompleteConflict, Exit, TypeOK, PCs, PassInv, CasInv, InReservation, cur, Op
    <2>4. RefInv'
      BY <1>15, <2>0, CurIsOp DEF CompleteConflict, Exit, TypeOK, PCs, PassInv, RefInv, Terminal
    <2> QED
      BY <2>1, <2>2, <2>3, <2>4
  <1>16. ASSUME NEW e \in Executor, CompleteFault(e) PROVE BaseInv'
    <2>0. /\ pc[e] # "idle" => cur(e) \in Op
      BY CurIsOp
    <2>1. TypeOK'
      BY <1>16, <2>0 DEF CompleteFault, Exit, TypeOK, PCs, Terminal
    <2>2. PassInv'
      BY <1>16, <2>0 DEF CompleteFault, Exit, TypeOK, PCs, PassInv, InReservation, cur, Op
    <2>3. CasInv'
      BY <1>16, <2>0 DEF CompleteFault, Exit, TypeOK, PCs, PassInv, CasInv, InReservation, cur, Op
    <2>4. RefInv'
      BY <1>16, <2>0, CurIsOp DEF CompleteFault, Exit, TypeOK, PCs, PassInv, RefInv, Terminal
    <2> QED
      BY <2>1, <2>2, <2>3, <2>4
  <1>17. ASSUME NEW e \in Executor, Terminate(e) PROVE BaseInv'
    <2>0. /\ pc[e] # "idle" => cur(e) \in Op
      BY CurIsOp
    <2>1. TypeOK'
      BY <1>17, <2>0 DEF Terminate, Complete, Exit, TypeOK, PCs, Terminal
    <2>2. PassInv'
      BY <1>17, <2>0 DEF Terminate, Complete, Exit, TypeOK, PCs, PassInv, InReservation, cur, Op
    <2>3. CasInv'
      BY <1>17, <2>0 DEF Terminate, Complete, Exit, TypeOK, PCs, PassInv, CasInv, InReservation, cur, Op
    <2>4. RefInv'
      BY <1>17, <2>0, CurIsOp DEF Terminate, Complete, Exit, TypeOK, PCs, PassInv, RefInv, Terminal
    <2> QED
      BY <2>1, <2>2, <2>3, <2>4
  <1>18. ASSUME NEW e \in Executor, Kill(e) PROVE BaseInv'
    <2>0. /\ pc[e] # "idle" => cur(e) \in Op
      BY CurIsOp
    <2>1. TypeOK'
      BY <1>18, <2>0 DEF Kill, Exit, TypeOK, PCs, Terminal
    <2>2. PassInv'
      BY <1>18, <2>0 DEF Kill, Exit, TypeOK, PCs, PassInv, InReservation, cur, Op
    <2>3. CasInv'
      BY <1>18, <2>0 DEF Kill, Exit, TypeOK, PCs, PassInv, CasInv, InReservation, cur, Op
    <2>4. RefInv'
      BY <1>18, <2>0, CurIsOp DEF Kill, Exit, TypeOK, PCs, PassInv, RefInv, Terminal
    <2> QED
      BY <2>1, <2>2, <2>3, <2>4
  <1>19. ASSUME NEW o \in Op, RemoteEnds(o) PROVE BaseInv'
    <2>1. TypeOK'
      BY <1>19 DEF RemoteEnds, TypeOK, PCs, Terminal
    <2>2. PassInv'
      BY <1>19 DEF RemoteEnds, TypeOK, PassInv, InReservation, cur, Op
    <2>3. CasInv'
      BY <1>19 DEF RemoteEnds, TypeOK, PassInv, CasInv, cur, Op
    <2>4. RefInv'
      BY <1>19 DEF RemoteEnds, TypeOK, RefInv, Terminal
    <2> QED
      BY <2>1, <2>2, <2>3, <2>4
  <1>20. ASSUME NEW o \in Op, AdminResolve(o) PROVE BaseInv'
    <2>1. TypeOK'
      BY <1>20 DEF AdminResolve, PatchPhase, TypeOK, PCs, Terminal
    <2>2. PassInv'
      BY <1>20 DEF AdminResolve, PatchPhase, TypeOK, PassInv, InReservation, cur, Op
    <2>3. CasInv'
      BY <1>20 DEF AdminResolve, PatchPhase, TypeOK, PassInv, CasInv, cur, Op
    <2>4. RefInv'
      BY <1>20 DEF AdminResolve, PatchPhase, TypeOK, RefInv, Terminal
    <2> QED
      BY <2>1, <2>2, <2>3, <2>4
  <1>21. ASSUME NEW o \in Op, Touch(o) PROVE BaseInv'
    <2>1. TypeOK'
      BY <1>21 DEF Touch, TypeOK, PCs, Terminal
    <2>2. PassInv'
      BY <1>21 DEF Touch, TypeOK, PassInv, InReservation, cur, Op
    <2>3. CasInv'
      BY <1>21 DEF Touch, TypeOK, PassInv, CasInv, cur, Op
    <2>4. RefInv'
      BY <1>21 DEF Touch, TypeOK, RefInv, Terminal
    <2> QED
      BY <2>1, <2>2, <2>3, <2>4
  <1>22. ASSUME NEW t \in Target, Lease(t) PROVE BaseInv'
    BY <1>22 DEF Lease, TypeOK, PassInv, CasInv, RefInv, InReservation, cur
  <1>23. CASE UNCHANGED vars
    BY <1>23 DEF vars, TypeOK, PassInv, CasInv, RefInv, InReservation, cur
  <1> QED
    BY <1>1, <1>2, <1>3, <1>4, <1>5, <1>6, <1>7, <1>8, <1>9, <1>10, <1>11, <1>12, <1>12b, <1>13, <1>14, <1>15, <1>16, <1>17, <1>18, <1>19, <1>20, <1>21, <1>22, <1>23 DEF Next, Environment, ExecutorStep

\* Every variable of the ownership protocol keeps its type: Operations, target
\* references and executors stay well formed under every interleaving of passes,
\* signals, faults and administrators.
THEOREM TypeCorrect == Spec => []TypeOK
  BY InitBase, NextBase, PTL DEF Spec, BaseInv

\* The outcome of an Operation is final, for every choice of the constants and
\* also when an administrator resolves a claim that is still in use: the check
\* and the compare-and-swap of complete_operation never overwrite it.
THEOREM FinalOutcome == Spec => OutcomeIsFinal
  <1>1. BaseInv /\ [Next]_vars => [\A o \in Op : phase[o] \in Terminal => phase'[o] = phase[o]]_vars
    <2> SUFFICES ASSUME BaseInv, Next, NEW o \in Op, phase[o] \in Terminal
                 PROVE  phase'[o] = phase[o]
      OBVIOUS
    <2> USE DEF BaseInv, apiVars, localVars, aux, CutOff
    <2>1. ASSUME NEW e \in Executor, Create(e) \/ CreateLost(e)
          PROVE  phase'[o] = phase[o]
      BY <2>1, CurIsOp DEF Create, CreateLost, PostOperation, PassInv, TypeOK, Terminal
    <2>2. ASSUME NEW e \in Executor, CompletePatch(e)
          PROVE  phase'[o] = phase[o]
      BY <2>2, CurIsOp DEF CompletePatch, PatchPhase, CasInv, TypeOK, Terminal
    <2>3. ASSUME NEW p \in Op, AdminResolve(p)
          PROVE  phase'[o] = phase[o]
      BY <2>3 DEF AdminResolve, PatchPhase, TypeOK, Terminal
    <2>4. CASE phase' = phase
      BY <2>4
    <2> QED
      BY <2>1, <2>2, <2>3, <2>4 DEF Next, Environment, ExecutorStep, Observe, CreateRefused,
         Confirm, Verify, Progress, ProgressFailed, Start, StartFailed, CheckFailed, CommandSucceeded,
         CommandFailed, CompleteRead, CompleteConflict, CompleteFault, Terminate, Kill,
         RemoteEnds, Touch, Lease
  <1> QED
    BY <1>1, InitBase, NextBase, PTL DEF Spec, OutcomeIsFinal

\* A stage's progress report is accepted only while its claim is running, for
\* every choice of the constants: verification and report act as one step.
THEOREM StageUnderClaim == Spec => StageNeedsRunningClaim
  <1>1. BaseInv /\ [Next]_vars =>
          [\A e \in Executor :
             pc[e] = "progress" /\ pc'[e] = "start" => phase[cur(e)] = "Running"]_vars
    <2> SUFFICES ASSUME BaseInv, Next, NEW e \in Executor,
                        pc[e] = "progress", pc'[e] = "start"
                 PROVE  phase[cur(e)] = "Running"
      OBVIOUS
    <2>1. Progress(e)
      BY DEF BaseInv, TypeOK, localVars, Next, Environment, ExecutorStep, Observe, Create,
         CreateRefused, CreateLost, Confirm, Verify, Progress, ProgressFailed, Start, StartFailed,
         CheckFailed, CommandSucceeded, CommandFailed, CompleteRead, CompletePatch, CompleteConflict,
         CompleteFault, Terminate, Kill, RemoteEnds, AdminResolve, Touch, Lease, Complete, Exit
    <2> QED
      BY <2>1 DEF Progress, BaseInv, CasInv
  <1> QED
    BY <1>1, InitBase, NextBase, PTL DEF Spec, StageNeedsRunningClaim

-----------------------------------------------------------------------------
(* Work and ownership.  Both results need that no caller meets a signal it *)
(* does not classify; the run with that assumption dropped shows why.      *)

\* Of the Operations that nobody resolved while they were in use (a resolved one
\* is over): remote work belongs to a retained Operation; an executor in
\* reservation() still has its claim; and it reports a terminal phase only when idle on the
\* node: work outlives a command only on the way to Uncertain.
WorkInv ==
  /\ \A o \in forced : phase[o] \in Terminal
  /\ \A o \in Op \ forced : remote[o] => phase[o] \in {"Running", "Uncertain"}
  /\ \A e \in Executor : InReservation(e) /\ cur(e) \notin forced => phase[cur(e)] = "Running"
  /\ \A e \in Executor : InReservation(e) /\ cur(e) \notin forced /\ remote[cur(e)] =>
        \/ pc[e] = "remote"
        \/ pc[e] \in {"completeRead", "completePatch"} /\ result[e] = "Uncertain"

\* No remote work runs when the executors start.
LEMMA InitWork == Init => WorkInv
  BY CurIsOp DEF Init, WorkInv, InReservation

\* Where signals are classified, a command that may still be running is reported
\* Uncertain by every caller.
LEMMA UnknownIsUncertain ==
  ASSUME SignalsClassified, NEW e \in Executor, NEW how \in Outcome \ {"ok", "notStarted", "failed"}
  PROVE  ResultOf(e, how) = "Uncertain"
  BY ConstantsAssumption DEF ConstantsAssumption, SignalsClassified, Outcomes, ResultOf

\* An executor that goes on to complete its claim reports what it does not know.
LEMMA WorkReported ==
  ASSUME BaseInv, WorkInv, NEW e \in Executor, InReservation(e), NEW outcome,
         UNCHANGED <<phase, remote, pass, forced>>,
         pc' = [pc EXCEPT ![e] = "completeRead"], result' = [result EXCEPT ![e] = outcome],
         cur(e) \notin forced /\ remote[cur(e)] => outcome = "Uncertain"
  PROVE  WorkInv'
<1>1. \A f \in Executor : cur(f)' = cur(f)
  BY DEF cur
<1>2. pc'[e] = "completeRead" /\ result'[e] = outcome
  BY DEF BaseInv, TypeOK
<1>3. \A f \in Executor \ {e} : pc'[f] = pc[f] /\ result'[f] = result[f]
  BY DEF BaseInv, TypeOK
<1>4. \A f \in Executor : InReservation(f)' => InReservation(f)
  BY <1>2, <1>3 DEF InReservation
<1> QED
  BY <1>1, <1>2, <1>3, <1>4 DEF WorkInv

\* Running work stays attached to an unfinished claim: no step reports a known
\* outcome for work that has not ended.
LEMMA NextWork ==
  ASSUME SignalsClassified
  PROVE  BaseInv /\ WorkInv /\ [Next]_vars => WorkInv'
  <1> SUFFICES ASSUME BaseInv, WorkInv, [Next]_vars PROVE WorkInv'
    OBVIOUS
  <1> USE DEF BaseInv, apiVars, localVars, aux, CutOff
  <1>1. ASSUME NEW e \in Executor, NEW t \in Target, Observe(e, t) PROVE WorkInv'
    <2>1. pc[e] # "idle" => cur(e) \in Op
      BY CurIsOp
    <2> QED
      BY <1>1, <2>1 DEF Observe, TypeOK, PassInv, WorkInv, InReservation, cur, Terminal
  <1>2. ASSUME NEW e \in Executor, Create(e) PROVE WorkInv'
    <2>1. cur(e) \in Op /\ phase[cur(e)] = "Absent" /\ cur(e) \notin forced /\ ~remote[cur(e)]
      BY <1>2, CurIsOp DEF Create, PassInv, WorkInv, Terminal
    <2>2. \A f \in Executor : f # e => cur(f) # cur(e)
      BY DEF cur
    <2>3. /\ phase' = [phase EXCEPT ![cur(e)] = "Running"]
          /\ pc' = [pc EXCEPT ![e] = "confirm"]
          /\ UNCHANGED <<remote, pass, result, forced>>
      BY <1>2 DEF Create, PostOperation
    <2>4. \A f \in Executor : cur(f)' = cur(f)
      BY <2>3 DEF cur
    <2>5. \A o \in Op : o # cur(e) => phase'[o] = phase[o]
      BY <2>3 DEF TypeOK
    <2>6. phase'[cur(e)] = "Running"
      BY <2>1, <2>3 DEF TypeOK
    <2>7. \A o \in forced' : phase'[o] \in Terminal
      BY <2>1, <2>3, <2>5 DEF TypeOK, WorkInv
    <2>8. \A o \in Op \ forced' : remote'[o] => phase'[o] \in {"Running", "Uncertain"}
      BY <2>1, <2>3, <2>5 DEF WorkInv
    <2>9. \A f \in Executor \ {e} : pc'[f] = pc[f] /\ (InReservation(f)' <=> InReservation(f))
      BY <2>3 DEF TypeOK, InReservation
    <2>10. \A f \in Executor : InReservation(f)' /\ cur(f)' \notin forced' => phase'[cur(f)'] = "Running"
      <3> SUFFICES ASSUME NEW f \in Executor, f # e, InReservation(f)', cur(f) \notin forced
                   PROVE  phase'[cur(f)] = "Running"
        BY <2>3, <2>4, <2>6
      <3>1. InReservation(f) /\ cur(f) \in Op
        BY <2>9, CurIsOp DEF InReservation
      <3> QED
        BY <2>2, <2>5, <3>1 DEF WorkInv
    <2>11. pc'[e] = "confirm"
      BY <2>3 DEF TypeOK
    <2> QED
      BY <2>1, <2>3, <2>4, <2>7, <2>8, <2>9, <2>10, <2>11 DEF WorkInv
  <1>3. ASSUME NEW e \in Executor, CreateRefused(e) PROVE WorkInv'
    <2>1. pc[e] # "idle" => cur(e) \in Op
      BY CurIsOp
    <2> QED
      BY <1>3, <2>1 DEF CreateRefused, Exit, TypeOK, PassInv, WorkInv, InReservation, cur, Terminal
  <1>4. ASSUME NEW e \in Executor, CreateLost(e) PROVE WorkInv'
    <2>1. pc[e] # "idle" => cur(e) \in Op
      BY CurIsOp
    <2> QED
      BY <1>4, <2>1 DEF CreateLost, PostOperation, Exit, TypeOK, PassInv, WorkInv, InReservation, cur, Terminal
  <1>5. ASSUME NEW e \in Executor, Confirm(e) PROVE WorkInv'
    <2>1. pc[e] # "idle" => cur(e) \in Op
      BY CurIsOp
    <2> QED
      BY <1>5, <2>1 DEF Confirm, Complete, TypeOK, PassInv, WorkInv, InReservation, cur, Terminal
  <1>6. ASSUME NEW e \in Executor, Verify(e) PROVE WorkInv'
    <2>1. pc[e] # "idle" => cur(e) \in Op
      BY CurIsOp
    <2> QED
      BY <1>6, <2>1 DEF Verify, Complete, ClaimVerified, TypeOK, PassInv, WorkInv, InReservation, cur, Terminal
  <1>7. ASSUME NEW e \in Executor, Progress(e) PROVE WorkInv'
    <2>1. pc[e] # "idle" => cur(e) \in Op
      BY CurIsOp
    <2> QED
      BY <1>7, <2>1 DEF Progress, TypeOK, PassInv, WorkInv, InReservation, cur, Terminal
  <1>8. ASSUME NEW e \in Executor, ProgressFailed(e) PROVE WorkInv'
    <2>1. pc[e] # "idle" => cur(e) \in Op
      BY CurIsOp
    <2> QED
      BY <1>8, <2>1 DEF ProgressFailed, Complete, TypeOK, PassInv, WorkInv, InReservation, cur, Terminal
  <1>9. ASSUME NEW e \in Executor, Start(e) PROVE WorkInv'
    <2>1. pc[e] # "idle" => cur(e) \in Op
      BY CurIsOp
    <2> QED
      BY <1>9, <2>1 DEF Start, TypeOK, PassInv, WorkInv, InReservation, cur, Terminal
  <1>10. ASSUME NEW e \in Executor, StartFailed(e) PROVE WorkInv'
    <2>1. pc[e] # "idle" => cur(e) \in Op
      BY CurIsOp
    <2> QED
      BY <1>10, <2>1 DEF StartFailed, Complete, TypeOK, PassInv, WorkInv, InReservation, cur, Terminal
  <1>11. ASSUME NEW e \in Executor, CommandSucceeded(e) PROVE WorkInv'
    <2>1. pc[e] # "idle" => cur(e) \in Op
      BY CurIsOp
    <2> QED
      BY <1>11, <2>1 DEF CommandSucceeded, Complete, TypeOK, PassInv, WorkInv, InReservation, cur, Terminal
  <1>12. ASSUME NEW e \in Executor, NEW how \in Outcome, CommandFailed(e, how) PROVE WorkInv'
    <2>1. pc[e] # "idle" => cur(e) \in Op
      BY CurIsOp
    <2>2. how # "failed" => ResultOf(e, how) = "Uncertain"
      BY <1>12, UnknownIsUncertain DEF CommandFailed
    <2>3. remote[cur(e)] => ResultOf(e, how) = "Uncertain"
      BY <1>12, <2>2 DEF CommandFailed
    <2>4. InReservation(e) /\ UNCHANGED <<phase, remote, pass, forced>>
      BY <1>12 DEF CommandFailed, InReservation
    <2> QED
      BY <1>12, <2>3, <2>4, WorkReported DEF CommandFailed, Complete
  <1>12b. ASSUME NEW e \in Executor, CheckFailed(e) PROVE WorkInv'
    <2>1. PICK outcome \in {"Failed", "Uncertain"} : Complete(e, outcome)
      BY <1>12b DEF CheckFailed
    <2>2. InReservation(e) /\ UNCHANGED <<phase, remote, pass, forced>>
      BY <1>12b DEF CheckFailed, InReservation
    <2>3. cur(e) \in forced \/ ~remote[cur(e)]
      BY <1>12b, <2>2 DEF CheckFailed, WorkInv
    <2> QED
      BY <2>1, <2>2, <2>3, WorkReported DEF Complete
  <1>13. ASSUME NEW e \in Executor, CompleteRead(e) PROVE WorkInv'
    <2>1. pc[e] # "idle" => cur(e) \in Op
      BY CurIsOp
    <2> QED
      BY <1>13, <2>1 DEF CompleteRead, Exit, TypeOK, PassInv, WorkInv, InReservation, cur, Terminal
  <1>14. ASSUME NEW e \in Executor, CompletePatch(e) PROVE WorkInv'
    <2>1. pc[e] # "idle" => cur(e) \in Op
      BY CurIsOp
    <2>2. cur(e) \notin forced
      BY <1>14 DEF CompletePatch, CasInv, WorkInv, Terminal
    <2>3. /\ pc[e] = "completePatch" /\ pc' = [pc EXCEPT ![e] = "idle"]
          /\ phase' = [phase EXCEPT ![cur(e)] = result[e]]
          /\ result' = [result EXCEPT ![e] = "Uncertain"]
          /\ UNCHANGED <<remote, pass, forced>>
      BY <1>14 DEF CompletePatch, PatchPhase, Exit
    <2>4. cur(e) \in Op /\ InReservation(e) /\ \A f \in Executor \ {e} : cur(f) # cur(e)
      BY <2>1, <2>3 DEF InReservation, cur
    <2>5. remote[cur(e)] => result[e] = "Uncertain"
      BY <2>2, <2>3, <2>4 DEF WorkInv
    <2>6. phase'[cur(e)] = result[e] /\ \A o \in Op \ {cur(e)} : phase'[o] = phase[o]
      BY <2>3, <2>4 DEF TypeOK
    <2>7. /\ ~InReservation(e)'
          /\ \A f \in Executor \ {e} : pc'[f] = pc[f] /\ result'[f] = result[f]
      BY <2>3 DEF TypeOK, InReservation
    <2>8. /\ \A f \in Executor : cur(f)' = cur(f)
          /\ \A f \in Executor \ {e} : InReservation(f)' => InReservation(f) /\ cur(f) \in Op
      BY <2>3, <2>7, CurIsOp DEF InReservation, cur
    <2>9. forced \subseteq Op
      BY DEF TypeOK
    <2> QED
      BY <2>2, <2>3, <2>4, <2>5, <2>6, <2>7, <2>8, <2>9 DEF WorkInv
  <1>15. ASSUME NEW e \in Executor, CompleteConflict(e) PROVE WorkInv'
    <2>1. pc[e] # "idle" => cur(e) \in Op
      BY CurIsOp
    <2> QED
      BY <1>15, <2>1 DEF CompleteConflict, Exit, TypeOK, PassInv, WorkInv, InReservation, cur, Terminal
  <1>16. ASSUME NEW e \in Executor, CompleteFault(e) PROVE WorkInv'
    <2>1. pc[e] # "idle" => cur(e) \in Op
      BY CurIsOp
    <2> QED
      BY <1>16, <2>1 DEF CompleteFault, Exit, TypeOK, PassInv, WorkInv, InReservation, cur, Terminal
  <1>17. ASSUME NEW e \in Executor, Terminate(e) PROVE WorkInv'
    <2>1. pc[e] # "idle" => cur(e) \in Op
      BY CurIsOp
    <2> QED
      BY <1>17, <2>1 DEF Terminate, Complete, Exit, TypeOK, PassInv, WorkInv, InReservation, cur, Terminal
  <1>18. ASSUME NEW e \in Executor, Kill(e) PROVE WorkInv'
    <2>1. pc[e] # "idle" => cur(e) \in Op
      BY CurIsOp
    <2> QED
      BY <1>18, <2>1 DEF Kill, Exit, TypeOK, PassInv, WorkInv, InReservation, cur, Terminal
  <1>19. ASSUME NEW o \in Op, RemoteEnds(o) PROVE WorkInv'
    BY <1>19, OpParts DEF RemoteEnds, TypeOK, WorkInv, InReservation, cur, Terminal
  <1>20. ASSUME NEW o \in Op, AdminResolve(o) PROVE WorkInv'
    <2>1. /\ phase' = [phase EXCEPT ![o] = "Failed"] /\ ~remote[o]
          /\ forced' = IF InUse(o) THEN forced \cup {o} ELSE forced
          /\ UNCHANGED <<remote, pc, pass, result>>
      BY <1>20 DEF AdminResolve, PatchPhase
    <2>2. \A e \in Executor : cur(e)' = cur(e) /\ (InReservation(e)' <=> InReservation(e))
      BY <2>1 DEF cur, InReservation
    <2>3. \A e \in Executor : InReservation(e) /\ cur(e) = o => o \in forced'
      BY <2>1 DEF InUse, cur
    <2>4. \A p \in forced' : phase'[p] \in Terminal
      BY <2>1 DEF TypeOK, WorkInv, Terminal
    <2>5. \A p \in Op \ forced' : remote'[p] => phase'[p] \in {"Running", "Uncertain"}
      BY <2>1 DEF TypeOK, WorkInv
    <2>6. \A e \in Executor : InReservation(e)' /\ cur(e)' \notin forced' => phase'[cur(e)'] = "Running"
      <3> SUFFICES ASSUME NEW e \in Executor, InReservation(e), cur(e) \notin forced'
                   PROVE  phase'[cur(e)] = "Running"
        BY <2>2
      <3>1. cur(e) \in Op /\ cur(e) # o /\ cur(e) \notin forced
        BY <2>1, <2>3, CurIsOp DEF InReservation
      <3> QED
        BY <2>1, <3>1 DEF TypeOK, WorkInv
    <2> QED
      BY <2>1, <2>2, <2>4, <2>5, <2>6 DEF WorkInv
  <1>21. ASSUME NEW o \in Op, Touch(o) PROVE WorkInv'
    BY <1>21, OpParts DEF Touch, TypeOK, WorkInv, InReservation, cur, Terminal
  <1>22. ASSUME NEW t \in Target, Lease(t) PROVE WorkInv'
    BY <1>22 DEF Lease, WorkInv, InReservation, cur
  <1>23. CASE UNCHANGED vars
    BY <1>23 DEF vars, WorkInv, InReservation, cur
  <1> QED
    BY <1>1, <1>2, <1>3, <1>4, <1>5, <1>6, <1>7, <1>8, <1>9, <1>10, <1>11, <1>12, <1>12b, <1>13, <1>14, <1>15, <1>16, <1>17, <1>18, <1>19, <1>20, <1>21, <1>22, <1>23 DEF Next, Environment, ExecutorStep

\* The invariants together give that running work holds its target.
LEMMA RetainedWork == BaseInv /\ WorkInv => WorkHoldsTarget
  BY DEF BaseInv, TypeOK, RefInv, WorkInv, WorkHoldsTarget

\* Remote work keeps its target, for every set of targets, executors and passes:
\* "unknown remote outcomes always retain ownership" (reservation), provided
\* every caller classifies signals and until someone resolves a claim in use.
THEOREM OwnershipRetained ==
  ASSUME SignalsClassified
  PROVE  Spec => []WorkHoldsTarget
  BY InitBase, NextBase, InitWork, NextWork, RetainedWork, PTL DEF Spec

\* Under the same assumptions the Operation protocol implements the abstract
\* lock: every step acquires a free target, starts or ends work under a claim,
\* frees a target whose work has stopped, or changes nothing the lock shows.
THEOREM RefinesLock ==
  ASSUME SignalsClassified
  PROVE  Spec => ImplementsLock
  <1>1. Init => Lock!Init
    BY DEF Init, Lock!Init
  <1>2. BaseInv /\ WorkInv /\ [Next]_vars => [Lock!Next]_(Lock!lockVars)
    <2> SUFFICES ASSUME BaseInv, WorkInv, [Next]_vars
                 PROVE  Lock!Next \/ UNCHANGED Lock!lockVars
      OBVIOUS
    <2> USE DEF BaseInv, apiVars, localVars, aux, CutOff
    <2>1. ASSUME NEW e \in Executor, PostOperation(cur(e), snapshot[e]), pc[e] = "create",
                 UNCHANGED <<remote, forced>>
          PROVE  Lock!Next
      <3>1. cur(e) \in Op /\ phase[cur(e)] = "Absent" /\ snapshot[e] \in Target
        BY <2>1, CurIsOp DEF PassInv, TypeOK
      <3>2. {o \in Op : phase'[o] # "Absent"} = {o \in Op : phase[o] # "Absent"} \cup {cur(e)}
        BY <2>1, <3>1 DEF PostOperation, TypeOK
      <3>3. PICK t \in Target, c \in Op : t = snapshot[e] /\ c = cur(e)
        BY <3>1
      <3>4. Lock!Acquire(t, c)
        BY <2>1, <3>1, <3>2, <3>3 DEF PostOperation, Lock!Acquire
      <3> QED
        BY <3>4 DEF Lock!Next
    <2>2. ASSUME NEW e \in Executor, Start(e) PROVE Lock!Next \/ UNCHANGED Lock!lockVars
      <3>0. CASE cur(e) \in forced
        <4>1. {o \in Op \ forced' : remote'[o]} = {o \in Op \ forced : remote[o]}
          BY <2>2, <3>0 DEF Start, TypeOK
        <4> QED
          BY <2>2, <4>1 DEF Start, Lock!lockVars
      <3> SUFFICES ASSUME cur(e) \notin forced PROVE Lock!Next
        BY <3>0
      <3>1. cur(e) \in Op /\ snapshot[e] \in Target
        BY <2>2, CurIsOp DEF Start, TypeOK
      <3>2. operationRef[snapshot[e]] = cur(e)
        BY <2>2, <3>1 DEF Start, PassInv, WorkInv, RefInv, InReservation
      <3>3. {o \in Op \ forced' : remote'[o]} = {o \in Op \ forced : remote[o]} \cup {cur(e)}
        BY <2>2, <3>1 DEF Start, TypeOK
      <3>4. PICK c \in Op : c = cur(e)
        BY <3>1
      <3>5. Lock!Begin(c)
        BY <2>2, <3>1, <3>2, <3>3, <3>4 DEF Start, Lock!Begin, Lock!Holds
      <3> QED
        BY <3>5 DEF Lock!Next
    <2>3. ASSUME NEW o \in Op, RemoteEnds(o) PROVE Lock!Next
      <3>1. {p \in Op \ forced' : remote'[p]} = {p \in Op \ forced : remote[p]} \ {o}
        BY <2>3 DEF RemoteEnds, TypeOK
      <3>2. Lock!End(o)
        BY <2>3, <3>1 DEF RemoteEnds, Lock!End
      <3> QED
        BY <3>2 DEF Lock!Next
    <2>4. ASSUME NEW o \in Op, NEW p, PatchPhase(o, p),
                 {q \in Op \ forced' : remote'[q]} = {q \in Op \ forced : remote[q]},
                 phase[o] \in {"Running", "Uncertain"}, p # "Absent",
                 p \in Terminal => ~remote[o]
          PROVE  Lock!Next \/ UNCHANGED Lock!lockVars
      <3>1. {q \in Op : phase'[q] # "Absent"} = {q \in Op : phase[q] # "Absent"}
        BY <2>4 DEF PatchPhase, TypeOK
      <3>2. CASE p \notin Terminal
        BY <2>4, <3>1, <3>2 DEF PatchPhase, Lock!lockVars
      <3>3. CASE p \in Terminal
        <4>1. targetRef[o] \in Target /\ operationRef[targetRef[o]] = o
          BY <2>4 DEF RefInv, TypeOK
        <4>2. Lock!Release(targetRef[o])
          BY <2>4, <3>1, <3>3, <4>1 DEF PatchPhase, Lock!Release
        <4> QED
          BY <4>1, <4>2 DEF Lock!Next
      <3> QED
        BY <3>2, <3>3
    <2>5. ASSUME NEW e \in Executor, CompletePatch(e)
          PROVE  Lock!Next \/ UNCHANGED Lock!lockVars
      <3>1. /\ cur(e) \in Op /\ phase[cur(e)] \in {"Running", "Uncertain"}
            /\ cur(e) \notin forced /\ UNCHANGED <<remote, forced>>
        BY <2>5, CurIsOp DEF CompletePatch, CasInv, WorkInv, Terminal
      <3>2. /\ result[e] # "Absent"
            /\ result[e] \in Terminal => ~remote[cur(e)]
        BY <2>5, <3>1 DEF CompletePatch, TypeOK, WorkInv, InReservation, Terminal
      <3> QED
        BY <2>4, <2>5, <3>1, <3>2 DEF CompletePatch
    <2>6. ASSUME NEW o \in Op, AdminResolve(o)
          PROVE  Lock!Next \/ UNCHANGED Lock!lockVars
      <3>1. {q \in Op \ forced' : remote'[q]} = {q \in Op \ forced : remote[q]}
        BY <2>6 DEF AdminResolve
      <3> QED
        BY <2>4, <2>6, <3>1 DEF AdminResolve
    <2>7. CASE UNCHANGED <<phase, operationRef, remote, forced>>
      BY <2>7 DEF Lock!lockVars
    <2> QED
      BY <2>1, <2>2, <2>3, <2>5, <2>6, <2>7 DEF vars, Next, Environment, ExecutorStep, Observe,
         Create, CreateRefused, CreateLost, Confirm, Verify, Progress, ProgressFailed, StartFailed,
         CheckFailed, CommandSucceeded, CommandFailed, CompleteRead, CompleteConflict, CompleteFault,
         Terminate, Kill, Touch, Lease
  <1> QED
    BY <1>1, <1>2, InitBase, NextBase, InitWork, NextWork, PTL
       DEF Spec, ImplementsLock, Lock!LockSpec
=============================================================================
