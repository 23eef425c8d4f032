---------------------- MODULE ProvisioningDisarmProofs ----------------------
(***************************************************************************)
(* Proof that passes which do not overlap leave no boot selection behind:  *)
(* a Server that is not reserved has neither a one-shot netboot entry nor  *)
(* a loaded kernel, whatever steps fail, passes crash, answers are lost or *)
(* power fails.  The passes may be those of any executors, one after the   *)
(* other.  With overlap it does not hold: a pass that was delayed after    *)
(* its last current() may arm a node that another pass has released.       *)
(*                                                                         *)
(* The stored netbootArmed is set before the node is touched and cleared   *)
(* only when the selection is known to be gone; so it says at least as     *)
(* much as the node does (StoredArms), and so does the copy of a pass.     *)
(***************************************************************************)
EXTENDS ProvisioningProofs

\* At most one pass is in progress.
NoOverlap == \A e, f \in Executor : ex[e].pc # "idle" /\ ex[f].pc # "idle" => e = f

Armed == node.nextEntry \/ node.kexec

\* The next boot of a selected node is fixed by its present session: an installed host
\* has the one-shot entry, the live session that the run came from the loaded kernel.
Selection ==
  /\ node.nextEntry => ~node.live
  /\ node.kexec => node.live /\ activeRun \in Run /\ node.bootID = run[activeRun].sourceBootID

\* A selected node belongs to a run that says so, or that is kept in maintenance.
StoredArms ==
  Armed =>
    /\ activeRun \in Run
    /\ \/ run[activeRun].phase \in Sources /\ run[activeRun].netbootArmed
       \/ run[activeRun].phase = "Blocked" /\ run[activeRun].maintenance

\* From the contact with the live session to the erase.
Enrolling == {"enroll", "enrollPlay", "enrollProbe", "installCheck"}

\* The checkpoint that announces a selection comes before it, and no checkpoint takes
\* that back, or gives up the maintenance, while the node may be selected.
PatchArms(l) ==
  /\ l.done \in {"refreshPrepare", "armCheck"} =>
       Has(l.patch, "netbootArmed") /\ l.patch.netbootArmed
  /\ l.done \in Enrolling => ~Armed
  /\ l.done \notin {"arm", "clearKexec", "recheckNext"}
  /\ l.view.phase \in Sources /\ Armed =>
       \/ l.patch.phase \in Sources /\ (Has(l.patch, "netbootArmed") => l.patch.netbootArmed)
       \/ l.patch.phase = "Blocked" /\ Has(l.patch, "maintenance") /\ l.patch.maintenance

\* A pass selects only under a run that says so, and it has no copy of the run that
\* forgets a selection.
PassArms(l) ==
  /\ activeRun = l.run
  /\ l.view.phase \in Sources /\ ~l.view.netbootArmed => ~Armed
  /\ l.pc = "refreshPrepare" => run[l.run].phase = "PreparingBoot"
  /\ l.pc \in {"armCheck", "arm"} => run[l.run].phase = "AwaitingLive"
  /\ l.pc \in {"refreshPrepare", "armCheck", "arm"} =>
       run[l.run].netbootArmed /\ l.view.netbootArmed
  /\ l.pc \in Enrolling => ~Armed
  /\ l.pc = "clearKexec" => ~node.nextEntry
  /\ l.pc = "recheckNext" => ~node.kexec
  /\ l.pc \in CkSteps => PatchArms(l)

Arms ==
  /\ Selection /\ StoredArms
  /\ \A e \in Executor : ex[e].pc # "idle" => PassArms(ex[e])

-----------------------------------------------------------------------------
(* How the parts of the invariant are kept.                                *)

\* The steps at which more than the view matters.
Watched ==
  {"refreshPrepare", "armCheck", "arm", "clearKexec", "recheckNext"} \cup Enrolling \cup CkSteps

\* What is known of a pass in progress.
LEMMA OfArms ==
  ASSUME Inv, Arms, NEW e \in Executor, ex[e].pc # "idle"
  PROVE  /\ ex[e] \in Passes /\ ex[e].run \in Run /\ activeRun = ex[e].run /\ PassArms(ex[e])
         /\ Placed(ex[e].pc, ex[e].view.phase) /\ Tracks(ex[e]) /\ ex[e].view \in Runs
         /\ run[ex[e].run] \in Runs /\ node \in Nodes
         /\ ex[e].pc \in CkSteps => PatchOK(ex[e]) /\ PatchArms(ex[e])
<1>1. PassArms(ex[e]) /\ node \in Nodes
  BY DEF Arms, Inv, Typed
<1> QED
  BY <1>1, OfPass DEF PassArms

\* A step that changes neither the node nor the run leaves all of it.
LEMMA PassArmsStays ==
  ASSUME UNCHANGED <<run, activeRun, node>>, NEW l, PassArms(l)
  PROVE  PassArms(l)'
BY DEF PassArms, PatchArms, Armed

\* Nothing of a pass is disturbed when the node loses a selection.
LEMMA CalmNode ==
  ASSUME Selection, StoredArms, UNCHANGED <<run, activeRun>>,
         node'.nextEntry => node.nextEntry, node'.kexec => node.kexec,
         \/ node'.bootID = node.bootID /\ node'.live = node.live
         \/ ~Armed'
  PROVE  /\ Selection' /\ StoredArms' /\ (Armed' => Armed)
         /\ \A l : PassArms(l) => PassArms(l)'
<1>1. Armed' => Armed
  BY DEF Armed
<1>2. Selection' /\ StoredArms'
  BY <1>1 DEF Selection, StoredArms, Armed
<1>3. ASSUME NEW l, PassArms(l) PROVE PassArms(l)'
  <2>1. PatchArms(l) => PatchArms(l)'
    BY <1>1 DEF PatchArms
  <2> QED
    BY <1>1, <1>3, <2>1 DEF PassArms
<1> QED
  BY <1>1, <1>2, <1>3

\* A pass goes on and touches nothing.
LEMMA BecomesArms ==
  ASSUME Inv, Arms, NEW e \in Executor, NEW l, Becomes(e, l), UNCHANGED <<run, activeRun, node>>,
         l.pc # "idle" => PassArms(l)
  PROVE  Arms'
<1>1. PICK m : /\ ex' = [ex EXCEPT ![e] = m] /\ m = IF l.pc = "idle" THEN Idle ELSE l
  BY DEF Becomes
<1>2. ex \in [Executor -> Passes] /\ Idle.pc = "idle"
  BY IdleSound DEF Inv, Typed
<1>3. ASSUME NEW f \in Executor, ex'[f].pc # "idle" PROVE PassArms(ex[f])'
  <2>1. PICK k : k = ex'[f] /\ PassArms(k)
    BY <1>1, <1>2, <1>3 DEF Arms
  <2>2. PassArms(k)'
    BY <2>1, PassArmsStays
  <2> QED
    BY <2>1, <2>2
<1>4. Selection' /\ StoredArms'
  BY DEF Arms, Selection, StoredArms, Armed
<1> QED
  BY <1>3, <1>4 DEF Arms

\* The step of a pass that only moves on.
LEMMA LocalArms ==
  ASSUME Inv, Arms, NEW e \in Executor, NEW l, Local(e, l), l.pc # "idle" => PassArms(l)
  PROVE  Arms'
<1>1. Becomes(e, l) /\ UNCHANGED <<run, activeRun, node>>
  BY DEF Local, serverVars
<1> QED
  BY <1>1, BecomesArms

\* What a status write does to the passes.
Stores(e, l) ==
  \E r : ex' = [x \in Executor |->
                  IF x = e THEN IF l.pc = "idle" THEN Idle ELSE l
                  ELSE IF ex[x].run = r THEN [ex[x] EXCEPT !.fresh = FALSE]
                  ELSE ex[x]]

\* It leaves the reservation and the node alone.
LEMMA StoreEffect ==
  ASSUME NEW e \in Executor, NEW p, NEW l, Store(e, p, l)
  PROVE  /\ Stores(e, l) /\ UNCHANGED <<activeRun, node>>
         /\ run' = [run EXCEPT ![ex[e].run] = Merge(run[ex[e].run], p)]
BY DEF Store, Stores, serverVars

\* A pass that is alone goes on, whatever it has changed.
LEMMA AloneArms ==
  ASSUME Inv, NoOverlap, NEW e \in Executor, ex[e].pc # "idle", NEW l,
         Becomes(e, l) \/ Stores(e, l),
         Selection', StoredArms', l.pc # "idle" => PassArms(l)'
  PROVE  Arms'
<1>1. ex \in [Executor -> Passes] /\ Idle.pc = "idle"
  BY IdleSound DEF Inv, Typed
<1>2. \A f \in Executor : f # e => ex[f].pc = "idle" /\ ex[f] \in Passes
  BY <1>1 DEF NoOverlap
<1>3. \A f \in Executor : f # e => ex'[f].pc = "idle"
  BY <1>1, <1>2 DEF Becomes, Stores, Passes
<1>4. ex'[e] = IF l.pc = "idle" THEN Idle ELSE l
  BY <1>1 DEF Becomes, Stores
<1>5. ex'[e].pc # "idle" => ex'[e] = l /\ l.pc # "idle"
  BY <1>1, <1>4
<1>6. ASSUME NEW f \in Executor, ex'[f].pc # "idle" PROVE PassArms(ex[f])'
  <2>1. f = e /\ ex'[e] = l /\ PassArms(l)'
    BY <1>3, <1>5, <1>6
  <2> QED
    BY <2>1
<1> QED
  BY <1>6 DEF Arms

-----------------------------------------------------------------------------
(* The moves of a pass.                                                    *)

\* To a step at which nothing special is known, with the old view or a new one.
LEMMA MoveArms ==
  ASSUME Inv, Arms, NEW e \in Executor, ex[e].pc # "idle", NEW l, l.run = ex[e].run,
         l.view = ex[e].view \/ l.view = run[ex[e].run], l.pc \notin Watched
  PROVE  PassArms(l)
<1>1. activeRun = ex[e].run /\ PassArms(ex[e])
  BY OfArms
<1>2. l.view.phase \in Sources /\ ~l.view.netbootArmed => ~Armed
  BY <1>1 DEF PassArms, Arms, StoredArms, Sources
<1> QED
  BY <1>1, <1>2 DEF PassArms, Watched

\* To a step of the enrollment, of a node that is not selected.
LEMMA EnrollArms ==
  ASSUME Inv, Arms, NEW e \in Executor, ex[e].pc # "idle", NEW l, l.run = ex[e].run,
         l.pc \in Enrolling, ~Armed
  PROVE  PassArms(l)
<1>1. activeRun = ex[e].run
  BY OfArms
<1> QED
  BY <1>1 DEF PassArms, Enrolling, CkSteps

\* Into a checkpoint.
LEMMA CkArms ==
  ASSUME Inv, Arms, NEW e \in Executor, ex[e].pc # "idle", NEW l, l.run = ex[e].run,
         l.view = ex[e].view \/ l.view = run[ex[e].run], l.pc \in CkSteps, PatchArms(l)
  PROVE  PassArms(l)
<1>1. activeRun = ex[e].run /\ PassArms(ex[e])
  BY OfArms
<1>2. l.view.phase \in Sources /\ ~l.view.netbootArmed => ~Armed
  BY <1>1 DEF PassArms, Arms, StoredArms, Sources
<1> QED
  BY <1>1, <1>2 DEF PassArms, CkSteps, Enrolling

\* What a move of the program counter, a failure and a checkpoint leave in a pass.
LEMMA MoveFields ==
  ASSUME NEW e, ex[e] \in Passes
  PROVE  /\ \A pc : /\ Goto(e, pc).pc = pc /\ Goto(e, pc).run = ex[e].run
                    /\ Goto(e, pc).view = ex[e].view
         /\ \A reason : /\ Raise(e, reason).pc = "failed" /\ Raise(e, reason).run = ex[e].run
                        /\ Raise(e, reason).view = ex[e].view
         /\ \A p, done, failed :
              LET l == Checkpointing(e, p, done, failed)
              IN /\ l.pc = "ckRead" /\ l.run = ex[e].run /\ l.view = ex[e].view /\ l.patch = p
                 /\ l.done = done
         /\ /\ LeaveFailed(e).pc = ex[e].failed /\ LeaveFailed(e).run = ex[e].run
            /\ LeaveFailed(e).view = ex[e].view
BY DEF Goto, Raise, Checkpointing, LeaveFailed, Passes

\* A move of the program counter alone.
LEMMA GotoArms ==
  ASSUME Inv, Arms, NEW e \in Executor, ex[e].pc # "idle", NEW pc, pc \notin Watched
  PROVE  PassArms(Goto(e, pc))
<1>1. ex[e] \in Passes
  BY OfArms
<1>2. PICK l : l = Goto(e, pc) /\ l.pc = pc /\ l.run = ex[e].run /\ l.view = ex[e].view
  BY <1>1, MoveFields
<1>3. PassArms(l)
  BY <1>2, MoveArms
<1> QED
  BY <1>2, <1>3

\* Raising hands the pass to the failure handler.
LEMMA RaiseArms ==
  ASSUME Inv, Arms, NEW e \in Executor, ex[e].pc # "idle", NEW reason
  PROVE  PassArms(Raise(e, reason))
<1>1. ex[e] \in Passes
  BY OfArms
<1>2. PICK l : /\ l = Raise(e, reason) /\ l.pc = "failed" /\ l.run = ex[e].run
               /\ l.view = ex[e].view
  BY <1>1, MoveFields
<1>3. PassArms(l)
  BY <1>2, MoveArms DEF Watched, Enrolling, CkSteps
<1> QED
  BY <1>2, <1>3

\* A pass that raises without touching anything.
LEMMA RaisedArms ==
  ASSUME Inv, Arms, NEW e \in Executor, ex[e].pc # "idle", NEW reason, Local(e, Raise(e, reason))
  PROVE  Arms'
BY RaiseArms, LocalArms

\* A bare current() before a step.
LEMMA GuardedArms ==
  ASSUME Inv, Arms, NEW e \in Executor, ex[e].pc # "idle", NEW p, NEW n, NEW l,
         Guarded(e, p, n, l), Current(e, p, n) /\ l.pc # "idle" => PassArms(l)
  PROVE  Arms'
<1>1. CASE Current(e, p, n)
  BY <1>1, LocalArms DEF Guarded
<1>2. CASE ~Current(e, p, n)
  BY <1>2, RaisedArms DEF Guarded
<1> QED
  BY <1>1, <1>2

\* A checkpoint of the present view.
LEMMA CheckpointArms ==
  ASSUME Inv, Arms, NEW e \in Executor, ex[e].pc # "idle", NEW p, NEW done, NEW failed,
         done \in {"refreshPrepare", "armCheck"} => Has(p, "netbootArmed") /\ p.netbootArmed,
         done \in Enrolling => ~Armed, done \notin {"arm", "clearKexec", "recheckNext"},
         ex[e].view.phase \in Sources /\ Armed =>
           \/ p.phase \in Sources /\ (Has(p, "netbootArmed") => p.netbootArmed)
           \/ p.phase = "Blocked" /\ Has(p, "maintenance") /\ p.maintenance
  PROVE  PassArms(Checkpointing(e, p, done, failed))
<1>1. ex[e] \in Passes
  BY OfArms
<1>2. PICK l : /\ l = Checkpointing(e, p, done, failed) /\ l.pc = "ckRead" /\ l.run = ex[e].run
               /\ l.view = ex[e].view /\ l.patch = p /\ l.done = done
  BY <1>1, MoveFields
<1>3. PatchArms(l)
  BY <1>2 DEF PatchArms
<1>4. PassArms(l)
  BY <1>2, <1>3, CkArms DEF CkSteps
<1> QED
  BY <1>2, <1>4

\* The failure handler ends the maintenance of a node without a selection only.
LEMMA BlockArms ==
  ASSUME Inv, Arms, NEW e \in Executor, ex[e].pc # "idle", NEW keep \in BOOLEAN,
         keep \/ ~Armed \/ ex[e].view.phase \notin Sources
  PROVE  PassArms(Block(e, keep))
<1> DEFINE p == [phase |-> "Blocked", maintenance |-> keep,
                 netbootArmed |-> keep /\ ex[e].view.netbootArmed]
<1>1. p.phase = "Blocked" /\ Has(p, "maintenance") /\ p.maintenance = keep
  BY DEF Has
<1>2. Block(e, keep) = Checkpointing(e, p, "release", "idle")
  BY DEF Block
<1> HIDE DEF p
<1>3. PassArms(Checkpointing(e, p, "release", "idle"))
  BY <1>1, CheckpointArms DEF Enrolling
<1> QED
  BY <1>2, <1>3


\* The step that moves the program counter.
LEMMA GotoArmsStep ==
  ASSUME Inv, Arms, NEW e \in Executor, ex[e].pc # "idle", NEW pc, pc \notin Watched,
         Local(e, Goto(e, pc))
  PROVE  Arms'
BY GotoArms, LocalArms

\* Into the Blocked checkpoint.
LEMMA BlockArmsStep ==
  ASSUME Inv, Arms, NEW e \in Executor, ex[e].pc # "idle", NEW keep \in BOOLEAN,
         keep \/ ~Armed \/ ex[e].view.phase \notin Sources, Local(e, Block(e, keep))
  PROVE  Arms'
BY BlockArms, LocalArms

-----------------------------------------------------------------------------
(* The steps of a pass.                                                    *)

\* bind_run takes the stored run as it is.
LEMMA BeginArms ==
  ASSUME Inv, Arms, NEW e \in Executor, Begin(e)
  PROVE  Arms'
<1> DEFINE r == activeRun
           l == Dispatch(e, r)
<1>1. Local(e, l)
  BY DEF Begin
<1>2. ASSUME NEW k, k.run = r, k.view = run[r], k.pc \notin Watched PROVE PassArms(k)
  BY <1>2 DEF PassArms, Watched, Arms, StoredArms, Sources
<1>3. ASSUME NEW pc \in {"failed", "release", "idle", "prepare", "resume", "ckRead"}
      PROVE  /\ BindRun(r, pc).pc = pc /\ BindRun(r, pc).run = r
             /\ BindRun(r, pc).view = run[r] /\ BindRun(r, pc).done = "idle"
             /\ BindRun(r, pc).patch = NoPatch
             /\ pc # "ckRead" => PassArms(BindRun(r, pc))
  <2>1. /\ BindRun(r, pc).pc = pc /\ BindRun(r, pc).run = r
        /\ BindRun(r, pc).view = run[r] /\ BindRun(r, pc).done = "idle"
        /\ BindRun(r, pc).patch = NoPatch
    BY DEF BindRun, Idle
  <2>2. pc # "ckRead" => pc \notin Watched
    BY DEF Watched, Enrolling, CkSteps
  <2> HIDE DEF r
  <2> QED
    BY <1>2, <2>1, <2>2
<1> HIDE DEF r
<1>4. CASE ~network
  <2> DEFINE k == [BindRun(r, "failed") EXCEPT !.reason = "ManagementNetworkPending"]
  <2>1. l = k
    BY <1>4 DEF Dispatch
  <2>2. k.pc = "failed" /\ k.run = r /\ k.view = run[r]
    BY DEF BindRun, Idle
  <2> HIDE DEF k
  <2>3. PassArms(k)
    BY <1>2, <2>2 DEF Watched, Enrolling, CkSteps
  <2> QED
    BY <1>1, <2>1, <2>3, LocalArms
<1>5. CASE network /\ run[r].phase # "Installing"
  <2>1. PICK pc \in {"failed", "release", "idle", "prepare", "resume"} : l = BindRun(r, pc)
    BY <1>5 DEF Dispatch
  <2>2. PassArms(l)
    BY <1>3, <2>1
  <2> QED
    BY <1>1, <2>2, LocalArms
<1>6. CASE network /\ run[r].phase = "Installing"
  <2> DEFINE p == [phase |-> "Blocked", maintenance |-> TRUE]
             k == [BindRun(r, "ckRead") EXCEPT !.patch = p, !.failed = "failed"]
  <2>1. l = k
    BY <1>6 DEF Dispatch
  <2>2. k.pc = "ckRead" /\ k.run = r /\ k.view = run[r] /\ k.done = "idle"
    BY DEF BindRun, Idle
  <2> HIDE DEF k
  <2>3. PatchArms(k)
    BY <1>6, <2>2 DEF PatchArms, Enrolling, Sources
  <2>4. PassArms(k)
    BY <1>6, <2>2, <2>3 DEF PassArms, Enrolling, Sources, r
  <2> QED
    BY <1>1, <2>1, <2>4, LocalArms
<1> QED
  BY <1>4, <1>5, <1>6

\* Steps that only look, and go on to a step of no concern.
LEMMA LooksArms ==
  ASSUME Inv, Arms, NEW e \in Executor,
         \/ Prepare(e) \/ KexecCheck(e) \/ RebootCheck(e) \/ FinalCheck(e) \/ PostCheck(e)
         \/ Finish(e) \/ Verify(e) \/ AwaitTimeout(e) \/ Install(e)
  PROVE  Arms'
<1>1. ex[e].pc # "idle" /\ ex[e] \in Passes
  <2>1. ex[e].pc # "idle"
    BY DEF Prepare, KexecCheck, RebootCheck, FinalCheck, PostCheck, Finish, Verify,
           AwaitTimeout, Install, At
  <2> QED
    BY <2>1, OfArms
<1>2. \A pc \in {"kexec", "reboot", "finalReboot", "post", "finalCheck", "awaitInstalled",
                  "postCheck", "claim", "wipe"} :
        pc \notin Watched
  BY DEF Watched, Enrolling, CkSteps
<1>3. CASE KexecCheck(e) \/ RebootCheck(e) \/ FinalCheck(e) \/ PostCheck(e)
  <2>1. ASSUME NEW p, NEW n, NEW pc \in {"kexec", "reboot", "finalReboot", "post"},
               Guarded(e, p, n, Goto(e, pc))
        PROVE  Arms'
    <3>1. PICK l : l = Goto(e, pc) /\ Guarded(e, p, n, l)
      BY <2>1
    <3>2. PassArms(l)
      BY <1>1, <1>2, <3>1, GotoArms
    <3> QED
      BY <1>1, <3>1, <3>2, GuardedArms
  <2>2. \/ Guarded(e, FALSE, FALSE, Goto(e, "kexec"))
        \/ Guarded(e, FALSE, FALSE, Goto(e, "reboot"))
        \/ Guarded(e, TRUE, FALSE, Goto(e, "finalReboot"))
        \/ Guarded(e, FALSE, FALSE, Goto(e, "post"))
    BY <1>3 DEF KexecCheck, RebootCheck, FinalCheck, PostCheck
  <2> QED
    BY <2>1, <2>2
<1>4. CASE Finish(e) \/ Verify(e) \/ AwaitTimeout(e) \/ Install(e)
  <2>1. \/ Local(e, Raise(e, "ProvisioningBlocked"))
        \/ \E pc \in {"awaitInstalled", "finalCheck", "postCheck", "wipe"} : Local(e, Goto(e, pc))
    BY <1>4 DEF Finish, Verify, AwaitTimeout, Install
  <2> QED
    BY <1>1, <1>2, <2>1, RaisedArms, GotoArmsStep
<1>5. CASE Prepare(e)
  <2>1. \/ Local(e, Raise(e, "ProvisioningBlocked"))
        \/ Local(e, [Goto(e, "claim") EXCEPT !.facts = Probe])
    BY <1>5 DEF Prepare
  <2>2. ASSUME Local(e, [Goto(e, "claim") EXCEPT !.facts = Probe]) PROVE Arms'
    <3>1. PICK l : l = [Goto(e, "claim") EXCEPT !.facts = Probe]
      OBVIOUS
    <3>2. l.pc = "claim" /\ l.run = ex[e].run /\ l.view = ex[e].view
      BY <1>1, <3>1 DEF Goto, Passes
    <3>3. PassArms(l)
      BY <1>1, <1>2, <3>2, MoveArms
    <3> QED
      BY <2>2, <3>1, <3>3, LocalArms
  <2> QED
    BY <1>1, <2>1, <2>2, RaisedArms
<1> QED
  BY <1>3, <1>4, <1>5

\* reconcile rereads the run before it dispatches.
LEMMA ResumeArms ==
  ASSUME Inv, Arms, NEW e \in Executor, Resume(e)
  PROVE  Arms'
<1>1. PICK s, p, n : /\ s = StageOf(run[ex[e].run])
                     /\ Guarded(e, p, n, [Goto(e, s) EXCEPT !.view = run[ex[e].run]])
  BY DEF Resume
<1>2. ex[e].pc # "idle" /\ ex[e] \in Passes
  <2>1. ex[e].pc # "idle"
    BY DEF Resume, At
  <2> QED
    BY <2>1, OfArms
<1>3. s \notin Watched
  BY <1>1 DEF StageOf, LiveEntry, Watched, Enrolling, CkSteps
<1>4. PICK l : l = [Goto(e, s) EXCEPT !.view = run[ex[e].run]]
  OBVIOUS
<1>5. l.pc = s /\ l.run = ex[e].run /\ l.view = run[ex[e].run]
  BY <1>2, <1>4 DEF Goto, Passes
<1>6. PassArms(l)
  BY <1>2, <1>3, <1>5, MoveArms
<1> QED
  BY <1>1, <1>2, <1>4, <1>6, GuardedArms

\* A checkpoint that fails.
LEMMA LeaveFailedArms ==
  ASSUME Inv, Arms, NEW e \in Executor, ex[e].pc \in CkSteps
  PROVE  PassArms(LeaveFailed(e))
<1>1. ex[e].pc # "idle"
  BY DEF CkSteps
<1>2. ex[e] \in Passes /\ PatchOK(ex[e])
  BY <1>1, OfArms
<1>3. ex[e].failed \in {"failed", "idle", "awaitLive"}
  BY <1>2 DEF PatchOK
<1>4. PICK l : /\ l = LeaveFailed(e) /\ l.pc = ex[e].failed /\ l.run = ex[e].run
               /\ l.view = ex[e].view
  BY <1>2, MoveFields
<1>5. PassArms(l)
  BY <1>1, <1>3, <1>4, MoveArms DEF Watched, Enrolling, CkSteps
<1> QED
  BY <1>4, <1>5

\* A checkpoint's reread goes on to its write, or the checkpoint fails.
LEMMA CkReadArms ==
  ASSUME Inv, Arms, NEW e \in Executor, CkRead(e)
  PROVE  Arms'
<1>1. ex[e].pc # "idle" /\ ex[e].pc \in CkSteps
  BY DEF CkRead, At, CkSteps
<1>2. ex[e] \in Passes /\ PatchOK(ex[e]) /\ PatchArms(ex[e])
  BY <1>1, OfArms
<1>3. ASSUME Local(e, [ex[e] EXCEPT !.pc = "ckPatch", !.fresh = TRUE]) PROVE Arms'
  <2>1. PICK l : l = [ex[e] EXCEPT !.pc = "ckPatch", !.fresh = TRUE]
    OBVIOUS
  <2>2. /\ l.pc = "ckPatch" /\ l.run = ex[e].run /\ l.view = ex[e].view
        /\ l.patch = ex[e].patch /\ l.done = ex[e].done
    BY <1>2, <2>1 DEF Passes
  <2>3. PatchArms(l)
    BY <1>2, <2>2 DEF PatchArms
  <2>4. PassArms(l)
    BY <1>1, <2>2, <2>3, CkArms DEF CkSteps
  <2> QED
    BY <1>3, <2>1, <2>4, LocalArms
<1>4. ASSUME Local(e, LeaveFailed(e)) PROVE Arms'
  BY <1>1, <1>4, LeaveFailedArms, LocalArms
<1> QED
  BY <1>3, <1>4 DEF CkRead

\* What a checkpoint that commits leaves: a node that may be selected stays that of a
\* run that says so, or that is kept in maintenance.
LEMMA CommittedArms ==
  ASSUME Inv, Arms, NEW e \in Executor, ex[e].pc \in CkSteps, ex[e].fresh,
         NEW w, w = Merge(run[ex[e].run], ex[e].patch),
         run' = [run EXCEPT ![ex[e].run] = w], UNCHANGED <<activeRun, node>>
  PROVE  /\ Selection' /\ StoredArms' /\ (Armed' <=> Armed)
         /\ w \in Runs /\ w.phase = ex[e].patch.phase /\ run'[ex[e].run] = w
         /\ w.phase \in Sources /\ ~w.netbootArmed => ~Armed
         /\ ex[e].view.phase \in Sources /\ ~ex[e].view.netbootArmed => ~Armed
         /\ activeRun' = ex[e].run
<1>1. ex[e].pc # "idle"
  BY DEF CkSteps
<1>2. /\ ex[e] \in Passes /\ ex[e].run \in Run /\ activeRun = ex[e].run /\ PassArms(ex[e])
      /\ PatchArms(ex[e]) /\ Placed(ex[e].pc, ex[e].view.phase) /\ run[ex[e].run] \in Runs
  BY <1>1, OfArms
<1>3. PICK r, q, p : r = ex[e].run /\ q = run[r] /\ p = ex[e].patch
  OBVIOUS
<1>4. /\ w \in Runs /\ w.phase = p.phase /\ WriteOK(r, w) /\ q.phase = ex[e].view.phase
  BY <1>3, CheckpointWrites
<1>5. q.phase \in ACTIVE
  BY <1>2, <1>3, <1>4 DEF Placed, CkSteps
<1>6. /\ w.netbootArmed = IF Has(p, "netbootArmed") THEN p.netbootArmed ELSE q.netbootArmed
      /\ w.maintenance = IF Has(p, "maintenance") THEN p.maintenance ELSE q.maintenance
  BY <1>2, <1>3, MergeFields
<1>7. w.sourceBootID = q.sourceBootID
  BY <1>3, <1>4, <1>5 DEF WriteOK, ACTIVE
<1>8. run'[r] = w /\ r \in Run
  BY <1>2, <1>3 DEF Inv, Typed
<1>9. Armed => q.phase \in Sources /\ q.netbootArmed
  BY <1>2, <1>3, <1>5 DEF Arms, StoredArms, ACTIVE
<1>10. Armed => \/ w.phase \in Sources /\ w.netbootArmed
                \/ w.phase = "Blocked" /\ w.maintenance
  BY <1>2, <1>3, <1>4, <1>6, <1>9 DEF PatchArms
<1>11. Armed' <=> Armed
  BY DEF Armed
<1>12. StoredArms'
  BY <1>2, <1>3, <1>8, <1>10, <1>11 DEF StoredArms
<1>13. Selection'
  BY <1>2, <1>3, <1>7, <1>8 DEF Arms, Selection
<1>14. w.phase \in Sources /\ ~w.netbootArmed => ~Armed
  BY <1>10 DEF Sources
<1> QED
  BY <1>2, <1>3, <1>4, <1>8, <1>11, <1>12, <1>13, <1>14 DEF PassArms

\* A checkpoint's write commits, conflicts, or commits without an answer.
LEMMA CkPatchArms ==
  ASSUME Inv, Arms, NoOverlap, NEW e \in Executor, CkPatch(e) \/ CkPatchLost(e)
  PROVE  Arms'
<1>1. ex[e].pc = "ckPatch" /\ ex[e].pc # "idle" /\ ex[e].pc \in CkSteps
  BY DEF CkPatch, CkPatchLost, At, CkSteps
<1>2. /\ ex[e] \in Passes /\ PatchOK(ex[e]) /\ PatchArms(ex[e]) /\ PassArms(ex[e])
  BY <1>1, OfArms
<1>3. PICK w : w = Merge(run[ex[e].run], ex[e].patch)
  OBVIOUS
<1>4. ASSUME NEW l, Store(e, ex[e].patch, l)
      PROVE  /\ run' = [run EXCEPT ![ex[e].run] = w] /\ UNCHANGED <<activeRun, node>>
             /\ Stores(e, l)
  BY <1>3, <1>4, StoreEffect
<1>5. ASSUME ex[e].fresh,
             Store(e, ex[e].patch, [ex[e] EXCEPT !.pc = ex[e].done, !.view = w, !.patch = NoPatch,
                                                 !.done = "idle", !.failed = "idle"])
      PROVE  Arms'
  <2>1. PICK l : /\ l = [ex[e] EXCEPT !.pc = ex[e].done, !.view = w, !.patch = NoPatch,
                                      !.done = "idle", !.failed = "idle"]
                 /\ Store(e, ex[e].patch, l)
    BY <1>5
  <2>2. l.pc = ex[e].done /\ l.run = ex[e].run /\ l.view = w
    BY <1>2, <2>1 DEF Passes
  <2>3. /\ run' = [run EXCEPT ![ex[e].run] = w] /\ UNCHANGED <<activeRun, node>>
        /\ Stores(e, l)
    BY <1>4, <2>1
  <2>4. /\ Selection' /\ StoredArms' /\ (Armed' <=> Armed)
        /\ w.phase = ex[e].patch.phase /\ run'[ex[e].run] = w
        /\ w.phase \in Sources /\ ~w.netbootArmed => ~Armed
        /\ activeRun' = ex[e].run
    BY <1>1, <1>3, <1>5, <2>3, CommittedArms
  <2>5. Placed(l.pc, w.phase) /\ l.pc \notin CkSteps
    BY <1>2, <2>2, <2>4 DEF PatchOK, CkSteps
  <2>6. l.pc \in {"refreshPrepare", "armCheck"} => w.netbootArmed
    <3>1. l.pc \in {"refreshPrepare", "armCheck"} =>
            Has(ex[e].patch, "netbootArmed") /\ ex[e].patch.netbootArmed
      BY <1>2, <2>2 DEF PatchArms
    <3>2. run[ex[e].run] \in Runs
      BY <1>1, OfArms
    <3> QED
      BY <1>3, <3>1, <3>2, MergeFields
  <2>7. /\ l.pc = "refreshPrepare" => w.phase = "PreparingBoot"
        /\ l.pc = "armCheck" => w.phase = "AwaitingLive"
    BY <2>5 DEF Placed, LiveSteps
  <2>8. /\ l.pc \in Enrolling => ~Armed
        /\ l.pc \notin {"arm", "clearKexec", "recheckNext"}
    BY <1>2, <2>2 DEF PatchArms
  <2>9. PassArms(l)'
    BY <2>2, <2>4, <2>5, <2>6, <2>7, <2>8 DEF PassArms
  <2> QED
    BY <1>1, <2>3, <2>4, <2>9, AloneArms
<1>6. CASE CkPatchLost(e)
  <2>1. ex[e].fresh /\ Store(e, ex[e].patch, [LeaveFailed(e) EXCEPT !.fresh = FALSE])
    BY <1>6 DEF CkPatchLost
  <2>2. PICK l : /\ l = [LeaveFailed(e) EXCEPT !.fresh = FALSE] /\ Store(e, ex[e].patch, l)
    BY <2>1
  <2>3. l.pc = ex[e].failed /\ l.run = ex[e].run /\ l.view = ex[e].view
    BY <1>2, <2>2 DEF LeaveFailed, Passes
  <2>4. /\ run' = [run EXCEPT ![ex[e].run] = w] /\ UNCHANGED <<activeRun, node>>
        /\ Stores(e, l)
    BY <1>4, <2>2
  <2>5. /\ Selection' /\ StoredArms' /\ (Armed' <=> Armed)
        /\ ex[e].view.phase \in Sources /\ ~ex[e].view.netbootArmed => ~Armed
        /\ activeRun' = ex[e].run
    BY <1>1, <1>3, <2>1, <2>4, CommittedArms
  <2>6. l.pc \in {"failed", "idle", "awaitLive"}
    BY <1>2, <2>3 DEF PatchOK
  <2>7. PassArms(l)'
    BY <2>3, <2>5, <2>6 DEF PassArms, Enrolling, CkSteps
  <2> QED
    BY <1>1, <2>4, <2>5, <2>7, AloneArms
<1>7. ASSUME Local(e, Goto(e, "ckRead")) PROVE Arms'
  <2>1. PICK l : l = Goto(e, "ckRead") /\ Local(e, l)
    BY <1>7
  <2>2. /\ l.pc = "ckRead" /\ l.run = ex[e].run /\ l.view = ex[e].view
        /\ l.patch = ex[e].patch /\ l.done = ex[e].done
    BY <1>2, <2>1 DEF Goto, Passes
  <2>3. PatchArms(l)
    BY <1>2, <2>2 DEF PatchArms
  <2>4. PassArms(l)
    BY <1>1, <2>2, <2>3, CkArms DEF CkSteps
  <2> QED
    BY <2>1, <2>4, LocalArms
<1>8. ASSUME Local(e, LeaveFailed(e)) PROVE Arms'
  BY <1>1, <1>8, LeaveFailedArms, LocalArms
<1>9. CASE CkPatch(e)
  <2>1. \/ /\ ex[e].fresh
           /\ Store(e, ex[e].patch, [ex[e] EXCEPT !.pc = ex[e].done, !.view = w, !.patch = NoPatch,
                                                  !.done = "idle", !.failed = "idle"])
        \/ Local(e, Goto(e, "ckRead")) \/ Local(e, LeaveFailed(e))
    BY <1>3, <1>9 DEF CkPatch
  <2> QED
    BY <1>5, <1>7, <1>8, <2>1
<1> QED
  BY <1>6, <1>9

\* A pass that is alone, over a node that is not selected.
LEMMA UnarmedArms ==
  ASSUME Inv, NoOverlap, ~Armed, UNCHANGED node, NEW e \in Executor, ex[e].pc # "idle", NEW l,
         Becomes(e, l) \/ Stores(e, l), l.pc # "idle" => l.pc \notin Watched /\ activeRun' = l.run
  PROVE  Arms'
<1>1. ~Armed' /\ Selection' /\ StoredArms'
  BY DEF Armed, Selection, StoredArms
<1>2. l.pc # "idle" => PassArms(l)'
  BY <1>1 DEF PassArms, Watched
<1> QED
  BY <1>1, <1>2, AloneArms

\* A run that is neither on its way to the live session nor kept selects nothing.
LEMMA RestsUnarmed ==
  ASSUME Arms, activeRun \in Run => /\ run[activeRun].phase \notin Sources
                                    /\ ~(run[activeRun].phase = "Blocked" /\ run[activeRun].maintenance)
  PROVE  ~Armed
BY DEF Arms, StoredArms

\* The claim of a run that has selected nothing yet.
LEMMA ClaimArms ==
  ASSUME Inv, Arms, NoOverlap, NEW e \in Executor, Claim(e) \/ ClaimLost(e)
  PROVE  Arms'
<1>1. ex[e].pc = "claim" /\ ex[e].pc # "idle"
  BY DEF Claim, ClaimLost, At
<1>2. /\ ex[e] \in Passes /\ activeRun = ex[e].run /\ Tracks(ex[e])
      /\ Placed("claim", ex[e].view.phase)
  BY <1>1, OfArms
<1>3. ex[e].fresh => ~Armed
  <2>1. ex[e].fresh => run[ex[e].run].phase = "Pending"
    BY <1>2 DEF Tracks, Placed
  <2> QED
    BY <1>2, <2>1, RestsUnarmed DEF Sources
<1>4. ASSUME ex[e].fresh, NEW l, Store(e, ClaimPatch(e), l), l.pc \in {"resume", "failed"},
             l.run = ex[e].run
      PROVE  Arms'
  <2>1. Stores(e, l) /\ UNCHANGED <<activeRun, node>>
    BY <1>4, StoreEffect
  <2>2. l.pc \notin Watched /\ activeRun' = l.run
    BY <1>2, <1>4, <2>1 DEF Watched, Enrolling, CkSteps
  <2> QED
    BY <1>1, <1>3, <1>4, <2>1, <2>2, UnarmedArms
<1>5. CASE ClaimLost(e)
  <2>1. PICK l : /\ l = [Raise(e, "ProvisioningBlocked") EXCEPT !.fresh = FALSE]
                 /\ ex[e].fresh /\ Store(e, ClaimPatch(e), l)
    BY <1>5 DEF ClaimLost
  <2>2. l.pc = "failed" /\ l.run = ex[e].run
    BY <1>2, <2>1 DEF Raise, Passes
  <2> QED
    BY <1>4, <2>1, <2>2
<1>6. CASE Claim(e)
  <2>1. PICK l : l = [Goto(e, "resume") EXCEPT !.view = Merge(run[ex[e].run], ClaimPatch(e))]
    OBVIOUS
  <2>2. l.pc = "resume" /\ l.run = ex[e].run
    BY <1>2, <2>1 DEF Goto, Passes
  <2>3. \/ ex[e].fresh /\ Store(e, ClaimPatch(e), l)
        \/ Local(e, Raise(e, "ProvisioningBlocked"))
    BY <1>6, <2>1 DEF Claim
  <2> QED
    BY <1>1, <1>4, <2>2, <2>3, RaisedArms
<1> QED
  BY <1>5, <1>6

\* Ends of a pass: the message of a failed preflight, and the release.
LEMMA EndsArms ==
  ASSUME Inv, Arms, NoOverlap, NEW e \in Executor, FailedPending(e) \/ Release(e)
  PROVE  Arms'
<1>1. ex[e].pc # "idle"
  BY DEF FailedPending, Release, At
<1>2. /\ ex[e] \in Passes /\ activeRun = ex[e].run /\ Tracks(ex[e])
  BY <1>1, OfArms
<1>3. PICK l : l = Idle /\ l.pc = "idle"
  BY IdleSound
<1>4. ASSUME Local(e, Idle) PROVE Arms'
  BY <1>3, <1>4, LocalArms
<1>5. ASSUME ex[e].view.phase = "Pending", ex[e].fresh, Store(e, [phase |-> "Pending"], Idle)
      PROVE  Arms'
  <2>1. run[activeRun].phase = "Pending"
    BY <1>2, <1>5 DEF Tracks
  <2>2. ~Armed
    BY <2>1, RestsUnarmed DEF Sources
  <2>3. Stores(e, l) /\ UNCHANGED node
    BY <1>3, <1>5, StoreEffect
  <2> QED
    BY <1>1, <1>3, <2>2, <2>3, UnarmedArms
<1>6. ASSUME Releasable(ex[e].run), Becomes(e, Idle), UNCHANGED node PROVE Arms'
  <2>1. ~Armed
    BY <1>2, <1>6, RestsUnarmed DEF Releasable, Sources
  <2>2. Becomes(e, l)
    BY <1>3, <1>6
  <2> QED
    BY <1>1, <1>3, <1>6, <2>1, <2>2, UnarmedArms
<1> QED
  BY <1>4, <1>5, <1>6 DEF FailedPending, Release

\* A new run finds no pass and no selection.
LEMMA CreateRunArms ==
  ASSUME Inv, Arms, NEW r \in Run, CreateRun(r)
  PROVE  Arms'
<1>1. activeRun = NoRun /\ UNCHANGED <<node, ex>> /\ NoRun \notin Run
  BY ConstantsAssumption DEF CreateRun
<1>2. ~Armed
  BY <1>1 DEF Arms, StoredArms
<1>3. \A e \in Executor : ex[e].pc = "idle"
  BY <1>1, OfArms
<1> QED
  BY <1>1, <1>2, <1>3 DEF Arms, Selection, StoredArms, Armed

-----------------------------------------------------------------------------
(* Selecting the next boot.                                                *)

\* prepare_boot announces the selection before it touches the node.
LEMMA BootArms ==
  ASSUME Inv, Arms, NEW e \in Executor, Boot(e)
  PROVE  Arms'
<1> DEFINE p1 == [phase |-> "PreparingBoot", netbootArmed |-> TRUE]
           p2 == [phase |-> "AwaitingLive", netbootArmed |-> TRUE]
<1>1. ex[e].pc # "idle"
  BY DEF Boot, At
<1>2. \/ Local(e, Raise(e, "ProvisioningBlocked"))
      \/ Local(e, Checkpointing(e, p1, "refreshPrepare", "failed"))
      \/ Local(e, Checkpointing(e, p2, "armCheck", "failed"))
  BY DEF Boot, Checkpoint
<1>3. /\ p1.phase \in Sources /\ Has(p1, "netbootArmed") /\ p1.netbootArmed
      /\ p2.phase \in Sources /\ Has(p2, "netbootArmed") /\ p2.netbootArmed
  BY DEF Sources, Has
<1> HIDE DEF p1, p2
<1>4. "refreshPrepare" \notin Enrolling /\ "armCheck" \notin Enrolling
  BY DEF Enrolling
<1>5. /\ PassArms(Checkpointing(e, p1, "refreshPrepare", "failed"))
      /\ PassArms(Checkpointing(e, p2, "armCheck", "failed"))
  BY <1>1, <1>3, <1>4, CheckpointArms
<1> QED
  BY <1>1, <1>2, <1>5, LocalArms, RaisedArms

\* A selection that its run announces, in the session it is for.
LEMMA SelectArms ==
  ASSUME Inv, Arms, NoOverlap, NEW e \in Executor, ex[e].pc # "idle", NEW l, Becomes(e, l),
         UNCHANGED <<run, activeRun>>, Selection', l.run = ex[e].run, l.view = ex[e].view,
         l.pc \notin Watched, run[ex[e].run].phase \in Sources, run[ex[e].run].netbootArmed,
         ex[e].view.netbootArmed
  PROVE  Arms'
<1>1. activeRun = ex[e].run /\ ex[e].run \in Run
  BY OfArms
<1>2. StoredArms'
  BY <1>1 DEF StoredArms
<1>3. PassArms(l)'
  BY <1>1 DEF PassArms, Watched
<1> QED
  BY <1>2, <1>3, AloneArms

\* The kernel is loaded in the source session.
LEMMA RefreshPrepareArms ==
  ASSUME Inv, Arms, NoOverlap, NEW e \in Executor, RefreshPrepare(e)
  PROVE  Arms'
<1>1. ex[e].pc = "refreshPrepare" /\ ex[e].pc # "idle"
  BY DEF RefreshPrepare, At
<1>2. /\ ex[e] \in Passes /\ ex[e].run \in Run /\ activeRun = ex[e].run /\ PassArms(ex[e])
      /\ Placed("refreshPrepare", ex[e].view.phase) /\ Tracks(ex[e]) /\ node \in Nodes
  BY <1>1, OfArms
<1>3. CASE Local(e, Raise(e, "ProvisioningBlocked"))
  BY <1>1, <1>3, RaisedArms
<1>4. CASE ~Local(e, Raise(e, "ProvisioningBlocked"))
  <2>1. /\ node.live /\ node.bootID = ex[e].view.sourceBootID
        /\ OnNode(e, [node EXCEPT !.kexec = TRUE], Goto(e, "refreshCheck"))
    BY <1>4 DEF RefreshPrepare, Stage
  <2>2. PICK l : l = Goto(e, "refreshCheck") /\ Becomes(e, l)
    BY <2>1 DEF OnNode
  <2>3. l.pc = "refreshCheck" /\ l.run = ex[e].run /\ l.view = ex[e].view
    BY <1>2, <2>2, MoveFields
  <2>4. UNCHANGED <<run, activeRun>> /\ node' = [node EXCEPT !.kexec = TRUE]
    BY <2>1 DEF OnNode, serverVars
  <2>5. run[activeRun].sourceBootID = node.bootID
    BY <1>2, <2>1 DEF Placed, Tracks, Early
  <2>6. /\ node'.live = node.live /\ node'.bootID = node.bootID
        /\ node'.nextEntry = node.nextEntry
    BY <1>2, <2>4 DEF Nodes
  <2>7. Selection'
    BY <1>2, <2>1, <2>4, <2>5, <2>6 DEF Arms, Selection
  <2>8. /\ run[ex[e].run].phase \in Sources /\ run[ex[e].run].netbootArmed
        /\ ex[e].view.netbootArmed
    BY <1>1, <1>2 DEF PassArms, Sources
  <2>9. l.pc \notin Watched
    BY <2>3 DEF Watched, Enrolling, CkSteps
  <2> QED
    BY <1>1, <2>2, <2>3, <2>4, <2>7, <2>8, <2>9, SelectArms
<1> QED
  BY <1>3, <1>4

\* The one-shot entry is set on an installed host.
LEMMA ArmArms ==
  ASSUME Inv, Arms, NoOverlap, NEW e \in Executor, Arm(e)
  PROVE  Arms'
<1>1. ex[e].pc = "arm" /\ ex[e].pc # "idle"
  BY DEF Arm, At
<1>2. /\ ex[e] \in Passes /\ PassArms(ex[e]) /\ node \in Nodes
  BY <1>1, OfArms
<1>3. CASE Local(e, Raise(e, "ProvisioningBlocked"))
  BY <1>1, <1>3, RaisedArms
<1>4. CASE ~Local(e, Raise(e, "ProvisioningBlocked"))
  <2>1. ~node.live /\ OnNode(e, [node EXCEPT !.nextEntry = TRUE], Goto(e, "rebootCheck"))
    BY <1>4 DEF Arm, Stage
  <2>2. PICK l : l = Goto(e, "rebootCheck") /\ Becomes(e, l)
    BY <2>1 DEF OnNode
  <2>3. l.pc = "rebootCheck" /\ l.run = ex[e].run /\ l.view = ex[e].view
    BY <1>2, <2>2, MoveFields
  <2>4. UNCHANGED <<run, activeRun>> /\ node' = [node EXCEPT !.nextEntry = TRUE]
    BY <2>1 DEF OnNode, serverVars
  <2>5. node'.live = node.live /\ node'.bootID = node.bootID /\ node'.kexec = node.kexec
    BY <1>2, <2>4 DEF Nodes
  <2>6. Selection'
    BY <2>1, <2>4, <2>5 DEF Arms, Selection
  <2>7. /\ run[ex[e].run].phase \in Sources /\ run[ex[e].run].netbootArmed
        /\ ex[e].view.netbootArmed
    BY <1>1, <1>2 DEF PassArms, Sources
  <2>8. l.pc \notin Watched
    BY <2>3 DEF Watched, Enrolling, CkSteps
  <2> QED
    BY <1>1, <2>2, <2>3, <2>4, <2>6, <2>7, <2>8, SelectArms
<1> QED
  BY <1>3, <1>4

\* A stage that may take a selection from the node, or leaves it alone.
LEMMA CalmStep ==
  ASSUME Inv, Arms, NEW e \in Executor, NEW l, Becomes(e, l), UNCHANGED <<run, activeRun>>,
         node'.nextEntry => node.nextEntry, node'.kexec => node.kexec,
         node'.bootID = node.bootID, node'.live = node.live,
         l.pc # "idle" => PassArms(l)
  PROVE  Arms'
<1>1. /\ Selection' /\ StoredArms' /\ \A k : PassArms(k) => PassArms(k)'
  BY CalmNode DEF Arms
<1>2. PICK m : /\ ex' = [ex EXCEPT ![e] = m] /\ m = IF l.pc = "idle" THEN Idle ELSE l
  BY DEF Becomes
<1>3. ex \in [Executor -> Passes] /\ Idle.pc = "idle"
  BY IdleSound DEF Inv, Typed
<1>4. ASSUME NEW f \in Executor, ex'[f].pc # "idle" PROVE PassArms(ex[f])'
  <2>1. PICK k : k = ex'[f] /\ PassArms(k)
    BY <1>2, <1>3, <1>4 DEF Arms
  <2>2. PassArms(k)'
    BY <1>1, <2>1
  <2> QED
    BY <2>1, <2>2
<1> QED
  BY <1>1, <1>4 DEF Arms

\* The reboots, and the rest of the installation.
LEMMA StagesArms ==
  ASSUME Inv, Arms, NEW e \in Executor,
         Kexec(e) \/ Reboot(e) \/ FinalReboot(e) \/ Wipe(e) \/ InstallDone(e)
  PROVE  Arms'
<1>1. ex[e].pc # "idle"
  BY DEF Kexec, Reboot, FinalReboot, Wipe, InstallDone, At
<1>2. ex[e] \in Passes /\ node \in Nodes
  BY <1>1, OfArms
<1>3. ASSUME NEW m, m.nextEntry => node.nextEntry, m.kexec = node.kexec,
             m.bootID = node.bootID, m.live = node.live, node' = m,
             NEW l, PassArms(l), Becomes(e, l), UNCHANGED <<run, activeRun>>
      PROVE  Arms'
  BY <1>3, CalmStep
<1>4. ASSUME NEW pc, pc \notin Watched, NEW m, m.nextEntry => node.nextEntry, m.kexec = node.kexec,
             m.bootID = node.bootID, m.live = node.live, node' = m,
             Becomes(e, Goto(e, pc)), UNCHANGED <<run, activeRun>>
      PROVE  Arms'
  <2>1. PICK l : l = Goto(e, pc) /\ PassArms(l)
    BY <1>1, <1>4, GotoArms
  <2> QED
    BY <1>3, <1>4, <2>1
<1>5. \A pc \in {"liveRecheck", "awaitLive", "awaitInstalled", "installing"} : pc \notin Watched
  BY DEF Watched, Enrolling, CkSteps
<1>6. CASE Local(e, Raise(e, "ProvisioningBlocked"))
  BY <1>1, <1>6, RaisedArms
<1>7. CASE ~Local(e, Raise(e, "ProvisioningBlocked"))
  <2>1. \A going \in {"kexec", "reboot"} :
          LET m == [node EXCEPT !.going = going]
          IN /\ m.nextEntry = node.nextEntry /\ m.kexec = node.kexec
             /\ m.bootID = node.bootID /\ m.live = node.live
    BY <1>2 DEF Nodes
  <2>2. ASSUME NEW going \in {"kexec", "reboot"},
               NEW pc \in {"liveRecheck", "awaitLive", "awaitInstalled"},
               OnNode(e, [node EXCEPT !.going = going], Goto(e, pc))
        PROVE  Arms'
    <3>1. PICK m : m = [node EXCEPT !.going = going] /\ node' = m
      BY <2>2 DEF OnNode
    <3>2. Becomes(e, Goto(e, pc)) /\ UNCHANGED <<run, activeRun>>
      BY <2>2 DEF OnNode, serverVars
    <3>3. m.nextEntry = node.nextEntry /\ m.kexec = node.kexec
          /\ m.bootID = node.bootID /\ m.live = node.live
      BY <2>1, <3>1
    <3> QED
      BY <1>4, <1>5, <3>1, <3>2, <3>3
  <2>3. LiveEntry(ex[e].view) \in {"liveRecheck", "awaitLive"}
    BY DEF LiveEntry
  <2>4. CASE Kexec(e)
    <3>1. OnNode(e, [node EXCEPT !.going = "kexec"], Goto(e, LiveEntry(ex[e].view)))
      BY <1>7, <2>4 DEF Kexec, Stage
    <3> QED
      BY <2>2, <2>3, <3>1
  <2>5. CASE Reboot(e)
    <3>1. OnNode(e, [node EXCEPT !.going = "reboot"], Goto(e, LiveEntry(ex[e].view)))
      BY <1>7, <2>5 DEF Reboot, Stage
    <3> QED
      BY <2>2, <2>3, <3>1
  <2>6. CASE FinalReboot(e)
    <3>1. OnNode(e, [node EXCEPT !.going = "reboot"], Goto(e, "awaitInstalled"))
      BY <1>7, <2>6 DEF FinalReboot, Stage
    <3> QED
      BY <2>2, <3>1
  <2>7. CASE Wipe(e)
    <3> DEFINE m == [node EXCEPT !.disk = "erased", !.marker = ex[e].run, !.mounted = TRUE,
                                 !.nextEntry = FALSE]
    <3>1. node' = m /\ Becomes(e, Goto(e, "installing")) /\ UNCHANGED <<run, activeRun>>
      BY <1>7, <2>7 DEF Wipe, Erase, serverVars
    <3>2. /\ m.nextEntry => node.nextEntry
          /\ m.kexec = node.kexec /\ m.bootID = node.bootID /\ m.live = node.live
      BY <1>2 DEF Nodes
    <3> HIDE DEF m
    <3> QED
      BY <1>4, <1>5, <3>1, <3>2
  <2>8. CASE InstallDone(e)
    <3> DEFINE m == [node EXCEPT !.disk = "installed"]
               p == [phase |-> "AwaitingInstalled", netbootArmed |-> FALSE]
    <3>1. /\ node' = m /\ Becomes(e, Checkpointing(e, p, "finish", "failed"))
          /\ UNCHANGED <<run, activeRun>> /\ ex[e].pc = "installing"
      BY <1>7, <2>8 DEF InstallDone, Stage, OnNode, Checkpoint, serverVars, At
    <3>2. /\ m.nextEntry = node.nextEntry
          /\ m.kexec = node.kexec /\ m.bootID = node.bootID /\ m.live = node.live
      BY <1>2 DEF Nodes
    <3>3. ex[e].view.phase \notin Sources
      BY <1>1, <3>1, OfArms DEF Placed, Sources
    <3> HIDE DEF m, p
    <3>4. PICK l : l = Checkpointing(e, p, "finish", "failed") /\ PassArms(l)
      BY <1>1, <3>3, CheckpointArms DEF Enrolling
    <3> QED
      BY <1>3, <3>1, <3>2, <3>4
  <2> QED
    BY <2>4, <2>5, <2>6, <2>7, <2>8
<1> QED
  BY <1>6, <1>7

\* The rereads around the load and before the one-shot entry is set.
LEMMA SelectChecksArms ==
  ASSUME Inv, Arms, NEW e \in Executor, RefreshCheck(e) \/ ArmCheck(e)
  PROVE  Arms'
<1>1. ex[e].pc # "idle"
  BY DEF RefreshCheck, ArmCheck, At
<1>2. ex[e] \in Passes /\ PassArms(ex[e])
  BY <1>1, OfArms
<1>3. CASE RefreshCheck(e)
  <2> DEFINE p == [phase |-> "AwaitingLive", liveBootID |-> NoBoot, netbootArmed |-> TRUE]
  <2>1. Guarded(e, FALSE, FALSE, Checkpointing(e, p, "kexecCheck", "failed"))
    BY <1>3 DEF RefreshCheck, Checkpoint
  <2>2. p.phase \in Sources /\ p.netbootArmed
    BY DEF Sources
  <2> HIDE DEF p
  <2>3. PICK l : /\ l = Checkpointing(e, p, "kexecCheck", "failed") /\ PassArms(l)
                 /\ Guarded(e, FALSE, FALSE, l)
    BY <1>1, <2>1, <2>2, CheckpointArms DEF Enrolling
  <2> QED
    BY <1>1, <2>3, GuardedArms
<1>4. CASE ArmCheck(e)
  <2>1. ex[e].pc = "armCheck" /\ Guarded(e, FALSE, FALSE, Goto(e, "arm"))
    BY <1>4 DEF ArmCheck, At
  <2>2. PICK l : l = Goto(e, "arm") /\ Guarded(e, FALSE, FALSE, l)
    BY <2>1
  <2>3. l.pc = "arm" /\ l.run = ex[e].run /\ l.view = ex[e].view
    BY <1>2, <2>2, MoveFields
  <2>4. PassArms(l)
    BY <1>2, <2>1, <2>3 DEF PassArms, Enrolling, CkSteps
  <2> QED
    BY <1>1, <2>2, <2>4, GuardedArms
<1> QED
  BY <1>3, <1>4

-----------------------------------------------------------------------------
(* From the contact with the live session to the end of the run.           *)

\* A live session other than the source session is not selected.
LEMMA FreshSession ==
  ASSUME Inv, Arms, NEW e \in Executor, ex[e].pc # "idle",
         node.live, node.bootID # run[ex[e].run].sourceBootID
  PROVE  ~Armed
BY OfArms DEF Arms, Selection, Armed

\* The rounds of await_session(live).
LEMMA AwaitLiveArms ==
  ASSUME Inv, Arms, NEW e \in Executor, AwaitLive(e) \/ FirstContact(e)
  PROVE  Arms'
<1>1. ex[e].pc = "awaitLive" /\ ex[e].pc # "idle"
  BY DEF AwaitLive, FirstContact, At
<1>2. ex[e] \in Passes
  BY <1>1, OfArms
<1>3. PICK q : q = run[ex[e].run]
  OBVIOUS
<1>4. CASE AwaitLive(e)
  <2>1. \/ /\ node.live /\ node.bootID # q.sourceBootID
           /\ Guarded(e, FALSE, TRUE, [Goto(e, "enroll") EXCEPT !.view = q, !.facts = Probe])
        \/ Guarded(e, FALSE, TRUE, [ex[e] EXCEPT !.view = q])
    BY <1>3, <1>4 DEF AwaitLive
  <2>2. ASSUME node.live, node.bootID # q.sourceBootID,
               Guarded(e, FALSE, TRUE, [Goto(e, "enroll") EXCEPT !.view = q, !.facts = Probe])
        PROVE  Arms'
    <3>1. PICK l : l = [Goto(e, "enroll") EXCEPT !.view = q, !.facts = Probe]
      OBVIOUS
    <3>2. l.pc \in Enrolling /\ l.run = ex[e].run
      BY <1>2, <3>1 DEF Goto, Passes, Enrolling
    <3>3. ~Armed
      BY <1>1, <1>3, <2>2, FreshSession
    <3>4. PassArms(l)
      BY <1>1, <3>2, <3>3, EnrollArms
    <3> QED
      BY <1>1, <2>2, <3>1, <3>4, GuardedArms
  <2>3. ASSUME Guarded(e, FALSE, TRUE, [ex[e] EXCEPT !.view = q]) PROVE Arms'
    <3>1. PICK l : l = [ex[e] EXCEPT !.view = q]
      OBVIOUS
    <3>2. l.pc = "awaitLive" /\ l.run = ex[e].run /\ l.view = q
      BY <1>1, <1>2, <3>1 DEF Passes
    <3>3. PassArms(l)
      BY <1>1, <1>3, <3>2, MoveArms DEF Watched, Enrolling, CkSteps
    <3> QED
      BY <1>1, <2>3, <3>1, <3>3, GuardedArms
  <2> QED
    BY <2>1, <2>2, <2>3
<1>5. CASE FirstContact(e)
  <2> DEFINE p == [phase |-> "AwaitingLive", bootstrapPublicKey |-> node.key]
  <2>1. /\ node.live /\ node.bootID # q.sourceBootID
        /\ Local(e, [Checkpointing(e, p, "enroll", "awaitLive") EXCEPT !.view = q, !.facts = Probe])
    BY <1>3, <1>5 DEF FirstContact
  <2> HIDE DEF p
  <2>2. PICK l : l = [Checkpointing(e, p, "enroll", "awaitLive") EXCEPT !.view = q, !.facts = Probe]
    OBVIOUS
  <2>3. l.pc = "ckRead" /\ l.run = ex[e].run /\ l.view = q /\ l.done = "enroll"
    BY <1>2, <2>2 DEF Checkpointing, Passes
  <2>4. ~Armed
    BY <1>1, <1>3, <2>1, FreshSession
  <2>5. PatchArms(l)
    BY <2>3, <2>4 DEF PatchArms
  <2>6. PassArms(l)
    BY <1>1, <1>3, <2>3, <2>5, CkArms DEF CkSteps
  <2> QED
    BY <2>1, <2>2, <2>6, LocalArms
<1> QED
  BY <1>4, <1>5

\* A recorded live session is met again.
LEMMA LiveRecheckArms ==
  ASSUME Inv, Arms, NEW e \in Executor, LiveRecheck(e)
  PROVE  Arms'
<1>1. ex[e].pc = "liveRecheck" /\ ex[e].pc # "idle"
  BY DEF LiveRecheck, At
<1>2. ex[e] \in Passes /\ Placed("liveRecheck", ex[e].view.phase) /\ Tracks(ex[e])
  BY <1>1, OfArms
<1>3. CASE Local(e, Raise(e, "ProvisioningBlocked"))
  BY <1>1, <1>3, RaisedArms
<1>4. CASE ~Local(e, Raise(e, "ProvisioningBlocked"))
  <2>1. /\ node.live /\ node.bootID = ex[e].view.liveBootID
        /\ node.bootID # ex[e].view.sourceBootID
        /\ Local(e, [Goto(e, "enroll") EXCEPT !.facts = Probe])
    BY <1>4 DEF LiveRecheck
  <2>2. run[ex[e].run].sourceBootID = ex[e].view.sourceBootID
    BY <1>2 DEF Placed, LiveSteps, Tracks, Early
  <2>3. ~Armed
    BY <1>1, <2>1, <2>2, FreshSession
  <2>4. PICK l : l = [Goto(e, "enroll") EXCEPT !.facts = Probe]
    OBVIOUS
  <2>5. l.pc \in Enrolling /\ l.run = ex[e].run
    BY <1>2, <2>4 DEF Goto, Passes, Enrolling
  <2>6. PassArms(l)
    BY <1>1, <2>3, <2>5, EnrollArms
  <2> QED
    BY <2>1, <2>4, <2>6, LocalArms
<1> QED
  BY <1>3, <1>4

\* The enrollment, up to the Installing checkpoint.
LEMMA EnrollmentArms ==
  ASSUME Inv, Arms, NEW e \in Executor,
         Enroll(e) \/ EnrollPlay(e) \/ EnrollProbe(e) \/ InstallCheck(e)
  PROVE  Arms'
<1>1. ex[e].pc \in Enrolling /\ ex[e].pc # "idle"
  BY DEF Enroll, EnrollPlay, EnrollProbe, InstallCheck, At, Enrolling
<1>2. ex[e] \in Passes /\ PassArms(ex[e]) /\ node \in Nodes
  BY <1>1, OfArms
<1>3. ~Armed
  BY <1>1, <1>2 DEF PassArms
<1>4. ASSUME NEW pc \in Enrolling PROVE PassArms(Goto(e, pc))
  <2>1. PICK l : l = Goto(e, pc) /\ l.pc = pc /\ l.run = ex[e].run
    BY <1>2, MoveFields
  <2>2. PassArms(l)
    BY <1>1, <1>3, <2>1, EnrollArms
  <2> QED
    BY <2>1, <2>2
<1>5. \A pc \in {"enrollPlay", "enrollProbe"} : pc \in Enrolling
  BY DEF Enrolling
<1>6. CASE Local(e, Raise(e, "ProvisioningBlocked"))
  BY <1>1, <1>6, RaisedArms
<1>7. CASE Enroll(e) /\ ~Local(e, Raise(e, "ProvisioningBlocked"))
  <2>1. Guarded(e, FALSE, FALSE, Goto(e, "enrollPlay"))
    BY <1>7 DEF Enroll
  <2>2. PICK l : l = Goto(e, "enrollPlay") /\ PassArms(l)
    BY <1>4, <1>5
  <2> QED
    BY <1>1, <2>1, <2>2, GuardedArms
<1>8. CASE EnrollPlay(e) /\ ~Local(e, Raise(e, "ProvisioningBlocked"))
  <2>1. OnNode(e, [node EXCEPT !.key = ManagedKey], Goto(e, "enrollProbe"))
    BY <1>8 DEF EnrollPlay
  <2>2. PICK l : l = Goto(e, "enrollProbe") /\ PassArms(l)
    BY <1>4, <1>5
  <2>3. Becomes(e, l) /\ UNCHANGED <<run, activeRun>> /\ node' = [node EXCEPT !.key = ManagedKey]
    BY <2>1, <2>2 DEF OnNode, serverVars
  <2>4. /\ node'.nextEntry = node.nextEntry /\ node'.kexec = node.kexec
        /\ node'.bootID = node.bootID /\ node'.live = node.live
    BY <1>2, <2>3 DEF Nodes
  <2> QED
    BY <2>2, <2>3, <2>4, CalmStep
<1>9. CASE EnrollProbe(e) /\ ~Local(e, Raise(e, "ProvisioningBlocked"))
  <2> DEFINE p == [phase |-> "AwaitingLive", liveBootID |-> ex[e].facts.bootID,
                   bootstrapPublicKey |-> NoKey, netbootArmed |-> FALSE]
  <2>1. Local(e, Checkpointing(e, p, "installCheck", "failed"))
    BY <1>9 DEF EnrollProbe, Checkpoint
  <2> HIDE DEF p
  <2>2. PassArms(Checkpointing(e, p, "installCheck", "failed"))
    BY <1>1, <1>3, CheckpointArms
  <2> QED
    BY <2>1, <2>2, LocalArms
<1>10. CASE InstallCheck(e)
  <2> DEFINE p == [phase |-> "Installing"]
  <2>1. Guarded(e, FALSE, FALSE, Checkpointing(e, p, "install", "failed"))
    BY <1>10 DEF InstallCheck, Checkpoint
  <2> HIDE DEF p
  <2>2. PICK l : l = Checkpointing(e, p, "install", "failed") /\ PassArms(l)
    BY <1>1, <1>3, CheckpointArms
  <2> QED
    BY <1>1, <2>1, <2>2, GuardedArms
<1> QED
  BY <1>6, <1>7, <1>8, <1>9, <1>10

\* Past the destructive stage nothing is selected by the run.
LEMMA AwaitInstalledArms ==
  ASSUME Inv, Arms, NEW e \in Executor, AwaitInstalled(e)
  PROVE  Arms'
<1>1. ex[e].pc = "awaitInstalled" /\ ex[e].pc # "idle"
  BY DEF AwaitInstalled, At
<1>2. ex[e] \in Passes /\ Placed("awaitInstalled", ex[e].view.phase)
  BY <1>1, OfArms
<1>3. PICK q : q = run[ex[e].run]
  OBVIOUS
<1> DEFINE p == [phase |-> "Verifying"]
           h == [ex[e] EXCEPT !.view = q]
           k == [h EXCEPT !.pc = "ckRead", !.patch = p, !.done = "verify", !.failed = "failed"]
<1>4. \/ Guarded(e, TRUE, TRUE, h) \/ Guarded(e, TRUE, TRUE, k)
      \/ Guarded(e, TRUE, TRUE, Raise(e, "ProvisioningBlocked"))
  BY <1>3 DEF AwaitInstalled
<1> HIDE DEF p
<1>5. h.pc = "awaitInstalled" /\ h.run = ex[e].run /\ h.view = q
  BY <1>1, <1>2 DEF Passes
<1>6. k.pc = "ckRead" /\ k.run = ex[e].run /\ k.view = q /\ k.done = "verify"
  BY <1>2 DEF Passes
<1> HIDE DEF h, k
<1>7. PassArms(h)
  BY <1>1, <1>3, <1>5, MoveArms DEF Watched, Enrolling, CkSteps
<1>8. Current(e, TRUE, TRUE) => PassArms(k)
  <2>1. Current(e, TRUE, TRUE) => q.phase = "AwaitingInstalled"
    BY <1>2, <1>3 DEF Current, Unchanged, Placed
  <2>2. Current(e, TRUE, TRUE) => PatchArms(k)
    BY <1>6, <2>1 DEF PatchArms, Enrolling, Sources
  <2> QED
    BY <1>1, <1>3, <1>6, <2>2, CkArms DEF CkSteps
<1>9. PassArms(Raise(e, "ProvisioningBlocked"))
  BY <1>1, RaiseArms
<1> QED
  BY <1>1, <1>4, <1>7, <1>8, <1>9, GuardedArms

\* The last checkpoint of a run that succeeds.
LEMMA PostArms ==
  ASSUME Inv, Arms, NEW e \in Executor, Post(e)
  PROVE  Arms'
<1> DEFINE p == [phase |-> "Succeeded", maintenance |-> FALSE]
<1>1. ex[e].pc = "post" /\ ex[e].pc # "idle"
  BY DEF Post, At
<1>2. ex[e].view.phase \notin Sources
  BY <1>1, OfArms DEF Placed, Sources
<1>3. \/ Local(e, Raise(e, "ProvisioningBlocked"))
      \/ Local(e, Checkpointing(e, p, "release", "failed"))
  BY DEF Post, Checkpoint
<1> HIDE DEF p
<1>4. PassArms(Checkpointing(e, p, "release", "failed"))
  BY <1>1, <1>2, CheckpointArms DEF Enrolling
<1> QED
  BY <1>1, <1>3, <1>4, LocalArms, RaisedArms

-----------------------------------------------------------------------------
(* The failure handler, the faults and the environment.                    *)

\* A pass that is alone and has just seen to it that nothing is selected.
LEMMA ClearedArms ==
  ASSUME Inv, NoOverlap, NEW e \in Executor, ex[e].pc # "idle", NEW l, Becomes(e, l), ~Armed',
         l.pc # "idle" => activeRun' = l.run, l.pc \notin {"refreshPrepare", "armCheck", "arm"},
         l.pc \in CkSteps =>
           l.done \notin {"refreshPrepare", "armCheck", "arm", "clearKexec", "recheckNext"}
  PROVE  Arms'
<1>1. Selection' /\ StoredArms'
  BY DEF Armed, Selection, StoredArms
<1>2. l.pc \in CkSteps => PatchArms(l)'
  BY DEF PatchArms
<1>3. ~node'.nextEntry /\ ~node'.kexec
  BY DEF Armed
<1>4. l.pc # "idle" => PassArms(l)'
  BY <1>2, <1>3 DEF PassArms
<1> QED
  BY <1>1, <1>4, AloneArms

\* handle_failure: the phase stands, the cleanup begins, or nothing is selected.
LEMMA FailedArms ==
  ASSUME Inv, Arms, NEW e \in Executor, Failed(e)
  PROVE  Arms'
<1> DEFINE phase == ex[e].view.phase
           p == [phase |-> phase]
<1>1. ex[e].pc = "failed" /\ ex[e].pc # "idle"
  BY DEF Failed, At
<1>2. PassArms(ex[e])
  BY <1>1, OfArms
<1>3. \/ Local(e, Idle) \/ Local(e, Checkpointing(e, p, "idle", "idle"))
      \/ Local(e, Goto(e, "cleanup"))
      \/ ~ex[e].view.netbootArmed /\ Local(e, Block(e, phase = "Installing"))
  BY DEF Failed
<1>4. CASE Local(e, Idle)
  <2>1. PICK l : l = Idle /\ l.pc = "idle"
    BY IdleSound
  <2> QED
    BY <1>4, <2>1, LocalArms
<1>5. CASE Local(e, Checkpointing(e, p, "idle", "idle"))
  <2>1. p.phase = phase /\ ~Has(p, "netbootArmed")
    BY DEF Has
  <2> HIDE DEF p
  <2>2. PassArms(Checkpointing(e, p, "idle", "idle"))
    BY <1>1, <2>1, CheckpointArms DEF Enrolling
  <2> QED
    BY <1>5, <2>2, LocalArms
<1>6. CASE Local(e, Goto(e, "cleanup"))
  BY <1>1, <1>6, GotoArmsStep DEF Watched, Enrolling, CkSteps
<1>7. CASE ~ex[e].view.netbootArmed /\ Local(e, Block(e, phase = "Installing"))
  <2>1. PICK keep \in BOOLEAN : keep = (phase = "Installing")
    OBVIOUS
  <2>2. phase \in Sources => ~Armed
    BY <1>2, <1>7 DEF PassArms
  <2> QED
    BY <1>1, <1>7, <2>1, <2>2, BlockArmsStep
<1> QED
  BY <1>3, <1>4, <1>5, <1>6, <1>7

\* The cleanup gives up the maintenance only when it knows the selection to be gone.
LEMMA CleanupArms ==
  ASSUME Inv, Arms, NoOverlap, NEW e \in Executor,
         Cleanup(e) \/ ClearKexec(e) \/ ClearNext(e) \/ RecheckNext(e)
  PROVE  Arms'
<1>1. ex[e].pc # "idle"
  BY DEF Cleanup, ClearKexec, ClearNext, RecheckNext, At
<1>2. /\ ex[e] \in Passes /\ PassArms(ex[e]) /\ node \in Nodes /\ activeRun = ex[e].run
  BY <1>1, OfArms
<1>3. CASE Local(e, Block(e, TRUE))
  BY <1>1, <1>3, BlockArmsStep
<1>4. CASE Cleanup(e) /\ ~Local(e, Block(e, TRUE))
  <2>1. \/ node.live /\ Local(e, Goto(e, "clearKexec"))
        \/ Local(e, Goto(e, "clearNext"))
    BY <1>4 DEF Cleanup
  <2>2. ASSUME node.live, Local(e, Goto(e, "clearKexec")) PROVE Arms'
    <3>1. PICK l : /\ l = Goto(e, "clearKexec") /\ l.pc = "clearKexec" /\ l.run = ex[e].run
                   /\ l.view = ex[e].view
      BY <1>2, MoveFields
    <3>2. ~node.nextEntry
      BY <2>2 DEF Arms, Selection
    <3>3. PassArms(l)
      BY <1>2, <3>1, <3>2 DEF PassArms, Enrolling, CkSteps
    <3> QED
      BY <2>2, <3>1, <3>3, LocalArms
  <2>3. ASSUME Local(e, Goto(e, "clearNext")) PROVE Arms'
    BY <1>1, <2>3, GotoArmsStep DEF Watched, Enrolling, CkSteps
  <2> QED
    BY <2>1, <2>2, <2>3
<1>5. CASE ClearKexec(e) /\ ~Local(e, Block(e, TRUE))
  <2>1. ex[e].pc = "clearKexec" /\ OnNode(e, [node EXCEPT !.kexec = FALSE], Block(e, FALSE))
    BY <1>5 DEF ClearKexec, At
  <2>2. PICK l : l = Block(e, FALSE)
    OBVIOUS
  <2>3. l.pc = "ckRead" /\ l.run = ex[e].run /\ l.done = "release"
    BY <1>2, <2>2, MoveFields DEF Block
  <2>4. Becomes(e, l) /\ UNCHANGED activeRun /\ node' = [node EXCEPT !.kexec = FALSE]
    BY <2>1, <2>2 DEF OnNode, serverVars
  <2>5. ~node.nextEntry
    BY <1>2, <2>1 DEF PassArms
  <2>6. ~Armed'
    BY <1>2, <2>4, <2>5 DEF Armed, Nodes
  <2> QED
    BY <1>1, <1>2, <2>3, <2>4, <2>6, ClearedArms
<1>6. CASE ClearNext(e) /\ ~Local(e, Block(e, TRUE))
  <2>1. ~node.live /\ OnNode(e, [node EXCEPT !.nextEntry = FALSE], Goto(e, "recheckNext"))
    BY <1>6 DEF ClearNext
  <2>2. PICK l : l = Goto(e, "recheckNext") /\ l.pc = "recheckNext" /\ l.run = ex[e].run
    BY <1>2, MoveFields
  <2>3. Becomes(e, l) /\ UNCHANGED activeRun /\ node' = [node EXCEPT !.nextEntry = FALSE]
    BY <2>1, <2>2 DEF OnNode, serverVars
  <2>4. ~node.kexec
    BY <2>1 DEF Arms, Selection
  <2>5. ~Armed'
    BY <1>2, <2>3, <2>4 DEF Armed, Nodes
  <2>6. l.pc \notin CkSteps
    BY <2>2 DEF CkSteps
  <2> QED
    BY <1>1, <1>2, <2>2, <2>3, <2>5, <2>6, ClearedArms
<1>7. CASE RecheckNext(e)
  <2>1. PICK keep \in BOOLEAN : keep = (~Answers({ManagedKey}) \/ node.nextEntry)
    OBVIOUS
  <2>2. ex[e].pc = "recheckNext" /\ Local(e, Block(e, keep))
    BY <1>7, <2>1 DEF RecheckNext, At
  <2>3. keep \/ ~Armed
    BY <1>2, <2>1, <2>2 DEF PassArms, Armed
  <2> QED
    BY <1>1, <2>2, <2>3, BlockArmsStep
<1> QED
  BY <1>3, <1>4, <1>5, <1>6, <1>7 DEF ClearKexec, ClearNext, Cleanup

\* Failures and crashes of a pass.
LEMMA StepFailsArms ==
  ASSUME Inv, Arms, NEW e \in Executor, StepFails(e) \/ Crash(e)
  PROVE  Arms'
<1>1. ex[e].pc # "idle" /\ UNCHANGED <<run, activeRun, node>>
  BY DEF StepFails, Crash, At, serverVars
<1>2. ASSUME NEW l, Becomes(e, l), l.pc # "idle" => PassArms(l) PROVE Arms'
  BY <1>1, <1>2, BecomesArms
<1>3. CASE Becomes(e, Idle)
  <2>1. PICK l : l = Idle /\ l.pc = "idle"
    BY IdleSound
  <2> QED
    BY <1>2, <1>3, <2>1
<1>4. CASE Becomes(e, Block(e, TRUE))
  BY <1>1, <1>2, <1>4, BlockArms
<1>5. CASE ex[e].pc \in CkSteps /\ Becomes(e, LeaveFailed(e))
  BY <1>2, <1>5, LeaveFailedArms
<1>6. CASE Becomes(e, Goto(e, "awaitInstalled"))
  <2>1. PassArms(Goto(e, "awaitInstalled"))
    BY <1>1, GotoArms DEF Watched, Enrolling, CkSteps
  <2> QED
    BY <1>2, <1>6, <2>1
<1>7. CASE Becomes(e, Raise(e, "ProvisioningBlocked"))
  BY <1>1, <1>2, <1>7, RaiseArms
<1>8. CASE Crash(e)
  BY <1>3, <1>8 DEF Crash
<1>9. CASE StepFails(e)
  <2>1. \/ Becomes(e, Block(e, TRUE)) \/ (ex[e].pc \in CkSteps /\ Becomes(e, LeaveFailed(e)))
        \/ Becomes(e, Idle) \/ Becomes(e, Goto(e, "awaitInstalled"))
        \/ Becomes(e, Raise(e, "ProvisioningBlocked"))
    BY <1>9 DEF StepFails, CkSteps
  <2> QED
    BY <1>3, <1>4, <1>5, <1>6, <1>7, <2>1
<1> QED
  BY <1>8, <1>9

\* A selection lasts for one boot: no session begins with one.
LEMMA SessionUnarmed ==
  ASSUME Inv, Selection, NEW b, b => node.kexec, NEW m \in NextSession(b)
  PROVE  ~m.nextEntry /\ ~m.kexec
<1>1. node \in Nodes
  BY DEF Inv, Typed
<1>2. b => ~node.nextEntry
  BY DEF Selection
<1>3. PICK n : n = node.bootID + 1
  OBVIOUS
<1> DEFINE base == [node EXCEPT !.bootID = n, !.kexec = FALSE, !.mounted = FALSE, !.going = "no"]
           liveImage == [base EXCEPT !.live = TRUE, !.key = n]
           oneShot == [liveImage EXCEPT !.nextEntry = FALSE]
           fromDisk == [base EXCEPT !.live = FALSE, !.key = ManagedKey]
           dead == [base EXCEPT !.live = FALSE, !.key = Unreachable]
<1>4. m = oneShot \/ (~node.nextEntry /\ m \in {liveImage, fromDisk, dead})
  <2>1. CASE b
    BY <1>2, <1>3, <2>1 DEF NextSession
  <2>2. CASE ~b /\ node.nextEntry
    BY <1>3, <2>2 DEF NextSession
  <2>3. CASE ~b /\ ~node.nextEntry
    <3>1. m \in CASE node.disk = "installed" -> {fromDisk}
                  [] node.disk = "original"  -> {fromDisk, dead}
                  [] node.disk = "erased"    -> {dead}
      BY <1>3, <2>3 DEF NextSession
    <3>2. node.disk \in {"original", "erased", "installed"}
      BY <1>1 DEF Nodes
    <3> QED
      BY <2>3, <3>1, <3>2
  <2> QED
    BY <2>1, <2>2, <2>3
<1>5. base.kexec = FALSE /\ base.nextEntry = node.nextEntry
      /\ DOMAIN base = DOMAIN node
  BY <1>1 DEF Nodes
<1>6. /\ liveImage.kexec = FALSE /\ liveImage.nextEntry = node.nextEntry
      /\ fromDisk.kexec = FALSE /\ fromDisk.nextEntry = node.nextEntry
      /\ dead.kexec = FALSE /\ dead.nextEntry = node.nextEntry
      /\ oneShot.kexec = FALSE /\ oneShot.nextEntry = FALSE
  BY <1>1 DEF Nodes
<1> HIDE DEF liveImage, oneShot, fromDisk, dead
<1> QED
  BY <1>4, <1>6

\* Boots, asked for or not.
LEMMA NodeArms ==
  ASSUME Inv, Arms, NodeBoots \/ PowerLoss
  PROVE  Arms'
<1>1. UNCHANGED <<run, activeRun, ex>>
  BY DEF NodeBoots, PowerLoss, serverVars
<1>2. PICK b : (b => node.kexec) /\ node' \in NextSession(b)
  <2>1. CASE NodeBoots
    BY <2>1 DEF NodeBoots
  <2>2. CASE PowerLoss
    BY <2>2 DEF PowerLoss
  <2> QED
    BY <2>1, <2>2
<1>3. ~node'.nextEntry /\ ~node'.kexec
  BY <1>2, SessionUnarmed DEF Arms
<1>4. Selection' /\ StoredArms' /\ \A l : PassArms(l) => PassArms(l)'
  BY <1>1, <1>3, CalmNode DEF Arms, Armed
<1>5. ASSUME NEW e \in Executor, ex'[e].pc # "idle" PROVE PassArms(ex[e])'
  <2>1. PICK l : l = ex[e] /\ l = ex'[e] /\ PassArms(l)
    BY <1>1, <1>5 DEF Arms
  <2> QED
    BY <1>4, <2>1
<1> QED
  BY <1>4, <1>5 DEF Arms

\* Pauses, edits, addresses, and nothing.
LEMMA PeopleArms ==
  ASSUME Arms, UNCHANGED <<run, activeRun, node, ex>>
  PROVE  Arms'
<1>1. Selection' /\ StoredArms'
  BY DEF Arms, Selection, StoredArms, Armed
<1>2. ASSUME NEW e \in Executor, ex'[e].pc # "idle" PROVE PassArms(ex[e])'
  <2>1. PICK l : l = ex[e] /\ l = ex'[e] /\ PassArms(l)
    BY <1>2 DEF Arms
  <2>2. PassArms(l)'
    BY <2>1, PassArmsStays
  <2> QED
    BY <2>1, <2>2
<1> QED
  BY <1>1, <1>2 DEF Arms

-----------------------------------------------------------------------------
(* The theorems.                                                           *)

\* Nothing is selected when the system starts.
LEMMA InitArms == Init => Arms
<1> SUFFICES ASSUME Init PROVE Arms
  OBVIOUS
<1>1. ~node.nextEntry /\ ~node.kexec
  BY DEF Init
<1>2. \A e \in Executor : ex[e].pc = "idle"
  BY IdleSound DEF Init
<1> QED
  BY <1>1, <1>2 DEF Arms, Selection, StoredArms, Armed

\* Every step of a pass that no other overlaps.
LEMMA PassStepArms ==
  ASSUME Inv, Arms, NoOverlap, NEW e \in Executor, Pass(e)
  PROVE  Arms'
BY BeginArms, LooksArms, ResumeArms, CkReadArms, CkPatchArms, ClaimArms, EndsArms, BootArms,
   RefreshPrepareArms, ArmArms, StagesArms, SelectChecksArms, AwaitLiveArms, LiveRecheckArms,
   EnrollmentArms, AwaitInstalledArms, PostArms, FailedArms, CleanupArms DEF Pass

\* Every step from a state in which no two passes are in progress.
LEMMA NextArms ==
  ASSUME Inv, Arms, NoOverlap, [Next]_vars
  PROVE  Arms'
<1>1. ASSUME Pause \/ Unpause \/ Edit \/ LoseAddress \/ ReportAddress \/ UNCHANGED vars
      PROVE  Arms'
  <2>1. UNCHANGED <<run, activeRun, node, ex>>
    BY <1>1 DEF Pause, Unpause, Edit, LoseAddress, ReportAddress, vars, serverVars
  <2> QED
    BY <2>1, PeopleArms
<1> QED
  BY <1>1, PassStepArms, CkPatchArms, ClaimArms, StepFailsArms, CreateRunArms, NodeArms DEF Next

\* A Server without a reservation is not selected.
LEMMA ArmsDisarmed == Arms => ReleasedDisarmed
BY ConstantsAssumption DEF Arms, StoredArms, Armed, ReleasedDisarmed

\* While passes do not overlap, whatever fails or crashes, a Server that is not reserved
\* has neither a one-shot netboot entry nor a loaded kernel (prepare_boot checkpoints
\* netbootArmed first, handle_failure keeps maintenance unless the cleanup is verified).
THEOREM DisarmedWithoutOverlap == Spec /\ []NoOverlap => []ReleasedDisarmed
<1>1. Inv /\ Arms /\ NoOverlap /\ [Next]_vars => Arms'
  BY NextArms
<1> QED
  BY <1>1, InitArms, ArmsDisarmed, Invariance, PTL DEF Spec

\* Passes that run one at a time, as those of a single executor, never leave a selection
\* behind (main runs one pass to its end).
THEOREM DisarmedByOne ==
  ASSUME \A e, f \in Executor : e = f
  PROVE  Spec => []ReleasedDisarmed
<1>1. NoOverlap
  BY DEF NoOverlap
<1> QED
  BY <1>1, DisarmedWithoutOverlap, PTL
=============================================================================
