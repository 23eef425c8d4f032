------------------------- MODULE ProvisioningProofs -------------------------
(***************************************************************************)
(* Proofs about the provisioning operator, for any number of overlapping   *)
(* passes, runs, boot sessions and faults: a run erases the disk at most   *)
(* once and only where it may, its phases never go back, a written disk    *)
(* stays reserved until its run has succeeded, and the host key goes only  *)
(* to a session whose own key was recorded first.                          *)
(*                                                                         *)
(* Everything rests on the checkpoints.  A pass whose revision is fresh    *)
(* has the stored phase in its view (Tracks), what it is about to write is *)
(* a legal successor of that phase (PatchOK), and the phase of its view is *)
(* the one its step belongs to (Placed).  So a run enters Installing once, *)
(* by one pass, which is the only one that may erase for it (EraserOK).    *)
(***************************************************************************)
EXTENDS Provisioning, TLAPS

Keys == {NoKey} \cup 0 .. MaxBoots
Boots == 0 .. MaxBoots

\* The fields that checkpoints write.
Patches ==
  [phase : Phases]
  \cup [phase : Phases, netbootArmed : BOOLEAN]
  \cup [phase : Phases, maintenance : BOOLEAN]
  \cup [phase : Phases, maintenance : BOOLEAN, netbootArmed : BOOLEAN]
  \cup [phase : Phases, bootstrapPublicKey : Keys]
  \cup [phase : Phases, liveBootID : Boots, netbootArmed : BOOLEAN]
  \cup [phase : Phases, liveBootID : Boots, bootstrapPublicKey : Keys, netbootArmed : BOOLEAN]

Facts == [bootID : Boots, key : {Unreachable} \cup Keys, mounted : BOOLEAN]
Reasons == {"none", "ManagementNetworkPending", "ProvisioningBlocked"}
Passes ==
  [pc : PassSteps, run : Run \cup {NoRun}, view : Runs, inputs : {0, 1}, fresh : BOOLEAN,
   facts : Facts, reason : Reasons, patch : Patches, done : PassSteps, failed : PassSteps]

Typed ==
  /\ run \in [Run -> Runs]
  /\ activeRun \in Run \cup {NoRun} /\ lastRun \in Run \cup {NoRun}
  /\ paused \in BOOLEAN /\ spec \in {0, 1} /\ network \in BOOLEAN
  /\ node \in Nodes
  /\ erasures \in [Run -> Nat]
  /\ ex \in [Executor -> Passes]
  /\ faults \in Nat

CkSteps == {"ckRead", "ckPatch"}
LiveSteps == {"kexecCheck", "kexec", "armCheck", "arm", "rebootCheck", "reboot", "awaitLive",
              "liveRecheck", "enroll", "enrollPlay", "enrollProbe", "installCheck"}
Early == {"Absent", "Pending"}
Sources == {"PreparingBoot", "AwaitingLive"}

\* The phases in which a pass takes each of its steps.
Placed(pc, phase) ==
  /\ pc \in {"prepare", "claim"} => phase = "Pending"
  /\ pc \in {"boot", "refreshPrepare", "refreshCheck"} => phase = "PreparingBoot"
  /\ pc \in LiveSteps => phase = "AwaitingLive"
  /\ pc \in {"install", "wipe", "installing"} => phase = "Installing"
  /\ pc \in {"finish", "finalCheck", "finalReboot", "awaitInstalled"} => phase = "AwaitingInstalled"
  /\ pc \in {"verify", "postCheck", "post"} => phase = "Verifying"
  /\ pc = "resume" => phase \in ACTIVE \ {"Installing"}
  /\ pc \in CleanupSteps => phase \in Sources
  /\ pc \in CkSteps => phase \in ACTIVE

\* The view of a pass: what it says of the stored run, and all of it that matters
\* for writing while the revision is fresh.
Tracks(l) ==
  /\ run[l.run].phase # "Absent" /\ l.view.phase # "Absent"
  /\ l.view.phase \notin Early =>
       run[l.run].phase \notin Early /\ run[l.run].sourceBootID = l.view.sourceBootID
  /\ l.view.phase \notin Early \cup {"PreparingBoot"} =>
       run[l.run].phase \notin Early \cup {"PreparingBoot"}
  /\ l.fresh => run[l.run].phase = l.view.phase
  /\ l.view.phase = "Installing" => ~l.view.netbootArmed

\* A session that may be enrolled: it is not the source session, and its key is the
\* managed one or its own.
MayEnroll(l) ==
  /\ l.facts.bootID # run[l.run].sourceBootID
  /\ l.facts.key \in {ManagedKey, l.facts.bootID}

\* This run's system is on the disk.
Installed(r) == node.marker = r /\ node.disk = "installed"

\* The run is still to enter the destructive stage and has no netboot selection left.
Disarmed(r) == run[r].phase = "AwaitingLive" => ~run[r].netbootArmed

Has(p, f) == f \in DOMAIN p
Becoming(l, phase) == l.patch.phase = phase /\ l.view.phase # phase

\* A checkpoint in progress moves its run along the phase graph; it does not end
\* maintenance once something may have been erased, forget the live session or arm
\* netboot again, and it reports an installation that is there.
PatchOK(l) ==
  /\ l.patch.phase # l.view.phase => l.patch.phase \in Successors(l.view.phase)
  /\ Placed(l.done, l.patch.phase) /\ Placed(l.failed, l.view.phase)
  /\ l.done \notin {"ckRead", "ckPatch", "wipe", "installing", "enrollPlay"}
  /\ l.failed \in {"failed", "idle", "awaitLive"}
  /\ Has(l.patch, "maintenance") /\ ~l.patch.maintenance =>
       \/ l.patch.phase = "Succeeded"
       \/ l.patch.phase = "Blocked" /\ l.view.phase \in Sources
  /\ l.view.phase = "Installing" => ~Has(l.patch, "liveBootID")
  /\ l.view.phase \in {"AwaitingLive", "Installing"} /\ Has(l.patch, "netbootArmed")
       /\ l.patch.phase \in {"AwaitingLive", "Installing"} => ~l.patch.netbootArmed
  /\ l.done = "installCheck" => Has(l.patch, "netbootArmed") /\ ~l.patch.netbootArmed
  /\ l.done = "install" => l.view.phase # "Installing"
  /\ Becoming(l, "Installing") => Disarmed(l.run)
  /\ Becoming(l, "AwaitingInstalled") =>
       erasures[l.run] > 0 /\ (activeRun = l.run => Installed(l.run))
  /\ l.done = "enroll" =>
       MayEnroll(l) /\ Has(l.patch, "bootstrapPublicKey")
       /\ l.patch.bootstrapPublicKey = l.facts.key

\* Who may erase has the run's own record of the live session, and nothing was erased.
EraserOK(l) ==
  /\ l.pc \in {"install", "wipe"} =>
       /\ run[l.run].phase \in {"Installing", "Blocked"} /\ run[l.run].maintenance
       /\ run[l.run].liveBootID = l.view.liveBootID
       /\ erasures[l.run] = 0
  /\ l.pc = "installing" => erasures[l.run] > 0

EnrollOK(l) ==
  /\ l.pc \in {"enroll", "enrollPlay"} =>
       MayEnroll(l) /\ l.facts.key \in {ManagedKey, l.view.bootstrapPublicKey}
  /\ l.pc = "installCheck" => Disarmed(l.run)

PassOK(l) ==
  \/ l.pc = "idle" /\ l.run = NoRun
  \/ /\ l.pc # "idle" /\ l.run \in Run
     /\ Placed(l.pc, l.view.phase) /\ Tracks(l)
     /\ l.pc \in CkSteps => PatchOK(l)
     /\ EraserOK(l) /\ EnrollOK(l)

\* Two passes never hold the same licence to erase.
OneEraser ==
  \A e, f \in Executor :
    ex[e].run = ex[f].run /\ {ex[e].pc, ex[f].pc} \subseteq {"install", "wipe"} => e = f

\* A run holds its Server from its creation to its release, is in maintenance while it
\* is active, and once it has erased the disk until it has succeeded.
RunOK(r) ==
  /\ run[r].phase \in ACTIVE \cup {"Pending"} \/ run[r].maintenance => activeRun = r
  /\ run[r].phase \in ACTIVE => run[r].maintenance
  /\ run[r].phase = "Installing" => ~run[r].netbootArmed
  /\ run[r].phase \in Early \cup Sources => erasures[r] = 0
  /\ erasures[r] <= 1
  /\ erasures[r] > 0 => run[r].maintenance \/ run[r].phase = "Succeeded"
  /\ erasures[r] > 0 /\ activeRun = r => node.marker = r
  /\ run[r].phase \in {"AwaitingInstalled", "Verifying"} => Installed(r)
  /\ run[r].phase = "Succeeded" /\ activeRun = r => Installed(r)
  /\ activeRun = r => run[r].phase # "Absent"
  /\ lastRun = r => run[r].phase = "Succeeded" /\ activeRun # r
  /\ node.marker = r => erasures[r] > 0

\* A key that is not the managed one is the own key of a live session.
KeyOK == node.key \in {ManagedKey, Unreachable} \/ (node.key = node.bootID /\ node.live)

\* An erased disk belongs to the run that holds the Server.
ErasedOK ==
  node.disk = "erased" =>
    node.marker \in Run /\ node.marker = activeRun /\ run[node.marker].maintenance

Inv ==
  /\ Typed
  /\ \A e \in Executor : PassOK(ex[e])
  /\ OneEraser
  /\ \A r \in Run : RunOK(r)
  /\ KeyOK /\ ErasedOK /\ DiskIsAccounted

-----------------------------------------------------------------------------
(* Status writes.                                                          *)

Fields == {"phase", "maintenance", "netbootArmed", "sourceBootID", "liveBootID",
           "bootstrapPublicKey", "snapshot"}

\* What a patch may hold.
LEMMA PatchFields ==
  ASSUME NEW p \in Patches
  PROVE  /\ Has(p, "phase") /\ p.phase \in Phases
         /\ ~Has(p, "sourceBootID") /\ ~Has(p, "snapshot")
         /\ Has(p, "maintenance") => p.maintenance \in BOOLEAN
         /\ Has(p, "netbootArmed") => p.netbootArmed \in BOOLEAN
         /\ Has(p, "liveBootID") => p.liveBootID \in Boots
         /\ Has(p, "bootstrapPublicKey") => p.bootstrapPublicKey \in Keys
<1>1. CASE p \in [phase : Phases]
  BY <1>1 DEF Has
<1>2. CASE p \in [phase : Phases, netbootArmed : BOOLEAN]
  BY <1>2 DEF Has
<1>3. CASE p \in [phase : Phases, maintenance : BOOLEAN]
  BY <1>3 DEF Has
<1>4. CASE p \in [phase : Phases, maintenance : BOOLEAN, netbootArmed : BOOLEAN]
  BY <1>4 DEF Has
<1>5. CASE p \in [phase : Phases, bootstrapPublicKey : Keys]
  BY <1>5 DEF Has
<1>6. CASE p \in [phase : Phases, liveBootID : Boots, netbootArmed : BOOLEAN]
  BY <1>6 DEF Has
<1>7. CASE p \in [phase : Phases, liveBootID : Boots, bootstrapPublicKey : Keys,
                  netbootArmed : BOOLEAN]
  BY <1>7 DEF Has
<1> QED
  BY <1>1, <1>2, <1>3, <1>4, <1>5, <1>6, <1>7 DEF Patches

\* A write changes the fields it names and keeps the others.
LEMMA MergeFields ==
  ASSUME NEW q \in Runs, NEW p
  PROVE  /\ Merge(q, p).phase = IF Has(p, "phase") THEN p.phase ELSE q.phase
         /\ Merge(q, p).maintenance = IF Has(p, "maintenance") THEN p.maintenance ELSE q.maintenance
         /\ Merge(q, p).netbootArmed =
              IF Has(p, "netbootArmed") THEN p.netbootArmed ELSE q.netbootArmed
         /\ Merge(q, p).sourceBootID =
              IF Has(p, "sourceBootID") THEN p.sourceBootID ELSE q.sourceBootID
         /\ Merge(q, p).liveBootID = IF Has(p, "liveBootID") THEN p.liveBootID ELSE q.liveBootID
         /\ Merge(q, p).bootstrapPublicKey =
              IF Has(p, "bootstrapPublicKey") THEN p.bootstrapPublicKey ELSE q.bootstrapPublicKey
         /\ Merge(q, p).snapshot = IF Has(p, "snapshot") THEN p.snapshot ELSE q.snapshot
<1>1. DOMAIN q = Fields
  BY DEF Runs, Fields
<1> QED
  BY <1>1 DEF Merge, Has, Fields

\* A checkpoint keeps the stored run well typed.
LEMMA MergeTyped ==
  ASSUME NEW q \in Runs, NEW p \in Patches
  PROVE  Merge(q, p) \in Runs
<1> DEFINE m == Merge(q, p)
<1>1. /\ m.phase \in Phases /\ m.maintenance \in BOOLEAN /\ m.netbootArmed \in BOOLEAN
      /\ m.sourceBootID \in 0 .. MaxBoots /\ m.liveBootID \in 0 .. MaxBoots
      /\ m.bootstrapPublicKey \in {NoKey} \cup 0 .. MaxBoots /\ m.snapshot \in {0, 1}
  BY PatchFields, MergeFields DEF Runs, Keys, Boots
<1>2. DOMAIN q = Fields
  BY DEF Runs, Fields
<1>3. m = [f \in Fields |-> m[f]]
  BY <1>2 DEF Merge
<1> HIDE DEF m
<1>4. m \in Runs
  BY <1>1, <1>3 DEF Runs, Fields
<1> QED
  BY <1>4 DEF m

-----------------------------------------------------------------------------
(* Steps of one pass that leave the stored run alone.                      *)

\* What Inv says of a pass in progress.
LEMMA OfPass ==
  ASSUME Inv, NEW e \in Executor, ex[e].pc # "idle"
  PROVE  /\ ex[e] \in Passes /\ ex \in [Executor -> Passes]
         /\ ex[e].run \in Run /\ ex[e].view \in Runs /\ run[ex[e].run] \in Runs
         /\ run \in [Run -> Runs]
         /\ Placed(ex[e].pc, ex[e].view.phase) /\ Tracks(ex[e])
         /\ EraserOK(ex[e]) /\ EnrollOK(ex[e]) /\ RunOK(ex[e].run)
         /\ ex[e].pc \in CkSteps => PatchOK(ex[e])
<1>1. ex[e] \in Passes /\ ex \in [Executor -> Passes] /\ run \in [Run -> Runs] /\ PassOK(ex[e])
  BY DEF Inv, Typed
<1>2. /\ ex[e].run \in Run /\ Placed(ex[e].pc, ex[e].view.phase) /\ Tracks(ex[e])
      /\ EraserOK(ex[e]) /\ EnrollOK(ex[e]) /\ (ex[e].pc \in CkSteps => PatchOK(ex[e]))
  BY <1>1 DEF PassOK
<1>3. RunOK(ex[e].run)
  BY <1>2 DEF Inv
<1> QED
  BY <1>1, <1>2, <1>3 DEF Passes

\* A pass that is not running.
LEMMA IdleSound == Idle \in Passes /\ Idle.pc = "idle" /\ Idle.run = NoRun
<1>1. NewRun \in Runs
  BY ConstantsAssumption DEF NewRun, Runs, Phases, NoBoot
<1>2. NoFacts \in Facts
  BY ConstantsAssumption DEF NoFacts, Facts, Boots, Keys, NoBoot
<1>3. NoPatch \in Patches
  BY DEF NoPatch, Patches, Phases
<1> QED
  BY <1>1, <1>2, <1>3 DEF Idle, Passes, PassSteps, Reasons

\* What the invariant says of a pass depends on the run, its reservation and the disk.
LEMMA PassStays ==
  ASSUME UNCHANGED <<run, activeRun, erasures>>, node'.disk = node.disk,
         node'.marker = node.marker, NEW l, PassOK(l)
  PROVE  PassOK(l)'
<1>1. Tracks(l)' <=> Tracks(l)
  BY DEF Tracks
<1>2. MayEnroll(l)' <=> MayEnroll(l)
  BY DEF MayEnroll
<1>3. PatchOK(l)' <=> PatchOK(l)
  BY <1>2 DEF PatchOK, Disarmed, Installed
<1>4. (EraserOK(l)' <=> EraserOK(l)) /\ (EnrollOK(l)' <=> EnrollOK(l))
  BY <1>2 DEF EraserOK, EnrollOK, Disarmed
<1> QED
  BY <1>1, <1>3, <1>4 DEF PassOK

\* What it says of a run depends on the same state and the last successful run.
LEMMA RunStays ==
  ASSUME UNCHANGED <<run, activeRun, lastRun, erasures>>, node'.disk = node.disk,
         node'.marker = node.marker, NEW r \in Run, RunOK(r)
  PROVE  RunOK(r)'
BY DEF RunOK, Installed

\* A pass goes on, and may have touched the node but not its disk.
LEMMA StepSound ==
  ASSUME Inv, NEW e \in Executor, NEW l \in Passes, Becomes(e, l),
         l.pc # "idle" => PassOK(l), l.pc \notin {"install", "wipe"},
         UNCHANGED <<run, serverVars, operatorVars, erasures>>, faults' \in Nat,
         node' \in Nodes, node'.disk = node.disk, node'.marker = node.marker, KeyOK'
  PROVE  Inv'
<1>1. /\ UNCHANGED <<run, activeRun, lastRun, paused, spec, network, erasures>>
      /\ UNCHANGED <<run, activeRun, erasures>> /\ UNCHANGED <<run, activeRun, lastRun, erasures>>
  BY DEF serverVars, operatorVars
<1>2. PICK m \in Passes : m = IF l.pc = "idle" THEN Idle ELSE l
  BY IdleSound
<1>3. ex' = [ex EXCEPT ![e] = m] /\ PassOK(m) /\ m.pc \notin {"install", "wipe"}
  BY <1>2, IdleSound DEF Becomes, PassOK
<1>4. ex \in [Executor -> Passes]
  BY DEF Inv, Typed
<1>5. Typed'
  BY <1>1, <1>3, <1>4 DEF Inv, Typed
<1>6. ASSUME NEW f \in Executor
      PROVE  PassOK(ex[f])'
  <2>1. PICK k : k = ex'[f] /\ PassOK(k)
    BY <1>3, <1>4 DEF Inv
  <2>2. PassOK(k)'
    BY <1>1, <2>1, PassStays
  <2> QED
    BY <2>1, <2>2
<1>7. OneEraser'
  <2>1. \A f \in Executor : ex'[f].pc \in {"install", "wipe"} => ex'[f] = ex[f]
    BY <1>3, <1>4
  <2> QED
    BY <2>1 DEF Inv, OneEraser
<1>8. \A r \in Run : RunOK(r)'
  BY <1>1, RunStays DEF Inv
<1>9. ErasedOK' /\ DiskIsAccounted'
  BY <1>1 DEF Inv, ErasedOK, DiskIsAccounted
<1> QED
  BY <1>5, <1>6, <1>7, <1>8, <1>9 DEF Inv

\* A pass goes on and touches nothing else.
LEMMA LocalSound ==
  ASSUME Inv, NEW e \in Executor, NEW l \in Passes, Local(e, l),
         l.pc # "idle" => PassOK(l), l.pc \notin {"install", "wipe"}
  PROVE  Inv'
<1>1. /\ Becomes(e, l) /\ UNCHANGED <<run, serverVars, operatorVars, erasures>>
      /\ UNCHANGED <<node, faults>>
  BY DEF Local
<1>2. node' \in Nodes /\ KeyOK' /\ faults' \in Nat /\ node'.disk = node.disk /\ node'.marker = node.marker
  BY <1>1 DEF Inv, Typed, KeyOK
<1> QED
  BY <1>1, <1>2, StepSound

\* The view of a pass that is kept, or reread when current() returned.
LEMMA TracksKept ==
  ASSUME Inv, NEW e \in Executor, ex[e].pc # "idle", NEW l \in Passes, l.run = ex[e].run,
         \/ l.view = ex[e].view
         \/ l.view = run[l.run] /\ run[l.run].phase = ex[e].view.phase,
         l.fresh = ex[e].fresh \/ ~l.fresh \/ run[l.run].phase = ex[e].view.phase
  PROVE  l.run \in Run /\ Tracks(l)
<1>1. l.run \in Run /\ Tracks(ex[e]) /\ RunOK(l.run)
  BY OfPass
<1>2. CASE l.view = ex[e].view
  BY <1>1, <1>2 DEF Tracks
<1>3. CASE l.view = run[l.run] /\ run[l.run].phase = ex[e].view.phase
  BY <1>1, <1>3 DEF Tracks, RunOK
<1> QED
  BY <1>1, <1>2, <1>3

\* A move to an ordinary step.
Special == CkSteps \cup {"install", "wipe", "installing", "enroll", "enrollPlay", "installCheck"}

\* The move keeps what the invariant says of the pass.
LEMMA MoveOK ==
  ASSUME Inv, NEW e \in Executor, ex[e].pc # "idle", NEW l \in Passes, l.run = ex[e].run,
         \/ l.view = ex[e].view
         \/ l.view = run[l.run] /\ run[l.run].phase = ex[e].view.phase,
         l.fresh = ex[e].fresh \/ ~l.fresh \/ run[l.run].phase = ex[e].view.phase,
         l.pc \notin Special, Placed(l.pc, l.view.phase)
  PROVE  l.pc # "idle" => PassOK(l)
<1>1. l.run \in Run /\ Tracks(l)
  BY TracksKept
<1>2. EraserOK(l) /\ EnrollOK(l) /\ l.pc \notin CkSteps
  BY DEF EraserOK, EnrollOK, Special, CkSteps
<1> QED
  BY <1>1, <1>2 DEF PassOK

\* A move of the program counter alone.
LEMMA GotoSound ==
  ASSUME Inv, NEW e \in Executor, ex[e].pc # "idle", NEW pc \in PassSteps,
         pc \notin Special, Placed(pc, ex[e].view.phase)
  PROVE  /\ Goto(e, pc) \in Passes /\ Goto(e, pc).pc = pc
         /\ Goto(e, pc).pc # "idle" => PassOK(Goto(e, pc))
<1>1. ex[e] \in Passes
  BY OfPass
<1> DEFINE l == Goto(e, pc)
<1>2. /\ l \in Passes /\ l.pc = pc /\ l.run = ex[e].run /\ l.view = ex[e].view
      /\ l.fresh = ex[e].fresh
  BY <1>1 DEF Goto, Passes
<1> HIDE DEF l
<1>3. l.pc # "idle" => PassOK(l)
  BY <1>2, MoveOK
<1> QED
  BY <1>2, <1>3 DEF l

\* Raising hands the pass to the failure handler.
LEMMA RaiseSound ==
  ASSUME Inv, NEW e \in Executor, ex[e].pc # "idle", NEW reason \in Reasons
  PROVE  /\ Raise(e, reason) \in Passes /\ Raise(e, reason).pc = "failed"
         /\ PassOK(Raise(e, reason))
<1>1. ex[e] \in Passes
  BY OfPass
<1> DEFINE l == Raise(e, reason)
<1>2. /\ l \in Passes /\ l.pc = "failed" /\ l.run = ex[e].run /\ l.view = ex[e].view
      /\ l.fresh = ex[e].fresh
  BY <1>1 DEF Raise, Passes, PassSteps
<1>p. "failed" \notin Special /\ \A q : Placed("failed", q)
  BY DEF Special, Placed, CkSteps, LiveSteps, CleanupSteps
<1> HIDE DEF l
<1>3. PassOK(l)
  BY <1>2, <1>p, MoveOK
<1> QED
  BY <1>2, <1>3 DEF l

\* The step that ends in a Raise.
LEMMA RaiseStep ==
  ASSUME Inv, NEW e \in Executor, ex[e].pc # "idle", NEW reason \in Reasons,
         Local(e, Raise(e, reason))
  PROVE  Inv'
<1> DEFINE l == Raise(e, reason)
<1>1. l \in Passes /\ l.pc = "failed" /\ PassOK(l) /\ Local(e, l)
  BY RaiseSound
<1> HIDE DEF l
<1> QED
  BY <1>1, LocalSound

\* A refusal of current() has one of the two reasons.
LEMMA RefusalReason ==
  ASSUME NEW e, NEW p
  PROVE  Refusal(e, p) \in Reasons
BY DEF Refusal, Reasons

\* A bare current(): the pass goes on when it may, or raises.
LEMMA GuardedSound ==
  ASSUME Inv, NEW e \in Executor, ex[e].pc # "idle", NEW p, NEW n, NEW l,
         Guarded(e, p, n, l),
         Current(e, p, n) => l \in Passes /\ l.pc \notin {"install", "wipe"} /\ (l.pc # "idle" => PassOK(l))
  PROVE  Inv'
<1>1. CASE Current(e, p, n)
  <2>1. Local(e, l)
    BY <1>1 DEF Guarded
  <2> QED
    BY <1>1, <2>1, LocalSound
<1>2. CASE ~Current(e, p, n)
  <2>1. Local(e, Raise(e, Refusal(e, n)))
    BY <1>2 DEF Guarded
  <2>2. PICK reason \in Reasons : reason = Refusal(e, n)
    BY RefusalReason
  <2> QED
    BY <2>1, <2>2, RaiseStep
<1> QED
  BY <1>1, <1>2

-----------------------------------------------------------------------------
(* Entering and leaving a checkpoint.                                      *)

\* What a pass in a checkpoint needs.
LEMMA CkOK ==
  ASSUME Inv, NEW e \in Executor, ex[e].pc # "idle", NEW l \in Passes, l.run = ex[e].run,
         \/ l.view = ex[e].view
         \/ l.view = run[l.run] /\ run[l.run].phase = ex[e].view.phase,
         l.fresh = ex[e].fresh \/ ~l.fresh \/ run[l.run].phase = ex[e].view.phase,
         l.pc \in CkSteps, l.view.phase \in ACTIVE, PatchOK(l)
  PROVE  PassOK(l)
<1>1. l.run \in Run /\ Tracks(l)
  BY TracksKept
<1>2. EraserOK(l) /\ EnrollOK(l) /\ l.pc # "idle"
  BY DEF EraserOK, EnrollOK, CkSteps
<1>3. Placed(l.pc, l.view.phase)
  BY DEF Placed, CkSteps, LiveSteps, CleanupSteps
<1> QED
  BY <1>1, <1>2, <1>3 DEF PassOK

\* checkpoint() changes the step, the patch and the two ways out.
LEMMA CheckpointFields ==
  ASSUME Inv, NEW e \in Executor, ex[e].pc # "idle", NEW p \in Patches,
         NEW done \in PassSteps, NEW failed \in PassSteps
  PROVE  LET l == Checkpointing(e, p, done, failed)
         IN /\ l \in Passes /\ l.pc = "ckRead" /\ l.run = ex[e].run /\ l.view = ex[e].view
            /\ l.fresh = ex[e].fresh /\ l.facts = ex[e].facts /\ l.patch = p
            /\ l.done = done /\ l.failed = failed
<1>1. ex[e] \in Passes
  BY OfPass
<1> DEFINE l == Checkpointing(e, p, done, failed)
<1>s. "ckRead" \in PassSteps
  BY DEF PassSteps
<1>2. l \in Passes
  BY <1>1, <1>s DEF Checkpointing, Passes
<1>3. /\ l.pc = "ckRead" /\ l.run = ex[e].run /\ l.view = ex[e].view /\ l.fresh = ex[e].fresh
      /\ l.facts = ex[e].facts /\ l.patch = p /\ l.done = done /\ l.failed = failed
  BY <1>1 DEF Checkpointing, Passes
<1> QED
  BY <1>2, <1>3

\* A pass enters a checkpoint whose patch is in order.
LEMMA CheckpointSound ==
  ASSUME Inv, NEW e \in Executor, ex[e].pc # "idle", NEW p \in Patches,
         NEW done \in PassSteps, NEW failed \in PassSteps, ex[e].view.phase \in ACTIVE,
         PatchOK(Checkpointing(e, p, done, failed))
  PROVE  LET l == Checkpointing(e, p, done, failed)
         IN l \in Passes /\ l.pc \notin {"install", "wipe"} /\ (l.pc # "idle" => PassOK(l))
<1> DEFINE l == Checkpointing(e, p, done, failed)
<1>1. /\ l \in Passes /\ l.pc = "ckRead" /\ l.run = ex[e].run /\ l.view = ex[e].view
      /\ l.fresh = ex[e].fresh /\ PatchOK(l)
  BY CheckpointFields
<1> HIDE DEF l
<1>2. PassOK(l) /\ l.pc \notin {"install", "wipe"}
  BY <1>1, CkOK DEF CkSteps
<1> QED
  BY <1>1, <1>2 DEF l

\* The Blocked checkpoint of the failure handler.
LEMMA BlockSound ==
  ASSUME Inv, NEW e \in Executor, ex[e].pc # "idle", NEW keep \in BOOLEAN,
         ex[e].view.phase \in Sources \/ (ex[e].view.phase = "Installing" /\ keep)
  PROVE  /\ Block(e, keep) \in Passes /\ Block(e, keep).pc \notin {"install", "wipe"}
         /\ Block(e, keep).pc # "idle" => PassOK(Block(e, keep))
<1>1. ex[e].view.netbootArmed \in BOOLEAN
  BY OfPass DEF Runs
<1>2. PICK b \in BOOLEAN : b = (keep /\ ex[e].view.netbootArmed)
  BY <1>1
<1> DEFINE p == [phase |-> "Blocked", maintenance |-> keep, netbootArmed |-> b]
           l == Checkpointing(e, p, "release", "idle")
<1>3. /\ p \in Patches /\ DOMAIN p = {"phase", "maintenance", "netbootArmed"}
      /\ p.phase = "Blocked" /\ p.maintenance = keep
  BY DEF Patches, Phases
<1>4. Block(e, keep) = l
  BY <1>2 DEF Block
<1> HIDE DEF p
<1>5. /\ l.run = ex[e].run /\ l.view = ex[e].view /\ l.patch = p /\ l.done = "release"
      /\ l.failed = "idle"
  BY <1>3, CheckpointFields DEF PassSteps
<1> HIDE DEF l
<1>6. Placed(l.done, l.patch.phase) /\ Placed(l.failed, l.view.phase)
  BY <1>5 DEF Placed, CkSteps, LiveSteps, CleanupSteps
<1>7. PatchOK(l)
  BY <1>3, <1>5, <1>6 DEF PatchOK, Has, Becoming, Successors, Sources
<1>8. ex[e].view.phase \in ACTIVE
  BY DEF Sources, ACTIVE
<1>9. l \in Passes /\ l.pc \notin {"install", "wipe"} /\ (l.pc # "idle" => PassOK(l))
  BY <1>3, <1>7, <1>8, CheckpointSound DEF PassSteps, l
<1> QED
  BY <1>4, <1>9

\* A checkpoint that fails leaves the pass at one of three steps.
LEMMA LeaveFailedSound ==
  ASSUME Inv, NEW e \in Executor, ex[e].pc \in CkSteps
  PROVE  /\ LeaveFailed(e) \in Passes /\ LeaveFailed(e).pc \notin {"install", "wipe"}
         /\ LeaveFailed(e).pc # "idle" => PassOK(LeaveFailed(e))
<1>1. ex[e] \in Passes /\ PatchOK(ex[e]) /\ ex[e].pc # "idle"
  BY OfPass DEF CkSteps
<1>2. ex[e].failed \in {"failed", "idle", "awaitLive"} /\ Placed(ex[e].failed, ex[e].view.phase)
  BY <1>1 DEF PatchOK
<1> DEFINE l == LeaveFailed(e)
<1>3. NoPatch \in Patches
  BY DEF NoPatch, Patches, Phases
<1>4. /\ l \in Passes /\ l.pc = ex[e].failed /\ l.run = ex[e].run /\ l.view = ex[e].view
      /\ l.fresh = ex[e].fresh
  BY <1>1, <1>3 DEF LeaveFailed, Passes, PassSteps, Reasons
<1> HIDE DEF l
<1>5. l.pc \notin Special /\ l.pc \notin {"install", "wipe"}
  BY <1>2, <1>4 DEF Special, CkSteps
<1>6. l.pc # "idle" => PassOK(l)
  BY <1>1, <1>2, <1>4, <1>5, MoveOK
<1> QED
  BY <1>4, <1>5, <1>6 DEF l

\* checkpoint()'s reread makes the revision fresh, or the checkpoint fails.
LEMMA CkReadSound ==
  ASSUME Inv, NEW e \in Executor, CkRead(e)
  PROVE  Inv'
<1>1. ex[e].pc = "ckRead" /\ ex[e].pc \in CkSteps /\ ex[e].pc # "idle"
  BY DEF CkRead, At, CkSteps
<1>2. CASE Current(e, TRUE, TRUE)
  <2> DEFINE l == [ex[e] EXCEPT !.pc = "ckPatch", !.fresh = TRUE]
  <2>1. Local(e, l)
    BY <1>2 DEF CkRead
  <2>2. ex[e] \in Passes /\ PatchOK(ex[e]) /\ Placed("ckRead", ex[e].view.phase)
    BY <1>1, OfPass
  <2>3. /\ l \in Passes /\ l.pc = "ckPatch" /\ l.run = ex[e].run /\ l.view = ex[e].view
        /\ l.fresh = TRUE /\ l.patch = ex[e].patch /\ l.done = ex[e].done
        /\ l.failed = ex[e].failed /\ l.facts = ex[e].facts
    BY <2>2 DEF Passes, PassSteps
  <2> HIDE DEF l
  <2>4. run[l.run].phase = ex[e].view.phase
    BY <1>2, <2>3 DEF Current, Unchanged
  <2>5. PatchOK(l)
    BY <2>2, <2>3 DEF PatchOK, MayEnroll, Becoming
  <2>6. l.view.phase \in ACTIVE
    BY <2>2, <2>3 DEF Placed, CkSteps
  <2>7. PassOK(l) /\ l.pc \notin {"install", "wipe"}
    BY <1>1, <2>3, <2>4, <2>5, <2>6, CkOK DEF CkSteps
  <2> QED
    BY <2>1, <2>3, <2>7, LocalSound
<1>3. CASE ~Current(e, TRUE, TRUE)
  <2>1. Local(e, LeaveFailed(e))
    BY <1>3 DEF CkRead
  <2> QED
    BY <1>1, <2>1, LeaveFailedSound, LocalSound
<1> QED
  BY <1>2, <1>3

-----------------------------------------------------------------------------
(* Status writes to the stored run.                                        *)

\* A write that keeps the run in order, and with it every other pass over the run.
WriteOK(r, w) ==
  /\ run[r].phase \in ACTIVE \cup {"Pending"}
  /\ w.phase # run[r].phase => w.phase \in Successors(run[r].phase)
  /\ run[r].phase # "Pending" => w.sourceBootID = run[r].sourceBootID
  /\ w.phase \in ACTIVE => w.maintenance
  /\ w.phase = "Installing" => ~w.netbootArmed
  /\ erasures[r] > 0 => w.maintenance \/ w.phase = "Succeeded"
  /\ w.phase \in {"AwaitingInstalled", "Verifying", "Succeeded"} => Installed(r)
  /\ run[r].phase = "AwaitingLive" /\ w.phase = "AwaitingLive" /\ ~run[r].netbootArmed =>
       ~w.netbootArmed
  /\ run[r].phase = "Installing" =>
       /\ w.maintenance /\ w.liveBootID = run[r].liveBootID
       /\ w.phase = "AwaitingInstalled" => erasures[r] > 0

\* What the write means for a pass that did not make it.
LEMMA OthersKept ==
  ASSUME Typed, NEW r \in Run, NEW w \in Runs, WriteOK(r, w),
         run' = [run EXCEPT ![r] = w], UNCHANGED <<activeRun, node, erasures>>,
         NEW k \in Passes, PassOK(k), NEW m \in Passes,
         m.pc = k.pc /\ m.run = k.run /\ m.view = k.view /\ m.facts = k.facts
         /\ m.patch = k.patch /\ m.done = k.done /\ m.failed = k.failed,
         (k.run # r /\ m.fresh = k.fresh) \/ (k.run = r /\ ~m.fresh)
  PROVE  PassOK(m)'
<1>1. CASE m.pc = "idle"
  BY <1>1 DEF PassOK
<1>2. CASE m.pc # "idle"
  <2>1. /\ m.run \in Run /\ Placed(k.pc, k.view.phase) /\ Tracks(k)
        /\ (k.pc \in CkSteps => PatchOK(k)) /\ EraserOK(k) /\ EnrollOK(k)
        /\ run \in [Run -> Runs]
    BY <1>2 DEF PassOK, Typed
  <2>2. CASE k.run # r
    <3>1. run'[m.run] = run[m.run] /\ m.fresh = k.fresh
      BY <2>1, <2>2
    <3>2. Tracks(m)' /\ EraserOK(m)' /\ EnrollOK(m)'
      BY <2>1, <3>1 DEF Tracks, EraserOK, EnrollOK, MayEnroll, Disarmed
    <3>3. ASSUME m.pc \in CkSteps PROVE PatchOK(m)'
      <4>1. PatchOK(k)
        BY <2>1, <3>3
      <4> QED
        BY <3>1, <4>1 DEF PatchOK, MayEnroll, Disarmed, Becoming, Installed
    <3> QED
      BY <1>2, <2>1, <3>2, <3>3 DEF PassOK
  <2>3. CASE k.run = r
    <3>1. run'[r] = w /\ m.run = r /\ ~m.fresh
      BY <2>1, <2>3
    <3>2. Tracks(m)'
      BY <2>1, <3>1 DEF Tracks, WriteOK, Successors, Early, ACTIVE
    <3>3. Disarmed(r) /\ run[r].phase \notin Early \cup {"PreparingBoot"} => Disarmed(r)'
      BY <3>1 DEF Disarmed, WriteOK, Successors, Early, ACTIVE
    <3>4. EraserOK(m)'
      <4>1. CASE m.pc \in {"install", "wipe"}
        <5>1. /\ run[r].phase \in {"Installing", "Blocked"} /\ run[r].liveBootID = m.view.liveBootID
              /\ erasures[r] = 0
          BY <2>1, <3>1, <4>1 DEF EraserOK
        <5>2. w.phase \in {"Installing", "Blocked"} /\ w.maintenance /\ w.liveBootID = m.view.liveBootID
          BY <5>1 DEF WriteOK, Successors, ACTIVE
        <5> QED
          BY <3>1, <4>1, <5>1, <5>2 DEF EraserOK
      <4>2. CASE m.pc \notin {"install", "wipe"}
        BY <2>1, <3>1, <4>2 DEF EraserOK
      <4> QED
        BY <4>1, <4>2
    <3>5. k.view.phase \notin Early => (MayEnroll(k) => MayEnroll(m)')
      BY <2>1, <3>1 DEF MayEnroll, WriteOK, Tracks, Early
    <3>6. EnrollOK(m)'
      <4>1. m.pc \in {"enroll", "enrollPlay", "installCheck"} => k.view.phase = "AwaitingLive"
        BY <2>1 DEF Placed, LiveSteps
      <4>2. k.view.phase = "AwaitingLive" => run[r].phase \notin Early \cup {"PreparingBoot"}
        BY <2>1, <3>1 DEF Tracks, Early
      <4>3. k.view.phase = "AwaitingLive" => k.view.phase \notin Early
        BY DEF Early
      <4> QED
        BY <2>1, <3>1, <3>3, <3>5, <4>1, <4>2, <4>3 DEF EnrollOK
    <3>7. ASSUME m.pc \in CkSteps PROVE PatchOK(m)'
      <4>1. PatchOK(k) /\ k.view.phase \in ACTIVE
        BY <2>1, <3>7 DEF Placed
      <4>2. k.view.phase \notin Early
        BY <4>1 DEF ACTIVE, Early
      <4>3. Becoming(k, "Installing") => k.view.phase = "AwaitingLive"
        BY <4>1 DEF PatchOK, Becoming, Successors, ACTIVE
      <4>4. Becoming(k, "Installing") => Disarmed(r)'
        <5>1. k.view.phase = "AwaitingLive" => run[r].phase \notin Early \cup {"PreparingBoot"}
          BY <2>1, <3>1 DEF Tracks, Early
        <5> QED
          BY <3>1, <3>3, <4>1, <4>3, <5>1 DEF PatchOK
      <4>5. k.done = "enroll" => MayEnroll(m)'
        BY <3>5, <4>1, <4>2 DEF PatchOK
      <4> QED
        BY <3>1, <4>1, <4>4, <4>5 DEF PatchOK, Becoming, Installed
    <3> QED
      BY <1>2, <2>1, <3>2, <3>4, <3>6, <3>7 DEF PassOK
  <2> QED
    BY <2>2, <2>3
<1> QED
  BY <1>1, <1>2

\* What it means for the run itself.
LEMMA WrittenRun ==
  ASSUME Inv, NEW r \in Run, NEW w \in Runs, WriteOK(r, w),
         run' = [run EXCEPT ![r] = w], UNCHANGED <<activeRun, lastRun, node, erasures>>
  PROVE  /\ \A s \in Run : RunOK(s)'
         /\ ErasedOK' /\ DiskIsAccounted'
<1>1. RunOK(r) /\ run'[r] = w /\ activeRun = r /\ lastRun # r /\ NoRun # r /\ erasures[r] \in Nat
  <2>1. RunOK(r) /\ run \in [Run -> Runs] /\ erasures[r] \in Nat
    BY DEF Inv, Typed
  <2> QED
    BY <2>1, ConstantsAssumption DEF RunOK, WriteOK, ACTIVE
<1>2. RunOK(r)'
  BY <1>1 DEF RunOK, WriteOK, Successors, Early, Sources, ACTIVE, Installed
<1>3. ASSUME NEW s \in Run, s # r PROVE RunOK(s)'
  <2>1. RunOK(s) /\ run'[s] = run[s]
    BY <1>3 DEF Inv, Typed
  <2> QED
    BY <2>1 DEF RunOK, Installed
<1>4. node.marker = r => w.maintenance \/ (w.phase = "Succeeded" /\ node.disk = "installed")
  BY <1>1 DEF RunOK, WriteOK, Installed
<1>5. node.marker \in Run \cup {NoRun}
  BY DEF Inv, Typed, Nodes
<1>6. ErasedOK'
  BY <1>1, <1>4, <1>5 DEF Inv, ErasedOK
<1>7. DiskIsAccounted'
  BY <1>1, <1>4, <1>5 DEF Inv, DiskIsAccounted
<1> QED
  BY <1>2, <1>3, <1>6, <1>7

\* A write that the invariant allows, by a pass that goes on as l.
LEMMA StoreSound ==
  ASSUME Inv, NEW e \in Executor, ex[e].pc # "idle", NEW p, NEW l \in Passes,
         NEW w \in Runs, w = Merge(run[ex[e].run], p), WriteOK(ex[e].run, w),
         Store(e, p, l), faults' \in Nat,
         l.pc # "idle" => PassOK(l)',
         l.pc \in {"install", "wipe"} => l.run = ex[e].run /\ run[ex[e].run].phase \notin {"Installing", "Blocked"}
  PROVE  Inv'
<1>1. PICK r \in Run : r = ex[e].run
  BY OfPass
<1>2. /\ run' = [run EXCEPT ![r] = w] /\ UNCHANGED <<serverVars, operatorVars, node, erasures>>
      /\ ex' = [x \in Executor |->
                  IF x = e THEN IF l.pc = "idle" THEN Idle ELSE l
                  ELSE IF ex[x].run = r THEN [ex[x] EXCEPT !.fresh = FALSE]
                  ELSE ex[x]]
  BY <1>1 DEF Store
<1>3. UNCHANGED <<activeRun, lastRun, paused, spec, network, node, erasures>>
  BY <1>2 DEF serverVars, operatorVars
<1>4. Typed /\ ex \in [Executor -> Passes] /\ run \in [Run -> Runs]
  BY DEF Inv, Typed
<1>5. ASSUME NEW f \in Executor, f # e
      PROVE  \E m \in Passes : /\ ex'[f] = m /\ m.pc = ex[f].pc /\ m.run = ex[f].run
                               /\ m.view = ex[f].view /\ m.facts = ex[f].facts
                               /\ m.patch = ex[f].patch /\ m.done = ex[f].done
                               /\ m.failed = ex[f].failed
                               /\ (ex[f].run # r /\ m.fresh = ex[f].fresh)
                                  \/ (ex[f].run = r /\ ~m.fresh)
  <2>1. ex[f] \in Passes
    BY <1>4
  <2>2. CASE ex[f].run = r
    <3> DEFINE m == [ex[f] EXCEPT !.fresh = FALSE]
    <3>1. ex'[f] = m
      BY <1>2, <1>5, <2>2
    <3>2. /\ m \in Passes /\ m.pc = ex[f].pc /\ m.run = ex[f].run
          /\ m.view = ex[f].view /\ m.facts = ex[f].facts /\ m.patch = ex[f].patch
          /\ m.done = ex[f].done /\ m.failed = ex[f].failed /\ ~m.fresh
      BY <2>1 DEF Passes
    <3> HIDE DEF m
    <3> QED
      BY <2>2, <3>1, <3>2
  <2>3. CASE ex[f].run # r
    BY <1>2, <1>5, <2>1, <2>3
  <2> QED
    BY <2>2, <2>3
<1>6. ex'[e] = IF l.pc = "idle" THEN Idle ELSE l
  BY <1>2
<1>7. Typed'
  <2>1. \A f \in Executor : ex'[f] \in Passes
    BY <1>5, <1>6, IdleSound
  <2>2. ex' \in [Executor -> Passes]
    BY <1>2, <2>1
  <2>3. run' \in [Run -> Runs]
    BY <1>2, <1>4
  <2> QED
    BY <1>3, <1>4, <2>2, <2>3 DEF Typed
<1>8. ASSUME NEW f \in Executor PROVE PassOK(ex[f])'
  <2>1. CASE f = e
    <3>1. CASE l.pc = "idle"
      <4>1. ex'[e].pc = "idle" /\ ex'[e].run = NoRun
        BY <1>6, <3>1, IdleSound
      <4> QED
        BY <2>1, <4>1 DEF PassOK
    <3>2. CASE l.pc # "idle"
      BY <1>6, <2>1, <3>2
    <3> QED
      BY <3>1, <3>2
  <2>2. CASE f # e
    <3>1. PICK k \in Passes : k = ex[f] /\ PassOK(k)
      BY <1>4 DEF Inv
    <3>2. PICK m \in Passes :
            /\ ex'[f] = m /\ m.pc = k.pc /\ m.run = k.run /\ m.view = k.view
            /\ m.facts = k.facts /\ m.patch = k.patch /\ m.done = k.done /\ m.failed = k.failed
            /\ (k.run # r /\ m.fresh = k.fresh) \/ (k.run = r /\ ~m.fresh)
      BY <1>5, <2>2, <3>1
    <3>3. PassOK(m)'
      BY <1>1, <1>2, <1>3, <1>4, <3>1, <3>2, OthersKept
    <3> QED
      BY <3>2, <3>3
  <2> QED
    BY <2>1, <2>2
<1>9. OneEraser'
  <2>1. ASSUME NEW f \in Executor, f # e, ex'[f].pc \in {"install", "wipe"}
        PROVE  ex[f].pc \in {"install", "wipe"} /\ ex'[f].run = ex[f].run
    BY <1>5, <2>1
  <2>2. ASSUME NEW f \in Executor, f # e, ex'[f].pc \in {"install", "wipe"}, ex'[e].pc \in {"install", "wipe"}
        PROVE  ex'[f].run # ex'[e].run
    <3>1. ex[f].pc \in {"install", "wipe"} /\ ex'[f].run = ex[f].run
      BY <2>1, <2>2
    <3>2. l.pc \in {"install", "wipe"} /\ ex'[e] = l
      BY <1>6, <2>2, IdleSound
    <3>3. EraserOK(ex[f])
      BY <3>1, OfPass
    <3> QED
      BY <1>1, <3>1, <3>2, <3>3 DEF EraserOK
  <2> QED
    BY <2>1, <2>2 DEF Inv, OneEraser
<1>10. (\A s \in Run : RunOK(s)') /\ ErasedOK' /\ DiskIsAccounted'
  BY <1>1, <1>2, <1>3, WrittenRun
<1>11. KeyOK'
  BY <1>3 DEF Inv, KeyOK
<1> QED
  BY <1>7, <1>8, <1>9, <1>10, <1>11 DEF Inv

-----------------------------------------------------------------------------
(* The checkpoints and the claim.                                          *)

\* What a checkpoint at the latest revision writes.
LEMMA CheckpointWrites ==
  ASSUME Inv, NEW e \in Executor, ex[e].pc \in CkSteps, ex[e].fresh,
         NEW w, w = Merge(run[ex[e].run], ex[e].patch)
  PROVE  /\ w \in Runs /\ w.phase = ex[e].patch.phase /\ WriteOK(ex[e].run, w)
         /\ run[ex[e].run].phase = ex[e].view.phase
<1> DEFINE r == ex[e].run
           p == ex[e].patch
           q == run[r]
<1>1. /\ r \in Run /\ q \in Runs /\ p \in Patches /\ Placed(ex[e].pc, ex[e].view.phase)
      /\ Tracks(ex[e]) /\ RunOK(r) /\ PatchOK(ex[e])
  BY OfPass DEF CkSteps, Passes
<1>2. q.phase = ex[e].view.phase /\ q.phase \in ACTIVE
  BY <1>1 DEF Tracks, Placed
<1>3. /\ w \in Runs /\ w.phase = p.phase /\ w.sourceBootID = q.sourceBootID
      /\ w.maintenance = IF Has(p, "maintenance") THEN p.maintenance ELSE q.maintenance
      /\ w.netbootArmed = IF Has(p, "netbootArmed") THEN p.netbootArmed ELSE q.netbootArmed
      /\ w.liveBootID = IF Has(p, "liveBootID") THEN p.liveBootID ELSE q.liveBootID
  BY <1>1, PatchFields, MergeFields, MergeTyped
<1>4. activeRun = r /\ q.maintenance /\ erasures[r] \in Nat
  BY <1>1, <1>2 DEF RunOK, Inv, Typed
<1> HIDE DEF q, p, r
<1>5. w.phase # q.phase => w.phase \in Successors(q.phase)
  BY <1>1, <1>2, <1>3 DEF PatchOK, p
<1>6. w.maintenance \/ w.phase = "Succeeded" \/ (w.phase = "Blocked" /\ q.phase \in Sources)
  BY <1>1, <1>2, <1>3, <1>4 DEF PatchOK, p
<1>7. w.phase \in ACTIVE => w.maintenance
  BY <1>6 DEF ACTIVE
<1>8. erasures[r] > 0 => w.maintenance \/ w.phase = "Succeeded"
  BY <1>1, <1>4, <1>6 DEF RunOK, q
<1>9. w.phase = "Installing" => ~w.netbootArmed
  <2>1. CASE q.phase = "Installing" /\ w.phase = "Installing"
    BY <1>1, <1>2, <1>3, <2>1 DEF PatchOK, RunOK, p, q
  <2>2. CASE q.phase # "Installing" /\ w.phase = "Installing"
    <3>1. q.phase = "AwaitingLive"
      BY <1>2, <1>5, <2>2 DEF Successors, ACTIVE
    <3>2. Disarmed(r)
      BY <1>1, <1>2, <1>3, <2>2 DEF PatchOK, Becoming, r, p
    <3> QED
      BY <1>1, <1>2, <1>3, <2>2, <3>1, <3>2 DEF PatchOK, Disarmed, p, q
  <2> QED
    BY <2>1, <2>2
<1>10. w.phase \in {"AwaitingInstalled", "Verifying", "Succeeded"} => Installed(r)
  <2>1. CASE q.phase \in {"AwaitingInstalled", "Verifying"}
    BY <1>1, <2>1 DEF RunOK, q
  <2>2. CASE q.phase \notin {"AwaitingInstalled", "Verifying"}
    <3>1. w.phase \in {"AwaitingInstalled", "Verifying", "Succeeded"} => Becoming(ex[e], "AwaitingInstalled")
      BY <1>2, <1>3, <1>5, <2>2 DEF Becoming, Successors, ACTIVE, p
    <3> QED
      BY <1>1, <1>4, <3>1 DEF PatchOK, r
  <2> QED
    BY <2>1, <2>2
<1>11. q.phase = "AwaitingLive" /\ w.phase = "AwaitingLive" /\ ~q.netbootArmed => ~w.netbootArmed
  BY <1>1, <1>2, <1>3 DEF PatchOK, p
<1>12. q.phase = "Installing" =>
         /\ w.maintenance /\ w.liveBootID = q.liveBootID
         /\ w.phase = "AwaitingInstalled" => erasures[r] > 0
  <2>1. q.phase = "Installing" => w.maintenance
    BY <1>5, <1>6 DEF Successors, Sources
  <2>2. q.phase = "Installing" => w.liveBootID = q.liveBootID
    BY <1>1, <1>2, <1>3 DEF PatchOK, p
  <2>3. q.phase = "Installing" /\ w.phase = "AwaitingInstalled" => erasures[r] > 0
    BY <1>1, <1>2, <1>3 DEF PatchOK, Becoming, p, r
  <2> QED
    BY <2>1, <2>2, <2>3
<1>13. WriteOK(r, w)
  BY <1>2, <1>3, <1>5, <1>7, <1>8, <1>9, <1>10, <1>11, <1>12 DEF WriteOK, q
<1> QED
  BY <1>2, <1>3, <1>13 DEF r, q, p

\* A checkpoint that commits: the view is what was written, and the pass goes on at done.
LEMMA CkCommits ==
  ASSUME Inv, NEW e \in Executor, ex[e].pc \in CkSteps, ex[e].fresh,
         NEW w, w = Merge(run[ex[e].run], ex[e].patch), UNCHANGED faults,
         Store(e, ex[e].patch,
               [ex[e] EXCEPT !.pc = ex[e].done, !.view = w, !.patch = NoPatch,
                             !.done = "idle", !.failed = "idle"])
  PROVE  Inv'
<1>1. /\ ex[e] \in Passes /\ ex[e].run \in Run /\ RunOK(ex[e].run) /\ PatchOK(ex[e])
      /\ Tracks(ex[e]) /\ ex[e].pc # "idle" /\ ex[e].view.phase \in ACTIVE
  BY OfPass DEF CkSteps, Placed
<1>2. w \in Runs /\ w.phase = ex[e].patch.phase /\ WriteOK(ex[e].run, w)
      /\ run[ex[e].run].phase = ex[e].view.phase
  BY CheckpointWrites
<1>3. NoPatch \in Patches /\ "idle" \in PassSteps
  BY DEF NoPatch, Patches, Phases, PassSteps
<1>4. PICK l \in Passes : l = [ex[e] EXCEPT !.pc = ex[e].done, !.view = w, !.patch = NoPatch,
                                            !.done = "idle", !.failed = "idle"]
  BY <1>1, <1>2, <1>3 DEF Passes
<1>5. PICK k \in Passes : k = ex[e]
  BY <1>1
<1>6. /\ l.pc = k.done /\ l.run = k.run /\ l.view = w /\ l.fresh = k.fresh
      /\ l.facts = k.facts
  BY <1>4, <1>5 DEF Passes
<1>7. /\ run' = [run EXCEPT ![k.run] = w] /\ run'[k.run] = w
      /\ UNCHANGED <<activeRun, node, erasures>>
  BY <1>1, <1>5 DEF Store, serverVars, Inv, Typed
<1>8. Placed(l.pc, l.view.phase) /\ l.pc \notin CkSteps
  BY <1>1, <1>2, <1>5, <1>6 DEF PatchOK, CkSteps
<1>9. Tracks(l)'
  BY <1>2, <1>5, <1>6, <1>7, <1>1 DEF Tracks, WriteOK, Successors, Early, ACTIVE
<1>10. l.pc \in {"install", "wipe"} => run[k.run].phase = "AwaitingLive"
  <2>1. l.pc \in {"install", "wipe"} => w.phase = "Installing"
    BY <1>6, <1>8 DEF Placed
  <2>2. l.pc \in {"install", "wipe"} => k.view.phase # "Installing"
    BY <1>1, <1>5, <1>6 DEF PatchOK
  <2> QED
    BY <1>1, <1>2, <1>5, <2>1, <2>2 DEF WriteOK, Successors, ACTIVE
<1>11. EraserOK(l)'
  <2>1. CASE l.pc \in {"install", "wipe"}
    <3>1. w.phase = "Installing" /\ w.maintenance
      BY <1>2, <1>6, <1>8, <2>1 DEF Placed, WriteOK, ACTIVE
    <3>2. erasures[k.run] = 0
      BY <1>1, <1>5, <1>10, <2>1 DEF RunOK, Sources
    <3> QED
      BY <1>6, <1>7, <2>1, <3>1, <3>2 DEF EraserOK
  <2>2. CASE l.pc \notin {"install", "wipe"}
    BY <1>1, <1>5, <1>6, <2>2 DEF EraserOK, PatchOK
  <2> QED
    BY <2>1, <2>2
<1>12. EnrollOK(l)'
  <2>1. CASE l.pc = "enroll"
    <3>1. /\ MayEnroll(k) /\ Has(k.patch, "bootstrapPublicKey")
          /\ k.patch.bootstrapPublicKey = k.facts.key
      BY <1>1, <1>5, <1>6, <2>1 DEF PatchOK
    <3>2. w.bootstrapPublicKey = k.facts.key
      BY <1>1, <1>5, <3>1, MergeFields DEF Inv, Typed
    <3>3. w.sourceBootID = run[k.run].sourceBootID
      BY <1>1, <1>2, <1>5 DEF WriteOK, ACTIVE
    <3> QED
      BY <1>6, <1>7, <2>1, <3>1, <3>2, <3>3 DEF EnrollOK, MayEnroll
  <2>2. CASE l.pc = "installCheck"
    <3>1. Has(k.patch, "netbootArmed") /\ ~k.patch.netbootArmed
      BY <1>1, <1>5, <1>6, <2>2 DEF PatchOK
    <3>2. ~w.netbootArmed
      BY <1>1, <1>5, <3>1, MergeFields DEF Inv, Typed
    <3> QED
      BY <1>6, <1>7, <2>2, <3>2 DEF EnrollOK, Disarmed
  <2>3. CASE l.pc \notin {"enroll", "installCheck"}
    BY <1>1, <1>5, <1>6, <2>3 DEF EnrollOK, PatchOK
  <2> QED
    BY <2>1, <2>2, <2>3
<1>13. l.pc # "idle" => PassOK(l)'
  BY <1>1, <1>5, <1>6, <1>8, <1>9, <1>11, <1>12 DEF PassOK
<1>14. faults' \in Nat
  BY DEF Inv, Typed
<1>15. Store(e, ex[e].patch, l)
  BY <1>4
<1> QED
  BY <1>1, <1>2, <1>5, <1>6, <1>10, <1>13, <1>14, <1>15, StoreSound

\* A pass that keeps its view over its own write, whose answer it did not get.
LEMMA UnansweredSound ==
  ASSUME Inv, NEW e \in Executor, ex[e].pc # "idle", NEW p,
         NEW w \in Runs, w = Merge(run[ex[e].run], p), WriteOK(ex[e].run, w),
         NEW k \in Passes, k.run = ex[e].run, k.pc # "idle" => PassOK(k), k.pc \notin {"install", "wipe"},
         Store(e, p, [k EXCEPT !.fresh = FALSE]), faults' \in Nat
  PROVE  Inv'
<1>1. PICK l \in Passes : l = [k EXCEPT !.fresh = FALSE]
  BY DEF Passes
<1>2. /\ l.pc = k.pc /\ l.run = k.run /\ l.view = k.view /\ l.facts = k.facts
      /\ l.patch = k.patch /\ l.done = k.done /\ l.failed = k.failed /\ ~l.fresh
  BY <1>1 DEF Passes
<1>3. PICK r \in Run : r = ex[e].run
  BY OfPass
<1>4. run' = [run EXCEPT ![r] = w] /\ UNCHANGED <<activeRun, node, erasures>> /\ Typed
  BY <1>3 DEF Store, serverVars, Inv
<1>5. l.pc # "idle" => PassOK(l)'
  BY <1>2, <1>3, <1>4, OthersKept
<1>6. Store(e, p, l)
  BY <1>1
<1> QED
  BY <1>2, <1>5, <1>6, StoreSound

\* The count of faults is a number.
LEMMA FaultTyped ==
  ASSUME Inv, NEW kind, Fault(kind)
  PROVE  faults' \in Nat
BY DEF Inv, Typed, Fault

\* The conditional write commits, conflicts, or commits without an answer.
LEMMA CkPatchSound ==
  ASSUME Inv, NEW e \in Executor, CkPatch(e) \/ CkPatchLost(e)
  PROVE  Inv'
<1>1. ex[e].pc = "ckPatch" /\ ex[e].pc \in CkSteps /\ ex[e].pc # "idle"
  BY DEF CkPatch, CkPatchLost, At, CkSteps
<1>2. PICK w : w = Merge(run[ex[e].run], ex[e].patch)
  OBVIOUS
<1>3. ASSUME ex[e].fresh, UNCHANGED faults,
             Store(e, ex[e].patch, [ex[e] EXCEPT !.pc = ex[e].done, !.view = w, !.patch = NoPatch,
                                                 !.done = "idle", !.failed = "idle"])
      PROVE  Inv'
  BY <1>1, <1>2, <1>3, CkCommits
<1>4. ASSUME Local(e, Goto(e, "ckRead")) PROVE Inv'
  <2> DEFINE l == Goto(e, "ckRead")
  <2>1. ex[e] \in Passes /\ PatchOK(ex[e]) /\ Placed("ckPatch", ex[e].view.phase)
    BY <1>1, OfPass
  <2>2. /\ l \in Passes /\ l.pc = "ckRead" /\ l.run = ex[e].run /\ l.view = ex[e].view
        /\ l.fresh = ex[e].fresh /\ l.patch = ex[e].patch /\ l.done = ex[e].done
        /\ l.failed = ex[e].failed /\ l.facts = ex[e].facts /\ Local(e, l)
    BY <1>4, <2>1 DEF Goto, Passes, PassSteps
  <2> HIDE DEF l
  <2>3. PatchOK(l)
    BY <2>1, <2>2 DEF PatchOK, MayEnroll, Becoming
  <2>4. l.view.phase \in ACTIVE
    BY <2>1, <2>2 DEF Placed, CkSteps
  <2>5. PassOK(l) /\ l.pc \notin {"install", "wipe"}
    BY <1>1, <2>2, <2>3, <2>4, CkOK DEF CkSteps
  <2> QED
    BY <2>2, <2>5, LocalSound
<1>5. ASSUME Local(e, LeaveFailed(e)) PROVE Inv'
  BY <1>1, <1>5, LeaveFailedSound, LocalSound
<1>6. CASE CkPatchLost(e)
  <2>1. /\ ex[e].fresh /\ faults' \in Nat
        /\ Store(e, ex[e].patch, [LeaveFailed(e) EXCEPT !.fresh = FALSE])
    BY <1>6, FaultTyped DEF CkPatchLost
  <2>2. PICK k \in Passes : k = LeaveFailed(e)
    BY <1>1, LeaveFailedSound
  <2>3. k.pc \notin {"install", "wipe"} /\ (k.pc # "idle" => PassOK(k))
    BY <1>1, <2>2, LeaveFailedSound
  <2>4. k.run = ex[e].run
    BY <1>1, <2>2, OfPass DEF LeaveFailed, Passes
  <2>5. w \in Runs /\ WriteOK(ex[e].run, w)
    BY <1>1, <1>2, <2>1, CheckpointWrites
  <2>6. Store(e, ex[e].patch, [k EXCEPT !.fresh = FALSE])
    BY <2>1, <2>2
  <2> QED
    BY <1>1, <1>2, <2>1, <2>2, <2>3, <2>4, <2>5, <2>6, UnansweredSound
<1>7. CASE CkPatch(e)
  <2>1. \/ /\ ex[e].fresh /\ UNCHANGED faults
           /\ Store(e, ex[e].patch, [ex[e] EXCEPT !.pc = ex[e].done, !.view = w, !.patch = NoPatch,
                                                  !.done = "idle", !.failed = "idle"])
        \/ Local(e, Goto(e, "ckRead")) \/ Local(e, LeaveFailed(e))
    BY <1>2, <1>7 DEF CkPatch
  <2> QED
    BY <1>3, <1>4, <1>5, <2>1
<1> QED
  BY <1>6, <1>7

\* The claim turns the Pending run of its view into one in PreparingBoot.
LEMMA ClaimWrites ==
  ASSUME Inv, NEW e \in Executor, ex[e].pc = "claim", ex[e].fresh,
         NEW w, w = Merge(run[ex[e].run], ClaimPatch(e))
  PROVE  w \in Runs /\ w.phase = "PreparingBoot" /\ WriteOK(ex[e].run, w)
<1> DEFINE r == ex[e].run
           q == run[r]
           p == ClaimPatch(e)
<1>1. r \in Run /\ q \in Runs /\ ex[e] \in Passes /\ Tracks(ex[e]) /\ RunOK(r)
      /\ Placed("claim", ex[e].view.phase)
  BY OfPass
<1>2. q.phase = "Pending" /\ erasures[r] = 0
  BY <1>1 DEF Tracks, Placed, RunOK, Early
<1>3. /\ DOMAIN p = Fields /\ p.phase = "PreparingBoot" /\ p.maintenance = TRUE
      /\ p.netbootArmed = FALSE /\ p.sourceBootID = ex[e].facts.bootID /\ p.liveBootID = NoBoot
      /\ p.bootstrapPublicKey = NoKey /\ p.snapshot = ex[e].inputs
  BY DEF ClaimPatch, Fields
<1>4. ex[e].facts.bootID \in 0 .. MaxBoots /\ ex[e].inputs \in {0, 1}
  BY <1>1 DEF Passes, Facts, Boots
<1> HIDE DEF p, q, r
<1>5. /\ w.phase = "PreparingBoot" /\ w.maintenance = TRUE /\ w.netbootArmed = FALSE
      /\ w.sourceBootID = ex[e].facts.bootID /\ w.liveBootID = NoBoot
      /\ w.bootstrapPublicKey = NoKey /\ w.snapshot = ex[e].inputs
  BY <1>1, <1>3, MergeFields DEF p, q, r, Has, Fields
<1>6. w = [f \in Fields |-> w[f]]
  BY <1>1 DEF Merge, Runs, Fields, p, q, r
<1>t. /\ w.phase \in Phases /\ w.maintenance \in BOOLEAN /\ w.netbootArmed \in BOOLEAN
      /\ w.sourceBootID \in 0 .. MaxBoots /\ w.liveBootID \in 0 .. MaxBoots
      /\ w.bootstrapPublicKey \in {NoKey} \cup 0 .. MaxBoots /\ w.snapshot \in {0, 1}
  <2>1. "PreparingBoot" \in Phases /\ NoBoot \in 0 .. MaxBoots
    BY ConstantsAssumption DEF Phases, ACTIVE, NoBoot
  <2>2. w.maintenance \in BOOLEAN /\ w.netbootArmed \in BOOLEAN
    BY <1>5
  <2>3. w.bootstrapPublicKey \in {NoKey} \cup 0 .. MaxBoots
    BY <1>5
  <2> QED
    BY <1>4, <1>5, <2>1, <2>2, <2>3
<1>7. w \in Runs
  BY <1>6, <1>t DEF Runs, Fields
<1>8. WriteOK(r, w)
  BY <1>2, <1>5 DEF WriteOK, Successors, ACTIVE, q
<1> QED
  BY <1>5, <1>7, <1>8 DEF r

\* The claim of prepare_attempt, with its conflict and its lost answer.
LEMMA ClaimSound ==
  ASSUME Inv, NEW e \in Executor, Claim(e) \/ ClaimLost(e)
  PROVE  Inv'
<1>1. ex[e].pc = "claim" /\ ex[e].pc # "idle"
  BY DEF Claim, ClaimLost, At
<1>2. PICK w : w = Merge(run[ex[e].run], ClaimPatch(e))
  OBVIOUS
<1>3. ex[e].fresh => w \in Runs /\ w.phase = "PreparingBoot" /\ WriteOK(ex[e].run, w)
  BY <1>1, <1>2, ClaimWrites
<1>r. "ProvisioningBlocked" \in Reasons
  BY DEF Reasons
<1>4. ASSUME ex[e].fresh, UNCHANGED faults,
             Store(e, ClaimPatch(e), [Goto(e, "resume") EXCEPT !.view = w])
      PROVE  Inv'
  <2>1. ex[e] \in Passes /\ ex[e].run \in Run
    BY <1>1, OfPass
  <2>2. PICK l \in Passes : l = [Goto(e, "resume") EXCEPT !.view = w]
    BY <1>3, <1>4, <2>1 DEF Goto, Passes, PassSteps
  <2>3. l.pc = "resume" /\ l.run = ex[e].run /\ l.view = w
    BY <2>1, <2>2 DEF Goto, Passes
  <2>4. PICK r \in Run : r = ex[e].run
    BY <2>1
  <2>5. run'[r] = w
    BY <1>2, <1>4, <2>4 DEF Store, Inv, Typed
  <2>6. Tracks(l)'
    BY <1>3, <1>4, <2>3, <2>4, <2>5 DEF Tracks, Early
  <2>7. Placed("resume", "PreparingBoot")
    BY DEF Placed, CkSteps, LiveSteps, CleanupSteps, ACTIVE
  <2>8. EraserOK(l)' /\ EnrollOK(l)' /\ l.pc \notin CkSteps
    BY <2>3 DEF EraserOK, EnrollOK, CkSteps
  <2>9. PassOK(l)'
    BY <1>3, <1>4, <2>3, <2>4, <2>6, <2>7, <2>8 DEF PassOK
  <2>10. faults' \in Nat /\ Store(e, ClaimPatch(e), l)
    BY <1>4, <2>2 DEF Inv, Typed
  <2> QED
    BY <1>1, <1>2, <1>3, <1>4, <2>3, <2>9, <2>10, StoreSound
<1>5. CASE ClaimLost(e)
  <2>1. /\ ex[e].fresh /\ faults' \in Nat
        /\ Store(e, ClaimPatch(e), [Raise(e, "ProvisioningBlocked") EXCEPT !.fresh = FALSE])
    BY <1>5, FaultTyped DEF ClaimLost
  <2>2. PICK k \in Passes : k = Raise(e, "ProvisioningBlocked")
    BY <1>1, <1>r, RaiseSound
  <2>3. k.pc = "failed" /\ PassOK(k)
    BY <1>1, <1>r, <2>2, RaiseSound
  <2>4. k.run = ex[e].run
    BY <1>1, <2>2, OfPass DEF Raise, Passes
  <2>5. Store(e, ClaimPatch(e), [k EXCEPT !.fresh = FALSE])
    BY <2>1, <2>2
  <2> QED
    BY <1>1, <1>2, <1>3, <2>1, <2>2, <2>3, <2>4, <2>5, UnansweredSound
<1>6. CASE Claim(e)
  <2>1. \/ /\ ex[e].fresh /\ UNCHANGED faults
           /\ Store(e, ClaimPatch(e), [Goto(e, "resume") EXCEPT !.view = w])
        \/ Local(e, Raise(e, "ProvisioningBlocked"))
    BY <1>2, <1>6 DEF Claim
  <2> QED
    BY <1>1, <1>4, <1>r, <2>1, RaiseStep
<1> QED
  BY <1>5, <1>6

\* A pass that just ends.
LEMMA IdleStep ==
  ASSUME Inv, NEW e \in Executor, Local(e, Idle)
  PROVE  Inv'
<1>1. PICK l \in Passes : l = Idle /\ l.pc = "idle"
  BY IdleSound
<1> QED
  BY <1>1, LocalSound

\* The message of a failed preflight leaves the phase.
LEMMA FailedPendingSound ==
  ASSUME Inv, NEW e \in Executor, FailedPending(e)
  PROVE  Inv'
<1>1. ex[e].pc = "failed" /\ ex[e].pc # "idle" /\ ex[e].view.phase = "Pending"
  BY DEF FailedPending, At
<1>2. CASE ex[e].fresh /\ Store(e, [phase |-> "Pending"], Idle) /\ UNCHANGED faults
  <2> DEFINE p == [phase |-> "Pending"]
             r == ex[e].run
             q == run[r]
  <2>1. p \in Patches /\ DOMAIN p = {"phase"} /\ p.phase = "Pending"
    BY DEF Patches, Phases
  <2>2. r \in Run /\ q \in Runs /\ Tracks(ex[e]) /\ RunOK(r)
    BY <1>1, OfPass
  <2>3. q.phase = "Pending" /\ erasures[r] = 0
    BY <1>1, <1>2, <2>2 DEF Tracks, RunOK, Early
  <2>4. Store(e, p, Idle)
    BY <1>2
  <2>5. PICK w \in Runs : w = Merge(q, p)
    BY <2>1, <2>2, MergeTyped
  <2> HIDE DEF p, q, r
  <2>6. w.phase = "Pending"
    BY <2>1, <2>2, <2>5, MergeFields DEF Has
  <2>7. WriteOK(r, w)
    BY <2>3, <2>6 DEF WriteOK, q, ACTIVE
  <2>8. PICK l \in Passes : l = Idle /\ l.pc = "idle"
    BY IdleSound
  <2>9. Store(e, p, l) /\ faults' \in Nat
    BY <1>2, <2>4, <2>8 DEF Inv, Typed
  <2> QED
    BY <1>1, <2>5, <2>7, <2>8, <2>9, StoreSound DEF q, r
<1>3. CASE ~ex[e].fresh /\ Local(e, Idle)
  BY <1>3, IdleStep
<1> QED
  BY <1>2, <1>3 DEF FailedPending

-----------------------------------------------------------------------------
(* The steps of a pass, one lemma for each group of actions.               *)

\* Each step is a step of a pass, at home in its phase.
LEMMA Places ==
  /\ \A s \in LiveSteps : s \in PassSteps /\ Placed(s, "AwaitingLive")
  /\ \A s \in {"boot", "refreshPrepare", "refreshCheck"} :
       s \in PassSteps /\ Placed(s, "PreparingBoot")
  /\ \A s \in {"finish", "finalCheck", "finalReboot", "awaitInstalled"} :
       s \in PassSteps /\ Placed(s, "AwaitingInstalled")
  /\ \A s \in {"verify", "postCheck", "post"} : s \in PassSteps /\ Placed(s, "Verifying")
  /\ \A s \in {"prepare", "claim"} : s \in PassSteps /\ Placed(s, "Pending")
  /\ \A s \in {"install", "wipe", "installing"} : s \in PassSteps /\ Placed(s, "Installing")
  /\ \A s \in {"idle", "failed", "release"} : s \in PassSteps /\ \A q : Placed(s, q)
  /\ \A s \in CleanupSteps : s \in PassSteps /\ \A q \in Sources : Placed(s, q)
  /\ "resume" \in PassSteps /\ \A q \in ACTIVE \ {"Installing"} : Placed("resume", q)
  /\ "ckRead" \in PassSteps /\ "ckPatch" \in PassSteps
BY DEF PassSteps, Placed, LiveSteps, CkSteps, CleanupSteps, ACTIVE

\* The reason of an ordinary failure.
LEMMA Blocked == "ProvisioningBlocked" \in Reasons
BY DEF Reasons

\* A step to an ordinary place.
LEMMA GotoStep ==
  ASSUME Inv, NEW e \in Executor, ex[e].pc # "idle", NEW pc \in PassSteps,
         pc \notin Special, Placed(pc, ex[e].view.phase), Local(e, Goto(e, pc))
  PROVE  Inv'
<1> DEFINE l == Goto(e, pc)
<1>1. l \in Passes /\ l.pc = pc /\ (l.pc # "idle" => PassOK(l)) /\ Local(e, l)
  BY GotoSound
<1> HIDE DEF l
<1> QED
  BY <1>1, LocalSound DEF Special

\* A reread before a step to an ordinary place.
LEMMA GuardedGoto ==
  ASSUME Inv, NEW e \in Executor, ex[e].pc # "idle", NEW pc \in PassSteps,
         pc \notin Special, Placed(pc, ex[e].view.phase), NEW p, NEW n,
         Guarded(e, p, n, Goto(e, pc))
  PROVE  Inv'
<1>1. PICK l \in Passes : l = Goto(e, pc)
  BY GotoSound
<1>2. l.pc = pc /\ (l.pc # "idle" => PassOK(l)) /\ Guarded(e, p, n, l)
  BY <1>1, GotoSound
<1> QED
  BY <1>2, GuardedSound DEF Special

\* The bare rereads between a checkpoint and the stage it is for.
LEMMA ChecksSound ==
  ASSUME Inv, NEW e \in Executor,
         \/ KexecCheck(e) \/ ArmCheck(e) \/ RebootCheck(e) \/ FinalCheck(e) \/ PostCheck(e)
  PROVE  Inv'
<1>1. CASE KexecCheck(e) \/ ArmCheck(e) \/ RebootCheck(e)
  <2>1. /\ ex[e].pc \in {"kexecCheck", "armCheck", "rebootCheck"} /\ ex[e].pc # "idle"
        /\ \E pc \in {"kexec", "arm", "reboot"} : Guarded(e, FALSE, FALSE, Goto(e, pc))
    BY <1>1 DEF KexecCheck, ArmCheck, RebootCheck, At
  <2>2. ex[e].view.phase = "AwaitingLive"
    BY <2>1, OfPass DEF Placed, LiveSteps
  <2>3. \A pc \in {"kexec", "arm", "reboot"} :
          pc \in PassSteps /\ pc \notin Special /\ Placed(pc, "AwaitingLive")
    BY Places DEF LiveSteps, Special, CkSteps
  <2> QED
    BY <2>1, <2>2, <2>3, GuardedGoto
<1>2. CASE FinalCheck(e)
  <2>1. ex[e].pc = "finalCheck" /\ ex[e].pc # "idle" /\ Guarded(e, TRUE, FALSE, Goto(e, "finalReboot"))
    BY <1>2 DEF FinalCheck, At
  <2>2. ex[e].view.phase = "AwaitingInstalled"
    BY <2>1, OfPass DEF Placed
  <2>3. "finalReboot" \in PassSteps /\ "finalReboot" \notin Special /\ Placed("finalReboot", "AwaitingInstalled")
    BY Places DEF Special, CkSteps
  <2> QED
    BY <2>1, <2>2, <2>3, GuardedGoto
<1>3. CASE PostCheck(e)
  <2>1. ex[e].pc = "postCheck" /\ ex[e].pc # "idle" /\ Guarded(e, FALSE, FALSE, Goto(e, "post"))
    BY <1>3 DEF PostCheck, At
  <2>2. ex[e].view.phase = "Verifying"
    BY <2>1, OfPass DEF Placed
  <2>3. "post" \in PassSteps /\ "post" \notin Special /\ Placed("post", "Verifying")
    BY Places DEF Special, CkSteps
  <2> QED
    BY <2>1, <2>2, <2>3, GuardedGoto
<1> QED
  BY <1>1, <1>2, <1>3

\* A step that acts on the node and leaves its disk alone.
LEMMA OnNodeSound ==
  ASSUME Inv, NEW e \in Executor, NEW machine, NEW l \in Passes, OnNode(e, machine, l),
         l.pc # "idle" => PassOK(l), l.pc \notin {"install", "wipe"},
         machine \in Nodes, machine.disk = node.disk, machine.marker = node.marker,
         machine.bootID = node.bootID, machine.live = node.live,
         machine.key \in {node.key, ManagedKey}
  PROVE  Inv'
<1>1. /\ Becomes(e, l) /\ node' = machine
      /\ UNCHANGED <<run, serverVars, operatorVars, erasures>> /\ UNCHANGED faults
  BY DEF OnNode
<1>2. KeyOK' /\ faults' \in Nat
  BY <1>1 DEF Inv, Typed, KeyOK
<1> QED
  BY <1>1, <1>2, StepSound

\* A stage play acts on the node and goes on, or raises.
LEMMA StageSound ==
  ASSUME Inv, NEW e \in Executor, ex[e].pc # "idle", NEW asserts, NEW machine, NEW pc \in PassSteps,
         pc \notin Special, Placed(pc, ex[e].view.phase),
         Stage(e, asserts, machine, Goto(e, pc)),
         machine \in Nodes, machine.disk = node.disk, machine.marker = node.marker,
         machine.bootID = node.bootID, machine.live = node.live, machine.key = node.key
  PROVE  Inv'
<1>1. PICK l \in Passes : l = Goto(e, pc)
  BY GotoSound
<1>2. l.pc = pc /\ (l.pc # "idle" => PassOK(l)) /\ l.pc \notin {"install", "wipe"}
  BY <1>1, GotoSound DEF Special
<1>3. CASE OnNode(e, machine, l)
  BY <1>2, <1>3, OnNodeSound
<1>4. CASE Local(e, Raise(e, "ProvisioningBlocked"))
  BY <1>4, Blocked, RaiseStep
<1> QED
  BY <1>1, <1>3, <1>4 DEF Stage

\* The boot stages: load, kexec, arm, reboot.
LEMMA StagesSound ==
  ASSUME Inv, NEW e \in Executor,
         RefreshPrepare(e) \/ Kexec(e) \/ Arm(e) \/ Reboot(e) \/ FinalReboot(e)
  PROVE  Inv'
<1>n. node \in Nodes
  BY DEF Inv, Typed
<1>1. CASE RefreshPrepare(e)
  <2> DEFINE m == [node EXCEPT !.kexec = TRUE]
  <2>1. ex[e].pc = "refreshPrepare" /\ ex[e].pc # "idle"
        /\ Stage(e, node.live /\ node.bootID = ex[e].view.sourceBootID, m, Goto(e, "refreshCheck"))
    BY <1>1 DEF RefreshPrepare, At
  <2>2. /\ m \in Nodes /\ m.disk = node.disk /\ m.marker = node.marker
        /\ m.bootID = node.bootID /\ m.live = node.live /\ m.key = node.key
    BY <1>n DEF Nodes
  <2>3. ex[e].view.phase = "PreparingBoot"
    BY <2>1, OfPass DEF Placed
  <2>4. "refreshCheck" \in PassSteps /\ "refreshCheck" \notin Special /\ Placed("refreshCheck", "PreparingBoot")
    BY Places DEF Special, CkSteps
  <2> HIDE DEF m
  <2> QED
    BY <2>1, <2>2, <2>3, <2>4, StageSound
<1>l. LiveEntry(ex[e].view) \in {"liveRecheck", "awaitLive"}
  BY DEF LiveEntry
<1>s. \A pc \in {"liveRecheck", "awaitLive", "rebootCheck"} :
        pc \in PassSteps /\ pc \notin Special /\ Placed(pc, "AwaitingLive")
  BY Places DEF LiveSteps, Special, CkSteps
<1>2. CASE Kexec(e)
  <2> DEFINE m == [node EXCEPT !.going = "kexec"]
             pc == LiveEntry(ex[e].view)
  <2>1. ex[e].pc = "kexec" /\ ex[e].pc # "idle" /\ Stage(e, node.kexec, m, Goto(e, pc))
    BY <1>2 DEF Kexec, At
  <2>2. /\ m \in Nodes /\ m.disk = node.disk /\ m.marker = node.marker
        /\ m.bootID = node.bootID /\ m.live = node.live /\ m.key = node.key
    BY <1>n DEF Nodes
  <2>3. ex[e].view.phase = "AwaitingLive"
    BY <2>1, OfPass DEF Placed, LiveSteps
  <2> HIDE DEF m, pc
  <2>4. pc \in PassSteps /\ pc \notin Special /\ Placed(pc, "AwaitingLive")
    BY <1>l, <1>s DEF pc
  <2> QED
    BY <2>1, <2>2, <2>3, <2>4, StageSound
<1>3. CASE Arm(e)
  <2> DEFINE m == [node EXCEPT !.nextEntry = TRUE]
  <2>1. ex[e].pc = "arm" /\ ex[e].pc # "idle" /\ Stage(e, ~node.live, m, Goto(e, "rebootCheck"))
    BY <1>3 DEF Arm, At
  <2>2. /\ m \in Nodes /\ m.disk = node.disk /\ m.marker = node.marker
        /\ m.bootID = node.bootID /\ m.live = node.live /\ m.key = node.key
    BY <1>n DEF Nodes
  <2>3. ex[e].view.phase = "AwaitingLive"
    BY <2>1, OfPass DEF Placed, LiveSteps
  <2> HIDE DEF m
  <2> QED
    BY <1>s, <2>1, <2>2, <2>3, StageSound
<1>4. CASE Reboot(e)
  <2> DEFINE m == [node EXCEPT !.going = "reboot"]
             pc == LiveEntry(ex[e].view)
  <2>1. ex[e].pc = "reboot" /\ ex[e].pc # "idle" /\ Stage(e, TRUE, m, Goto(e, pc))
    BY <1>4 DEF Reboot, At
  <2>2. /\ m \in Nodes /\ m.disk = node.disk /\ m.marker = node.marker
        /\ m.bootID = node.bootID /\ m.live = node.live /\ m.key = node.key
    BY <1>n DEF Nodes
  <2>3. ex[e].view.phase = "AwaitingLive"
    BY <2>1, OfPass DEF Placed, LiveSteps
  <2> HIDE DEF m, pc
  <2>4. pc \in PassSteps /\ pc \notin Special /\ Placed(pc, "AwaitingLive")
    BY <1>l, <1>s DEF pc
  <2> QED
    BY <2>1, <2>2, <2>3, <2>4, StageSound
<1>5. CASE FinalReboot(e)
  <2> DEFINE m == [node EXCEPT !.going = "reboot"]
  <2>1. ex[e].pc = "finalReboot" /\ ex[e].pc # "idle" /\ Stage(e, TRUE, m, Goto(e, "awaitInstalled"))
    BY <1>5 DEF FinalReboot, At
  <2>2. /\ m \in Nodes /\ m.disk = node.disk /\ m.marker = node.marker
        /\ m.bootID = node.bootID /\ m.live = node.live /\ m.key = node.key
    BY <1>n DEF Nodes
  <2>3. ex[e].view.phase = "AwaitingInstalled"
    BY <2>1, OfPass DEF Placed
  <2>4. "awaitInstalled" \in PassSteps /\ "awaitInstalled" \notin Special
        /\ Placed("awaitInstalled", "AwaitingInstalled")
    BY Places DEF Special, CkSteps
  <2> HIDE DEF m
  <2> QED
    BY <2>1, <2>2, <2>3, <2>4, StageSound
<1> QED
  BY <1>1, <1>2, <1>3, <1>4, <1>5

\* A checkpoint that neither opens nor closes the destructive stage.
LEMMA PlainCheckpoint ==
  ASSUME Inv, NEW e \in Executor, ex[e].pc # "idle", NEW p \in Patches,
         NEW done \in PassSteps, NEW failed \in {"failed", "idle"}, ex[e].view.phase \in ACTIVE,
         p.phase # ex[e].view.phase =>
           p.phase \in Successors(ex[e].view.phase) \ {"Installing", "AwaitingInstalled"},
         ~Has(p, "maintenance"),
         ex[e].view.phase \in {"AwaitingLive", "Installing"} =>
           ~Has(p, "netbootArmed") /\ ~Has(p, "liveBootID"),
         done \notin Special, Placed(done, p.phase)
  PROVE  LET l == Checkpointing(e, p, done, failed)
         IN l \in Passes /\ l.pc \notin {"install", "wipe"} /\ (l.pc # "idle" => PassOK(l))
<1> DEFINE l == Checkpointing(e, p, done, failed)
<1>f. failed \in PassSteps /\ Placed(failed, ex[e].view.phase)
  BY Places
<1>1. /\ l.run = ex[e].run /\ l.view = ex[e].view /\ l.patch = p /\ l.done = done
      /\ l.failed = failed
  BY <1>f, CheckpointFields
<1> HIDE DEF l
<1>2. PatchOK(l)
  BY <1>f, <1>1 DEF PatchOK, Becoming, Special, CkSteps
<1> QED
  BY <1>f, <1>2, CheckpointSound DEF l

\* The step that enters such a checkpoint.
LEMMA PlainStep ==
  ASSUME Inv, NEW e \in Executor, ex[e].pc # "idle", NEW p \in Patches,
         NEW done \in PassSteps, NEW failed \in {"failed", "idle"}, ex[e].view.phase \in ACTIVE,
         p.phase # ex[e].view.phase =>
           p.phase \in Successors(ex[e].view.phase) \ {"Installing", "AwaitingInstalled"},
         ~Has(p, "maintenance"),
         ex[e].view.phase \in {"AwaitingLive", "Installing"} =>
           ~Has(p, "netbootArmed") /\ ~Has(p, "liveBootID"),
         done \notin Special, Placed(done, p.phase), Local(e, Checkpointing(e, p, done, failed))
  PROVE  Inv'
<1> DEFINE l == Checkpointing(e, p, done, failed)
<1>1. l \in Passes /\ l.pc \notin {"install", "wipe"} /\ (l.pc # "idle" => PassOK(l)) /\ Local(e, l)
  BY PlainCheckpoint
<1> HIDE DEF l
<1> QED
  BY <1>1, LocalSound

\* A pass takes up the run that holds the Server.
LEMMA BeginSound ==
  ASSUME Inv, NEW e \in Executor, Begin(e)
  PROVE  Inv'
<1> DEFINE r == activeRun
           l == Dispatch(e, r)
<1>1. Local(e, l) /\ r \in Run /\ run[r] \in Runs /\ spec \in {0, 1} /\ RunOK(r)
  BY DEF Begin, Inv, Typed
<1>2. run[r].phase \in Phases \ {"Absent"} /\ (run[r].phase = "Installing" => ~run[r].netbootArmed)
  BY <1>1 DEF RunOK, Runs
<1>3. ASSUME NEW pc \in PassSteps
      PROVE  /\ BindRun(r, pc) \in Passes /\ BindRun(r, pc).pc = pc /\ BindRun(r, pc).run = r
             /\ BindRun(r, pc).view = run[r] /\ BindRun(r, pc).done = "idle"
  BY <1>1, IdleSound DEF BindRun, Passes, Idle
<1>4. ASSUME NEW k \in Passes, k.run = r, k.view = run[r], k.pc \notin Special,
             Placed(k.pc, run[r].phase)
      PROVE  k.pc \notin {"install", "wipe"} /\ (k.pc # "idle" => PassOK(k))
  <2>1. Tracks(k)
    BY <1>2, <1>4 DEF Tracks
  <2>2. EraserOK(k) /\ EnrollOK(k) /\ k.pc \notin CkSteps /\ k.pc \notin {"install", "wipe"}
    BY <1>4 DEF EraserOK, EnrollOK, Special, CkSteps
  <2> QED
    BY <1>1, <1>4, <2>1, <2>2 DEF PassOK
<1>5. \A pc \in {"failed", "release", "idle", "prepare", "resume"} :
        pc \in PassSteps /\ pc \notin Special
  BY Places DEF Special, CkSteps
<1> HIDE DEF r
<1>6. CASE ~network
  <2> DEFINE k == [BindRun(r, "failed") EXCEPT !.reason = "ManagementNetworkPending"]
  <2>1. l = k
    BY <1>6 DEF Dispatch
  <2>2. k \in Passes /\ k.pc = "failed" /\ k.run = r /\ k.view = run[r]
    BY <1>3, <1>5 DEF Passes, Reasons
  <2> HIDE DEF k
  <2>3. k.pc \notin {"install", "wipe"} /\ (k.pc # "idle" => PassOK(k))
    BY <1>4, <1>5, <2>2, Places
  <2> QED
    BY <1>1, <2>1, <2>2, <2>3, LocalSound
<1>7. CASE network /\ run[r].phase # "Installing"
  <2>1. PICK pc \in {"failed", "release", "idle", "prepare", "resume"} :
          l = BindRun(r, pc) /\ Placed(pc, run[r].phase)
    <3>1. CASE run[r].phase = "Succeeded"
      BY <1>7, <3>1, Places DEF Dispatch
    <3>2. CASE run[r].phase = "Blocked"
      BY <1>7, <3>2, Places DEF Dispatch
    <3>3. CASE run[r].phase = "Pending"
      BY <1>7, <3>3, Places DEF Dispatch
    <3>4. CASE run[r].phase \in ACTIVE \ {"Installing"}
      <4>1. l = BindRun(r, "resume")
        BY <1>7, <3>4 DEF Dispatch, ACTIVE
      <4> QED
        BY <3>4, <4>1, Places
    <3> QED
      BY <1>2, <1>7, <3>1, <3>2, <3>3, <3>4 DEF Phases
  <2>2. l \in Passes /\ l.pc = pc /\ l.run = r /\ l.view = run[r]
    BY <1>3, <1>5, <2>1
  <2> HIDE DEF l
  <2>3. l.pc \notin {"install", "wipe"} /\ (l.pc # "idle" => PassOK(l))
    BY <1>4, <1>5, <2>1, <2>2
  <2> QED
    BY <1>1, <2>2, <2>3, LocalSound
<1>8. CASE network /\ run[r].phase = "Installing"
  <2> DEFINE p == [phase |-> "Blocked", maintenance |-> TRUE]
             k == [BindRun(r, "ckRead") EXCEPT !.patch = p, !.failed = "failed"]
  <2>1. l = k
    BY <1>8 DEF Dispatch
  <2>2. p \in Patches /\ DOMAIN p = {"phase", "maintenance"} /\ p.phase = "Blocked" /\ p.maintenance
    BY DEF Patches, Phases
  <2> HIDE DEF p
  <2> DEFINE b == BindRun(r, "ckRead")
  <2>b. /\ b \in Passes /\ b.pc = "ckRead" /\ b.run = r /\ b.view = run[r] /\ b.done = "idle"
        /\ "failed" \in PassSteps
    BY <1>3, Places
  <2> HIDE DEF b
  <2>3. /\ k \in Passes /\ k.pc = "ckRead" /\ k.run = r /\ k.view = run[r] /\ k.patch = p
        /\ k.done = "idle" /\ k.failed = "failed"
    <3>1. k = [b EXCEPT !.patch = p, !.failed = "failed"]
      BY DEF b
    <3> QED
      BY <2>2, <2>b, <3>1 DEF Passes
  <2> HIDE DEF k, l
  <2>4. Tracks(k)
    BY <1>2, <1>8, <2>3 DEF Tracks, Early
  <2>5. PatchOK(k)
    BY <1>8, <2>2, <2>3, Places DEF PatchOK, Has, Becoming, Successors
  <2>6. EraserOK(k) /\ EnrollOK(k) /\ k.pc \notin {"install", "wipe"} /\ Placed(k.pc, k.view.phase)
    BY <1>8, <2>3 DEF EraserOK, EnrollOK, Placed, LiveSteps, CleanupSteps, CkSteps, ACTIVE
  <2>7. PassOK(k)
    BY <1>1, <2>3, <2>4, <2>5, <2>6 DEF PassOK
  <2> QED
    BY <1>1, <2>1, <2>3, <2>6, <2>7, LocalSound
<1> QED
  BY <1>6, <1>7, <1>8

\* What a probe reports of the node.
LEMMA ProbeTyped ==
  ASSUME Inv
  PROVE  Probe \in Facts /\ Probe.bootID = node.bootID /\ Probe.key = node.key
<1>1. /\ node.bootID \in 0 .. MaxBoots /\ node.mounted \in BOOLEAN
      /\ node.key \in {Unreachable} \cup 0 .. MaxBoots
  BY ConstantsAssumption DEF Inv, Typed, Nodes
<1> QED
  BY <1>1 DEF Probe, Facts, Boots, Keys

\* The preflight probe.
LEMMA PrepareSound ==
  ASSUME Inv, NEW e \in Executor, Prepare(e)
  PROVE  Inv'
<1>1. ex[e].pc = "prepare" /\ ex[e].pc # "idle"
  BY DEF Prepare, At
<1>2. CASE Answers({ManagedKey})
  <2> DEFINE l == [Goto(e, "claim") EXCEPT !.facts = Probe]
  <2>1. Local(e, l)
    BY <1>2 DEF Prepare
  <2>2. ex[e] \in Passes /\ ex[e].view.phase = "Pending"
    BY <1>1, OfPass DEF Placed
  <2>3. /\ l \in Passes /\ l.pc = "claim" /\ l.run = ex[e].run /\ l.view = ex[e].view
        /\ l.fresh = ex[e].fresh
    BY <2>2, Places, ProbeTyped DEF Goto, Passes
  <2> HIDE DEF l
  <2>4. l.pc \notin {"install", "wipe"} /\ l.pc \notin Special /\ Placed(l.pc, l.view.phase)
    BY <2>2, <2>3, Places DEF Special, CkSteps
  <2>5. l.pc # "idle" => PassOK(l)
    BY <1>1, <2>3, <2>4, MoveOK
  <2> QED
    BY <2>1, <2>3, <2>4, <2>5, LocalSound
<1>3. CASE ~Answers({ManagedKey})
  BY <1>1, <1>3, Blocked, RaiseStep DEF Prepare
<1> QED
  BY <1>2, <1>3

\* reconcile dispatches on the phase it has just reread.
LEMMA ResumeSound ==
  ASSUME Inv, NEW e \in Executor, Resume(e)
  PROVE  Inv'
<1> DEFINE q == run[ex[e].run]
           s == StageOf(q)
           l == [Goto(e, s) EXCEPT !.view = q]
<1>1. PICK a, b : Guarded(e, a, b, l)
  BY DEF Resume
<1>2. ex[e].pc = "resume" /\ ex[e].pc # "idle"
  BY DEF Resume, At
<1>3. ex[e] \in Passes /\ q \in Runs /\ ex[e].view.phase \in ACTIVE \ {"Installing"}
  BY <1>2, OfPass DEF Placed
<1>4. ASSUME Current(e, a, b)
      PROVE  l \in Passes /\ l.pc \notin {"install", "wipe"} /\ (l.pc # "idle" => PassOK(l))
  <2>1. q.phase = ex[e].view.phase
    BY <1>4 DEF Current, Unchanged
  <2>2. s \in PassSteps /\ s \notin Special /\ Placed(s, q.phase)
    <3>1. CASE q.phase = "PreparingBoot"
      BY <3>1, Places DEF StageOf, Special, CkSteps
    <3>2. CASE q.phase = "AwaitingLive"
      BY <3>2, Places DEF StageOf, LiveEntry, LiveSteps, Special, CkSteps
    <3>3. CASE q.phase = "AwaitingInstalled"
      BY <3>3, Places DEF StageOf, Special, CkSteps
    <3>4. CASE q.phase = "Verifying"
      BY <3>4, Places DEF StageOf, Special, CkSteps
    <3> QED
      BY <1>3, <2>1, <3>1, <3>2, <3>3, <3>4 DEF ACTIVE
  <2> HIDE DEF s, q
  <2>3. /\ l \in Passes /\ l.pc = s /\ l.run = ex[e].run /\ l.view = q
        /\ l.fresh = ex[e].fresh
    BY <1>3, <2>2 DEF Goto, Passes
  <2> HIDE DEF l
  <2>4. l.pc # "idle" => PassOK(l)
    BY <1>2, <2>1, <2>2, <2>3, MoveOK DEF q
  <2> QED
    BY <2>2, <2>3, <2>4 DEF Special
<1> HIDE DEF l
<1> QED
  BY <1>1, <1>2, <1>4, GuardedSound

\* prepare_boot checkpoints the way it takes into the live session.
LEMMA BootSound ==
  ASSUME Inv, NEW e \in Executor, Boot(e)
  PROVE  Inv'
<1>1. ex[e].pc = "boot" /\ ex[e].pc # "idle"
  BY DEF Boot, At
<1>2. ex[e].view.phase = "PreparingBoot" /\ ex[e].view.phase \in ACTIVE
  BY <1>1, OfPass DEF Placed, ACTIVE
<1> DEFINE p1 == [phase |-> "PreparingBoot", netbootArmed |-> TRUE]
           p2 == [phase |-> "AwaitingLive", netbootArmed |-> TRUE]
<1>3. \/ Local(e, Raise(e, "ProvisioningBlocked"))
      \/ Local(e, Checkpointing(e, p1, "refreshPrepare", "failed"))
      \/ Local(e, Checkpointing(e, p2, "armCheck", "failed"))
  BY DEF Boot, Checkpoint
<1>4. p1 \in Patches /\ p2 \in Patches /\ p1.phase = "PreparingBoot" /\ p2.phase = "AwaitingLive"
      /\ ~Has(p1, "maintenance") /\ ~Has(p2, "maintenance")
  BY DEF Patches, Phases, ACTIVE, Has
<1>5. /\ "refreshPrepare" \in PassSteps \ Special /\ Placed("refreshPrepare", "PreparingBoot")
      /\ "armCheck" \in PassSteps \ Special /\ Placed("armCheck", "AwaitingLive")
      /\ "AwaitingLive" \in Successors("PreparingBoot")
  BY Places DEF Special, CkSteps, LiveSteps, Successors
<1> HIDE DEF p1, p2
<1>6. CASE Local(e, Raise(e, "ProvisioningBlocked"))
  BY <1>1, <1>6, Blocked, RaiseStep
<1>7. CASE Local(e, Checkpointing(e, p1, "refreshPrepare", "failed"))
  BY <1>1, <1>2, <1>4, <1>5, <1>7, PlainStep
<1>8. CASE Local(e, Checkpointing(e, p2, "armCheck", "failed"))
  BY <1>1, <1>2, <1>4, <1>5, <1>8, PlainStep
<1> QED
  BY <1>3, <1>6, <1>7, <1>8

\* The AwaitingLive checkpoint of a refreshed live session.
LEMMA RefreshCheckSound ==
  ASSUME Inv, NEW e \in Executor, RefreshCheck(e)
  PROVE  Inv'
<1> DEFINE p == [phase |-> "AwaitingLive", liveBootID |-> NoBoot, netbootArmed |-> TRUE]
           l == Checkpointing(e, p, "kexecCheck", "failed")
<1>1. ex[e].pc = "refreshCheck" /\ ex[e].pc # "idle" /\ Guarded(e, FALSE, FALSE, l)
  BY DEF RefreshCheck, At, Checkpoint
<1>2. ex[e].view.phase = "PreparingBoot" /\ ex[e].view.phase \in ACTIVE
  BY <1>1, OfPass DEF Placed, ACTIVE
<1>3. p \in Patches /\ p.phase = "AwaitingLive" /\ ~Has(p, "maintenance")
  BY ConstantsAssumption DEF Patches, Phases, ACTIVE, Has, Boots, NoBoot
<1>4. /\ "kexecCheck" \in PassSteps \ Special /\ Placed("kexecCheck", "AwaitingLive")
      /\ "AwaitingLive" \in Successors("PreparingBoot")
  BY Places DEF Special, CkSteps, LiveSteps, Successors
<1> HIDE DEF p
<1>5. l \in Passes /\ l.pc \notin {"install", "wipe"} /\ (l.pc # "idle" => PassOK(l))
  BY <1>1, <1>2, <1>3, <1>4, PlainCheckpoint
<1> HIDE DEF l
<1> QED
  BY <1>1, <1>5, GuardedSound

\* A pass that has met a session it may enroll.
LEMMA EnrollStep ==
  ASSUME Inv, NEW e \in Executor, ex[e].pc # "idle", NEW l \in Passes, l.run = ex[e].run,
         \/ l.view = ex[e].view
         \/ l.view = run[l.run] /\ run[l.run].phase = ex[e].view.phase,
         l.fresh = ex[e].fresh, l.pc \in {"enroll", "enrollPlay"},
         l.view.phase = "AwaitingLive", EnrollOK(l)
  PROVE  l.pc \notin {"install", "wipe"} /\ PassOK(l)
<1>1. l.run \in Run /\ Tracks(l)
  BY TracksKept
<1>2. EraserOK(l) /\ l.pc \notin CkSteps
  BY DEF EraserOK, CkSteps
<1>3. Placed(l.pc, l.view.phase)
  BY Places DEF LiveSteps
<1> QED
  BY <1>1, <1>2, <1>3 DEF PassOK

\* The key that a node presents is the managed one or its own session's.
LEMMA NodeKeys ==
  ASSUME Inv, node.key # Unreachable
  PROVE  node.key \in {ManagedKey, node.bootID} /\ node.key \in Keys
BY DEF Inv, Typed, Nodes, KeyOK, Keys

\* A round of await_session(live).
LEMMA AwaitLiveSound ==
  ASSUME Inv, NEW e \in Executor, AwaitLive(e)
  PROVE  Inv'
<1> DEFINE q == run[ex[e].run]
           pin == q.bootstrapPublicKey
           found == /\ network /\ Answers({IF pin = NoKey THEN ManagedKey ELSE pin})
                    /\ node.live /\ node.bootID # q.sourceBootID
           l1 == [Goto(e, "enroll") EXCEPT !.view = q, !.facts = Probe]
           l2 == [ex[e] EXCEPT !.view = q]
<1>1. Guarded(e, FALSE, TRUE, IF found THEN l1 ELSE l2)
  BY DEF AwaitLive
<1>2. ex[e].pc = "awaitLive" /\ ex[e].pc # "idle"
  BY DEF AwaitLive, At
<1>3. /\ ex[e] \in Passes /\ q \in Runs /\ ex[e].view.phase = "AwaitingLive"
      /\ ex[e].run \in Run
  BY <1>2, OfPass DEF Placed, LiveSteps
<1>4. /\ l1 \in Passes /\ l1.pc = "enroll" /\ l1.run = ex[e].run /\ l1.view = q
      /\ l1.fresh = ex[e].fresh /\ l1.facts = Probe
  BY <1>3, Places, ProbeTyped DEF Goto, Passes, LiveSteps
<1>5. /\ l2 \in Passes /\ l2.pc = "awaitLive" /\ l2.run = ex[e].run /\ l2.view = q
      /\ l2.fresh = ex[e].fresh
  BY <1>2, <1>3 DEF Passes
<1>6. ASSUME Current(e, FALSE, TRUE) PROVE q.phase = ex[e].view.phase
  BY <1>6 DEF Current, Unchanged
<1>7. ASSUME found PROVE EnrollOK(l1)
  <2>1. node.key \in {ManagedKey, pin} /\ node.key # Unreachable
    BY <1>3, <1>7 DEF Answers, Runs, NoKey, Unreachable, ManagedKey
  <2>2. node.key \in {ManagedKey, node.bootID}
    BY <2>1, NodeKeys
  <2> QED
    BY <1>4, <1>7, <2>1, <2>2, ProbeTyped DEF EnrollOK, MayEnroll
<1>8. ASSUME Current(e, FALSE, TRUE), found
      PROVE  l1 \in Passes /\ l1.pc \notin {"install", "wipe"} /\ (l1.pc # "idle" => PassOK(l1))
  <2> HIDE DEF l1, found
  <2> QED
    BY <1>2, <1>3, <1>4, <1>6, <1>7, <1>8, EnrollStep
<1>9. ASSUME Current(e, FALSE, TRUE)
      PROVE  l2 \in Passes /\ l2.pc \notin {"install", "wipe"} /\ (l2.pc # "idle" => PassOK(l2))
  <2>1. "awaitLive" \notin Special /\ Placed("awaitLive", "AwaitingLive")
    BY Places DEF Special, CkSteps, LiveSteps
  <2> HIDE DEF l2
  <2> QED
    BY <1>2, <1>3, <1>5, <1>6, <1>9, <2>1, MoveOK
<1>10. PICK l : l = IF found THEN l1 ELSE l2
  OBVIOUS
<1>11. ASSUME Current(e, FALSE, TRUE)
       PROVE  l \in Passes /\ l.pc \notin {"install", "wipe"} /\ (l.pc # "idle" => PassOK(l))
  <2> HIDE DEF l1, l2, found
  <2>1. CASE found
    BY <1>8, <1>10, <1>11, <2>1
  <2>2. CASE ~found
    BY <1>9, <1>10, <1>11, <2>2
  <2> QED
    BY <2>1, <2>2
<1>12. Guarded(e, FALSE, TRUE, l)
  BY <1>1, <1>10
<1> QED
  BY <1>2, <1>11, <1>12, GuardedSound

\* First contact is recorded before it is used.
LEMMA FirstContactSound ==
  ASSUME Inv, NEW e \in Executor, FirstContact(e)
  PROVE  Inv'
<1> DEFINE q == run[ex[e].run]
           p == [phase |-> "AwaitingLive", bootstrapPublicKey |-> node.key]
           c == Checkpointing(e, p, "enroll", "awaitLive")
           l == [c EXCEPT !.view = q, !.facts = Probe]
<1>1. /\ Local(e, l) /\ q.phase = ex[e].view.phase /\ node.key # Unreachable
      /\ node.bootID # q.sourceBootID
  BY DEF FirstContact, Current, Unchanged
<1>2. ex[e].pc = "awaitLive" /\ ex[e].pc # "idle"
  BY DEF FirstContact, At
<1>3. /\ ex[e] \in Passes /\ q \in Runs /\ ex[e].view.phase = "AwaitingLive"
      /\ ex[e].run \in Run
  BY <1>2, OfPass DEF Placed, LiveSteps
<1>4. node.key \in {ManagedKey, node.bootID} /\ node.key \in Keys
  BY <1>1, NodeKeys
<1>5. /\ p \in Patches /\ DOMAIN p = {"phase", "bootstrapPublicKey"} /\ p.phase = "AwaitingLive"
      /\ p.bootstrapPublicKey = node.key
  BY <1>4 DEF Patches, Phases, ACTIVE
<1> HIDE DEF p, q
<1>6. /\ c \in Passes /\ c.pc = "ckRead" /\ c.run = ex[e].run /\ c.fresh = ex[e].fresh
      /\ c.patch = p /\ c.done = "enroll" /\ c.failed = "awaitLive"
  BY <1>2, <1>5, Places, CheckpointFields DEF LiveSteps
<1> HIDE DEF c
<1>7. /\ l \in Passes /\ l.pc = "ckRead" /\ l.run = ex[e].run /\ l.fresh = ex[e].fresh
      /\ l.patch = p /\ l.done = "enroll" /\ l.failed = "awaitLive" /\ l.view = q
      /\ l.facts = Probe
  BY <1>3, <1>6, ProbeTyped DEF Passes
<1> HIDE DEF l
<1>8. MayEnroll(l)
  BY <1>1, <1>4, <1>7, ProbeTyped DEF MayEnroll, q
<1>9. Placed("enroll", "AwaitingLive") /\ Placed("awaitLive", "AwaitingLive")
  BY Places DEF LiveSteps
<1>10. PatchOK(l)
  BY <1>1, <1>3, <1>5, <1>7, <1>8, <1>9, ProbeTyped DEF PatchOK, Has, Becoming
<1>11. PassOK(l) /\ l.pc \notin {"install", "wipe"}
  BY <1>1, <1>2, <1>3, <1>7, <1>10, CkOK DEF CkSteps, ACTIVE, q
<1> QED
  BY <1>1, <1>7, <1>11, LocalSound

\* The recorded live session is met again.
LEMMA LiveRecheckSound ==
  ASSUME Inv, NEW e \in Executor, LiveRecheck(e)
  PROVE  Inv'
<1> DEFINE l == [Goto(e, "enroll") EXCEPT !.facts = Probe]
<1>1. ex[e].pc = "liveRecheck" /\ ex[e].pc # "idle"
  BY DEF LiveRecheck, At
<1>2. \/ Local(e, Raise(e, "ProvisioningBlocked"))
      \/ Local(e, l) /\ Answers({ManagedKey}) /\ node.bootID # ex[e].view.sourceBootID
  BY DEF LiveRecheck
<1>3. CASE Local(e, Raise(e, "ProvisioningBlocked"))
  BY <1>1, <1>3, Blocked, RaiseStep
<1>4. CASE Local(e, l) /\ Answers({ManagedKey}) /\ node.bootID # ex[e].view.sourceBootID
  <2>1. ex[e] \in Passes /\ ex[e].view.phase = "AwaitingLive" /\ Tracks(ex[e])
    BY <1>1, OfPass DEF Placed, LiveSteps
  <2>2. /\ l \in Passes /\ l.pc = "enroll" /\ l.run = ex[e].run /\ l.view = ex[e].view
        /\ l.fresh = ex[e].fresh /\ l.facts = Probe
    BY <2>1, Places, ProbeTyped DEF Goto, Passes, LiveSteps
  <2> HIDE DEF l
  <2>3. run[l.run].sourceBootID = ex[e].view.sourceBootID
    BY <2>1, <2>2 DEF Tracks, Early
  <2>4. EnrollOK(l)
    BY <1>4, <2>2, <2>3, ProbeTyped DEF EnrollOK, MayEnroll, Answers
  <2>5. l.pc \notin {"install", "wipe"} /\ PassOK(l)
    BY <1>1, <2>1, <2>2, <2>4, EnrollStep
  <2> QED
    BY <1>4, <2>2, <2>5, LocalSound
<1> QED
  BY <1>2, <1>3, <1>4

\* The check before the private key is used.
LEMMA EnrollSound ==
  ASSUME Inv, NEW e \in Executor, Enroll(e)
  PROVE  Inv'
<1> DEFINE l == Goto(e, "enrollPlay")
<1>1. ex[e].pc = "enroll" /\ ex[e].pc # "idle"
  BY DEF Enroll, At
<1>2. Local(e, Raise(e, "ProvisioningBlocked")) \/ Guarded(e, FALSE, FALSE, l)
  BY DEF Enroll
<1>3. ex[e] \in Passes /\ ex[e].view.phase = "AwaitingLive" /\ EnrollOK(ex[e])
  BY <1>1, OfPass DEF Placed, LiveSteps
<1>4. /\ l \in Passes /\ l.pc = "enrollPlay" /\ l.run = ex[e].run /\ l.view = ex[e].view
      /\ l.fresh = ex[e].fresh /\ l.facts = ex[e].facts
  BY <1>3, Places DEF Goto, Passes, LiveSteps
<1> HIDE DEF l
<1>5. EnrollOK(l)
  BY <1>1, <1>3, <1>4 DEF EnrollOK, MayEnroll
<1>6. l.pc \notin {"install", "wipe"} /\ PassOK(l)
  BY <1>1, <1>3, <1>4, <1>5, EnrollStep
<1>7. CASE Local(e, Raise(e, "ProvisioningBlocked"))
  BY <1>1, <1>7, Blocked, RaiseStep
<1>8. CASE Guarded(e, FALSE, FALSE, l)
  BY <1>1, <1>4, <1>6, <1>8, GuardedSound
<1> QED
  BY <1>2, <1>7, <1>8

\* The delivery of the managed key.
LEMMA EnrollPlaySound ==
  ASSUME Inv, NEW e \in Executor, EnrollPlay(e)
  PROVE  Inv'
<1> DEFINE m == [node EXCEPT !.key = ManagedKey]
           l == Goto(e, "enrollProbe")
<1>1. ex[e].pc = "enrollPlay" /\ ex[e].pc # "idle"
  BY DEF EnrollPlay, At
<1>2. OnNode(e, m, l) \/ Local(e, Raise(e, "ProvisioningBlocked"))
  BY DEF EnrollPlay
<1>3. CASE OnNode(e, m, l)
  <2>1. ex[e].view.phase = "AwaitingLive"
    BY <1>1, OfPass DEF Placed, LiveSteps
  <2>2. "enrollProbe" \in PassSteps \ Special /\ Placed("enrollProbe", "AwaitingLive")
    BY Places DEF LiveSteps, Special, CkSteps
  <2>3. l \in Passes /\ l.pc = "enrollProbe" /\ (l.pc # "idle" => PassOK(l))
    BY <1>1, <2>1, <2>2, GotoSound
  <2>4. /\ m \in Nodes /\ m.disk = node.disk /\ m.marker = node.marker
        /\ m.bootID = node.bootID /\ m.live = node.live /\ m.key = ManagedKey
    <3>1. node \in Nodes /\ ManagedKey \in {Unreachable} \cup 0 .. MaxBoots
      BY ConstantsAssumption DEF Inv, Typed, ManagedKey
    <3> QED
      BY <3>1 DEF Nodes
  <2> HIDE DEF m, l
  <2> QED
    BY <1>3, <2>3, <2>4, OnNodeSound
<1>4. CASE Local(e, Raise(e, "ProvisioningBlocked"))
  BY <1>1, <1>4, Blocked, RaiseStep
<1> QED
  BY <1>2, <1>3, <1>4

\* The session that answers with the managed key is checkpointed.
LEMMA EnrollProbeSound ==
  ASSUME Inv, NEW e \in Executor, EnrollProbe(e)
  PROVE  Inv'
<1> DEFINE p == [phase |-> "AwaitingLive", liveBootID |-> ex[e].facts.bootID,
                 bootstrapPublicKey |-> NoKey, netbootArmed |-> FALSE]
           l == Checkpointing(e, p, "installCheck", "failed")
<1>1. ex[e].pc = "enrollProbe" /\ ex[e].pc # "idle"
  BY DEF EnrollProbe, At
<1>2. Local(e, l) \/ Local(e, Raise(e, "ProvisioningBlocked"))
  BY DEF EnrollProbe, Checkpoint
<1>3. ex[e] \in Passes /\ ex[e].view.phase = "AwaitingLive" /\ ex[e].view.phase \in ACTIVE
  BY <1>1, OfPass DEF Placed, LiveSteps, ACTIVE
<1>4. ex[e].facts.bootID \in Boots /\ NoKey \in Keys /\ "AwaitingLive" \in Phases
  BY <1>3 DEF Passes, Facts, Keys, Phases, ACTIVE
<1>5. /\ p \in Patches /\ DOMAIN p = {"phase", "liveBootID", "bootstrapPublicKey", "netbootArmed"}
      /\ p.phase = "AwaitingLive" /\ ~p.netbootArmed
  BY <1>4 DEF Patches
<1> HIDE DEF p
<1>6. /\ l.run = ex[e].run /\ l.view = ex[e].view /\ l.patch = p /\ l.done = "installCheck"
      /\ l.failed = "failed"
  BY <1>1, <1>5, Places, CheckpointFields DEF LiveSteps
<1>7. "installCheck" \in PassSteps /\ "failed" \in PassSteps
      /\ Placed("installCheck", "AwaitingLive") /\ Placed("failed", "AwaitingLive")
  BY Places DEF LiveSteps
<1> HIDE DEF l
<1>8. PatchOK(l)
  BY <1>3, <1>5, <1>6, <1>7 DEF PatchOK, Has, Becoming
<1>9. l \in Passes /\ l.pc \notin {"install", "wipe"} /\ (l.pc # "idle" => PassOK(l))
  BY <1>1, <1>3, <1>5, <1>7, <1>8, CheckpointSound DEF l
<1>10. CASE Local(e, l)
  BY <1>9, <1>10, LocalSound
<1>11. CASE Local(e, Raise(e, "ProvisioningBlocked"))
  BY <1>1, <1>11, Blocked, RaiseStep
<1> QED
  BY <1>2, <1>10, <1>11

\* The Installing checkpoint comes before the erase.
LEMMA InstallCheckSound ==
  ASSUME Inv, NEW e \in Executor, InstallCheck(e)
  PROVE  Inv'
<1> DEFINE p == [phase |-> "Installing"]
           l == Checkpointing(e, p, "install", "failed")
<1>1. ex[e].pc = "installCheck" /\ ex[e].pc # "idle" /\ Guarded(e, FALSE, FALSE, l)
  BY DEF InstallCheck, At, Checkpoint
<1>2. /\ ex[e].view.phase = "AwaitingLive" /\ ex[e].view.phase \in ACTIVE
      /\ Disarmed(ex[e].run)
  BY <1>1, OfPass DEF Placed, LiveSteps, ACTIVE, EnrollOK
<1>3. p \in Patches /\ DOMAIN p = {"phase"} /\ p.phase = "Installing"
  BY DEF Patches, Phases, ACTIVE
<1> HIDE DEF p
<1>4. /\ l.run = ex[e].run /\ l.view = ex[e].view /\ l.patch = p /\ l.done = "install"
      /\ l.failed = "failed"
  BY <1>1, <1>3, Places, CheckpointFields
<1>5. "install" \in PassSteps /\ "failed" \in PassSteps
      /\ Placed("install", "Installing") /\ Placed("failed", "AwaitingLive")
  BY Places
<1> HIDE DEF l
<1>6. PatchOK(l)
  BY <1>2, <1>3, <1>4, <1>5 DEF PatchOK, Has, Becoming, Successors
<1>7. l \in Passes /\ l.pc \notin {"install", "wipe"} /\ (l.pc # "idle" => PassOK(l))
  BY <1>1, <1>2, <1>3, <1>5, <1>6, CheckpointSound DEF l
<1> QED
  BY <1>1, <1>7, GuardedSound

-----------------------------------------------------------------------------
(* The destructive stage.                                                  *)

\* The attestation: the licence goes on to the wipe.
LEMMA InstallSound ==
  ASSUME Inv, NEW e \in Executor, Install(e)
  PROVE  Inv'
<1>1. ex[e].pc = "install" /\ ex[e].pc # "idle"
  BY DEF Install, At
<1>2. CASE Local(e, Raise(e, "ProvisioningBlocked"))
  BY <1>1, <1>2, Blocked, RaiseStep
<1>3. CASE Local(e, Goto(e, "wipe"))
  <2>1. PICK l \in Passes : l = Goto(e, "wipe")
    BY <1>1, OfPass, Places DEF Goto, Passes
  <2>2. l.pc = "wipe" /\ l.run = ex[e].run /\ l.view = ex[e].view /\ l.fresh = ex[e].fresh
    BY <1>1, <2>1, OfPass DEF Goto, Passes
  <2>3. ex' = [ex EXCEPT ![e] = l] /\ ex \in [Executor -> Passes]
    BY <1>3, <2>1, <2>2 DEF Local, Becomes, Inv, Typed
  <2>4. UNCHANGED <<run, activeRun, lastRun, paused, spec, network, node, erasures, faults>>
    BY <1>3 DEF Local, serverVars, operatorVars
  <2>5. PassOK(l)
    <3>1. /\ l.run \in Run /\ Tracks(ex[e]) /\ EraserOK(ex[e])
          /\ l.view.phase = "Installing"
      BY <1>1, <2>2, OfPass DEF Placed
    <3>2. Tracks(l) /\ EraserOK(l)
      BY <1>1, <2>2, <3>1 DEF Tracks, EraserOK
    <3>3. EnrollOK(l) /\ l.pc \notin CkSteps
      BY <2>2 DEF EnrollOK, CkSteps
    <3> QED
      BY <2>2, <3>1, <3>2, <3>3, Places DEF PassOK
  <2>6. Typed'
    BY <2>3, <2>4 DEF Inv, Typed
  <2>7. ASSUME NEW f \in Executor PROVE PassOK(ex[f])'
    <3>1. PICK k : k = ex'[f] /\ PassOK(k)
      BY <2>3, <2>5 DEF Inv
    <3>2. PassOK(k)'
      BY <2>4, <3>1, PassStays
    <3> QED
      BY <3>1, <3>2
  <2>8. OneEraser'
    <3>1. \A f \in Executor : ex'[f].pc \in {"install", "wipe"} =>
                               ex[f].pc \in {"install", "wipe"} /\ ex'[f].run = ex[f].run
      BY <1>1, <2>2, <2>3
    <3> QED
      BY <3>1 DEF Inv, OneEraser
  <2>9. \A r \in Run : RunOK(r)'
    BY <2>4, RunStays DEF Inv
  <2>10. KeyOK' /\ ErasedOK' /\ DiskIsAccounted'
    BY <2>4 DEF Inv, KeyOK, ErasedOK, DiskIsAccounted
  <2> QED
    BY <2>6, <2>7, <2>8, <2>9, <2>10 DEF Inv
<1> QED
  BY <1>2, <1>3 DEF Install

\* The erase: the one pass with the licence uses it up.
LEMMA WipeSound ==
  ASSUME Inv, NEW e \in Executor, Wipe(e)
  PROVE  Inv'
<1>1. ex[e].pc = "wipe" /\ ex[e].pc # "idle"
  BY DEF Wipe, At
<1>2. CASE Local(e, Raise(e, "ProvisioningBlocked"))
  BY <1>1, <1>2, Blocked, RaiseStep
<1>3. CASE /\ node' = [node EXCEPT !.disk = "erased", !.marker = ex[e].run, !.mounted = TRUE,
                                   !.nextEntry = FALSE]
           /\ erasures' = [erasures EXCEPT ![ex[e].run] = @ + 1]
           /\ Becomes(e, Goto(e, "installing"))
           /\ UNCHANGED <<run, serverVars, operatorVars, faults>>
  <2>1. PICK r \in Run : r = ex[e].run
    BY <1>1, OfPass
  <2>2. /\ run[r].phase \in {"Installing", "Blocked"} /\ run[r].maintenance /\ erasures[r] = 0
        /\ RunOK(r) /\ activeRun = r
    BY <1>1, <2>1, OfPass DEF EraserOK, RunOK
  <2>3. UNCHANGED <<run, activeRun, lastRun, paused, spec, network, faults>>
    BY <1>3 DEF serverVars, operatorVars
  <2>4. node \in Nodes /\ erasures \in [Run -> Nat] /\ ex \in [Executor -> Passes]
    BY DEF Inv, Typed
  <2>5. /\ node' \in Nodes /\ node'.disk = "erased" /\ node'.marker = r
        /\ node'.key = node.key /\ node'.bootID = node.bootID /\ node'.live = node.live
    BY <1>3, <2>1, <2>4 DEF Nodes
  <2>6. /\ erasures' \in [Run -> Nat] /\ erasures'[r] = 1
        /\ \A s \in Run : s # r => erasures'[s] = erasures[s]
    BY <1>3, <2>1, <2>2, <2>4
  <2>7. PICK l \in Passes : l = Goto(e, "installing")
    BY <1>1, OfPass, Places DEF Goto, Passes
  <2>8. l.pc = "installing" /\ l.run = r /\ l.view = ex[e].view /\ l.fresh = ex[e].fresh
    BY <1>1, <2>1, <2>7, OfPass DEF Goto, Passes
  <2>9. ex' = [ex EXCEPT ![e] = l]
    BY <1>3, <2>7, <2>8 DEF Becomes
  <2>10. Typed'
    BY <2>3, <2>4, <2>5, <2>6, <2>9 DEF Inv, Typed
  <2>11. PassOK(l)'
    <3>1. Tracks(ex[e]) /\ ex[e].view.phase = "Installing"
      BY <1>1, OfPass DEF Placed
    <3>2. Tracks(l)'
      BY <2>1, <2>3, <2>8, <3>1 DEF Tracks
    <3>3. EraserOK(l)' /\ EnrollOK(l)' /\ l.pc \notin CkSteps
      BY <2>6, <2>8 DEF EraserOK, EnrollOK, CkSteps
    <3> QED
      BY <2>8, <3>1, <3>2, <3>3, Places DEF PassOK
  <2>12. ASSUME NEW k \in Passes, PassOK(k), ~(k.pc \in {"install", "wipe"} /\ k.run = r)
         PROVE  PassOK(k)'
    <3>1. CASE k.pc = "idle"
      BY <2>12, <3>1 DEF PassOK
    <3>2. CASE k.pc # "idle"
      <4>1. k.run \in Run /\ Tracks(k)' /\ (MayEnroll(k)' <=> MayEnroll(k))
        BY <2>3, <2>12, <3>2 DEF PassOK, Tracks, MayEnroll
      <4>2. erasures[k.run] > 0 => erasures'[k.run] > 0 /\ k.run # r
        BY <2>2, <2>6, <4>1
      <4>3. EraserOK(k)'
        BY <2>3, <2>6, <2>12, <3>2, <4>1, <4>2 DEF PassOK, EraserOK
      <4>4. EnrollOK(k)'
        BY <2>3, <2>12, <3>2, <4>1 DEF PassOK, EnrollOK, Disarmed
      <4>5. ASSUME k.pc \in CkSteps PROVE PatchOK(k)'
        <5>1. PatchOK(k)
          BY <2>12, <3>2, <4>5 DEF PassOK
        <5>2. Becoming(k, "AwaitingInstalled") => erasures'[k.run] > 0 /\ activeRun # k.run
          BY <2>2, <4>2, <5>1 DEF PatchOK
        <5> QED
          BY <2>3, <4>1, <5>1, <5>2 DEF PatchOK, Disarmed, Becoming
      <4> QED
        BY <2>12, <3>2, <4>1, <4>3, <4>4, <4>5 DEF PassOK
    <3> QED
      BY <3>1, <3>2
  <2>13. ASSUME NEW f \in Executor PROVE PassOK(ex[f])'
    <3>1. CASE f = e
      BY <2>4, <2>9, <2>11, <3>1
    <3>2. CASE f # e
      <4>1. PICK k \in Passes : k = ex[f] /\ ex'[f] = k /\ PassOK(k)
        BY <2>4, <2>9, <3>2 DEF Inv
      <4>2. ~(k.pc \in {"install", "wipe"} /\ k.run = r)
        BY <1>1, <2>1, <3>2, <4>1 DEF Inv, OneEraser
      <4> QED
        BY <2>12, <4>1, <4>2
    <3> QED
      BY <3>1, <3>2
  <2>14. OneEraser'
    <3>1. \A f \in Executor : ex'[f].pc \in {"install", "wipe"} => ex'[f] = ex[f]
      BY <2>4, <2>8, <2>9
    <3> QED
      BY <3>1 DEF Inv, OneEraser
  <2>15. RunOK(r)'
    BY <2>2, <2>3, <2>5, <2>6 DEF RunOK, Early, Sources, ACTIVE
  <2>16. ASSUME NEW s \in Run, s # r PROVE RunOK(s)'
    <3>1. RunOK(s)
      BY DEF Inv
    <3>2. run[s].phase \notin ACTIVE
      BY <2>2, <2>16, <3>1 DEF RunOK
    <3> QED
      BY <2>2, <2>3, <2>5, <2>6, <2>16, <3>1, <3>2 DEF RunOK, ACTIVE
  <2>17. KeyOK' /\ ErasedOK' /\ DiskIsAccounted'
    BY <2>2, <2>3, <2>5, ConstantsAssumption DEF Inv, KeyOK, ErasedOK, DiskIsAccounted
  <2> QED
    BY <2>10, <2>13, <2>14, <2>15, <2>16, <2>17 DEF Inv
<1> QED
  BY <1>2, <1>3 DEF Wipe, Erase

\* The rest of the installation: the run's system is on its disk before the
\* checkpoint that says so begins.
LEMMA InstallDoneSound ==
  ASSUME Inv, NEW e \in Executor, InstallDone(e)
  PROVE  Inv'
<1> DEFINE p == [phase |-> "AwaitingInstalled", netbootArmed |-> FALSE]
           c == Checkpointing(e, p, "finish", "failed")
<1>1. ex[e].pc = "installing" /\ ex[e].pc # "idle"
  BY DEF InstallDone, At
<1>2. \/ Local(e, Raise(e, "ProvisioningBlocked"))
      \/ OnNode(e, [node EXCEPT !.disk = "installed"], c)
  BY DEF InstallDone, Stage, Checkpoint
<1>3. CASE Local(e, Raise(e, "ProvisioningBlocked"))
  BY <1>1, <1>3, Blocked, RaiseStep
<1>4. CASE OnNode(e, [node EXCEPT !.disk = "installed"], c)
  <2>1. /\ p \in Patches /\ DOMAIN p = {"phase", "netbootArmed"}
        /\ p.phase = "AwaitingInstalled" /\ ~p.netbootArmed
    BY DEF Patches, Phases, ACTIVE
  <2> HIDE DEF p
  <2>2. PICK r \in Run : r = ex[e].run
    BY <1>1, OfPass
  <2>3. /\ c \in Passes /\ c.pc = "ckRead" /\ c.run = r /\ c.view = ex[e].view
        /\ c.fresh = ex[e].fresh /\ c.patch = p /\ c.done = "finish" /\ c.failed = "failed"
    BY <1>1, <2>1, <2>2, Places, CheckpointFields
  <2> HIDE DEF c
  <2>4. PICK l \in Passes : l = c
    BY <2>3
  <2>5. UNCHANGED <<run, activeRun, lastRun, paused, spec, network, erasures, faults>>
        /\ ex' = [ex EXCEPT ![e] = l] /\ node' = [node EXCEPT !.disk = "installed"]
    BY <1>4, <2>3, <2>4 DEF OnNode, Becomes, serverVars, operatorVars
  <2>6. node \in Nodes /\ ex \in [Executor -> Passes] /\ RunOK(r)
    BY <2>2 DEF Inv, Typed
  <2>7. /\ node' \in Nodes /\ node'.disk = "installed" /\ node'.marker = node.marker
        /\ node'.key = node.key /\ node'.bootID = node.bootID /\ node'.live = node.live
    BY <2>5, <2>6 DEF Nodes
  <2>8. \A s : Installed(s) => Installed(s)'
    BY <2>7 DEF Installed
  <2>9. Typed'
    BY <2>5, <2>6, <2>7 DEF Inv, Typed
  <2>10. PassOK(l)'
    <3>1. Tracks(ex[e]) /\ ex[e].view.phase = "Installing" /\ erasures[r] > 0
      BY <1>1, <2>2, OfPass DEF Placed, EraserOK
    <3>2. Tracks(l)'
      BY <2>2, <2>3, <2>4, <2>5, <3>1 DEF Tracks
    <3>3. activeRun = r => Installed(r)'
      BY <2>6, <2>7, <3>1 DEF RunOK, Installed
    <3>4. Placed("finish", "AwaitingInstalled") /\ Placed("failed", "Installing")
      BY Places
    <3>5. PatchOK(l)'
      BY <2>1, <2>3, <2>4, <2>5, <3>1, <3>3, <3>4 DEF PatchOK, Has, Becoming, Successors
    <3>6. /\ EraserOK(l)' /\ EnrollOK(l)' /\ Placed(l.pc, "Installing")
      BY <2>3, <2>4 DEF EraserOK, EnrollOK, Placed, LiveSteps, CleanupSteps, CkSteps, ACTIVE
    <3> QED
      BY <2>3, <2>4, <3>1, <3>2, <3>5, <3>6 DEF PassOK
  <2>11. ASSUME NEW k \in Passes, PassOK(k) PROVE PassOK(k)'
    <3>1. Tracks(k)' <=> Tracks(k)
      BY <2>5 DEF Tracks
    <3>2. MayEnroll(k)' <=> MayEnroll(k)
      BY <2>5 DEF MayEnroll
    <3>3. PatchOK(k) => PatchOK(k)'
      BY <2>5, <2>8, <3>2 DEF PatchOK, Disarmed, Becoming
    <3>4. (EraserOK(k)' <=> EraserOK(k)) /\ (EnrollOK(k)' <=> EnrollOK(k))
      BY <2>5, <3>2 DEF EraserOK, EnrollOK, Disarmed
    <3> QED
      BY <2>11, <3>1, <3>3, <3>4 DEF PassOK
  <2>12. ASSUME NEW f \in Executor PROVE PassOK(ex[f])'
    <3>1. CASE f = e
      BY <2>5, <2>6, <2>10, <3>1
    <3>2. CASE f # e
      <4>1. PICK k \in Passes : k = ex[f] /\ ex'[f] = k /\ PassOK(k)
        BY <2>5, <2>6, <3>2 DEF Inv
      <4> QED
        BY <2>11, <4>1
    <3> QED
      BY <3>1, <3>2
  <2>13. OneEraser'
    <3>1. \A f \in Executor : ex'[f].pc \in {"install", "wipe"} => ex'[f] = ex[f]
      BY <2>3, <2>4, <2>5, <2>6
    <3> QED
      BY <3>1 DEF Inv, OneEraser
  <2>14. ASSUME NEW s \in Run PROVE RunOK(s)'
    <3>1. RunOK(s)
      BY DEF Inv
    <3> QED
      BY <2>5, <2>7, <2>8, <3>1 DEF RunOK
  <2>15. KeyOK' /\ ErasedOK' /\ DiskIsAccounted'
    BY <2>5, <2>7 DEF Inv, KeyOK, ErasedOK, DiskIsAccounted
  <2> QED
    BY <2>9, <2>12, <2>13, <2>14, <2>15 DEF Inv
<1> QED
  BY <1>2, <1>3, <1>4

-----------------------------------------------------------------------------
(* After the installation, and the release of the Server.                  *)

\* A wait that times out raises.
LEMMA AwaitTimeoutSound ==
  ASSUME Inv, NEW e \in Executor, AwaitTimeout(e)
  PROVE  Inv'
<1>1. ex[e].pc # "idle" /\ Local(e, Raise(e, "ProvisioningBlocked"))
  BY DEF AwaitTimeout
<1> QED
  BY <1>1, Blocked, RaiseStep

\* finish_boot looks at the session, verify_completion at the disk.
LEMMA FinishSound ==
  ASSUME Inv, NEW e \in Executor, Finish(e) \/ Verify(e)
  PROVE  Inv'
<1>1. /\ ex[e].pc \in {"finish", "verify"} /\ ex[e].pc # "idle"
      /\ \/ Local(e, Raise(e, "ProvisioningBlocked"))
         \/ /\ ex[e].pc = "finish"
            /\ Local(e, Goto(e, "awaitInstalled")) \/ Local(e, Goto(e, "finalCheck"))
         \/ ex[e].pc = "verify" /\ Local(e, Goto(e, "postCheck"))
  BY DEF Finish, Verify, At
<1>2. /\ ex[e].pc = "finish" => ex[e].view.phase = "AwaitingInstalled"
      /\ ex[e].pc = "verify" => ex[e].view.phase = "Verifying"
  BY <1>1, OfPass DEF Placed
<1>3. /\ {"awaitInstalled", "finalCheck", "postCheck"} \subseteq PassSteps \ Special
      /\ Placed("awaitInstalled", "AwaitingInstalled") /\ Placed("finalCheck", "AwaitingInstalled")
      /\ Placed("postCheck", "Verifying")
  BY Places DEF Special, CkSteps
<1>4. CASE Local(e, Raise(e, "ProvisioningBlocked"))
  BY <1>1, <1>4, Blocked, RaiseStep
<1>5. CASE ex[e].pc = "finish" /\ (Local(e, Goto(e, "awaitInstalled")) \/ Local(e, Goto(e, "finalCheck")))
  BY <1>1, <1>2, <1>3, <1>5, GotoStep
<1>6. CASE ex[e].pc = "verify" /\ Local(e, Goto(e, "postCheck"))
  BY <1>1, <1>2, <1>3, <1>6, GotoStep
<1> QED
  BY <1>1, <1>4, <1>5, <1>6

\* A round of await_session(installed).
LEMMA AwaitInstalledSound ==
  ASSUME Inv, NEW e \in Executor, AwaitInstalled(e)
  PROVE  Inv'
<1> DEFINE q == run[ex[e].run]
           found == /\ network /\ Answers({ManagedKey})
                    /\ ~node.live /\ node.bootID # q.liveBootID
           p == [phase |-> "Verifying"]
           l1 == [ex[e] EXCEPT !.view = q]
           l2 == [l1 EXCEPT !.pc = "ckRead", !.patch = p, !.done = "verify", !.failed = "failed"]
           l3 == Raise(e, "ProvisioningBlocked")
<1>1. Guarded(e, TRUE, TRUE, IF ~found THEN l1 ELSE IF InstalledBy(q, ex[e].run) THEN l2 ELSE l3)
  BY DEF AwaitInstalled
<1>2. ex[e].pc = "awaitInstalled" /\ ex[e].pc # "idle"
  BY DEF AwaitInstalled, At
<1>3. /\ ex[e] \in Passes /\ q \in Runs /\ ex[e].view.phase = "AwaitingInstalled"
      /\ ex[e].run \in Run
  BY <1>2, OfPass DEF Placed
<1>4. ASSUME Current(e, TRUE, TRUE) PROVE q.phase = ex[e].view.phase
  BY <1>4 DEF Current, Unchanged
<1>5. /\ l1 \in Passes /\ l1.pc = "awaitInstalled" /\ l1.run = ex[e].run /\ l1.view = q
      /\ l1.fresh = ex[e].fresh
  BY <1>2, <1>3 DEF Passes
<1>6. /\ p \in Patches /\ DOMAIN p = {"phase"} /\ p.phase = "Verifying"
  BY DEF Patches, Phases, ACTIVE
<1> HIDE DEF p, l1
<1>7. /\ l2 \in Passes /\ l2.pc = "ckRead" /\ l2.run = ex[e].run /\ l2.view = q
      /\ l2.fresh = ex[e].fresh /\ l2.patch = p /\ l2.done = "verify" /\ l2.failed = "failed"
  BY <1>5, <1>6, Places DEF Passes
<1> HIDE DEF l2, l3, found, q
<1>8. Placed("awaitInstalled", "AwaitingInstalled") /\ Placed("verify", "Verifying")
      /\ Placed("failed", "AwaitingInstalled") /\ "awaitInstalled" \notin Special
  BY Places DEF Special, CkSteps
<1>9. ASSUME Current(e, TRUE, TRUE)
      PROVE  l1 \in Passes /\ l1.pc \notin {"install", "wipe"} /\ (l1.pc # "idle" => PassOK(l1))
  BY <1>2, <1>3, <1>4, <1>5, <1>8, <1>9, MoveOK DEF q
<1>10. ASSUME Current(e, TRUE, TRUE)
       PROVE  l2 \in Passes /\ l2.pc \notin {"install", "wipe"} /\ (l2.pc # "idle" => PassOK(l2))
  <2>1. PatchOK(l2)
    BY <1>3, <1>4, <1>6, <1>7, <1>8, <1>10 DEF PatchOK, Has, Becoming, Successors
  <2>2. PassOK(l2)
    BY <1>2, <1>3, <1>4, <1>7, <1>10, <2>1, CkOK DEF CkSteps, ACTIVE, q
  <2> QED
    BY <1>7, <2>2
<1>11. l3 \in Passes /\ l3.pc \notin {"install", "wipe"} /\ PassOK(l3)
  BY <1>2, Blocked, RaiseSound DEF l3
<1>12. PICK l : l = IF ~found THEN l1 ELSE IF InstalledBy(q, ex[e].run) THEN l2 ELSE l3
  OBVIOUS
<1>13. ASSUME Current(e, TRUE, TRUE)
       PROVE  l \in Passes /\ l.pc \notin {"install", "wipe"} /\ (l.pc # "idle" => PassOK(l))
  BY <1>9, <1>10, <1>11, <1>12, <1>13
<1>14. Guarded(e, TRUE, TRUE, l)
  BY <1>1, <1>12
<1> QED
  BY <1>2, <1>13, <1>14, GuardedSound

\* The Succeeded checkpoint.
LEMMA PostSound ==
  ASSUME Inv, NEW e \in Executor, Post(e)
  PROVE  Inv'
<1> DEFINE p == [phase |-> "Succeeded", maintenance |-> FALSE]
           l == Checkpointing(e, p, "release", "failed")
<1>1. ex[e].pc = "post" /\ ex[e].pc # "idle"
  BY DEF Post, At
<1>2. Local(e, l) \/ Local(e, Raise(e, "ProvisioningBlocked"))
  BY DEF Post, Checkpoint
<1>3. ex[e].view.phase = "Verifying" /\ ex[e].view.phase \in ACTIVE
  BY <1>1, OfPass DEF Placed, ACTIVE
<1>4. /\ p \in Patches /\ DOMAIN p = {"phase", "maintenance"} /\ p.phase = "Succeeded"
  BY DEF Patches, Phases
<1> HIDE DEF p
<1>5. /\ l.run = ex[e].run /\ l.view = ex[e].view /\ l.patch = p /\ l.done = "release"
      /\ l.failed = "failed"
  BY <1>1, <1>4, Places, CheckpointFields
<1>6. "release" \in PassSteps /\ "failed" \in PassSteps
      /\ Placed("release", "Succeeded") /\ Placed("failed", "Verifying")
  BY Places
<1> HIDE DEF l
<1>7. PatchOK(l)
  BY <1>3, <1>4, <1>5, <1>6 DEF PatchOK, Has, Becoming, Successors
<1>8. l \in Passes /\ l.pc \notin {"install", "wipe"} /\ (l.pc # "idle" => PassOK(l))
  BY <1>1, <1>3, <1>4, <1>6, <1>7, CheckpointSound DEF l
<1>9. CASE Local(e, l)
  BY <1>8, <1>9, LocalSound
<1>10. CASE Local(e, Raise(e, "ProvisioningBlocked"))
  BY <1>1, <1>10, Blocked, RaiseStep
<1> QED
  BY <1>2, <1>9, <1>10

\* A reservation that begins or ends: what the passes know of their runs stays.
LEMMA ReservationKeeps ==
  ASSUME UNCHANGED <<node, erasures>>, NEW k, PassOK(k),
         k.pc # "idle" => run'[k.run] = run[k.run] /\ activeRun' # k.run
  PROVE  PassOK(k)'
<1>1. CASE k.pc = "idle"
  BY <1>1 DEF PassOK
<1>2. CASE k.pc # "idle"
  <2>1. run'[k.run] = run[k.run] /\ activeRun' # k.run
    BY <1>2
  <2>2. Tracks(k)' <=> Tracks(k)
    BY <2>1 DEF Tracks
  <2>3. MayEnroll(k)' <=> MayEnroll(k)
    BY <2>1 DEF MayEnroll
  <2>4. PatchOK(k) => PatchOK(k)'
    BY <2>1, <2>3 DEF PatchOK, Disarmed, Becoming
  <2>5. (EraserOK(k) => EraserOK(k)') /\ (EnrollOK(k) => EnrollOK(k)')
    BY <2>1, <2>3 DEF EraserOK, EnrollOK, Disarmed
  <2> QED
    BY <1>2, <2>2, <2>4, <2>5 DEF PassOK
<1> QED
  BY <1>1, <1>2

\* release_run gives the Server back only when nothing written is left behind.
LEMMA ReleaseSound ==
  ASSUME Inv, NEW e \in Executor, Release(e)
  PROVE  Inv'
<1>1. ex[e].pc = "release" /\ ex[e].pc # "idle"
  BY DEF Release, At
<1>2. CASE Local(e, Idle)
  BY <1>2, IdleStep
<1>3. CASE /\ Releasable(ex[e].run) /\ activeRun' = NoRun
           /\ lastRun' = IF run[ex[e].run].phase = "Succeeded" THEN ex[e].run ELSE lastRun
           /\ Becomes(e, Idle) /\ UNCHANGED <<run, operatorVars, node, erasures, faults>>
  <2>1. PICK r \in Run : r = ex[e].run
    BY <1>1, OfPass
  <2>2. /\ run[r].phase \in {"Succeeded", "Blocked"} /\ ~run[r].maintenance /\ activeRun = r
        /\ RunOK(r)
    BY <1>3, <2>1 DEF Releasable, Inv
  <2>3. /\ activeRun' = NoRun /\ UNCHANGED <<run, paused, spec, network, node, erasures, faults>>
        /\ lastRun' = IF run[r].phase = "Succeeded" THEN r ELSE lastRun
    BY <1>3, <2>1 DEF operatorVars
  <2>4. ex' = [ex EXCEPT ![e] = Idle] /\ ex \in [Executor -> Passes]
    BY <1>3, IdleSound DEF Becomes, Inv, Typed
  <2>5. Typed'
    <3>1. ex' \in [Executor -> Passes]
      BY <2>4, IdleSound
    <3> QED
      BY <2>1, <2>3, <3>1 DEF Inv, Typed
  <2>6. ASSUME NEW f \in Executor PROVE PassOK(ex[f])'
    <3>1. CASE f = e
      <4>1. ex'[f].pc = "idle" /\ ex'[f].run = NoRun
        BY <2>4, <3>1, IdleSound
      <4> QED
        BY <4>1 DEF PassOK
    <3>2. CASE f # e
      <4>1. PICK k : k = ex[f] /\ ex'[f] = k /\ PassOK(k)
        BY <2>4, <3>2 DEF Inv
      <4>2. k.pc # "idle" => activeRun' # k.run
        BY <2>3, <4>1, ConstantsAssumption DEF PassOK
      <4>3. PassOK(k)'
        BY <2>3, <4>1, <4>2, ReservationKeeps
      <4> QED
        BY <4>1, <4>3
    <3> QED
      BY <3>1, <3>2
  <2>7. OneEraser'
    <3>1. \A f \in Executor : ex'[f].pc \in {"install", "wipe"} => ex'[f] = ex[f]
      BY <2>4, IdleSound
    <3> QED
      BY <3>1 DEF Inv, OneEraser
  <2>8. RunOK(r)'
    BY <2>2, <2>3, ConstantsAssumption DEF RunOK, ACTIVE, Installed
  <2>9. ASSUME NEW s \in Run, s # r PROVE RunOK(s)'
    <3>1. RunOK(s)
      BY DEF Inv
    <3> QED
      BY <2>2, <2>3, <2>9, <3>1, ConstantsAssumption DEF RunOK, ACTIVE, Installed
  <2>10. ErasedOK'
    BY <2>2, <2>3 DEF Inv, ErasedOK
  <2>11. DiskIsAccounted'
    <3>1. node.disk # "erased"
      BY <2>2 DEF Inv, ErasedOK
    <3>2. CASE run[r].phase = "Succeeded"
      BY <2>2, <2>3, <3>1, <3>2 DEF RunOK, Installed, DiskIsAccounted
    <3>3. CASE run[r].phase = "Blocked"
      BY <2>1, <2>2, <2>3, <3>1, <3>3, ConstantsAssumption DEF Inv, DiskIsAccounted
    <3> QED
      BY <2>2, <3>2, <3>3
  <2>12. KeyOK'
    BY <2>3 DEF Inv, KeyOK
  <2> QED
    BY <2>5, <2>6, <2>7, <2>8, <2>9, <2>10, <2>11, <2>12 DEF Inv
<1> QED
  BY <1>2, <1>3 DEF Release

-----------------------------------------------------------------------------
(* The failure handler, the faults and the environment.                    *)

\* The step that enters the Blocked checkpoint.
LEMMA BlockStep ==
  ASSUME Inv, NEW e \in Executor, ex[e].pc # "idle", NEW keep \in BOOLEAN,
         ex[e].view.phase \in Sources \/ (ex[e].view.phase = "Installing" /\ keep),
         Local(e, Block(e, keep))
  PROVE  Inv'
<1>1. PICK l \in Passes : l = Block(e, keep)
  BY BlockSound
<1>2. l.pc \notin {"install", "wipe"} /\ (l.pc # "idle" => PassOK(l)) /\ Local(e, l)
  BY <1>1, BlockSound
<1> QED
  BY <1>2, LocalSound

\* handle_failure: the phase stands, cleanup begins, or the run is blocked.
LEMMA FailedSound ==
  ASSUME Inv, NEW e \in Executor, Failed(e)
  PROVE  Inv'
<1> DEFINE phase == ex[e].view.phase
           p == [phase |-> phase]
<1>1. ex[e].pc = "failed" /\ ex[e].pc # "idle"
  BY DEF Failed, At
<1>2. Tracks(ex[e]) /\ phase \in Phases
  BY <1>1, OfPass DEF Runs
<1>3. CASE phase \notin ACTIVE
  <2>1. Local(e, Idle)
    BY <1>3 DEF Failed
  <2> QED
    BY <2>1, IdleStep
<1>4. CASE /\ phase \in ACTIVE
           /\ \/ ex[e].reason = "ManagementNetworkPending"
              \/ phase \in {"AwaitingInstalled", "Verifying"}
  <2>1. Local(e, Checkpointing(e, p, "idle", "idle"))
    BY <1>4 DEF Failed
  <2>2. /\ p \in Patches /\ p.phase = phase /\ ~Has(p, "maintenance")
        /\ ~Has(p, "netbootArmed") /\ ~Has(p, "liveBootID")
    BY <1>2 DEF Patches, Has
  <2>3. "idle" \in PassSteps /\ "idle" \notin Special /\ Placed("idle", phase)
    BY Places DEF Special, CkSteps
  <2> HIDE DEF p
  <2> QED
    BY <1>1, <1>4, <2>1, <2>2, <2>3, PlainStep
<1>5. CASE /\ phase \in ACTIVE
           /\ ~(\/ ex[e].reason = "ManagementNetworkPending"
                \/ phase \in {"AwaitingInstalled", "Verifying"})
  <2>1. phase \in Sources \cup {"Installing"}
    BY <1>5 DEF ACTIVE, Sources
  <2>2. CASE ex[e].view.netbootArmed
    <3>1. Local(e, Goto(e, "cleanup"))
      BY <1>5, <2>2 DEF Failed
    <3>2. phase \in Sources
      BY <1>2, <2>1, <2>2 DEF Tracks
    <3>3. "cleanup" \in PassSteps /\ "cleanup" \notin Special /\ Placed("cleanup", phase)
      BY <3>2, Places DEF Special, CkSteps, CleanupSteps
    <3> QED
      BY <1>1, <3>1, <3>3, GotoStep
  <2>3. CASE ~ex[e].view.netbootArmed
    <3>1. Local(e, Block(e, phase = "Installing"))
      BY <1>5, <2>3 DEF Failed
    <3>2. PICK keep \in BOOLEAN : keep = (phase = "Installing")
      OBVIOUS
    <3>3. Local(e, Block(e, keep))
      BY <3>1, <3>2
    <3> QED
      BY <1>1, <2>1, <3>2, <3>3, BlockStep
  <2> QED
    BY <2>2, <2>3
<1> QED
  BY <1>3, <1>4, <1>5

\* The cleanup of the boot selection.
LEMMA CleanupSound ==
  ASSUME Inv, NEW e \in Executor,
         Cleanup(e) \/ ClearKexec(e) \/ ClearNext(e) \/ RecheckNext(e)
  PROVE  Inv'
<1>1. ex[e].pc \in CleanupSteps /\ ex[e].pc # "idle"
  BY DEF Cleanup, ClearKexec, ClearNext, RecheckNext, At, CleanupSteps
<1>2. ex[e].view.phase \in Sources
  BY <1>1, OfPass DEF Placed
<1>3. \A pc \in {"clearKexec", "clearNext", "recheckNext"} :
        pc \in PassSteps /\ pc \notin Special /\ Placed(pc, ex[e].view.phase)
  BY <1>2, Places DEF CleanupSteps, Special, CkSteps
<1>4. ASSUME NEW keep \in BOOLEAN, Local(e, Block(e, keep)) PROVE Inv'
  BY <1>1, <1>2, <1>4, BlockStep
<1>n. node \in Nodes
  BY DEF Inv, Typed
<1>5. CASE Cleanup(e)
  <2>1. \/ Local(e, Block(e, TRUE))
        \/ Local(e, Goto(e, "clearKexec")) \/ Local(e, Goto(e, "clearNext"))
    BY <1>5 DEF Cleanup
  <2> QED
    BY <1>1, <1>3, <1>4, <2>1, GotoStep
<1>6. CASE ClearKexec(e)
  <2> DEFINE m == [node EXCEPT !.kexec = FALSE]
  <2>1. Local(e, Block(e, TRUE)) \/ OnNode(e, m, Block(e, FALSE))
    BY <1>6 DEF ClearKexec
  <2>2. CASE OnNode(e, m, Block(e, FALSE))
    <3>1. PICK l \in Passes : l = Block(e, FALSE)
      BY <1>1, <1>2, BlockSound
    <3>2. l.pc \notin {"install", "wipe"} /\ (l.pc # "idle" => PassOK(l)) /\ OnNode(e, m, l)
      BY <1>1, <1>2, <2>2, <3>1, BlockSound
    <3>3. /\ m \in Nodes /\ m.disk = node.disk /\ m.marker = node.marker
          /\ m.bootID = node.bootID /\ m.live = node.live /\ m.key = node.key
      BY <1>n DEF Nodes
    <3> HIDE DEF m
    <3> QED
      BY <3>2, <3>3, OnNodeSound
  <2> QED
    BY <1>4, <2>1, <2>2
<1>7. CASE ClearNext(e)
  <2> DEFINE m == [node EXCEPT !.nextEntry = FALSE]
  <2>1. Local(e, Block(e, TRUE)) \/ OnNode(e, m, Goto(e, "recheckNext"))
    BY <1>7 DEF ClearNext
  <2>2. CASE OnNode(e, m, Goto(e, "recheckNext"))
    <3>1. PICK l \in Passes : l = Goto(e, "recheckNext")
      BY <1>1, <1>3, GotoSound
    <3>2. l.pc = "recheckNext" /\ (l.pc # "idle" => PassOK(l)) /\ OnNode(e, m, l)
      BY <1>1, <1>3, <2>2, <3>1, GotoSound
    <3>3. /\ m \in Nodes /\ m.disk = node.disk /\ m.marker = node.marker
          /\ m.bootID = node.bootID /\ m.live = node.live /\ m.key = node.key
      BY <1>n DEF Nodes
    <3> HIDE DEF m
    <3> QED
      BY <3>2, <3>3, OnNodeSound
  <2> QED
    BY <1>4, <2>1, <2>2
<1>8. CASE RecheckNext(e)
  <2>1. PICK keep \in BOOLEAN : keep = (~Answers({ManagedKey}) \/ node.nextEntry)
    BY <1>n DEF Nodes, Answers
  <2>2. Local(e, Block(e, keep))
    BY <1>8, <2>1 DEF RecheckNext
  <2> QED
    BY <1>4, <2>2
<1> QED
  BY <1>5, <1>6, <1>7, <1>8

\* A failed call, and a killed pass.
LEMMA StepFailsSound ==
  ASSUME Inv, NEW e \in Executor, StepFails(e) \/ Crash(e)
  PROVE  Inv'
<1>1. ex[e].pc # "idle" /\ UNCHANGED <<run, serverVars, operatorVars, erasures>> /\ UNCHANGED node
  BY DEF StepFails, Crash, At
<1>2. /\ faults' \in Nat /\ KeyOK' /\ node' \in Nodes /\ node'.disk = node.disk
      /\ node'.marker = node.marker
  BY <1>1, FaultTyped DEF StepFails, Crash, Inv, Typed, KeyOK
<1>3. ASSUME NEW l, l \in Passes, l.pc \notin {"install", "wipe"}, l.pc # "idle" => PassOK(l), Becomes(e, l)
      PROVE  Inv'
  BY <1>1, <1>2, <1>3, StepSound
<1>4. CASE Becomes(e, Idle)
  <2>1. PICK l \in Passes : l = Idle /\ l.pc = "idle"
    BY IdleSound
  <2> QED
    BY <1>3, <1>4, <2>1
<1>5. CASE ex[e].pc \in CleanupSteps /\ Becomes(e, Block(e, TRUE))
  <2>1. ex[e].view.phase \in Sources
    BY <1>1, <1>5, OfPass DEF Placed
  <2>2. PICK l \in Passes : l = Block(e, TRUE)
    BY <1>1, <2>1, BlockSound
  <2>3. l.pc \notin {"install", "wipe"} /\ (l.pc # "idle" => PassOK(l))
    BY <1>1, <2>1, <2>2, BlockSound
  <2> QED
    BY <1>3, <1>5, <2>2, <2>3
<1>6. CASE ex[e].pc \in CkSteps /\ Becomes(e, LeaveFailed(e))
  <2>1. PICK l \in Passes : l = LeaveFailed(e)
    BY <1>6, LeaveFailedSound
  <2>2. l.pc \notin {"install", "wipe"} /\ (l.pc # "idle" => PassOK(l))
    BY <1>6, <2>1, LeaveFailedSound
  <2> QED
    BY <1>3, <1>6, <2>1, <2>2
<1>7. CASE ex[e].pc = "finish" /\ Becomes(e, Goto(e, "awaitInstalled"))
  <2>1. ex[e].view.phase = "AwaitingInstalled"
    BY <1>1, <1>7, OfPass DEF Placed
  <2>2. "awaitInstalled" \in PassSteps /\ "awaitInstalled" \notin Special
        /\ Placed("awaitInstalled", "AwaitingInstalled")
    BY Places DEF Special, CkSteps
  <2>3. PICK l \in Passes : l = Goto(e, "awaitInstalled")
    BY <1>1, <2>1, <2>2, GotoSound
  <2>4. l.pc = "awaitInstalled" /\ (l.pc # "idle" => PassOK(l))
    BY <1>1, <2>1, <2>2, <2>3, GotoSound
  <2> QED
    BY <1>3, <1>7, <2>3, <2>4
<1>8. CASE Becomes(e, Raise(e, "ProvisioningBlocked"))
  <2>1. PICK l \in Passes : l = Raise(e, "ProvisioningBlocked")
    BY <1>1, Blocked, RaiseSound
  <2>2. l.pc = "failed" /\ PassOK(l)
    BY <1>1, <2>1, Blocked, RaiseSound
  <2> QED
    BY <1>3, <1>8, <2>1, <2>2
<1>9. CASE Crash(e)
  BY <1>4, <1>9 DEF Crash
<1>10. CASE StepFails(e)
  <2>1. CASE ex[e].pc \in CleanupSteps
    BY <1>5, <1>10, <2>1 DEF StepFails, CleanupSteps
  <2>2. CASE ex[e].pc \in CkSteps
    BY <1>6, <1>10, <2>2 DEF StepFails, CkSteps, CleanupSteps
  <2>3. CASE ex[e].pc = "release"
    BY <1>4, <1>10, <2>3 DEF StepFails, CleanupSteps
  <2>4. CASE ex[e].pc = "finish"
    BY <1>7, <1>10, <2>4 DEF StepFails, CleanupSteps
  <2>5. CASE ex[e].pc \notin CleanupSteps \cup CkSteps \cup {"release", "finish"}
    BY <1>8, <1>10, <2>5 DEF StepFails, CkSteps
  <2> QED
    BY <2>1, <2>2, <2>3, <2>4, <2>5
<1> QED
  BY <1>9, <1>10

\* A run comes into being with the reservation of a free Server.
LEMMA CreateRunSound ==
  ASSUME Inv, NEW r \in Run, CreateRun(r)
  PROVE  Inv'
<1>1. /\ run[r].phase = "Absent" /\ activeRun = NoRun /\ activeRun' = r
      /\ UNCHANGED <<lastRun, paused, spec, network, node, erasures, ex, faults>>
      /\ run' = [run EXCEPT ![r].phase = "Pending"]
  BY DEF CreateRun, operatorVars
<1>2. run \in [Run -> Runs] /\ run[r] \in Runs /\ RunOK(r) /\ NoRun # r
  BY ConstantsAssumption DEF Inv, Typed
<1>3. /\ run' \in [Run -> Runs] /\ run'[r].phase = "Pending"
      /\ \A s \in Run : s # r => run'[s] = run[s]
  <2>1. [run[r] EXCEPT !.phase = "Pending"] \in Runs
        /\ [run[r] EXCEPT !.phase = "Pending"].phase = "Pending"
    BY <1>2 DEF Runs, Phases
  <2>2. run' = [run EXCEPT ![r] = [run[r] EXCEPT !.phase = "Pending"]]
    BY <1>1, <1>2
  <2> QED
    BY <1>2, <2>1, <2>2
<1>4. Typed'
  BY <1>1, <1>3 DEF Inv, Typed
<1>5. ASSUME NEW f \in Executor PROVE PassOK(ex[f])'
  <2>1. PICK k : k = ex[f] /\ ex'[f] = k /\ PassOK(k)
    BY <1>1 DEF Inv
  <2>2. k.pc # "idle" => k.run \in Run /\ k.run # r
    BY <1>1, <2>1 DEF PassOK, Tracks
  <2>3. PassOK(k)'
    BY <1>1, <1>3, <2>1, <2>2, ReservationKeeps
  <2> QED
    BY <2>1, <2>3
<1>6. OneEraser'
  BY <1>1 DEF Inv, OneEraser
<1>7. erasures[r] = 0 /\ node.marker # r
  BY <1>1, <1>2 DEF RunOK, Early
<1>8. RunOK(r)'
  BY <1>1, <1>2, <1>3, <1>7 DEF RunOK, ACTIVE
<1>9. ASSUME NEW s \in Run, s # r PROVE RunOK(s)'
  <2>1. RunOK(s) /\ NoRun # s
    BY ConstantsAssumption DEF Inv
  <2> QED
    BY <1>1, <1>3, <1>9, <2>1 DEF RunOK, Installed
<1>10. KeyOK' /\ ErasedOK' /\ DiskIsAccounted'
  BY <1>1, <1>3, ConstantsAssumption DEF Inv, KeyOK, ErasedOK, DiskIsAccounted
<1> QED
  BY <1>4, <1>5, <1>6, <1>8, <1>9, <1>10 DEF Inv

\* Steps of the node and of the cluster's people.
LEMMA EnvironmentSound ==
  ASSUME Inv, UNCHANGED <<run, serverVars, erasures, ex>>, paused' \in BOOLEAN,
         spec' \in {0, 1}, network' \in BOOLEAN, faults' \in Nat,
         node' \in Nodes, node'.disk = node.disk, node'.marker = node.marker, KeyOK'
  PROVE  Inv'
<1>1. UNCHANGED <<run, activeRun, lastRun, erasures, ex>>
      /\ UNCHANGED <<run, activeRun, erasures>> /\ UNCHANGED <<run, activeRun, lastRun, erasures>>
  BY DEF serverVars
<1>2. Typed'
  BY <1>1 DEF Inv, Typed
<1>3. ASSUME NEW f \in Executor PROVE PassOK(ex[f])'
  <2>1. PICK k : k = ex[f] /\ ex'[f] = k /\ PassOK(k)
    BY <1>1 DEF Inv
  <2>2. PassOK(k)'
    BY <1>1, <2>1, PassStays
  <2> QED
    BY <2>1, <2>2
<1>4. OneEraser'
  BY <1>1 DEF Inv, OneEraser
<1>5. \A r \in Run : RunOK(r)'
  BY <1>1, RunStays DEF Inv
<1>6. ErasedOK' /\ DiskIsAccounted'
  BY <1>1 DEF Inv, ErasedOK, DiskIsAccounted
<1> QED
  BY <1>2, <1>3, <1>4, <1>5, <1>6 DEF Inv

\* A new session has a new number and a key of its own or the managed one, or cannot
\* be reached; the disk is not its concern.
LEMMA Sessions ==
  ASSUME Inv, node.bootID < MaxBoots, NEW b, NEW m \in NextSession(b)
  PROVE  /\ m \in Nodes /\ m.disk = node.disk /\ m.marker = node.marker
         /\ m.bootID # node.bootID
         /\ m.key \in {ManagedKey, Unreachable} \/ (m.key = m.bootID /\ m.live)
<1>1. node \in Nodes /\ node.bootID \in 1 .. MaxBoots /\ MaxBoots \in Nat
  BY ConstantsAssumption DEF Inv, Typed, Nodes
<1>2. PICK n : n = node.bootID + 1
  OBVIOUS
<1>3. n \in 1 .. MaxBoots /\ n # node.bootID
  BY <1>1, <1>2
<1>4. n \in {Unreachable} \cup 0 .. MaxBoots /\ ManagedKey \in {Unreachable} \cup 0 .. MaxBoots
  BY <1>1, <1>3 DEF ManagedKey
<1> DEFINE base == [node EXCEPT !.bootID = n, !.kexec = FALSE, !.mounted = FALSE, !.going = "no"]
           liveImage == [base EXCEPT !.live = TRUE, !.key = n]
           oneShot == [liveImage EXCEPT !.nextEntry = FALSE]
           fromDisk == [base EXCEPT !.live = FALSE, !.key = ManagedKey]
           dead == [base EXCEPT !.live = FALSE, !.key = Unreachable]
<1>5. m \in {liveImage, oneShot, fromDisk, dead}
  <2>1. node.disk \in {"original", "erased", "installed"}
    BY <1>1 DEF Nodes
  <2>2. CASE node.disk = "original"
    BY <1>2, <2>2 DEF NextSession
  <2>3. CASE node.disk = "erased"
    BY <1>2, <2>3 DEF NextSession
  <2>4. CASE node.disk = "installed"
    BY <1>2, <2>4 DEF NextSession
  <2> QED
    BY <2>1, <2>2, <2>3, <2>4
<1>6. base \in Nodes /\ base.disk = node.disk /\ base.marker = node.marker /\ base.bootID = n
  BY <1>1, <1>3 DEF Nodes
<1> HIDE DEF base
<1>7. /\ liveImage \in Nodes /\ liveImage.disk = node.disk /\ liveImage.marker = node.marker
      /\ liveImage.bootID = n /\ liveImage.key = n /\ liveImage.live
  BY <1>4, <1>6 DEF Nodes
<1>8. /\ fromDisk \in Nodes /\ fromDisk.disk = node.disk /\ fromDisk.marker = node.marker
      /\ fromDisk.bootID = n /\ fromDisk.key = ManagedKey
  BY <1>4, <1>6 DEF Nodes
<1>9. /\ dead \in Nodes /\ dead.disk = node.disk /\ dead.marker = node.marker
      /\ dead.bootID = n /\ dead.key = Unreachable
  BY <1>6 DEF Nodes
<1> HIDE DEF liveImage, fromDisk, dead
<1>10. /\ oneShot \in Nodes /\ oneShot.disk = node.disk /\ oneShot.marker = node.marker
       /\ oneShot.bootID = n /\ oneShot.key = n /\ oneShot.live
  BY <1>7 DEF Nodes
<1> HIDE DEF oneShot
<1> QED
  BY <1>3, <1>5, <1>7, <1>8, <1>9, <1>10

\* Boots, asked for or not.
LEMMA NodeSound ==
  ASSUME Inv, NodeBoots \/ PowerLoss
  PROVE  Inv'
<1>1. /\ node.bootID < MaxBoots /\ \E b : node' \in NextSession(b)
      /\ UNCHANGED <<run, serverVars, erasures, ex>> /\ UNCHANGED operatorVars
  BY DEF NodeBoots, PowerLoss
<1>2. faults' \in Nat
  BY FaultTyped DEF NodeBoots, PowerLoss, Inv, Typed
<1>3. node' \in Nodes /\ node'.disk = node.disk /\ node'.marker = node.marker
      /\ (node'.key \in {ManagedKey, Unreachable} \/ (node'.key = node'.bootID /\ node'.live))
  BY <1>1, Sessions
<1>4. KeyOK'
  BY <1>3 DEF KeyOK
<1>5. paused' \in BOOLEAN /\ spec' \in {0, 1} /\ network' \in BOOLEAN
  BY <1>1 DEF operatorVars, Inv, Typed
<1> QED
  BY <1>1, <1>2, <1>3, <1>4, <1>5, EnvironmentSound

\* Pauses, edits and addresses.
LEMMA PeopleSound ==
  ASSUME Inv, Pause \/ Unpause \/ Edit \/ LoseAddress \/ ReportAddress
  PROVE  Inv'
<1>1. UNCHANGED <<run, serverVars, erasures, ex>> /\ UNCHANGED node
  BY DEF Pause, Unpause, Edit, LoseAddress, ReportAddress
<1>2. faults' \in Nat
  BY FaultTyped DEF Pause, Unpause, Edit, LoseAddress, ReportAddress, Inv, Typed
<1>3. paused' \in BOOLEAN /\ spec' \in {0, 1} /\ network' \in BOOLEAN
  <2>1. paused \in BOOLEAN /\ spec \in {0, 1} /\ network \in BOOLEAN
    BY DEF Inv, Typed
  <2>2. \/ spec' = 1 - spec /\ UNCHANGED <<paused, network>>
        \/ paused' \in {TRUE, FALSE} /\ UNCHANGED <<spec, network>>
        \/ network' \in {TRUE, FALSE} /\ UNCHANGED <<paused, spec>>
    BY DEF Pause, Unpause, Edit, LoseAddress, ReportAddress
  <2>3. spec' \in {0, 1}
    <3>1. spec' = 1 - spec \/ spec' = spec
      BY <2>2
    <3> QED
      BY <2>1, <3>1
  <2> QED
    BY <2>1, <2>2, <2>3
<1>4. node' \in Nodes /\ node'.disk = node.disk /\ node'.marker = node.marker /\ KeyOK'
  BY <1>1 DEF Inv, Typed, KeyOK
<1> QED
  BY <1>1, <1>2, <1>3, <1>4, EnvironmentSound

-----------------------------------------------------------------------------
(* The theorems.                                                           *)

\* The invariant holds at the start.
LEMMA InitInv == Init => Inv
<1> SUFFICES ASSUME Init PROVE Inv
  OBVIOUS
<1>1. NewRun \in Runs /\ NewRun.phase = "Absent" /\ NewRun.maintenance = FALSE
  BY ConstantsAssumption DEF NewRun, Runs, Phases, NoBoot
<1>2. /\ run = [r \in Run |-> NewRun] /\ activeRun = NoRun /\ lastRun = NoRun
      /\ erasures = [r \in Run |-> 0] /\ ex = [e \in Executor |-> Idle]
  BY DEF Init
<1>3. /\ node \in Nodes /\ node.key = ManagedKey /\ node.disk = "original" /\ node.marker = NoRun
  <2>1. PICK live \in BOOLEAN :
          node = [bootID |-> 1, live |-> live, key |-> ManagedKey, nextEntry |-> FALSE,
                  kexec |-> FALSE, going |-> "no", disk |-> "original", marker |-> NoRun,
                  mounted |-> FALSE]
    BY DEF Init
  <2>2. 1 \in 1 .. MaxBoots /\ ManagedKey \in {Unreachable} \cup 0 .. MaxBoots
    BY ConstantsAssumption DEF ManagedKey
  <2> QED
    BY <2>1, <2>2 DEF Nodes
<1>4. Typed
  <2>1. run \in [Run -> Runs] /\ ex \in [Executor -> Passes] /\ erasures \in [Run -> Nat]
    BY <1>1, <1>2, IdleSound
  <2> QED
    BY <1>2, <1>3, <2>1 DEF Typed, Init
<1>5. \A e \in Executor : PassOK(ex[e]) /\ ex[e].pc = "idle"
  BY <1>2, IdleSound DEF PassOK
<1>6. OneEraser
  BY <1>5 DEF OneEraser
<1>7. ASSUME NEW r \in Run PROVE RunOK(r)
  <2>1. run[r].phase = "Absent" /\ run[r].maintenance = FALSE /\ erasures[r] = 0 /\ NoRun # r
    BY <1>1, <1>2, ConstantsAssumption
  <2> QED
    BY <1>2, <1>3, <2>1 DEF RunOK, ACTIVE
<1>8. KeyOK /\ ErasedOK /\ DiskIsAccounted
  BY <1>2, <1>3 DEF KeyOK, ErasedOK, DiskIsAccounted
<1> QED
  BY <1>4, <1>5, <1>6, <1>7, <1>8 DEF Inv

\* Nothing happens.
LEMMA StutterSound ==
  ASSUME Inv, UNCHANGED vars
  PROVE  Inv'
<1>1. UNCHANGED <<run, serverVars, erasures, ex>> /\ UNCHANGED <<paused, spec, network, faults, node>>
  BY DEF vars, operatorVars
<1>2. /\ paused' \in BOOLEAN /\ spec' \in {0, 1} /\ network' \in BOOLEAN /\ faults' \in Nat
      /\ node' \in Nodes /\ node'.disk = node.disk /\ node'.marker = node.marker /\ KeyOK'
  BY <1>1 DEF Inv, Typed, KeyOK
<1> QED
  BY <1>1, <1>2, EnvironmentSound

\* Every step of a pass keeps the invariant.
LEMMA PassSound ==
  ASSUME Inv, NEW e \in Executor, Pass(e)
  PROVE  Inv'
BY BeginSound, PrepareSound, ClaimSound, ResumeSound, CkReadSound, CkPatchSound, BootSound,
   StagesSound, RefreshCheckSound, ChecksSound, AwaitLiveSound, FirstContactSound,
   AwaitTimeoutSound, LiveRecheckSound, EnrollSound, EnrollPlaySound, EnrollProbeSound,
   InstallCheckSound, InstallSound, WipeSound, InstallDoneSound, FinishSound, AwaitInstalledSound,
   PostSound, ReleaseSound, FailedPendingSound, FailedSound, CleanupSound DEF Pass

\* Every step of the system keeps the invariant.
LEMMA NextInv ==
  ASSUME Inv, [Next]_vars
  PROVE  Inv'
BY PassSound, CkPatchSound, ClaimSound, StepFailsSound, CreateRunSound, NodeSound, PeopleSound,
   StutterSound DEF Next

\* The inductive invariant of the provisioning operator holds in every behaviour.
THEOREM Invariance == Spec => []Inv
BY InitInv, NextInv, PTL DEF Spec

\* The variables keep their types and only an idle pass is bound to no run (bind_run).
THEOREM TypeCorrect == Spec => []TypeOK
<1>1. ASSUME Inv PROVE TypeOK
  <2>1. ASSUME NEW e \in Executor
        PROVE  /\ ex[e].pc \in PassSteps /\ ex[e].view \in Runs
               /\ (ex[e].pc = "idle") <=> (ex[e].run = NoRun)
               /\ ex[e].run \in Run \cup {NoRun}
    BY <1>1, <2>1, ConstantsAssumption DEF Inv, Typed, PassOK, Passes
  <2> QED
    BY <1>1, <2>1 DEF Inv, Typed, TypeOK
<1> QED
  BY <1>1, Invariance, PTL

\* "Never automatically rewipe": whatever passes overlap, crash or lose an answer, a run
\* erases the disk at most once (install_live, the Installing checkpoint before the erase).
THEOREM AtMostOneErase == Spec => []EraseOnce
<1>1. Inv => EraseOnce
  BY DEF Inv, RunOK, EraseOnce
<1> QED
  BY <1>1, Invariance, PTL

\* A disk that a run has written is never given up before the run has succeeded
\* (handle_failure keeps maintenance, release_run refuses).
THEOREM WrittenDiskIsReserved == Spec => []DiskIsAccounted
<1>1. Inv => DiskIsAccounted
  BY DEF Inv
<1> QED
  BY <1>1, Invariance, PTL

-----------------------------------------------------------------------------
(* What a step may do.                                                     *)

\* Only checkpoints, the claim and the preflight message write a run.
LEMMA Writers ==
  ASSUME NEW e, Pass(e)
  PROVE  UNCHANGED run \/ CkPatch(e) \/ Claim(e) \/ FailedPending(e)
BY DEF Pass, Begin, Prepare, Resume, CkRead, Boot, RefreshPrepare, RefreshCheck, KexecCheck,
       Kexec, ArmCheck, Arm, RebootCheck, Reboot, AwaitLive, FirstContact, AwaitTimeout,
       LiveRecheck, Enroll, EnrollPlay, EnrollProbe, InstallCheck, Install, Wipe, Erase,
       InstallDone, Finish, FinalCheck, FinalReboot, AwaitInstalled, Verify, PostCheck, Post, Release, Failed,
       Cleanup, ClearKexec, ClearNext, RecheckNext, Guarded, Stage, OnNode, Local

\* Only Wipe erases.
LEMMA Erasers ==
  ASSUME NEW e, Pass(e)
  PROVE  UNCHANGED erasures \/ Wipe(e)
BY DEF Pass, Begin, Prepare, Claim, Resume, CkRead, CkPatch, Boot, RefreshPrepare, RefreshCheck,
       KexecCheck, Kexec, ArmCheck, Arm, RebootCheck, Reboot, AwaitLive, FirstContact,
       AwaitTimeout, LiveRecheck, Enroll, EnrollPlay, EnrollProbe, InstallCheck, Install,
       InstallDone, Finish, FinalCheck, FinalReboot, AwaitInstalled, Verify, PostCheck, Post,
       Release, FailedPending, Failed, Cleanup, ClearKexec, ClearNext, RecheckNext, Guarded, Stage, OnNode,
       Local, Store

\* Only EnrollPlay changes the key within a session, and no pass changes the session.
LEMMA KeyWriters ==
  ASSUME NEW e, Pass(e), node \in Nodes
  PROVE  /\ node'.key = node.key \/ EnrollPlay(e)
         /\ node'.bootID = node.bootID /\ node'.live = node.live
<1>1. CASE \/ RefreshPrepare(e) \/ Kexec(e) \/ Arm(e) \/ Reboot(e) \/ Wipe(e) \/ InstallDone(e)
           \/ FinalReboot(e) \/ ClearKexec(e) \/ ClearNext(e)
  <2>1. \/ UNCHANGED node
        \/ node' \in {[node EXCEPT !.kexec = TRUE], [node EXCEPT !.kexec = FALSE],
                      [node EXCEPT !.going = "kexec"], [node EXCEPT !.going = "reboot"],
                      [node EXCEPT !.nextEntry = TRUE], [node EXCEPT !.nextEntry = FALSE],
                      [node EXCEPT !.disk = "installed"],
                      [node EXCEPT !.disk = "erased", !.marker = ex[e].run, !.mounted = TRUE,
                                   !.nextEntry = FALSE]}
    BY <1>1 DEF RefreshPrepare, Kexec, Arm, Reboot, Wipe, Erase, InstallDone, FinalReboot,
                ClearKexec, ClearNext, Stage, OnNode, Local
  <2> QED
    BY <2>1 DEF Nodes
<1>2. CASE ~(\/ RefreshPrepare(e) \/ Kexec(e) \/ Arm(e) \/ Reboot(e) \/ Wipe(e) \/ InstallDone(e)
             \/ FinalReboot(e) \/ ClearKexec(e) \/ ClearNext(e))
  <2>1. UNCHANGED node \/ EnrollPlay(e)
    BY <1>2 DEF Pass, Begin, Prepare, Claim, Resume, CkRead, CkPatch, Boot, RefreshCheck,
       KexecCheck, ArmCheck, RebootCheck, AwaitLive, FirstContact, AwaitTimeout, LiveRecheck,
       Enroll, EnrollProbe, InstallCheck, Install, Finish, FinalCheck, AwaitInstalled, Verify,
       PostCheck, Post, Release, FailedPending, Failed, Cleanup, RecheckNext, Guarded, Local, Store
  <2>2. EnrollPlay(e) => UNCHANGED node \/ node' = [node EXCEPT !.key = ManagedKey]
    BY DEF EnrollPlay, OnNode, Local
  <2> QED
    BY <2>1, <2>2 DEF Nodes
<1> QED
  BY <1>1, <1>2

\* A status write follows the phase graph.
LEMMA StoreOneWay ==
  ASSUME Inv, NEW e \in Executor, ex[e].pc # "idle", NEW p, NEW l, Store(e, p, l),
         WriteOK(ex[e].run, Merge(run[ex[e].run], p)), NEW r \in Run,
         run'[r].phase # run[r].phase
  PROVE  run'[r].phase \in Successors(run[r].phase)
<1>1. /\ run' = [run EXCEPT ![ex[e].run] = Merge(run[ex[e].run], p)]
      /\ ex[e].run \in Run /\ run \in [Run -> Runs]
  BY OfPass DEF Store
<1>2. r = ex[e].run
  BY <1>1
<1> QED
  BY <1>1, <1>2 DEF WriteOK

\* A step that changes a phase follows the graph.
LEMMA OneWayStep ==
  ASSUME Inv, [Next]_vars, NEW r \in Run, run'[r].phase # run[r].phase
  PROVE  run'[r].phase \in Successors(run[r].phase)
<1>1. CASE \E s \in Run : CreateRun(s)
  <2>1. PICK s \in Run : CreateRun(s)
    BY <1>1
  <2>2. run[s] \in Runs /\ run \in [Run -> Runs]
    BY DEF Inv, Typed
  <2>3. r = s /\ run'[r].phase = "Pending" /\ run[r].phase = "Absent"
    BY <2>1, <2>2 DEF CreateRun, Runs
  <2> QED
    BY <2>3 DEF Successors
<1>2. ASSUME NEW e \in Executor, CkPatch(e) \/ CkPatchLost(e)
      PROVE  run'[r].phase \in Successors(run[r].phase)
  <2>1. ex[e].pc \in CkSteps /\ ex[e].pc # "idle"
    BY <1>2 DEF CkPatch, CkPatchLost, At, CkSteps
  <2>2. ex[e].fresh /\ \E l : Store(e, ex[e].patch, l)
    BY <1>2 DEF CkPatch, CkPatchLost, Local
  <2>3. WriteOK(ex[e].run, Merge(run[ex[e].run], ex[e].patch))
    BY <2>1, <2>2, CheckpointWrites
  <2> QED
    BY <2>1, <2>2, <2>3, StoreOneWay
<1>3. ASSUME NEW e \in Executor, Claim(e) \/ ClaimLost(e)
      PROVE  run'[r].phase \in Successors(run[r].phase)
  <2>1. ex[e].pc = "claim" /\ ex[e].pc # "idle"
    BY <1>3 DEF Claim, ClaimLost, At
  <2>2. ex[e].fresh /\ \E l : Store(e, ClaimPatch(e), l)
    BY <1>3 DEF Claim, ClaimLost, Local
  <2>3. WriteOK(ex[e].run, Merge(run[ex[e].run], ClaimPatch(e)))
    BY <2>1, <2>2, ClaimWrites
  <2> QED
    BY <2>1, <2>2, <2>3, StoreOneWay
<1>4. ASSUME NEW e \in Executor, FailedPending(e)
      PROVE  FALSE
  <2> DEFINE p == [phase |-> "Pending"]
             q == run[ex[e].run]
  <2>1. /\ ex[e].pc # "idle" /\ ex[e].view.phase = "Pending" /\ ex[e].fresh
        /\ run' = [run EXCEPT ![ex[e].run] = Merge(q, p)]
    BY <1>4 DEF FailedPending, At, Local, Store
  <2>2. q \in Runs /\ q.phase = "Pending" /\ run \in [Run -> Runs] /\ ex[e].run \in Run
    BY <2>1, OfPass DEF Tracks
  <2>3. Has(p, "phase") /\ p.phase = "Pending"
    BY DEF Has
  <2> HIDE DEF p
  <2>4. Merge(q, p).phase = "Pending"
    BY <2>2, <2>3, MergeFields
  <2> QED
    BY <2>1, <2>2, <2>4
<1>5. UNCHANGED run => FALSE
  OBVIOUS
<1>6. ASSUME NEW e \in Executor, Pass(e)
      PROVE  run'[r].phase \in Successors(run[r].phase)
  BY <1>2, <1>3, <1>4, <1>5, <1>6, Writers
<1>7. ASSUME NEW e \in Executor, StepFails(e) \/ Crash(e) PROVE UNCHANGED run
  BY <1>7 DEF StepFails, Crash
<1>8. ASSUME NodeBoots \/ PowerLoss \/ Pause \/ Unpause \/ Edit \/ LoseAddress \/ ReportAddress
      PROVE  UNCHANGED run
  BY <1>8 DEF NodeBoots, PowerLoss, Pause, Unpause, Edit, LoseAddress, ReportAddress
<1>9. UNCHANGED vars => UNCHANGED run
  BY DEF vars
<1> QED
  BY <1>1, <1>2, <1>3, <1>5, <1>6, <1>7, <1>8, <1>9 DEF Next

\* A stale or interrupted pass never takes a run back, out of a terminal phase, or from
\* the far side of the destructive stage to Blocked (checkpoint(), validate_attempt_checkpoint).
THEOREM PhasesGoOneWay == Spec => OneWay
<1> DEFINE Step == \A r \in Run : run'[r].phase # run[r].phase =>
                     run'[r].phase \in Successors(run[r].phase)
<1>1. ASSUME Inv, [Next]_vars PROVE [Step]_vars
  BY <1>1, OneWayStep
<1>2. Spec => [][Step]_vars
  BY <1>1, Invariance, PTL DEF Spec
<1> QED
  BY <1>2 DEF OneWay

-----------------------------------------------------------------------------
(* Between the attestation of the live session and the wipe (install.yml). *)

\* While a pass is about to wipe, a live node that answers with the managed key is in
\* the session the pass attested: no pass has facts of a later one, so none can give
\* the managed key to a later one.
Attested(l) ==
  /\ l.view.liveBootID # l.view.sourceBootID
  /\ l.view.liveBootID <= node.bootID
  /\ node.live /\ node.key = ManagedKey => node.bootID = l.view.liveBootID
  /\ \A x \in Executor : ex[x].facts.key <= l.view.liveBootID

SessionOK ==
  /\ \A x \in Executor : ex[x].facts.key <= node.bootID
  /\ \A e \in Executor : ex[e].pc = "wipe" => Attested(ex[e])

\* A pass is where it was as far as the wipe is concerned, with facts it had or with
\* facts of a node that answered with the managed key.
Same(l, k) == l.pc = "wipe" => k.pc = "wipe" /\ l.view = k.view
Facted(l, k) == l.facts.key \in {k.facts.key, NoKey, ManagedKey}

\* What a step of a pass leaves every pass with, when it neither reads the session that
\* answers nor attests it.
Plain == \A x \in Executor : Same(ex'[x], ex[x]) /\ Facted(ex'[x], ex[x])

\* A pass moves to a plain state.
LEMMA PlainMove ==
  ASSUME Inv, NEW e \in Executor, NEW l, Becomes(e, l), Same(l, ex[e]), Facted(l, ex[e])
  PROVE  Plain
<1>1. ex \in [Executor -> Passes]
  BY DEF Inv, Typed
<1>2. Idle.pc = "idle" /\ Idle.facts.key = NoKey
  BY DEF Idle, NoFacts
<1> QED
  BY <1>1, <1>2 DEF Becomes, Plain, Same, Facted

\* The states that the steps move to.
LEMMA PlainStates ==
  ASSUME Inv, NEW e \in Executor
  PROVE  /\ \A pc : pc # "wipe" => Goto(e, pc).pc # "wipe" /\ Facted(Goto(e, pc), ex[e])
         /\ \A reason : Raise(e, reason).pc # "wipe" /\ Facted(Raise(e, reason), ex[e])
         /\ \A p, d, f : /\ Checkpointing(e, p, d, f).pc # "wipe"
                         /\ Facted(Checkpointing(e, p, d, f), ex[e])
         /\ \A keep : Block(e, keep).pc # "wipe" /\ Facted(Block(e, keep), ex[e])
         /\ Idle.pc # "wipe" /\ Facted(Idle, ex[e])
<1>1. ex[e] \in Passes
  BY DEF Inv, Typed
<1>2. \A p, d, f : /\ Checkpointing(e, p, d, f).pc # "wipe"
                   /\ Facted(Checkpointing(e, p, d, f), ex[e])
  BY <1>1 DEF Checkpointing, Facted, Passes, Facts
<1>3. \A keep : Block(e, keep).pc # "wipe" /\ Facted(Block(e, keep), ex[e])
  BY <1>2 DEF Block
<1>4. Idle.pc # "wipe" /\ Facted(Idle, ex[e])
  BY DEF Idle, NoFacts, Facted
<1> QED
  BY <1>1, <1>2, <1>3, <1>4 DEF Goto, Raise, Facted, Passes, Facts

\* A local or guarded step to a plain state is plain.
LEMMA PlainLocal ==
  ASSUME Inv, NEW e \in Executor, NEW l, l.pc # "wipe", Facted(l, ex[e]),
         \/ Local(e, l)
         \/ \E m : OnNode(e, m, l)
         \/ \E p, n \in BOOLEAN : Guarded(e, p, n, l)
         \/ \E a, m : Stage(e, a, m, l)
  PROVE  Plain
<1>1. \A reason : Raise(e, reason).pc # "wipe" /\ Facted(Raise(e, reason), ex[e])
  BY PlainStates
<1>2. Becomes(e, l) \/ \E reason : Becomes(e, Raise(e, reason))
  BY DEF Local, OnNode, Guarded, Stage
<1>3. ASSUME NEW k, Becomes(e, k), k.pc # "wipe", Facted(k, ex[e]) PROVE Plain
  BY <1>3, PlainMove DEF Same
<1> QED
  BY <1>1, <1>2, <1>3

\* The steps before the live session.
LEMMA PlainFirst ==
  ASSUME Inv, NEW e \in Executor,
         \/ Prepare(e) \/ Boot(e) \/ RefreshPrepare(e) \/ RefreshCheck(e) \/ KexecCheck(e)
         \/ Kexec(e) \/ ArmCheck(e) \/ Arm(e) \/ RebootCheck(e) \/ Reboot(e)
  PROVE  Plain
<1>1. CASE Prepare(e)
  <2> DEFINE l == [Goto(e, "claim") EXCEPT !.facts = Probe]
  <2>1. CASE node.key = ManagedKey
    <3>1. ex[e] \in Passes
      BY DEF Inv, Typed
    <3>2. l.pc = "claim" /\ l.facts.key = ManagedKey
      BY <2>1, <3>1 DEF Goto, Probe, Passes
    <3>3. Local(e, l)
      BY <1>1, <2>1 DEF Prepare, Answers
    <3> QED
      BY <3>2, <3>3, PlainLocal DEF Facted
  <2>2. CASE node.key # ManagedKey
    <3>1. Local(e, Raise(e, "ProvisioningBlocked"))
      BY <1>1, <2>2 DEF Prepare, Answers
    <3> QED
      BY <3>1, PlainStates, PlainLocal
  <2> QED
    BY <2>1, <2>2
<1>2. CASE Boot(e)
  BY <1>2, PlainStates, PlainLocal DEF Boot, Checkpoint
<1>3. CASE RefreshPrepare(e)
  BY <1>3, PlainStates, PlainLocal DEF RefreshPrepare
<1>4. CASE RefreshCheck(e)
  BY <1>4, PlainStates, PlainLocal DEF RefreshCheck, Checkpoint
<1>5. CASE KexecCheck(e)
  BY <1>5, PlainStates, PlainLocal DEF KexecCheck
<1>6. CASE Kexec(e)
  BY <1>6, PlainStates, PlainLocal DEF Kexec, LiveEntry
<1>7. CASE ArmCheck(e)
  BY <1>7, PlainStates, PlainLocal DEF ArmCheck
<1>8. CASE Arm(e)
  BY <1>8, PlainStates, PlainLocal DEF Arm
<1>9. CASE RebootCheck(e)
  BY <1>9, PlainStates, PlainLocal DEF RebootCheck
<1>10. CASE Reboot(e)
  BY <1>10, PlainStates, PlainLocal DEF Reboot, LiveEntry
<1> QED
  BY <1>1, <1>2, <1>3, <1>4, <1>5, <1>6, <1>7, <1>8, <1>9, <1>10

\* The steps around the enrollment and the installation, but for the two that read
\* the session that answers and the one that attests it.
LEMMA PlainLive ==
  ASSUME Inv, NEW e \in Executor,
         \/ AwaitTimeout(e) \/ LiveRecheck(e) \/ Enroll(e) \/ EnrollPlay(e) \/ EnrollProbe(e)
         \/ InstallCheck(e) \/ Wipe(e) \/ InstallDone(e)
  PROVE  Plain
<1>1. CASE AwaitTimeout(e)
  BY <1>1, PlainStates, PlainLocal DEF AwaitTimeout
<1>2. CASE LiveRecheck(e)
  <2> DEFINE l == [Goto(e, "enroll") EXCEPT !.facts = Probe]
  <2>1. CASE Local(e, l) /\ node.key = ManagedKey
    <3>1. ex[e] \in Passes
      BY DEF Inv, Typed
    <3>2. l.pc = "enroll" /\ l.facts.key = ManagedKey
      BY <2>1, <3>1 DEF Goto, Probe, Passes
    <3> QED
      BY <2>1, <3>2, PlainLocal DEF Facted
  <2>2. CASE Local(e, Raise(e, "ProvisioningBlocked"))
    BY <2>2, PlainStates, PlainLocal
  <2> QED
    BY <1>2, <2>1, <2>2 DEF LiveRecheck, Answers
<1>3. CASE Enroll(e)
  BY <1>3, PlainStates, PlainLocal DEF Enroll
<1>4. CASE EnrollPlay(e)
  BY <1>4, PlainStates, PlainLocal DEF EnrollPlay
<1>5. CASE EnrollProbe(e)
  BY <1>5, PlainStates, PlainLocal DEF EnrollProbe, Checkpoint
<1>6. CASE InstallCheck(e)
  BY <1>6, PlainStates, PlainLocal DEF InstallCheck, Checkpoint
<1>7. CASE Wipe(e)
  <2>1. Becomes(e, Goto(e, "installing")) \/ Local(e, Raise(e, "ProvisioningBlocked"))
    BY <1>7 DEF Wipe
  <2> QED
    BY <2>1, PlainStates, PlainLocal, PlainMove DEF Same
<1>8. CASE InstallDone(e)
  BY <1>8, PlainStates, PlainLocal DEF InstallDone, Checkpoint
<1> QED
  BY <1>1, <1>2, <1>3, <1>4, <1>5, <1>6, <1>7, <1>8

\* The steps after the installation and those of the failure handler.
LEMMA PlainLast ==
  ASSUME Inv, NEW e \in Executor,
         \/ Finish(e) \/ FinalCheck(e) \/ FinalReboot(e) \/ AwaitInstalled(e) \/ Verify(e)
         \/ PostCheck(e) \/ Post(e) \/ Release(e) \/ Failed(e) \/ Cleanup(e) \/ ClearKexec(e)
         \/ ClearNext(e) \/ RecheckNext(e)
  PROVE  Plain
<1>1. CASE Finish(e)
  BY <1>1, PlainStates, PlainLocal DEF Finish
<1>2. CASE FinalCheck(e)
  BY <1>2, PlainStates, PlainLocal DEF FinalCheck
<1>3. CASE FinalReboot(e)
  BY <1>3, PlainStates, PlainLocal DEF FinalReboot
<1>4. CASE AwaitInstalled(e)
  <2> DEFINE here == [ex[e] EXCEPT !.view = run[ex[e].run]]
             there == [here EXCEPT !.pc = "ckRead", !.patch = [phase |-> "Verifying"],
                                   !.done = "verify", !.failed = "failed"]
  <2>1. ex[e] \in Passes /\ ex[e].pc = "awaitInstalled"
    BY <1>4 DEF AwaitInstalled, At, Inv, Typed
  <2>2. here.pc = "awaitInstalled" /\ Facted(here, ex[e])
    BY <2>1 DEF Facted, Passes, Facts
  <2>3. there.pc = "ckRead" /\ Facted(there, ex[e])
    BY <2>1 DEF Facted, Passes, Facts
  <2>4. \/ Guarded(e, TRUE, TRUE, here) \/ Guarded(e, TRUE, TRUE, there)
        \/ Guarded(e, TRUE, TRUE, Raise(e, "ProvisioningBlocked"))
    BY <1>4 DEF AwaitInstalled
  <2> QED
    BY <2>2, <2>3, <2>4, PlainStates, PlainLocal
<1>5. CASE Verify(e)
  BY <1>5, PlainStates, PlainLocal DEF Verify
<1>6. CASE PostCheck(e)
  BY <1>6, PlainStates, PlainLocal DEF PostCheck
<1>7. CASE Post(e)
  BY <1>7, PlainStates, PlainLocal DEF Post, Checkpoint
<1>8. CASE Release(e)
  <2>1. Becomes(e, Idle)
    BY <1>8 DEF Release, Local
  <2> QED
    BY <2>1, PlainStates, PlainMove DEF Same
<1>9. CASE Failed(e)
  BY <1>9, PlainStates, PlainLocal DEF Failed
<1>10. CASE Cleanup(e)
  BY <1>10, PlainStates, PlainLocal DEF Cleanup
<1>11. CASE ClearKexec(e)
  BY <1>11, PlainStates, PlainLocal DEF ClearKexec
<1>12. CASE ClearNext(e)
  BY <1>12, PlainStates, PlainLocal DEF ClearNext
<1>13. CASE RecheckNext(e)
  BY <1>13, PlainStates, PlainLocal DEF RecheckNext
<1> QED
  BY <1>1, <1>2, <1>3, <1>4, <1>5, <1>6, <1>7, <1>8, <1>9, <1>10, <1>11, <1>12, <1>13

\* A status write, by a pass that moves to a plain state: the others keep all but the
\* freshness of their revision.
LEMMA PlainStore ==
  ASSUME Inv, NEW e \in Executor, NEW p, NEW l, Store(e, p, l), l.pc # "wipe", Facted(l, ex[e])
  PROVE  Plain
<1>1. ex \in [Executor -> Passes]
  BY DEF Inv, Typed
<1>2. Idle.pc # "wipe" /\ Facted(Idle, ex[e])
  BY PlainStates
<1>3. ASSUME NEW x \in Executor PROVE Same(ex'[x], ex[x]) /\ Facted(ex'[x], ex[x])
  <2>1. CASE x = e
    <3>1. ex'[x] = IF l.pc = "idle" THEN Idle ELSE l
      BY <2>1 DEF Store
    <3> QED
      BY <1>2, <2>1, <3>1 DEF Same
  <2>2. CASE x # e
    <3>1. ex'[x] = ex[x] \/ ex'[x] = [ex[x] EXCEPT !.fresh = FALSE]
      BY <2>2 DEF Store
    <3>2. PICK k \in Passes : k = ex[x]
      BY <1>1
    <3> QED
      BY <3>1, <3>2 DEF Same, Facted, Passes, Facts
  <2> QED
    BY <2>1, <2>2
<1> QED
  BY <1>3 DEF Plain

\* The steps that begin a pass, write the run, or end what failed.
LEMMA PlainStart ==
  ASSUME Inv, NEW e \in Executor,
         \/ Begin(e) \/ Claim(e) \/ ClaimLost(e) \/ Resume(e) \/ CkRead(e) \/ CkPatch(e)
         \/ CkPatchLost(e) \/ FailedPending(e) \/ StepFails(e) \/ Crash(e)
  PROVE  Plain
<1>1. PICK k \in Passes : k = ex[e]
  BY DEF Inv, Typed
<1>2. k.pc \in CkSteps => k.done # "wipe" /\ k.failed # "wipe"
  BY <1>1, OfPass DEF PatchOK, CkSteps
<1>3. /\ LeaveFailed(e).pc = k.failed /\ Facted(LeaveFailed(e), ex[e])
      /\ LET m == [LeaveFailed(e) EXCEPT !.fresh = FALSE]
         IN m.pc = k.failed /\ Facted(m, ex[e])
  BY <1>1 DEF LeaveFailed, Facted, Passes, Facts
<1>4. CASE Begin(e)
  <2>1. \A r, pc : BindRun(r, pc).pc = pc /\ Facted(BindRun(r, pc), ex[e])
    BY DEF BindRun, Idle, Facted, NoFacts
  <2>2. ASSUME NEW r PROVE Dispatch(e, r).pc # "wipe" /\ Facted(Dispatch(e, r), ex[e])
    <3> DEFINE away == [BindRun(r, "failed") EXCEPT !.reason = "ManagementNetworkPending"]
               block == [BindRun(r, "ckRead") EXCEPT
                           !.patch = [phase |-> "Blocked", maintenance |-> TRUE],
                           !.failed = "failed"]
    <3>1. away.pc = "failed" /\ Facted(away, ex[e])
      BY DEF BindRun, Idle, Facted, NoFacts
    <3>2. block.pc = "ckRead" /\ Facted(block, ex[e])
      BY DEF BindRun, Idle, Facted, NoFacts
    <3>3. \/ Dispatch(e, r) = away \/ Dispatch(e, r) = block
          \/ Dispatch(e, r) = BindRun(r, "release") \/ Dispatch(e, r) = BindRun(r, "idle")
          \/ Dispatch(e, r) = BindRun(r, "prepare") \/ Dispatch(e, r) = BindRun(r, "resume")
      BY DEF Dispatch
    <3> QED
      <4>1. Dispatch(e, r) \in {away, block} => Dispatch(e, r).pc # "wipe" /\ Facted(Dispatch(e, r), ex[e])
        BY <3>1, <3>2
      <4>2. \A pc : pc # "wipe" /\ Dispatch(e, r) = BindRun(r, pc) =>
                     Dispatch(e, r).pc # "wipe" /\ Facted(Dispatch(e, r), ex[e])
        BY <2>1
      <4> QED
        BY <3>3, <4>1, <4>2
  <2> QED
    BY <1>4, <2>2, PlainLocal DEF Begin
<1>5. CASE Claim(e) \/ ClaimLost(e)
  <2> DEFINE go == [Goto(e, "resume") EXCEPT !.view = Merge(run[ex[e].run], ClaimPatch(e))]
             stop == [Raise(e, "ProvisioningBlocked") EXCEPT !.fresh = FALSE]
  <2>1. go.pc = "resume" /\ Facted(go, ex[e])
    BY <1>1 DEF Goto, Facted, Passes, Facts
  <2>2. stop.pc = "failed" /\ Facted(stop, ex[e])
    BY <1>1 DEF Raise, Facted, Passes, Facts
  <2>3. \/ Store(e, ClaimPatch(e), go) \/ Store(e, ClaimPatch(e), stop)
        \/ Local(e, Raise(e, "ProvisioningBlocked"))
    <3>1. CASE Claim(e)
      BY <3>1 DEF Claim
    <3>2. CASE ClaimLost(e)
      BY <3>2, Zenon DEF ClaimLost
    <3> QED
      BY <1>5, <3>1, <3>2
  <2> HIDE DEF go, stop
  <2> QED
    BY <2>1, <2>2, <2>3, PlainStates, PlainLocal, PlainStore
<1>6. CASE Resume(e)
  <2> DEFINE m == [Goto(e, StageOf(run[ex[e].run])) EXCEPT !.view = run[ex[e].run]]
  <2>1. StageOf(run[ex[e].run]) # "wipe"
    BY DEF StageOf, LiveEntry
  <2>2. m.pc # "wipe" /\ Facted(m, ex[e])
    BY <1>1, <2>1 DEF Goto, Facted, Passes, Facts
  <2>3. Local(e, m) \/ \E reason : Local(e, Raise(e, reason))
    BY <1>6 DEF Resume, Guarded
  <2> HIDE DEF m
  <2> QED
    BY <2>2, <2>3, PlainStates, PlainLocal
<1>7. CASE CkRead(e)
  <2> DEFINE m == [ex[e] EXCEPT !.pc = "ckPatch", !.fresh = TRUE]
  <2>1. m.pc = "ckPatch" /\ Facted(m, ex[e])
    BY <1>1 DEF Facted, Passes, Facts
  <2>2. k.failed # "wipe" /\ (Local(e, m) \/ Local(e, LeaveFailed(e)))
    BY <1>1, <1>2, <1>7 DEF CkRead, At, CkSteps
  <2> QED
    BY <1>3, <2>1, <2>2, PlainLocal
<1>8. CASE CkPatch(e) \/ CkPatchLost(e)
  <2> DEFINE next == [ex[e] EXCEPT !.pc = ex[e].done, !.view = Merge(run[ex[e].run], ex[e].patch),
                                   !.patch = NoPatch, !.done = "idle", !.failed = "idle"]
             lost == [LeaveFailed(e) EXCEPT !.fresh = FALSE]
  <2>1. k.pc = "ckPatch"
    <3>1. CASE CkPatch(e)
      BY <1>1, <3>1 DEF CkPatch, At
    <3>2. CASE CkPatchLost(e)
      BY <1>1, <3>2, Zenon DEF CkPatchLost, At
    <3> QED
      BY <1>8, <3>1, <3>2
  <2>2. k.done # "wipe" /\ k.failed # "wipe"
    BY <1>2, <2>1 DEF CkSteps
  <2>3. next.pc = k.done /\ Facted(next, ex[e])
    BY <1>1 DEF Facted, Passes, Facts
  <2>4. lost.pc = k.failed /\ Facted(lost, ex[e])
    BY <1>3
  <2>5. \/ Local(e, Goto(e, "ckRead")) \/ Local(e, LeaveFailed(e))
        \/ Store(e, ex[e].patch, next) \/ Store(e, ex[e].patch, lost)
    <3>1. CASE CkPatch(e)
      BY <3>1 DEF CkPatch
    <3>2. CASE CkPatchLost(e)
      BY <3>2, Zenon DEF CkPatchLost
    <3> QED
      BY <1>8, <3>1, <3>2
  <2> HIDE DEF next, lost
  <2> QED
    BY <1>3, <2>2, <2>3, <2>4, <2>5, PlainStates, PlainLocal, PlainStore
<1>9. CASE FailedPending(e)
  BY <1>9, PlainStates, PlainLocal, PlainStore DEF FailedPending
<1>10. CASE StepFails(e)
  <2>1. \/ Becomes(e, Block(e, TRUE)) \/ Becomes(e, Idle)
        \/ Becomes(e, LeaveFailed(e)) /\ ex[e].pc \in CkSteps
        \/ Becomes(e, Goto(e, "awaitInstalled"))
        \/ Becomes(e, Raise(e, "ProvisioningBlocked"))
    BY <1>10 DEF StepFails, CkSteps
  <2> QED
    BY <1>1, <1>2, <1>3, <2>1, PlainStates, PlainMove DEF Same
<1>11. CASE Crash(e)
  BY <1>11, PlainStates, PlainMove DEF Crash, Same
<1> QED
  BY <1>4, <1>5, <1>6, <1>7, <1>8, <1>9, <1>10, <1>11

\* Reading the session that answers: current() returned in the same round.
LEMMA Reading ==
  ASSUME Inv, NEW e \in Executor, AwaitLive(e) \/ FirstContact(e)
  PROVE  \/ Plain
         \/ /\ Current(e, FALSE, TRUE) /\ ex[e].pc = "awaitLive"
            /\ ex'[e].pc # "wipe" /\ ex'[e].facts.key \in {node.key, NoKey}
            /\ \A x \in Executor \ {e} : ex'[x] = ex[x]
<1>1. PICK k \in Passes : k = ex[e] /\ k.pc = "awaitLive" /\ ex \in [Executor -> Passes]
  BY DEF Inv, Typed, AwaitLive, FirstContact, At
<1>2. ASSUME NEW l, Becomes(e, l), Current(e, FALSE, TRUE), l.pc # "wipe", l.facts.key = node.key
      PROVE  /\ ex'[e].pc # "wipe" /\ ex'[e].facts.key \in {node.key, NoKey}
             /\ \A x \in Executor \ {e} : ex'[x] = ex[x]
  BY <1>1, <1>2 DEF Becomes, Idle, NoFacts
<1>3. CASE AwaitLive(e)
  <2> DEFINE stored == run[ex[e].run]
             met == [Goto(e, "enroll") EXCEPT !.view = stored, !.facts = Probe]
             here == [ex[e] EXCEPT !.view = stored]
  <2>1. met.pc # "wipe" /\ met.facts.key = node.key
    BY <1>1 DEF Goto, Probe, Passes
  <2>2. here.pc # "wipe" /\ Facted(here, ex[e])
    BY <1>1 DEF Facted, Passes, Facts
  <2>3. Guarded(e, FALSE, TRUE, met) \/ Guarded(e, FALSE, TRUE, here)
    BY <1>3 DEF AwaitLive
  <2>4. \/ Current(e, FALSE, TRUE) /\ Becomes(e, met)
        \/ \E reason : Local(e, Raise(e, reason))
        \/ Guarded(e, FALSE, TRUE, here)
    BY <2>3 DEF Guarded, Local
  <2> QED
    BY <1>1, <1>2, <2>1, <2>2, <2>4, PlainStates, PlainLocal
<1>4. CASE FirstContact(e)
  <2> DEFINE p == [phase |-> "AwaitingLive", bootstrapPublicKey |-> node.key]
             met == [Checkpointing(e, p, "enroll", "awaitLive") EXCEPT
                       !.view = run[ex[e].run], !.facts = Probe]
  <2>1. met.pc # "wipe" /\ met.facts.key = node.key
    BY <1>1 DEF Checkpointing, Probe, Passes
  <2>2. Current(e, FALSE, TRUE) /\ Becomes(e, met)
    BY <1>4 DEF FirstContact, Local
  <2> QED
    BY <1>1, <1>2, <2>1, <2>2
<1> QED
  BY <1>3, <1>4

\* A boot is a later session, and a live one has a key of its own.
LEMMA LaterSession ==
  ASSUME Inv, NEW b, NEW m \in NextSession(b)
  PROVE  m.bootID = node.bootID + 1 /\ (m.live => m.key = m.bootID)
<1>1. node \in Nodes
  BY DEF Inv, Typed
<1>2. PICK n : n = node.bootID + 1
  OBVIOUS
<1> DEFINE base == [node EXCEPT !.bootID = n, !.kexec = FALSE, !.mounted = FALSE, !.going = "no"]
           liveImage == [base EXCEPT !.live = TRUE, !.key = n]
           fromDisk == [base EXCEPT !.live = FALSE, !.key = ManagedKey]
           dead == [base EXCEPT !.live = FALSE, !.key = Unreachable]
<1>3. m \in {liveImage, [liveImage EXCEPT !.nextEntry = FALSE], fromDisk, dead}
  <2>1. \/ NextSession(b) = {liveImage} \/ NextSession(b) = {[liveImage EXCEPT !.nextEntry = FALSE]}
        \/ NextSession(b) = {fromDisk} \/ NextSession(b) = {fromDisk, dead}
        \/ NextSession(b) = {dead}
    BY <1>1, <1>2 DEF NextSession, Nodes
  <2> QED
    BY <2>1
<1>4. /\ liveImage.bootID = n /\ liveImage.key = n
      /\ [liveImage EXCEPT !.nextEntry = FALSE].bootID = n
      /\ [liveImage EXCEPT !.nextEntry = FALSE].key = n
      /\ fromDisk.bootID = n /\ ~fromDisk.live /\ dead.bootID = n /\ ~dead.live
  BY <1>1 DEF Nodes
<1> QED
  BY <1>2, <1>3, <1>4

\* The session stays and so does its key: what was attested stands.
LEMMA SessionKept ==
  ASSUME Inv, SessionOK, Plain,
         node'.bootID = node.bootID, node'.live = node.live, node'.key = node.key
  PROVE  SessionOK'
<1>1. /\ node.bootID \in Nat
      /\ \A x \in Executor : ex[x].view.liveBootID \in Nat /\ ex[x].facts.key \in Int
  BY ConstantsAssumption DEF Inv, Typed, Nodes, Passes, Runs, Facts, Keys, Boots, Unreachable, NoKey
<1>2. ASSUME NEW x \in Executor, NEW n \in Nat, ex[x].facts.key <= n PROVE ex'[x].facts.key <= n
  BY <1>1, <1>2 DEF Plain, Facted, NoKey, ManagedKey
<1>3. ASSUME NEW e \in Executor, ex'[e].pc = "wipe" PROVE Attested(ex[e])'
  <2>1. ex[e].pc = "wipe" /\ ex'[e].view = ex[e].view
    BY <1>3 DEF Plain, Same
  <2>2. Attested(ex[e])
    BY <2>1 DEF SessionOK
  <2> QED
    BY <1>1, <1>2, <2>1, <2>2 DEF Attested
<1> QED
  BY <1>1, <1>2, <1>3 DEF SessionOK

\* The managed key reaches only the session of the facts or one that has it.
LEMMA SessionEnroll ==
  ASSUME Inv, SessionOK, NEW e \in Executor, EnrollPlay(e)
  PROVE  SessionOK'
<1>1. Plain
  BY PlainLive
<1>2. /\ node.bootID \in Nat
      /\ \A x \in Executor : ex[x].view.liveBootID \in Nat /\ ex[x].facts.key \in Int
  BY ConstantsAssumption DEF Inv, Typed, Nodes, Passes, Runs, Facts, Keys, Boots, Unreachable, NoKey
<1>3. node \in Nodes
  BY DEF Inv, Typed
<1>4. CASE UNCHANGED node \/ node.key = ManagedKey
  <2>1. UNCHANGED node \/ node' = [node EXCEPT !.key = ManagedKey]
    BY DEF EnrollPlay, OnNode, Local
  <2> QED
    BY <1>1, <1>3, <1>4, <2>1, SessionKept DEF Nodes
<1>5. CASE node.key # ManagedKey /\ ~UNCHANGED node
  <2>1. /\ ex[e].pc = "enrollPlay" /\ node.key = ex[e].facts.key
        /\ node' = [node EXCEPT !.key = ManagedKey]
    BY <1>5 DEF EnrollPlay, At, Answers, OnNode, Local
  <2>2. ex[e].facts.key \in {ManagedKey, ex[e].facts.bootID} /\ ex[e].facts.bootID \in Nat
    BY <2>1, OfPass, ConstantsAssumption DEF EnrollOK, MayEnroll, Passes, Facts, Boots
  <2>3. node.key = node.bootID
    BY <1>5, <2>1, <2>2 DEF Inv, KeyOK, Unreachable
  <2>4. ASSUME NEW f \in Executor, ex[f].pc = "wipe" PROVE node.bootID = ex[f].view.liveBootID
    <3>1. Attested(ex[f])
      BY <2>4 DEF SessionOK
    <3>2. /\ ex[f].view.liveBootID <= node.bootID
          /\ ex[e].facts.key <= ex[f].view.liveBootID
      BY <3>1 DEF Attested
    <3>3. ex[f].view.liveBootID \in Nat /\ ex[e].facts.key = node.bootID
      BY <1>2, <2>1, <2>3
    <3> QED
      BY <1>2, <3>2, <3>3
  <2>5. node'.bootID = node.bootID /\ node'.live = node.live
    BY <1>3, <2>1 DEF Nodes
  <2>6. ASSUME NEW x \in Executor, NEW n \in Nat, ex[x].facts.key <= n PROVE ex'[x].facts.key <= n
    BY <1>1, <1>2, <2>6 DEF Plain, Facted, NoKey, ManagedKey
  <2>7. ASSUME NEW f \in Executor, ex'[f].pc = "wipe" PROVE Attested(ex[f])'
    <3>1. ex[f].pc = "wipe" /\ ex'[f].view = ex[f].view
      BY <1>1, <2>7 DEF Plain, Same
    <3>2. Attested(ex[f]) /\ node.bootID = ex[f].view.liveBootID
      BY <2>4, <3>1 DEF SessionOK
    <3> QED
      BY <1>2, <2>5, <2>6, <3>1, <3>2 DEF Attested
  <2> QED
    BY <1>2, <2>5, <2>6, <2>7 DEF SessionOK
<1> QED
  BY <1>4, <1>5

\* Who reads the session that answers finds the run awaiting its live session, so
\* nobody is about to wipe.
LEMMA SessionRead ==
  ASSUME Inv, SessionOK, NEW e \in Executor, AwaitLive(e) \/ FirstContact(e)
  PROVE  SessionOK'
<1>1. UNCHANGED node
  BY DEF AwaitLive, FirstContact, Guarded, Local
<1>2. CASE Plain
  BY <1>1, <1>2, SessionKept
<1>3. CASE /\ Current(e, FALSE, TRUE) /\ ex[e].pc = "awaitLive"
           /\ ex'[e].pc # "wipe" /\ ex'[e].facts.key \in {node.key, NoKey}
           /\ \A x \in Executor \ {e} : ex'[x] = ex[x]
  <2>1. activeRun = ex[e].run /\ run[ex[e].run].phase = "AwaitingLive"
    BY <1>3, OfPass DEF Current, Unchanged, Placed, LiveSteps
  <2>2. ASSUME NEW f \in Executor, ex[f].pc = "wipe" PROVE FALSE
    <3>1. /\ run[ex[f].run].phase \in {"Installing", "Blocked"} /\ run[ex[f].run].maintenance
          /\ RunOK(ex[f].run)
      BY <2>2, OfPass DEF EraserOK
    <3> QED
      BY <2>1, <3>1 DEF RunOK
  <2>3. node.key \in Int /\ node.bootID \in Nat /\ node.key <= node.bootID
    BY ConstantsAssumption DEF Inv, Typed, Nodes, KeyOK, ManagedKey, Unreachable
  <2>4. ASSUME NEW f \in Executor PROVE ex'[f].pc # "wipe" /\ ex'[f].facts.key <= node.bootID
    <3>1. CASE f = e
      BY <1>3, <2>3, <3>1 DEF NoKey
    <3>2. CASE f # e
      BY <1>3, <2>2, <3>2 DEF SessionOK
    <3> QED
      BY <3>1, <3>2
  <2> QED
    BY <1>1, <2>4 DEF SessionOK
<1> QED
  BY <1>2, <1>3, Reading

\* The attestation itself.
LEMMA SessionAttest ==
  ASSUME Inv, SessionOK, NEW e \in Executor, Install(e)
  PROVE  SessionOK'
<1>1. UNCHANGED node /\ ex \in [Executor -> Passes]
  BY DEF Install, Local, Inv, Typed
<1>2. CASE Local(e, Raise(e, "ProvisioningBlocked"))
  BY <1>1, <1>2, PlainStates, PlainLocal, SessionKept
<1>3. CASE Local(e, Goto(e, "wipe")) /\ MayErase(ex[e].view)
  <2>1. PICK k \in Passes : k = ex[e]
    BY <1>1
  <2> DEFINE l == Goto(e, "wipe")
  <2>2. l.pc = "wipe" /\ l.view = k.view /\ l.facts = k.facts
    BY <2>1 DEF Goto, Passes
  <2>3. ex' = [ex EXCEPT ![e] = l]
    BY <1>3, <2>2 DEF Local, Becomes
  <2> HIDE DEF l
  <2>4. \A x \in Executor : ex'[x].facts = ex[x].facts /\ ex'[x].view = ex[x].view
    BY <1>1, <2>1, <2>2, <2>3
  <2>5. /\ ex[e].view.liveBootID # ex[e].view.sourceBootID
        /\ node.bootID = ex[e].view.liveBootID /\ node.bootID \in Nat
    BY <1>3, ConstantsAssumption DEF MayErase, Inv, Typed, Nodes
  <2>6. ASSUME NEW f \in Executor, ex'[f].pc = "wipe" PROVE Attested(ex[f])'
    <3>1. Attested(ex[f])
      <4>1. CASE f = e
        BY <2>5, <4>1 DEF Attested, SessionOK
      <4>2. CASE f # e
        BY <1>1, <2>3, <2>6, <4>2 DEF SessionOK
      <4> QED
        BY <4>1, <4>2
    <3> QED
      BY <1>1, <2>4, <3>1 DEF Attested
  <2> QED
    BY <1>1, <2>4, <2>6 DEF SessionOK
<1> QED
  BY <1>2, <1>3 DEF Install

\* Nothing of the passes changes.
LEMMA SessionBoots ==
  ASSUME Inv, SessionOK, UNCHANGED ex,
         \/ UNCHANGED node
         \/ node'.bootID = node.bootID + 1 /\ (node'.live => node'.key = node'.bootID)
  PROVE  SessionOK'
<1>1. /\ node.bootID \in Nat
      /\ \A x \in Executor : ex[x].view.liveBootID \in Nat /\ ex[x].facts.key \in Int
  BY ConstantsAssumption DEF Inv, Typed, Nodes, Passes, Runs, Facts, Keys, Boots, Unreachable, NoKey
<1> QED
  BY <1>1 DEF SessionOK, Attested, ManagedKey

\* Every step of a pass.
LEMMA SessionPass ==
  ASSUME Inv, SessionOK, NEW e \in Executor,
         Pass(e) \/ CkPatchLost(e) \/ ClaimLost(e) \/ StepFails(e) \/ Crash(e)
  PROVE  SessionOK'
<1>1. CASE CkPatchLost(e) \/ ClaimLost(e) \/ StepFails(e) \/ Crash(e)
  <2>1. Plain
    BY <1>1, PlainStart
  <2>2. UNCHANGED node
    BY <1>1, Zenon DEF CkPatchLost, ClaimLost, StepFails, Crash, Store
  <2> QED
    BY <2>1, <2>2, SessionKept
<1>2. CASE Pass(e)
  <2>1. CASE EnrollPlay(e) \/ AwaitLive(e) \/ FirstContact(e) \/ Install(e)
    BY <2>1, SessionEnroll, SessionRead, SessionAttest
  <2>2. CASE ~(EnrollPlay(e) \/ AwaitLive(e) \/ FirstContact(e) \/ Install(e))
    <3>1. Plain
      BY <1>2, <2>2, PlainFirst, PlainLive, PlainLast, PlainStart DEF Pass
    <3>2. node'.bootID = node.bootID /\ node'.live = node.live /\ node'.key = node.key
      BY <1>2, <2>2, KeyWriters DEF Inv, Typed
    <3> QED
      BY <3>1, <3>2, SessionKept
  <2> QED
    BY <2>1, <2>2
<1> QED
  BY <1>1, <1>2

\* Every step of the system.
LEMMA SessionStep ==
  ASSUME Inv, SessionOK, [Next]_vars
  PROVE  SessionOK'
<1>1. ASSUME NodeBoots \/ PowerLoss PROVE SessionOK'
  <2>1. UNCHANGED ex /\ \E b : node' \in NextSession(b)
    BY <1>1 DEF NodeBoots, PowerLoss
  <2> QED
    BY <2>1, LaterSession, SessionBoots
<1>2. ASSUME \/ \E r \in Run : CreateRun(r)
             \/ Pause \/ Unpause \/ Edit \/ LoseAddress \/ ReportAddress \/ UNCHANGED vars
      PROVE  SessionOK'
  <2>1. UNCHANGED ex /\ UNCHANGED node
    BY <1>2 DEF CreateRun, Pause, Unpause, Edit, LoseAddress, ReportAddress, vars
  <2> QED
    BY <2>1, SessionBoots
<1> QED
  BY <1>1, <1>2, SessionPass DEF Next

\* The attested session is the one that answers until the wipe, in every behaviour.
THEOREM SessionHeld == Spec => []SessionOK
<1>1. Init => SessionOK
  BY DEF Init, SessionOK, Idle, NoFacts, NoKey
<1>2. Inv /\ SessionOK /\ [Next]_vars => SessionOK'
  BY SessionStep
<1> QED
  BY <1>1, <1>2, Invariance, PTL DEF Spec

\* A step that erases finds everything recorded.
LEMMA EraseStep ==
  ASSUME Inv, SessionOK, [Next]_vars, NEW r \in Run, erasures'[r] # erasures[r]
  PROVE  /\ activeRun = r
         /\ run[r].phase \in {"Installing", "Blocked"} /\ run[r].maintenance
         /\ node.live /\ node.bootID = run[r].liveBootID
         /\ node.bootID # run[r].sourceBootID
<1>1. ~UNCHANGED erasures
  OBVIOUS
<1>2. PICK e \in Executor : Wipe(e)
  <2>1. ASSUME NEW e \in Executor, CkPatchLost(e) \/ ClaimLost(e) \/ StepFails(e) \/ Crash(e)
        PROVE  UNCHANGED erasures
    BY <2>1 DEF CkPatchLost, ClaimLost, StepFails, Crash, Store
  <2>2. ASSUME NEW s \in Run, CreateRun(s) PROVE UNCHANGED erasures
    BY <2>2 DEF CreateRun
  <2>3. ASSUME NodeBoots \/ PowerLoss \/ Pause \/ Unpause \/ Edit \/ LoseAddress \/ ReportAddress
        PROVE  UNCHANGED erasures
    BY <2>3 DEF NodeBoots, PowerLoss, Pause, Unpause, Edit, LoseAddress, ReportAddress
  <2>4. UNCHANGED vars => UNCHANGED erasures
    BY DEF vars
  <2> QED
    BY <1>1, <2>1, <2>2, <2>3, <2>4, Erasers DEF Next
<1>3. /\ ex[e].pc = "wipe" /\ ex[e].pc # "idle" /\ node.key = ManagedKey /\ node.live
      /\ erasures' = [erasures EXCEPT ![ex[e].run] = @ + 1]
  BY <1>1, <1>2 DEF Wipe, Erase, At, Local, Answers, InUse
<1>4. /\ ex[e].run \in Run /\ EraserOK(ex[e]) /\ Tracks(ex[e]) /\ RunOK(ex[e].run)
      /\ ex[e].view.phase = "Installing"
  BY <1>3, OfPass DEF Placed
<1>5. r = ex[e].run
  BY <1>3 DEF Inv, Typed
<1>6. /\ run[r].phase \in {"Installing", "Blocked"} /\ run[r].maintenance /\ activeRun = r
      /\ run[r].liveBootID = ex[e].view.liveBootID /\ run[r].sourceBootID = ex[e].view.sourceBootID
  BY <1>3, <1>4, <1>5 DEF EraserOK, Tracks, Early, RunOK
<1>7. node.bootID = ex[e].view.liveBootID /\ ex[e].view.liveBootID # ex[e].view.sourceBootID
  BY <1>3 DEF SessionOK, Attested
<1> QED
  BY <1>3, <1>6, <1>7

\* The erase happens for the reserving run alone, after its Installing checkpoint, in the
\* live session that run enrolled, also when the node boots between the attestation of
\* the session and the wipe (roles/provision/tasks/install.yml, install_live).
THEOREM ErasesAreAuthorised == Spec => EraseAuthorised
<1> DEFINE Step == \A r \in Run : erasures'[r] # erasures[r] =>
                     /\ activeRun = r
                     /\ run[r].phase \in {"Installing", "Blocked"} /\ run[r].maintenance
                     /\ node.live /\ node.bootID = run[r].liveBootID
                     /\ node.bootID # run[r].sourceBootID
<1>1. ASSUME Inv, SessionOK, [Next]_vars PROVE [Step]_vars
  BY <1>1, EraseStep
<1>2. Spec => [][Step]_vars
  BY <1>1, Invariance, SessionHeld, PTL DEF Spec
<1> QED
  BY <1>2 DEF EraseAuthorised

\* A step that makes the managed key answer in a session delivers it to a pinned one.
LEMMA DeliveryStep ==
  ASSUME Inv, [Next]_vars, node'.key = ManagedKey, node.key # ManagedKey,
         node'.bootID = node.bootID
  PROVE  \E e \in Executor : /\ ex[e].pc = "enrollPlay"
                             /\ ex[e].view.bootstrapPublicKey = node.key
                             /\ node.live /\ node.bootID # run[ex[e].run].sourceBootID
<1>1. ~UNCHANGED node /\ node'.key # node.key /\ node \in Nodes
  BY DEF Inv, Typed
<1>2. PICK e \in Executor : EnrollPlay(e)
  <2>1. ASSUME NEW e \in Executor, CkPatchLost(e) \/ ClaimLost(e) \/ StepFails(e) \/ Crash(e)
        PROVE  UNCHANGED node
    BY <2>1 DEF CkPatchLost, ClaimLost, StepFails, Crash, Store
  <2>2. ASSUME NEW s \in Run, CreateRun(s) PROVE UNCHANGED node
    BY <2>2 DEF CreateRun
  <2>3. ASSUME Pause \/ Unpause \/ Edit \/ LoseAddress \/ ReportAddress
        PROVE  UNCHANGED node
    BY <2>3 DEF Pause, Unpause, Edit, LoseAddress, ReportAddress
  <2>4. UNCHANGED vars => UNCHANGED node
    BY DEF vars
  <2>5. ASSUME NodeBoots \/ PowerLoss PROVE node'.bootID # node.bootID
    BY <2>5, Sessions DEF NodeBoots, PowerLoss
  <2> QED
    BY <1>1, <2>1, <2>2, <2>3, <2>4, <2>5, KeyWriters DEF Next
<1>3. ex[e].pc = "enrollPlay" /\ ex[e].pc # "idle" /\ node.key = ex[e].facts.key
  BY <1>1, <1>2 DEF EnrollPlay, At, Answers, Local
<1>4. EnrollOK(ex[e]) /\ ex[e] \in Passes
  BY <1>3, OfPass
<1>5. /\ ex[e].view.bootstrapPublicKey = node.key
      /\ ex[e].facts.bootID # run[ex[e].run].sourceBootID /\ node.key = ex[e].facts.bootID
  BY <1>3, <1>4 DEF EnrollOK, MayEnroll
<1>6. node.key # Unreachable
  BY <1>4, <1>5 DEF Passes, Facts, Boots, Unreachable
<1>7. node.key = node.bootID /\ node.live
  BY <1>6 DEF Inv, KeyOK
<1> QED
  BY <1>3, <1>5, <1>7

\* The host's private key is installed only in a live session whose own bootstrap key the
\* delivering pass holds as the run's pin, and never in the source session (first contact
\* of await_session, enroll).
THEOREM KeyGoesToPinnedSession == Spec => KeyDelivery
<1> DEFINE Step == node'.key = ManagedKey /\ node.key # ManagedKey /\ node'.bootID = node.bootID =>
                     \E e \in Executor : /\ ex[e].pc = "enrollPlay"
                                         /\ ex[e].view.bootstrapPublicKey = node.key
                                         /\ node.live /\ node.bootID # run[ex[e].run].sourceBootID
<1>1. ASSUME Inv, [Next]_vars PROVE [Step]_vars
  BY <1>1, DeliveryStep
<1>2. Spec => [][Step]_vars
  BY <1>1, Invariance, PTL DEF Spec
<1> QED
  BY <1>2 DEF KeyDelivery
=============================================================================
