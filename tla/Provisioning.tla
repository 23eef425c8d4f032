---------------------------- MODULE Provisioning ----------------------------
(***************************************************************************)
(* The bare-metal provisioning operator: operators/provisioning.py, the    *)
(* node-side stages of plays/provision_stage.yml and the guarded erase of  *)
(* roles/provision/tasks/install.yml, for one Server.                      *)
(*                                                                         *)
(* A ProvisioningRun is a checkpointed state machine in the API.  Executor *)
(* passes advance it, any of them may be cut off anywhere and several may  *)
(* overlap; the node reboots when it is told to and when it is not.        *)
(*                                                                         *)
(* current() reads the Server and then the run.  A run is released only    *)
(* after it is terminal and a terminal run never changes phase (OneWay),   *)
(* so a run whose phase still matches has not been released in between and *)
(* the two reads are one step here.  Every other read of the API or of the *)
(* node, and every effect, is a step of its own.                           *)
(***************************************************************************)
EXTENDS Integers

CONSTANTS
  Run,           \* ProvisioningRun lifetimes; the run's uid is also its attemptID
  Executor,      \* operator passes that may overlap
  NoRun,         \* "no activeRunRef", or a disk no run has written
  MaxBoots,      \* bound: boot sessions of the node
  FaultKinds,    \* which of the faults below may happen
  Limited,       \* TRUE: at most MaxFaults of them, FALSE: any number
  MaxFaults

AllFaults == {"crash", "step", "lost answer", "power", "pause", "edit", "network"}

ASSUME ConstantsAssumption ==
  /\ NoRun \notin Run
  /\ MaxBoots \in Nat \ {0}
  /\ FaultKinds \subseteq AllFaults
  /\ Limited \in BOOLEAN
  /\ MaxFaults \in Nat

ACTIVE == {"PreparingBoot", "AwaitingLive", "Installing", "AwaitingInstalled", "Verifying"}
Phases == ACTIVE \cup {"Absent", "Pending", "Succeeded", "Blocked"}

\* Boot sessions are numbered from 1.  Key 0 is the managed host key; a live
\* image makes a bootstrap key of its own, named after the session that made it.
NoBoot == 0
ManagedKey == 0
NoKey == -1        \* no bootstrapPublicKey recorded
Unreachable == -2  \* a node that cannot boot presents no key at all

VARIABLES
  run,         \* run[r]: the stored ProvisioningRun
  activeRun,   \* the Server's status.provisioning.activeRunRef
  lastRun,     \* the Server's lastSuccessfulRunRef (provisioned is lastRun # NoRun)
  paused,      \* reconciliation.paused, or provisioning not enabled
  spec,        \* the Server's pinned inputs, as one of two contents
  network,     \* the Server reports a management address
  node,        \* the physical machine
  erasures,    \* erasures[r]: how often run r erased the disk
  ex,          \* ex[e]: the local state of executor e
  faults       \* how many faults happened (bound only)

serverVars == <<activeRun, lastRun>>
operatorVars == <<paused, spec, network>>
vars == <<run, serverVars, operatorVars, node, erasures, ex, faults>>

Runs == [phase: Phases, maintenance: BOOLEAN, netbootArmed: BOOLEAN,
         sourceBootID: 0 .. MaxBoots, liveBootID: 0 .. MaxBoots,
         bootstrapPublicKey: {NoKey} \cup 0 .. MaxBoots, snapshot: {0, 1}]

Nodes == [bootID: 1 .. MaxBoots, live: BOOLEAN, key: {Unreachable} \cup 0 .. MaxBoots,
          nextEntry: BOOLEAN, kexec: BOOLEAN, going: {"no", "reboot", "kexec"},
          disk: {"original", "erased", "installed"}, marker: Run \cup {NoRun},
          mounted: BOOLEAN]

NewRun == [phase |-> "Absent", maintenance |-> FALSE, netbootArmed |-> FALSE,
           sourceBootID |-> NoBoot, liveBootID |-> NoBoot,
           bootstrapPublicKey |-> NoKey, snapshot |-> 0]

\* A patch holds the fields a status write names; the others are kept.
Merge(record, patch) ==
  [f \in DOMAIN record |-> IF f \in DOMAIN patch THEN patch[f] ELSE record[f]]

NoPatch == [phase |-> "Absent"]
NoFacts == [bootID |-> NoBoot, key |-> NoKey, mounted |-> FALSE]

\* view is the executor's local copy of the run, inputs the Server spec it read,
\* fresh whether the resourceVersion it last read is still the run's latest.
\* patch, done and failed belong to the checkpoint in progress.
Idle == [pc |-> "idle", run |-> NoRun, view |-> NewRun, inputs |-> 0, fresh |-> FALSE,
         facts |-> NoFacts, reason |-> "none", patch |-> NoPatch, done |-> "idle",
         failed |-> "idle"]

Init ==
  /\ run = [r \in Run |-> NewRun]
  /\ activeRun = NoRun /\ lastRun = NoRun
  /\ paused = FALSE /\ spec = 0 /\ network = TRUE
  /\ \E live \in BOOLEAN :
       node = [bootID |-> 1, live |-> live, key |-> ManagedKey, nextEntry |-> FALSE,
               kexec |-> FALSE, going |-> "no", disk |-> "original", marker |-> NoRun,
               mounted |-> FALSE]
  /\ erasures = [r \in Run |-> 0]
  /\ ex = [e \in Executor |-> Idle]
  /\ faults = 0

Fault(kind) ==
  /\ kind \in FaultKinds
  /\ Limited => faults < MaxFaults
  /\ faults' = IF Limited THEN faults + 1 ELSE faults

-----------------------------------------------------------------------------
(* Executor plumbing: local steps, reads of current(), and checkpoints.    *)

At(e, pc) == ex[e].pc = pc

\* Mutant of Becomes: a pass that ends keeps the run it was bound to.
BecomesKeepsRun(e, state) == ex' = [ex EXCEPT ![e] = state]

Becomes(e, state) == ex' = [ex EXCEPT ![e] = IF state.pc = "idle" THEN Idle ELSE state]

\* A step that only moves this executor on, and one that acts on the node too.
Local(e, state) ==
  /\ Becomes(e, state)
  /\ UNCHANGED <<run, serverVars, operatorVars, node, erasures, faults>>
OnNode(e, machine, state) ==
  /\ Becomes(e, state)
  /\ node' = machine
  /\ UNCHANGED <<run, serverVars, operatorVars, erasures, faults>>

Goto(e, pc) == [ex[e] EXCEPT !.pc = pc]
Raise(e, reason) == [ex[e] EXCEPT !.pc = "failed", !.reason = reason]

\* Mutant of Unchanged: the checkpoint phase is not compared.
UnchangedAnyPhase(e) == activeRun = ex[e].run /\ spec = ex[e].view.snapshot

\* validate_attempt_checkpoint and the pinned inputs of validate_pinned_server:
\* the Server still reserves this run, in the phase of the local view.
Unchanged(e) ==
  /\ activeRun = ex[e].run
  /\ run[ex[e].run].phase = ex[e].view.phase
  /\ spec = ex[e].view.snapshot

\* current() returns, or it raises with this reason.
Current(e, allowPaused, allowPending) ==
  /\ Unchanged(e)
  /\ network \/ allowPending
  /\ ~paused \/ allowPaused
Refusal(e, allowPending) ==
  IF Unchanged(e) /\ ~network /\ ~allowPending THEN "ManagementNetworkPending"
                                               ELSE "ProvisioningBlocked"

\* A bare current() before a physical stage: go on to state, or raise.
Guarded(e, allowPaused, allowPending, state) ==
  Local(e, IF Current(e, allowPaused, allowPending) THEN state
                                                    ELSE Raise(e, Refusal(e, allowPending)))

\* checkpoint() is entered with its patch and the two ways to leave it.
Checkpointing(e, patch, done, failed) ==
  [ex[e] EXCEPT !.pc = "ckRead", !.patch = patch, !.done = done, !.failed = failed]
Checkpoint(e, patch, done) == Checkpointing(e, patch, done, "failed")

LeaveFailed(e) == [ex[e] EXCEPT !.pc = ex[e].failed, !.reason = "ProvisioningBlocked",
                                !.patch = NoPatch, !.done = "idle", !.failed = "idle"]

\* A status write of executor e to its run: every other revision is stale now.
Store(e, patch, state) ==
  LET r == ex[e].run IN
  /\ run' = [run EXCEPT ![r] = Merge(@, patch)]
  /\ ex' = [x \in Executor |->
              IF x = e THEN IF state.pc = "idle" THEN Idle ELSE state
              ELSE IF ex[x].run = r THEN [ex[x] EXCEPT !.fresh = FALSE]
              ELSE ex[x]]
  /\ UNCHANGED <<serverVars, operatorVars, node, erasures>>

CkRead(e) ==
  /\ At(e, "ckRead")
  /\ Local(e, IF Current(e, TRUE, TRUE) THEN [ex[e] EXCEPT !.pc = "ckPatch", !.fresh = TRUE]
                                        ELSE LeaveFailed(e))

\* The PATCH carries the revision just read: it commits, or 409 restarts the
\* loop until its five tries are used up.
CkPatch(e) ==
  /\ At(e, "ckPatch")
  /\ LET view == Merge(run[ex[e].run], ex[e].patch)
         next == [ex[e] EXCEPT !.pc = ex[e].done, !.view = view, !.patch = NoPatch,
                               !.done = "idle", !.failed = "idle"]
     IN \/ ex[e].fresh /\ Store(e, ex[e].patch, next) /\ UNCHANGED faults
        \/ ~ex[e].fresh /\ \E s \in {Goto(e, "ckRead"), LeaveFailed(e)} : Local(e, s)

\* The PATCH commits and its answer is lost: the local view stays behind.
CkPatchLost(e) ==
  /\ At(e, "ckPatch") /\ ex[e].fresh
  /\ Store(e, ex[e].patch, [LeaveFailed(e) EXCEPT !.fresh = FALSE])
  /\ Fault("lost answer")

-----------------------------------------------------------------------------
(* One pass over the reserved run: main, bind_run and reconcile.           *)

\* bind_run: the pass starts with a copy of the run and of the Server.
BindRun(r, pc) ==
  [Idle EXCEPT !.run = r, !.view = run[r], !.inputs = spec, !.fresh = TRUE, !.pc = pc]

\* Mutants of Dispatch: an interrupted Installing, or a terminal run that still
\* holds its Server, is taken for one that needs nothing.
DispatchLeavesInstalling(e, r) ==
  BindRun(r, CASE run[r].phase \in {"Succeeded", "Blocked"} -> "release"
                  [] run[r].phase = "Installing" -> "idle"
                  [] run[r].phase = "Pending" -> "prepare"
                  [] OTHER -> "resume")
DispatchLeavesTerminal(e, r) ==
  BindRun(r, CASE run[r].phase \in {"Succeeded", "Blocked", "Installing"} -> "idle"
                  [] run[r].phase = "Pending" -> "prepare"
                  [] OTHER -> "resume")

\* Where a pass takes up a run: terminal runs are released, an interrupted
\* Installing is never dispatched, a Blocked run in maintenance is left alone.
Dispatch(e, r) ==
  LET to(pc) == BindRun(r, pc)
  IN IF ~network THEN [to("failed") EXCEPT !.reason = "ManagementNetworkPending"]
     ELSE CASE run[r].phase = "Succeeded"  -> to("release")
            [] run[r].phase = "Blocked"    -> to(IF run[r].maintenance THEN "idle" ELSE "release")
            [] run[r].phase = "Installing" ->
                 [to("ckRead") EXCEPT !.patch = [phase |-> "Blocked", maintenance |-> TRUE],
                                      !.failed = "failed"]
            [] run[r].phase = "Pending"    -> to(IF paused THEN "idle" ELSE "prepare")
            [] OTHER                       -> to("resume")

Begin(e) ==
  /\ At(e, "idle") /\ activeRun # NoRun
  /\ Local(e, Dispatch(e, activeRun))

\* SSH accepts only the keys of its trust file.
Answers(keys) == node.key \in keys
Probe == [bootID |-> node.bootID, key |-> node.key, mounted |-> node.mounted]

\* prepare_attempt up to the claim: the node is read with the managed key.
Prepare(e) ==
  /\ At(e, "prepare")
  /\ Local(e, IF Answers({ManagedKey})
              THEN [Goto(e, "claim") EXCEPT !.facts = Probe]
              ELSE Raise(e, "ProvisioningBlocked"))

ClaimPatch(e) ==
  [phase |-> "PreparingBoot", maintenance |-> TRUE, snapshot |-> ex[e].inputs,
   sourceBootID |-> ex[e].facts.bootID, liveBootID |-> NoBoot, bootstrapPublicKey |-> NoKey,
   netbootArmed |-> FALSE]

\* The claim is one PATCH at the revision bind_run read; it is not retried.
Claim(e) ==
  /\ At(e, "claim")
  /\ \/ /\ ex[e].fresh
        /\ Store(e, ClaimPatch(e), [Goto(e, "resume") EXCEPT
                                      !.view = Merge(run[ex[e].run], ClaimPatch(e))])
        /\ UNCHANGED faults
     \/ ~ex[e].fresh /\ Local(e, Raise(e, "ProvisioningBlocked"))

ClaimLost(e) ==
  /\ At(e, "claim") /\ ex[e].fresh
  /\ Store(e, ClaimPatch(e), [Raise(e, "ProvisioningBlocked") EXCEPT !.fresh = FALSE])
  /\ Fault("lost answer")

\* The first stage of install_live depends on whether a live session is recorded.
LiveEntry(view) == IF view.liveBootID # NoBoot THEN "liveRecheck" ELSE "awaitLive"

StageOf(view) ==
  CASE view.phase = "PreparingBoot"     -> "boot"
    [] view.phase = "AwaitingLive"      -> LiveEntry(view)
    [] view.phase = "AwaitingInstalled" -> "finish"
    [] view.phase = "Verifying"         -> "verify"
    [] OTHER                            -> "idle"

Resume(e) ==
  /\ At(e, "resume")
  /\ LET phase == ex[e].view.phase IN
     Guarded(e, phase = "AwaitingInstalled", phase \in {"AwaitingLive", "AwaitingInstalled"},
             [Goto(e, StageOf(run[ex[e].run])) EXCEPT !.view = run[ex[e].run]])

-----------------------------------------------------------------------------
(* prepare_boot: from the source session into a fresh live session.        *)

Boot(e) ==
  /\ At(e, "boot")
  /\ Local(e,
       IF ~Answers({ManagedKey}) \/ node.bootID # ex[e].view.sourceBootID
         THEN Raise(e, "ProvisioningBlocked")
       ELSE IF node.live
         THEN Checkpoint(e, [phase |-> "PreparingBoot", netbootArmed |-> TRUE], "refreshPrepare")
       ELSE IF node.nextEntry
         THEN Raise(e, "ProvisioningBlocked")
       ELSE Checkpoint(e, [phase |-> "AwaitingLive", netbootArmed |-> TRUE], "armCheck"))

\* A stage play: its node-side asserts hold and it takes effect, or it raises.
Stage(e, asserts, machine, state) ==
  \/ Answers({ManagedKey}) /\ asserts /\ OnNode(e, machine, state)
  \/ ~(Answers({ManagedKey}) /\ asserts) /\ Local(e, Raise(e, "ProvisioningBlocked"))

RefreshPrepare(e) ==
  /\ At(e, "refreshPrepare")
  /\ Stage(e, node.live /\ node.bootID = ex[e].view.sourceBootID,
           [node EXCEPT !.kexec = TRUE], Goto(e, "refreshCheck"))

RefreshCheck(e) ==
  /\ At(e, "refreshCheck")
  /\ Guarded(e, FALSE, FALSE,
             Checkpoint(e, [phase |-> "AwaitingLive", liveBootID |-> NoBoot,
                            netbootArmed |-> TRUE], "kexecCheck"))

KexecCheck(e) == At(e, "kexecCheck") /\ Guarded(e, FALSE, FALSE, Goto(e, "kexec"))

Kexec(e) ==
  /\ At(e, "kexec")
  /\ Stage(e, node.kexec, [node EXCEPT !.going = "kexec"], Goto(e, LiveEntry(ex[e].view)))

ArmCheck(e) == At(e, "armCheck") /\ Guarded(e, FALSE, FALSE, Goto(e, "arm"))

Arm(e) ==
  /\ At(e, "arm")
  /\ Stage(e, ~node.live, [node EXCEPT !.nextEntry = TRUE], Goto(e, "rebootCheck"))

RebootCheck(e) == At(e, "rebootCheck") /\ Guarded(e, FALSE, FALSE, Goto(e, "reboot"))

\* The reboot is asynchronous: its acknowledgement says nothing of the session.
Reboot(e) ==
  /\ At(e, "reboot")
  /\ Stage(e, TRUE, [node EXCEPT !.going = "reboot"], Goto(e, LiveEntry(ex[e].view)))

-----------------------------------------------------------------------------
(* install_live: await and enroll the live session, then erase.            *)

\* One round of await_session(live): the view is refreshed, and the node is
\* read with the pinned key or, before there is a pin, the managed one.
AwaitLive(e) ==
  /\ At(e, "awaitLive")
  /\ LET stored == run[ex[e].run]
         pin == stored.bootstrapPublicKey
         found == /\ network
                  /\ Answers({IF pin = NoKey THEN ManagedKey ELSE pin})
                  /\ node.live /\ node.bootID # stored.sourceBootID
     IN Guarded(e, FALSE, TRUE,
                IF found THEN [Goto(e, "enroll") EXCEPT !.view = stored, !.facts = Probe]
                         ELSE [ex[e] EXCEPT !.view = stored])

\* Mutant of FirstContact: the key is trusted before it is recorded.
FirstContactUnrecorded(e) ==
  /\ At(e, "awaitLive")
  /\ Current(e, FALSE, TRUE) /\ network
  /\ run[ex[e].run].bootstrapPublicKey = NoKey
  /\ node.key # Unreachable /\ node.live /\ node.bootID # run[ex[e].run].sourceBootID
  /\ Local(e, [Goto(e, "enroll") EXCEPT !.view = run[ex[e].run], !.facts = Probe])

\* Without a pin a failed contact is retried unpinned, once, and the key it
\* met is recorded before anything is sent to the node.
FirstContact(e) ==
  /\ At(e, "awaitLive")
  /\ Current(e, FALSE, TRUE) /\ network
  /\ run[ex[e].run].bootstrapPublicKey = NoKey
  /\ node.key # Unreachable /\ node.live /\ node.bootID # run[ex[e].run].sourceBootID
  /\ Local(e, [Checkpointing(e, [phase |-> "AwaitingLive", bootstrapPublicKey |-> node.key],
                             "enroll", "awaitLive") EXCEPT
                 !.view = run[ex[e].run],
                 !.facts = Probe])

AwaitTimeout(e) ==
  /\ ex[e].pc \in {"awaitLive", "awaitInstalled"}
  /\ Local(e, Raise(e, "ProvisioningBlocked"))

\* A recorded live session must be the one that answers with the managed key.
LiveRecheck(e) ==
  /\ At(e, "liveRecheck")
  /\ LET view == ex[e].view IN
     Local(e, IF /\ Answers({ManagedKey}) /\ node.live
                 /\ node.bootID = view.liveBootID /\ node.bootID # view.sourceBootID
              THEN [Goto(e, "enroll") EXCEPT !.facts = Probe]
              ELSE Raise(e, "ProvisioningBlocked"))

\* validate_disk on the facts, then current() before the private key is used.
Enroll(e) ==
  /\ At(e, "enroll")
  /\ IF ex[e].facts.mounted THEN Local(e, Raise(e, "ProvisioningBlocked"))
                            ELSE Guarded(e, FALSE, FALSE, Goto(e, "enrollPlay"))

\* The key play may reach the node under the recorded or the managed key.
EnrollPlay(e) ==
  /\ At(e, "enrollPlay")
  /\ \/ /\ Answers({ex[e].facts.key, ManagedKey})
        /\ OnNode(e, [node EXCEPT !.key = ManagedKey], Goto(e, "enrollProbe"))
     \/ ~Answers({ex[e].facts.key, ManagedKey}) /\ Local(e, Raise(e, "ProvisioningBlocked"))

EnrollProbe(e) ==
  /\ At(e, "enrollProbe")
  /\ Local(e, IF Answers({ManagedKey})
              THEN Checkpoint(e, [phase |-> "AwaitingLive", liveBootID |-> ex[e].facts.bootID,
                                  bootstrapPublicKey |-> NoKey, netbootArmed |-> FALSE],
                              "installCheck")
              ELSE Raise(e, "ProvisioningBlocked"))

InstallCheck(e) ==
  /\ At(e, "installCheck")
  /\ Guarded(e, FALSE, FALSE, Checkpoint(e, [phase |-> "Installing"], "install"))

\* The asserts the installation makes on the node before the erasure.
MayErase(view) ==
  /\ node.live
  /\ node.bootID = view.liveBootID
  /\ view.liveBootID # view.sourceBootID
  /\ ~node.mounted

\* The installation attests the session; then other tasks read the enrollment of
\* the agent and install packages before the disk is touched.
Install(e) ==
  /\ At(e, "install")
  /\ Local(e, IF Answers({ManagedKey}) /\ MayErase(ex[e].view)
              THEN Goto(e, "wipe") ELSE Raise(e, "ProvisioningBlocked"))

\* wipefs without --force opens the disk exclusively: it refuses one whose file
\* systems are mounted, as those of the disk a host was booted from are.
InUse == node.mounted \/ ~node.live

\* What the wipe and the new partition table do.
Erase(r) ==
  /\ node' = [node EXCEPT !.disk = "erased", !.marker = r, !.mounted = TRUE,
                          !.nextEntry = FALSE]
  /\ erasures' = [erasures EXCEPT ![r] = @ + 1]
  /\ UNCHANGED <<run, serverVars, operatorVars, faults>>

\* Mutants of Wipe: a failed play is run again in the same pass; the wipe is
\* forced, as --force or a tool without an exclusive open would do.
WipeRetries(e) ==
  /\ At(e, "wipe")
  /\ Answers({ManagedKey}) /\ ~InUse
  /\ node' = [node EXCEPT !.disk = "erased", !.marker = ex[e].run, !.nextEntry = FALSE]
  /\ erasures' = [erasures EXCEPT ![ex[e].run] = @ + 1]
  /\ ex' \in {[ex EXCEPT ![e].pc = pc] : pc \in {"wipe", "installing"}}
  /\ UNCHANGED <<run, serverVars, operatorVars, faults>>
WipeForced(e) ==
  /\ At(e, "wipe")
  /\ \/ Answers({ManagedKey}) /\ Erase(ex[e].run) /\ Becomes(e, Goto(e, "installing"))
     \/ ~Answers({ManagedKey}) /\ Local(e, Raise(e, "ProvisioningBlocked"))

\* Nothing looks at the session again: the wipe reaches whatever answers with
\* the managed key by then.
Wipe(e) ==
  /\ At(e, "wipe")
  /\ LET refused == ~Answers({ManagedKey}) \/ InUse IN
     \/ ~refused /\ Erase(ex[e].run) /\ Becomes(e, Goto(e, "installing"))
     \/ refused /\ Local(e, Raise(e, "ProvisioningBlocked"))

\* The rest of the play, down to the marker, if the session lives that long.
InstallDone(e) ==
  /\ At(e, "installing")
  /\ Stage(e, node.mounted /\ node.bootID = ex[e].view.liveBootID,
           [node EXCEPT !.disk = "installed"],
           Checkpoint(e, [phase |-> "AwaitingInstalled", netbootArmed |-> FALSE], "finish"))

-----------------------------------------------------------------------------
(* finish_boot and verify_completion.                                      *)

\* verify_installed: a fresh boot of the disk this run wrote, netboot cleared.
InstalledBy(view, r) ==
  /\ Answers({ManagedKey}) /\ ~node.live
  /\ node.bootID # view.liveBootID
  /\ node.disk = "installed" /\ node.marker = r
  /\ ~node.nextEntry

\* Only the completed live session itself is rebooted; a node that does not
\* answer may be rebooting already.
Finish(e) ==
  /\ At(e, "finish")
  /\ Local(e, IF ~Answers({ManagedKey}) \/ ~node.live THEN Goto(e, "awaitInstalled")
              ELSE IF /\ node.bootID = ex[e].view.liveBootID
                      /\ node.mounted /\ node.disk = "installed" /\ node.marker = ex[e].run
              THEN Goto(e, "finalCheck")
              ELSE Raise(e, "ProvisioningBlocked"))

FinalCheck(e) == At(e, "finalCheck") /\ Guarded(e, TRUE, FALSE, Goto(e, "finalReboot"))

FinalReboot(e) ==
  /\ At(e, "finalReboot")
  /\ Stage(e, TRUE, [node EXCEPT !.going = "reboot"], Goto(e, "awaitInstalled"))

AwaitInstalled(e) ==
  /\ At(e, "awaitInstalled")
  /\ LET stored == run[ex[e].run]
         found == /\ network /\ Answers({ManagedKey})
                  /\ ~node.live /\ node.bootID # stored.liveBootID
         here == [ex[e] EXCEPT !.view = stored]
     IN Guarded(e, TRUE, TRUE,
                IF ~found THEN here
                ELSE IF InstalledBy(stored, ex[e].run)
                THEN [here EXCEPT !.pc = "ckRead", !.patch = [phase |-> "Verifying"],
                                  !.done = "verify", !.failed = "failed"]
                ELSE Raise(e, "ProvisioningBlocked"))

Verify(e) ==
  /\ At(e, "verify")
  /\ Local(e, IF InstalledBy(ex[e].view, ex[e].run) THEN Goto(e, "postCheck")
                                                     ELSE Raise(e, "ProvisioningBlocked"))

PostCheck(e) == At(e, "postCheck") /\ Guarded(e, FALSE, FALSE, Goto(e, "post"))

\* The post stage, the service check and the second verify_installed.
Post(e) ==
  /\ At(e, "post")
  /\ Local(e, IF InstalledBy(ex[e].view, ex[e].run)
              THEN Checkpoint(e, [phase |-> "Succeeded", maintenance |-> FALSE], "release")
              ELSE Raise(e, "ProvisioningBlocked"))

\* release_run: a terminal, disarmed run out of maintenance gives up its Server.
Releasable(r) ==
  /\ run[r].phase \in {"Succeeded", "Blocked"}
  /\ ~run[r].maintenance /\ ~run[r].netbootArmed
  /\ activeRun = r

Release(e) ==
  /\ At(e, "release")
  /\ LET r == ex[e].run IN
     \/ /\ Releasable(r)
        /\ activeRun' = NoRun
        /\ lastRun' = IF run[r].phase = "Succeeded" THEN r ELSE lastRun
        /\ Becomes(e, Idle)
        /\ UNCHANGED <<run, operatorVars, node, erasures, faults>>
     \/ ~Releasable(r) /\ Local(e, Idle)

-----------------------------------------------------------------------------
(* handle_failure: ownership is kept unless cleanup is verified.           *)

\* The Blocked checkpoint; failing to write it ends the pass.
Block(e, keep) ==
  Checkpointing(e, [phase |-> "Blocked", maintenance |-> keep,
                    netbootArmed |-> keep /\ ex[e].view.netbootArmed], "release", "idle")

\* A preflight failure only leaves a message, at the revision last read.
FailedPending(e) ==
  /\ At(e, "failed") /\ ex[e].view.phase = "Pending"
  /\ \/ ex[e].fresh /\ Store(e, [phase |-> "Pending"], Idle) /\ UNCHANGED faults
     \/ ~ex[e].fresh /\ Local(e, Idle)

\* Mutant of Failed: maintenance ends with the failure.
FailedForgetsErase(e) ==
  /\ At(e, "failed") /\ ex[e].view.phase # "Pending"
  /\ Local(e, IF ex[e].view.phase \notin ACTIVE THEN Idle
              ELSE IF ex[e].view.netbootArmed THEN Goto(e, "cleanup")
              ELSE Block(e, FALSE))

\* After the install, or while the address is missing, the phase stands.
Failed(e) ==
  /\ At(e, "failed") /\ ex[e].view.phase # "Pending"
  /\ LET phase == ex[e].view.phase IN
     Local(e, IF phase \notin ACTIVE THEN Idle
              ELSE IF \/ ex[e].reason = "ManagementNetworkPending"
                      \/ phase \in {"AwaitingInstalled", "Verifying"}
              THEN Checkpointing(e, [phase |-> phase], "idle", "idle")
              ELSE IF ex[e].view.netbootArmed THEN Goto(e, "cleanup")
              ELSE Block(e, phase = "Installing"))

\* Mutant of Cleanup: only the one-shot entry of an installed host is cleared.
CleanupForgetsKexec(e) ==
  /\ At(e, "cleanup")
  /\ Local(e, IF \/ ~Current(e, TRUE, FALSE) \/ ~Answers({ManagedKey})
                 \/ node.bootID # ex[e].view.sourceBootID
              THEN Block(e, TRUE)
              ELSE IF node.live THEN Block(e, FALSE) ELSE Goto(e, "clearNext"))

\* Only the source session can still hold the armed selection.
Cleanup(e) ==
  /\ At(e, "cleanup")
  /\ Local(e, IF \/ ~Current(e, TRUE, FALSE) \/ ~Answers({ManagedKey})
                 \/ node.bootID # ex[e].view.sourceBootID
              THEN Block(e, TRUE)
              ELSE Goto(e, IF node.live THEN "clearKexec" ELSE "clearNext"))

ClearKexec(e) ==
  /\ At(e, "clearKexec")
  /\ \/ Answers({ManagedKey}) /\ OnNode(e, [node EXCEPT !.kexec = FALSE], Block(e, FALSE))
     \/ ~Answers({ManagedKey}) /\ Local(e, Block(e, TRUE))

ClearNext(e) ==
  /\ At(e, "clearNext")
  /\ \/ /\ Answers({ManagedKey}) /\ ~node.live
        /\ OnNode(e, [node EXCEPT !.nextEntry = FALSE], Goto(e, "recheckNext"))
     \/ ~(Answers({ManagedKey}) /\ ~node.live) /\ Local(e, Block(e, TRUE))

RecheckNext(e) ==
  /\ At(e, "recheckNext")
  /\ Local(e, Block(e, ~Answers({ManagedKey}) \/ node.nextEntry))

-----------------------------------------------------------------------------
(* What goes wrong around a pass, and the node itself.                     *)

CleanupSteps == {"cleanup", "clearKexec", "clearNext", "recheckNext"}

\* A remote call, a play or an API request of the current step fails.
StepFails(e) ==
  /\ ex[e].pc \notin {"idle", "failed"}
  /\ Becomes(e, CASE ex[e].pc \in CleanupSteps -> Block(e, TRUE)
                  [] ex[e].pc \in {"ckRead", "ckPatch"} -> LeaveFailed(e)
                  [] ex[e].pc = "release" -> Idle
                  [] ex[e].pc = "finish" -> Goto(e, "awaitInstalled")
                  [] OTHER -> Raise(e, "ProvisioningBlocked"))
  /\ Fault("step")
  /\ UNCHANGED <<run, serverVars, operatorVars, node, erasures>>

\* The pass is killed: no handler runs and only stored state survives.
Crash(e) ==
  /\ ~At(e, "idle")
  /\ Becomes(e, Idle)
  /\ Fault("crash")
  /\ UNCHANGED <<run, serverVars, operatorVars, node, erasures>>

\* Creating a run reserves its Server in the same API transaction.
CreateRun(r) ==
  /\ run[r].phase = "Absent" /\ activeRun = NoRun
  /\ run' = [run EXCEPT ![r].phase = "Pending"]
  /\ activeRun' = r
  /\ UNCHANGED <<lastRun, operatorVars, node, erasures, ex, faults>>

\* The next session: the loaded kernel, the one-shot entry, or the disk.
NextSession(byKexec) ==
  LET new  == node.bootID + 1
      base == [node EXCEPT !.bootID = new, !.kexec = FALSE, !.mounted = FALSE, !.going = "no"]
      liveImage == [base EXCEPT !.live = TRUE, !.key = new]
      fromDisk  == [base EXCEPT !.live = FALSE, !.key = ManagedKey]
      dead      == [base EXCEPT !.live = FALSE, !.key = Unreachable]
  IN IF byKexec THEN {liveImage}
     ELSE IF node.nextEntry THEN {[liveImage EXCEPT !.nextEntry = FALSE]}
     ELSE CASE node.disk = "installed" -> {fromDisk}
            [] node.disk = "original"  -> {fromDisk, dead}
            [] node.disk = "erased"    -> {dead}

NodeBoots ==
  /\ node.going # "no" /\ node.bootID < MaxBoots
  /\ node' \in NextSession(node.going = "kexec" /\ node.kexec)
  /\ UNCHANGED <<run, serverVars, operatorVars, erasures, ex, faults>>

PowerLoss ==
  /\ node.bootID < MaxBoots
  /\ node' \in NextSession(FALSE)
  /\ Fault("power")
  /\ UNCHANGED <<run, serverVars, operatorVars, erasures, ex>>

\* Pausing, editing the pinned inputs and losing the reported address are
\* faults; undoing the first and the last is not.
Pause ==
  /\ ~paused /\ paused' = TRUE /\ Fault("pause")
  /\ UNCHANGED <<run, serverVars, spec, network, node, erasures, ex>>
Unpause ==
  /\ paused /\ paused' = FALSE
  /\ UNCHANGED <<run, serverVars, spec, network, node, erasures, ex, faults>>
Edit ==
  /\ spec' = 1 - spec /\ Fault("edit")
  /\ UNCHANGED <<run, serverVars, paused, network, node, erasures, ex>>
LoseAddress ==
  /\ network /\ network' = FALSE /\ Fault("network")
  /\ UNCHANGED <<run, serverVars, paused, spec, node, erasures, ex>>
ReportAddress ==
  /\ ~network /\ network' = TRUE
  /\ UNCHANGED <<run, serverVars, paused, spec, node, erasures, ex, faults>>

-----------------------------------------------------------------------------
Pass(e) ==
  \/ Begin(e) \/ Prepare(e) \/ Claim(e) \/ Resume(e) \/ CkRead(e) \/ CkPatch(e)
  \/ Boot(e) \/ RefreshPrepare(e) \/ RefreshCheck(e) \/ KexecCheck(e) \/ Kexec(e)
  \/ ArmCheck(e) \/ Arm(e) \/ RebootCheck(e) \/ Reboot(e)
  \/ AwaitLive(e) \/ FirstContact(e) \/ AwaitTimeout(e) \/ LiveRecheck(e)
  \/ Enroll(e) \/ EnrollPlay(e) \/ EnrollProbe(e) \/ InstallCheck(e) \/ Install(e)
  \/ Wipe(e) \/ InstallDone(e) \/ Finish(e) \/ FinalCheck(e) \/ FinalReboot(e) \/ AwaitInstalled(e)
  \/ Verify(e) \/ PostCheck(e) \/ Post(e) \/ Release(e)
  \/ FailedPending(e) \/ Failed(e) \/ Cleanup(e) \/ ClearKexec(e) \/ ClearNext(e)
  \/ RecheckNext(e)

Next ==
  \/ \E e \in Executor : Pass(e) \/ CkPatchLost(e) \/ ClaimLost(e) \/ StepFails(e) \/ Crash(e)
  \/ \E r \in Run : CreateRun(r)
  \/ NodeBoots \/ PowerLoss
  \/ Pause \/ Unpause \/ Edit \/ LoseAddress \/ ReportAddress

Spec == Init /\ [][Next]_vars

\* The pipeline keeps starting passes and a pass keeps running, a requested
\* reboot happens, and a paused or unaddressed Server is eventually looked at.
FairSpec ==
  /\ Spec
  /\ \A e \in Executor : WF_vars(Pass(e))
  /\ WF_vars(NodeBoots) /\ WF_vars(Unpause) /\ WF_vars(ReportAddress)

-----------------------------------------------------------------------------
(* Properties.                                                             *)

PassSteps ==
  {"idle", "failed", "release", "prepare", "claim", "resume", "ckRead", "ckPatch", "boot",
   "refreshPrepare", "refreshCheck", "kexecCheck", "kexec", "armCheck", "arm", "rebootCheck",
   "reboot", "awaitLive", "liveRecheck", "enroll", "enrollPlay", "enrollProbe", "installCheck",
   "install", "wipe", "installing", "finish", "finalCheck", "finalReboot", "awaitInstalled", "verify",
   "postCheck", "post"} \cup CleanupSteps

\* Every variable keeps its type; a pass that holds a run is never idle, and an
\* idle one holds none.
TypeOK ==
  /\ run \in [Run -> Runs]
  /\ activeRun \in Run \cup {NoRun} /\ lastRun \in Run \cup {NoRun}
  /\ paused \in BOOLEAN /\ spec \in {0, 1} /\ network \in BOOLEAN
  /\ node \in Nodes
  /\ erasures \in [Run -> Nat]
  /\ \A e \in Executor :
       /\ ex[e].pc \in PassSteps /\ ex[e].view \in Runs
       /\ (ex[e].pc = "idle") <=> (ex[e].run = NoRun)
       /\ ex[e].run \in Run \cup {NoRun}
  /\ faults \in Nat

\* "Never automatically rewipe": a run erases the disk at most once, whatever
\* passes overlap, are cut off or lose the answer to their checkpoint.
EraseOnce == \A r \in Run : erasures[r] <= 1

\* The disk is erased only for the run that holds the Server's reservation, in
\* the destructive phase (or blocked out of it) with maintenance recorded, in
\* the live session that run enrolled and never in the session it came from:
\* whatever the node boots between the attestation of its session and the wipe.
EraseAuthorised ==
  [][\A r \in Run : erasures'[r] # erasures[r] =>
       /\ activeRun = r
       /\ run[r].phase \in {"Installing", "Blocked"} /\ run[r].maintenance
       /\ node.live /\ node.bootID = run[r].liveBootID
       /\ node.bootID # run[r].sourceBootID]_vars

\* A disk that a run has written stays reserved by that run, in maintenance,
\* until the run has succeeded; an unreserved Server's disk is the one its last
\* successful run installed.  A failure after the erase never frees the Server.
DiskIsAccounted ==
  LET r == node.marker IN
  IF activeRun = NoRun
  THEN r = lastRun /\ node.disk # "erased"
  ELSE r # lastRun => /\ r = activeRun
                      /\ \/ run[r].maintenance
                         \/ run[r].phase = "Succeeded" /\ node.disk = "installed"

\* The phase graph.  A stale pass can neither take a run back to an earlier
\* phase nor out of a terminal one, and once a run is past the destructive
\* stage it is retried, never blocked.
Successors(phase) ==
  CASE phase = "Absent"            -> {"Pending"}
    [] phase = "Pending"           -> {"PreparingBoot"}
    [] phase = "PreparingBoot"     -> {"AwaitingLive", "Blocked"}
    [] phase = "AwaitingLive"      -> {"Installing", "Blocked"}
    [] phase = "Installing"        -> {"AwaitingInstalled", "Blocked"}
    [] phase = "AwaitingInstalled" -> {"Verifying"}
    [] phase = "Verifying"         -> {"Succeeded"}
    [] OTHER                       -> {}

OneWay ==
  [][\A r \in Run : run'[r].phase # run[r].phase =>
       run'[r].phase \in Successors(run[r].phase)]_vars

\* The managed private key is delivered only to a live session other than the
\* run's source session, and only by a pass that recorded that session's bootstrap
\* key in the run, or read it there: first contact is checkpointed before it is
\* trusted.  (The stored record itself may have been replaced since, by the late
\* checkpoint of a pass that met an earlier session.)
KeyDelivery ==
  [][node'.key = ManagedKey /\ node.key # ManagedKey /\ node'.bootID = node.bootID =>
       \E e \in Executor : /\ ex[e].pc = "enrollPlay"
                           /\ ex[e].view.bootstrapPublicKey = node.key
                           /\ node.live /\ node.bootID # run[ex[e].run].sourceBootID]_vars

\* Passes that do not overlap leave no boot selection behind: a Server without
\* a reservation has neither a one-shot netboot entry nor a loaded kernel.
ReleasedDisarmed == activeRun = NoRun => ~node.nextEntry /\ ~node.kexec

\* A Server without a reservation has no reboot under way that a run asked for.
ReleasedQuiet == activeRun = NoRun => node.going = "no"

\* Passes do not leave a run between its claim and the end of its destructive
\* stage for ever: it gets past the stage or is blocked, unless the inputs it
\* pinned are edited.
Edited(r) == spec # run[r].snapshot
Settles ==
  \A r \in Run :
    run[r].phase \in {"PreparingBoot", "AwaitingLive", "Installing"} ~>
      Edited(r) \/ run[r].phase \in {"AwaitingInstalled", "Verifying", "Succeeded", "Blocked"}

\* A release cut off after the terminal checkpoint is made up for: a finished
\* run out of maintenance does not keep its Server.
Released ==
  \A r \in Run :
    run[r].phase \in {"Succeeded", "Blocked"} /\ ~run[r].maintenance ~> activeRun # r
=============================================================================
