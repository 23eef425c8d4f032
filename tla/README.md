# A TLA+ verification of the homelab operators

This directory specifies the control logic of the operators in `src/operators/`
and of the Ansible stages they drive. The operators are short-lived processes,
started by Concourse pipelines, that advance resources stored in an external API
("Stigmergy") and change machines over SSH. They have no leader, no daemon and no
local memory: everything they know lives in API resources written with
`If-Match`, and any of them can be aborted, killed, delayed or run twice. What
can go wrong lies between two of their requests, which is what the models are about.

## 1. Inventory

| Component | State | Operations | Interacts with |
|---|---|---|---|
| Operation claims (`server_operation.py`) | Operation phase and revision; the target's `operationRef` | `reservation`, `verify_operation`, `operation_progress`, `complete_operation` | called by the three operators below; the API keeps claim and reference together |
| Provisioning operator (`provisioning.py`) | a ProvisioningRun (phase, maintenance, boot ids, bootstrap key, netboot flag); the Server's `activeRunRef` | one pass: bind, preflight, claim, boot, enroll, install, verify, post-install, release, failure handling | stages on the node (`plays/provision_stage.yml`, `roles/provision`, `roles/grub`); excludes claims through `activeRunRef` |
| Configurations operator (`configurations.py`) | a Configuration's generation, suspension and reported status | list, order by dependency, plan, claim all hosts, run guards and command, publish, report | claims; reads Servers and other Configurations |
| SSH host identity operator (`ssh_host_keys.py`) | `status.hostSSH`: desired pair, bootstrap pin, installed pair, phase | first contact, delivery of the managed key, verification, trust play, reports | claims; `runner_trust.py` accepts its result for ordinary commands |
| System operations (`system_operations.py`) | an Operation requested by a user | one claimed play | claims |
| Runner programs (`runner_trust.py`, `runner_kubernetes.py`, `runner_credentials.py`) | `~/.ssh` and `~/.kube` of an interactive runner | install SSH credentials, fetch and install a kubeconfig | read what the operators and controllers reported; `verified_context` is used by the Configurations operator too |
| API transport (`common.py`) | none | GET, PATCH with `If-Match`, POST without retry, SIGTERM handler, command timeout | everything |
| Kubernetes play (`plays/configure_kube.yml`, `roles/kube`, `filter_plugins/kube_plan.py`) | a marker on every member, the API's binding, Nodes and labels, outputs and observations of the Configuration | preflight, prepare, init, join, registration, labels, verification, record | runs as the command of a Configuration under its claims; kubeadm and kubelet act on their own |
| Other roles and plays | the configured hosts | declarative tasks | run as commands of a Configuration |

What makes each of them correct, and hard to test:

* **Claims**: remote work never runs on a target somebody else may take; a
  reported outcome is final. Hard: aborts between two requests, lost answers,
  concurrent writers, commands whose end is unknown.
* **Provisioning**: a disk is erased at most once per run, only in the session
  that run enrolled, and a half-written machine is never given back. Hard:
  crashes, lost checkpoints, overlapping passes, asynchronous reboots, power loss.
* **Configurations**: `Ready` describes work that was really done; one command per
  host. Hard: several claims held at once, edits during a pass, stale `Ready` flags.
* **Host identity**: a private key is delivered only to a machine whose key was
  recorded; an established identity is not replaced. Hard: two builds, machines that change
  places, resets and rotations during a pass.

* **Kubernetes**: an installation is bootstrapped once, a recorded cluster lifetime is
  never silently replaced, and nothing that belongs to others is adopted. Hard: kubeadm
  that outlives its pass, partial joins, members and Nodes changed by others between
  two tasks, passes that fail but must report.
* **Runner**: credentials that are installed belong together and to the cluster they
  are named after. Hard: resources that change between requests, a container stopped
  between two writes.

The complete list of hazards, each at its line and with the properties that cover
it, is in `PROJECT.json`.

## 2. Modules

| Module | What it is |
|---|---|
| `TargetLock` | abstract specification: what a claim promises its holder |
| `ServerOperation` | the claim protocol as coded, used by any mix of the three callers; implements `TargetLock` |
| `ServerOperationProofs` | its theorems |
| `Provisioning` | the provisioning operator, the node and its boot selection, one Server |
| `ProvisioningProofs` | its theorems about the disk, the phases and the host key |
| `ProvisioningDisarmProofs` | its theorems about the boot selection |
| `Configurations` | passes of the configurations operator; claims are the lock that `ServerOperation` implements |
| `ConfigurationsProofs` | its theorems |
| `DependencyOrder` | the depth-first `dependency_order()` as a step-by-step algorithm |
| `DependencyOrderProofs` | its theorems |
| `HostTrust` | the SSH host identity operator, one Server; claims again as a lock |
| `HostTrustProofs` | its theorems |
| `KubeCluster` | passes of the Kubernetes play over one cluster, with kubeadm, kubelet and everybody else |
| `KubeClusterProofs` | its theorems |
| `Runner` | the two programs that install a runner's SSH and Kubernetes credentials |
| `RunnerProofs` | its theorems |
| `MC*` | finite instances for TLC, one `.cfg` per question |

Definitions whose comment begins "Mutant" are deliberately wrong versions of the
definition that follows; no specification uses them. They show that a property
can fail: with the mutant in place of the original, TLC finds the property violated.

### ServerOperation

`phase`, `targetRef`, `revision`, `operationRef` and `leased` are what the API
stores; `remote[o]` is work that may still be running on the node; the rest is
local to an executor, `pc` being its place in `reservation()`. `Observe` to
`Confirm` are the snapshot check, the POST and the reread; `Verify`, `Progress`
and `Start` are `verify_operation`, the conditional progress report and the
command; `CommandSucceeded`/`CommandFailed` classify how it ended the way the
caller does (`ResultOf`), and `CheckFailed` is a probe or a reread between two plays that
refuses; `CompleteRead`/`CompletePatch`/`CompleteConflict`/
`CompleteFault` are `complete_operation` with its bounded retries. `CreateLost`
and `CompleteFault` are requests that took effect although an error came back. `Terminate` is
SIGTERM with its unwinding, `Kill` is SIGKILL. `AdminResolve` (of a retained claim, or of
one still in use, which `forced` records), `Touch` (another writer of the Operation), `Lease` (provisioning) and `RemoteEnds` are external.
Every pass creates one Operation, so Operations are named by executor and pass.

### Provisioning

`run[r]` is the stored ProvisioningRun, `node` the machine: its boot session,
host key, one-shot GRUB entry, loaded kexec kernel, pending reboot, disk and marker.
`ex[e]` is a pass with its copy of the run. Every read of the API or the
node is a step, and so is every effect. A checkpoint is two steps, `CkRead` (which
revalidates everything `current()` does) and `CkPatch` (`If-Match`), with `CkPatchLost`
for a lost answer. `Dispatch` decides what a pass does with the phase it finds;
`Boot` to `Reboot` are the preparation, `AwaitLive`/`FirstContact` the wait for the
live session, `Enroll*` the delivery of the host key, `Install*` the destructive
stage: `Install` is the attestation of `roles/provision/tasks/install.yml` (`MayErase`),
`Wipe` the first task that touches the disk, with reads and package installation and so
any number of boots between them. Nothing but `wipefs` itself looks at the node again:
without `--force` it opens the disk exclusively and refuses one in use (`InUse`), which
is external and what `EraseAuthorised` rests on; the node has one disk, and boots an
installed system from it. `Finish` to `Post` the way to `Succeeded`, `Failed` to `RecheckNext` the failure
handler, `Release` the return of the Server. Failures: any pass may crash anywhere, any step
fail, any answer be lost, the node lose power, an administrator pause or edit, the
address disappear.

### Configurations and DependencyOrder

A pass lists specs once (`List`), then for each Configuration plans from that
snapshot (`Seen`), claims its hosts in order, plans again, reports Reconciling
(`ReportReconciling` reads the Configuration, `PatchReconciling` writes it with `If-Match`;
`stale` are the passes whose copy somebody has overtaken),
verifies claims and runs up to three stages, confirms (public result and target
status), unwinds the claims in reverse order and reports. An input revision, in the
code a digest, is the tuple of inputs it digests; the prerequisites it covers
(`Upstream`) are the least set that holds the Configuration and is closed under
`DependsOn`. A conflict of the Reconciling report is an error that nothing classifies, so the
claims become Uncertain and wait for an administrator; one of the Ready report makes
main report Failed, one of any other report is only printed. `Failures` are the ways a stage can end badly and
`FailurePhase` how main reports them.

`DependencyOrder` keeps the call stack of the recursive `visit` explicitly, since
its intermediate states (the `visiting` set) are what its correctness rests on. The names a
Configuration needs (`Needed`) are the least set that holds its prerequisites and is closed
under having more of them; a graph is `Cyclic` when a Configuration needs itself.

### HostTrust

`hostSSH` is the stored identity, `claim` the Operation that names the Server,
`machine`/`hostKey` who answers at the address and with which key, `pass[e]` the
locals of a pass. `Current` is `current()`; `pass[e].stale` says that somebody wrote the Server since `e` read it,
which is when an `If-Match` write is refused. The reread and the write of
`pin_first_contact()` and `observation()` are separate steps. `delivered`,
`pinned` and `proved` are history variables of the properties; a reset does not take a proof
back, so `AcceptedIsProved` speaks of a verification at some time. A lost answer to
the POST, or an abort before it is in the `try` block, leaves the same state as
`Kill` right after `Reserve`.

### KubeCluster

One pass at a time (the claims see to it) runs the play task by task; a task is one step
on all its hosts, except that a write of the markers may reach some hosts only.
`marker` is `/var/lib/homelab/kube-cluster.json`, `creds` the cluster lifetime that a
host's credential files belong to, `api`/`bound`/`node` the lifetime, the binding and the
Nodes of the running API, `boot` and `fresh` what kubeadm and kubelet are about to do.
`Owned` and `MayBuild` are the refusals of `identity.yml` and of the play, `SameLifetime`
the one of `control_plane.yml`; `InitIntent`, `KubeadmInit` and `InitEnded` are the
intent, the start and the end of kubeadm, which goes on if the pass does not. `setup`
is how the API was initialised: a kubeadm init that dies (`KubeadmDies`) may have started it without
uploading `kubeadm-config`, after which `VerifyApi` refuses it for ever, or without what
joins need (`JoinRefused`); one that was set up by hand may have other settings or somebody
else's Flannel. `AwaitFlannel` is the rollout that waits for Flannel on every Node there is
(`FlannelRuns`), before the first observation; a machine that leaves the cluster leaves a Node
without Flannel behind (`Abandoned`).
`JoinCheck` to `CheckCA` are `join.yml` with its `always` part, `Membership` to
`PatchLabels` are `membership.yml`, `Observe` is `observe.yml` at its three places,
`Publish` and `Failed` what the Configurations operator makes of a good and a bad end.
A Node's labels are the five kinds that the filters tell apart. Failed tasks, cut-off
passes, dying kubeadm, reinstalled and rebuilt members, replaced objects and changed
Nodes are the disturbances, `MaxFaults` in all.

### Runner

`Start` to `InstallFile` are `runner_credentials.py`, from `RemoveConfig` on
`runner_kubernetes.py`; every request and file operation is a step, and so is the one
remote read, which is one command on the control plane. Any step may fail (`Fails`): a context run that
fails before it has removed what is ours is "refused", one that fails in the middle of writing the
kubeconfig is "broken", any other "failed". A failed write and a stopped container
(`Killed`) may leave the file that was being written torn (`HalfWritten`), because
`write_private()` truncates in place. A Secret's private and public key are one key, so
the comparison of its two halves in `validate_credentials` has nothing to find. `torn` and `late` are history variables of
the properties.

### What is abstracted

Payloads, names, uids and messages; source revisions and checkouts; deletion
timestamps, validity periods and Ready conditions of credentials (they only add
refusals); inventory contents; cluster settings, artifacts, the Flannel objects and network probes; the
contents of disks beyond original, erased or installed by a run; time (a timeout
may happen whenever its command is running). Claims in `Configurations` and `HostTrust` are one
step because `ServerOperation` is shown to implement that lock.

## 3. Runs

| Run | Instance | Shows |
|---|---|---|
| `claims` | 2 executors with different callers, 1 target, one pass each, 2 attempts, aborts, kills, API faults, claims resolved while in use, 2 writes of others per Operation, weak fairness | `WorkHoldsTarget`, `ImplementsLock` (refinement of `TargetLock`), `OutcomeIsFinal`, `StageNeedsRunningClaim`, `ClaimSettles` |
| `signalled_play` | system operations, commands killed by a signal | violation, finding 1 |
| `provisioning` | 2 successive runs, one pass at a time, 5 boots, 3 faults of any kind, weak fairness | `ReleasedDisarmed`, `Settles`, `Released` |
| `provisioning_overlap` | 1 run, 2 overlapping passes, 3 boots, 2 faults of any kind | `EraseOnce`, `EraseAuthorised`, `OneWay`, `KeyDelivery`, `DiskIsAccounted` |
| `provisioning_quiet` | 1 run, pauses | violation, finding 2 |
| `configurations` | 2 pipelines, base on h1, app on h1 and h2, all faults, a change of each host, reprovisioning | `SoleWorker`, `ReadyIsGrounded` |
| `configurations_live` | 1 pipeline of both, edits, suspensions, changed hosts, weak fairness | `Converges`, `RetainedAfterEdit` |
| `configurations_recheck` | 1 pipeline, edits | violation, finding 3 |
| `dependency_order` | every graph of 3 Configurations and one missing name, weak fairness | `PrerequisitesFirst`, `CyclesDetected`, `EveryoneExamined` |
| `host_trust` | 2 executors, 2 machines, 2 key pairs, 1 reset, 2 faults of any kind (forced resolution included) | `DeliveredToPinned`, `AcceptedIsProved`, `EstablishedStays`, `OneEnrollment` |
| `kube_cluster` | a control plane and 2 workers of which any may be selected, 2 disturbances of any kind, weak fairness | `BootstrapOnce`, `NoSilentRebuild`, `LifetimeKept`, `PatchRespectsOthers`, `Converges`, `Reported` |
| `runner` | any number of starts, 4 changes or faults of any kind | `CredentialsAgree`, `Disposable`, `ContextSound` |

Each module's type invariant is checked by one of its runs.

**Why the bounds are enough.** Exclusion needs two contenders and one thing to
contend for. Retry loops are bounded by 5 in the code; two attempts separate the first try, a retry
and giving up, and two writes of others are enough to lose them all, so the end of
`complete_operation`'s loop is reached and `ClaimSettles` states the condition (as many writes of
an Operation as there are attempts) under which a claim may stay Running. One run of provisioning needs three boot sessions (original,
live, installed); the fourth and fifth are for power losses and the second run. Two
Configurations with one dependency, and hosts that they share in part, give
contention for a host, a partial set of claims and a prerequisite that changes. Three
names give every shape of cycle and of shared prerequisites. Two machines, two key
pairs and a reset allow a wrong machine, a rotation and a second enrollment within
one pass; two attempts of an observation let a conflict be retried; two passes overlap there after one fault, which leaves one for
what happens to the overlapping passes. Two workers make a join partial; two
disturbances are a change and the failure that follows it, such as a pass cut off during
a bootstrap and a kubeadm that dies later (with one worker three disturbances were
explored as well, without a violation). Four changes rotate all three SSH resources, or replace
cluster and Server, and stop the runner besides. `MaxAttempts`, `Attempts`, `MaxPasses`, `MaxTouches`, `MaxBoots`,
`MaxFaults`, `MaxEdits`, `MaxChanges`, `MaxPairs` and `MaxResets` name the bounds.
Symmetry is used over interchangeable executors and machines, in runs without
liveness properties.

**Deadlock** checking is off where the modelled world may stop: passes of
`ServerOperation` are bounded, a run of `Provisioning` ends (or the last boot session
is used up), and `DependencyOrder` terminates.

**Fairness.** `ServerOperation!FairSpec`: an executor in the middle of a pass takes its
next step (a process is scheduled) and remote work ends; nobody is forced to start a
pass. `Provisioning!FairSpec`: passes are repeated (Concourse triggers them
periodically), a rebooting node boots, and pauses and missing addresses do not last for
ever; faults are finite in number. `Configurations!FairSpec`: passes are repeated,
nothing else. `KubeCluster!FairSpec`: scheduled passes go on, kubeadm ends and kubelet
registers; disturbances are finite in number. `DependencyOrder!FairSpec`: the algorithm runs on. All of it is weak
fairness of a process's next step.

## 4. Findings

1. **`signalled_play`**: in `system_operations.py` and `ssh_host_keys.py` a play
   killed by a signal has a negative return code that counts as a known failure,
   which frees the target while work may be running on the node;
   `configurations.py` treats the same code as uncertain.
2. **`provisioning_quiet`**: after an asynchronous reboot request a pause makes the
   failure handler run; the node still answers in its source session, the boot
   selection is cleared and the Server is released with the reboot still to come.
3. **`configurations_recheck`**: the recheck "before execution" plans the listed
   Configuration, not the stored one, so an edit or a suspension of that
   Configuration does not stop its command; the final report does notice.

More was met while modelling, and has no run of its own. Several cases have an
outcome that is safe and only asks for an administrator:

* an abort between the effect of the
  POST and the `try` block of `reservation()` leaves the Operation Running rather than
  Uncertain (`operators/common.py:42` says "not stranded Running"; `CreateLost`);
* when every try of `complete_operation` meets a write of others, the claim of a
  command that has ended stays Running (`CompleteConflict`, the condition of `ClaimSettles`);
* an edit of a Configuration between the read and the patch of its Reconciling report makes all
  claims of the pass Uncertain although no command was started (`PatchReconciling`;
  `RetainedAfterEdit` says that, when no request fails, nobody is interrupted and a Configuration
  has one pass, only an edit of the Configuration does this);
* a refusal of `current()` in `ssh_host_keys.py`, worded "retry next pass", retains the claim
  as Uncertain, so the next passes find the Server busy;
* a kubeadm init that dies after it started the API and before it uploaded
  `kubeadm-config` is neither repeated nor repaired by any pass (`control_plane.yml:45`), and
  the Node of a reinstalled worker stops every pass at the Flannel rollout until
  somebody deletes it; `Converges` exempts both (`Sound`, `FlannelRuns`).

A checkpoint of provisioning compares the run's identity, request, plan and phase with the
pass's own copy, but no session or key (`validate_attempt_checkpoint`), so of two
overlapping passes in AwaitingLive the one that met an earlier live session can record that session's bootstrap key
(`operators/provisioning.py:564`) after the other has recorded the key of the present
session. The stored `bootstrapPublicKey` is then the key of a session that is gone. The
delivery under way still goes to the session its pass recorded, which is how `KeyDelivery` is
stated; later passes refuse the present session until the run is blocked by its
timeout. It takes two executors, two power losses and four boots, more than the
`provisioning_overlap` run has, and came up in the proof of `KeyGoesToPinnedSession`.

The other cases are places where the code does less than its comments or documents say:

* the role is said to record the membership "before repair and after verification, including
  failed verification" (`roles/kube/README.md:51-55`), but the Flannel rollout
  (`control_plane.yml:174`) is waited for before the first observation. A machine that takes the
  Node name of a member, and on which Flannel does not run, ends every pass there, and the
  degraded membership is not published. `Reported` is what holds: the passes that get past Flannel publish it;
* "a failed refresh must not leave the shell pointing at a previous cluster"
  (`runner_kubernetes.py:189-190`), but a missing token (`common.py:78-82`) or group name (line 246)
  and symbolic links (lines 187-188) fail before anything is removed and leave the
  previous context (`Fails`, "refused"). `Disposable` is what holds;
* "Refresh only our disposable context; never overwrite user-supplied kubeconfig"
  (`runner_kubernetes.py:183`), but the kubeconfig is looked for (line 198) long before it is written
  (line 216), so one that appears in between is overwritten; and whatever lies beside the mark of a
  context is removed (line 192), also a kubeconfig that the user put in the place of ours, be it the one of
  an interrupted run or of a completed one. `UserFileKept` says that there is no third way to
  lose the user's file; TLC shows both ways within two changes when either is left out of it.

`write_private()` truncates in place on the
ground that "All callers use private fresh task/temporary directories"
(`operators/common.py:136`), which is not so for the runner's home: a stop between two
writes leaves credentials that do not belong together until the next start
(`CredentialsAgree` speaks of completed installations), and a failed write leaves half a
kubeconfig, which the next start removes because it is marked (`Disposable`). `verify.yml:30` sets the worker
label by name, on whatever Node has it by then, and `control_plane.yml:77` binds an API
before its lifetime is compared; both are in the model and disturb none of its properties.

## 5. Proofs

The theorems hold for every value of the constants that satisfies the assumptions
named in the component's module, so for any number of executors, runs, hosts, machines,
boots, faults and edits. The assumptions are the types of the parameters and

* sentinels (`NoRun`, `None`, `"free"`, `"retained"`, ...) that are none of the values they stand beside;
* `ServerOperation`: at least one pass and one attempt, as in the code;
* `Configurations`: a Configuration names each host once (`configurations.py:188` takes
  them from the keys of a mapping) and a pass has something to do: an empty list is a
  pass without steps;
* `HostTrust`: there is a machine, a key pair and an attempt;
* `KubeCluster`: the control plane is a Server.

Each module proves an inductive invariant, initially, over each action and over
a stuttering step, and draws the properties from it; `DependencyOrderProofs` and
`ProvisioningDisarmProofs` have a second one on top (`WalkInv`, `Arms`). Each was checked
by TLC on the instances of section 3, or smaller ones, before it was proved.

`ServerOperationProofs`:

* `TypeCorrect`, `FinalOutcome` (`OutcomeIsFinal`), `StageUnderClaim`
  (`StageNeedsRunningClaim`) rest on the inductive invariant
  `BaseInv == TypeOK /\ PassInv /\ CasInv /\ RefInv`. None of the properties is inductive
  alone: that a patch does not overwrite an outcome needs `CasInv` (an
  unchanged revision means the phase that was read is still there), `CasInv`
  needs that the Operation of a pass exists (`PassInv`), and `RefInv` ties the
  target's reference to the phase.
* `OwnershipRetained` (`WorkHoldsTarget`) and `RefinesLock` (`ImplementsLock`) use
  `WorkInv` besides: work that may be running belongs to a retained Operation, and
  an executor reports a known outcome only when its command is known to have ended.
  Claims that an administrator resolved while they were in use are exempt in the
  properties themselves (`forced`); what is assumed is `SignalsClassified`, and
  `signalled_play` shows that it cannot be dropped.

`DependencyOrderProofs`:

* `TypeCorrect` and `OrderIsTopological` (`PrerequisitesFirst`) for every finite list of
  Configurations and every graph. The order's property alone is not
  inductive: `FramesInv` adds that every prerequisite a frame of the call stack no
  longer has to look at is in the order already, or is the call right above it.
* `CyclesReported` (`CyclesDetected`) and `NobodyLeftOut` (main examines every
  Configuration exactly once when the walk has ended; that it ends is liveness), from
  `WalkInv`: a call on the stack is needed by every call below it, so a name met while it is
  being visited needs itself; and what is put in the order needs only what stands before it,
  a closed set that does not hold it. As `Needed` is a least closed set, neither direction
  takes an induction over paths.
  `NamesAssumption` is the only assumption (names are listed once, apart from the
  missing ones).

`ProvisioningProofs`, from `Inv`:

* `TypeCorrect`, `AtMostOneErase` (`EraseOnce`), `WrittenDiskIsReserved`
  (`DiskIsAccounted`), `PhasesGoOneWay` (`OneWay`), `ErasesAreAuthorised`
  (`EraseAuthorised`) and `KeyGoesToPinnedSession` (`KeyDelivery`), with any number of
  overlapping passes.
* Why more than the properties is needed: that a run is erased once does not follow from
  the number of erasures, but from who may erase. `Tracks` says that a pass whose revision
  is fresh has the stored phase in its view; `Placed` gives the phase each step belongs to;
  `PatchOK` says that a checkpoint in progress writes a legal successor of that phase.
  With these a run enters Installing once, by one pass, and `EraserOK` and
  `OneEraser` say that this pass alone is licensed to erase, and only while nothing has
  been erased. That the wipe still meets the session that was attested some steps before is
  `SessionHeld`, an invariant on top of `Inv`: with the wipe ahead, the node
  is still in that session, or it does not answer with the managed key, or its disk is in use. `RunOK` ties the reservation, maintenance, erasures and the marker to the phase,
  `KeyOK` a session's host key to the session, `ErasedOK` and `DiskIsAccounted` the disk
  to the reserving run.

`ProvisioningDisarmProofs`, from `Inv` and `Arms`:

* `DisarmedWithoutOverlap`: `Spec /\ []NoOverlap => []ReleasedDisarmed`, where `NoOverlap`
  says that at most one pass is in progress. The passes may be those of any executors one
  after the other, and crashes, failed steps, lost answers, power losses and edits
  are all included. `DisarmedByOne` is the case of a single executor, where the premise holds by
  itself; the `provisioning` run is an instance of it.
* The premise is needed: with two passes, one that was delayed after its last `current()` can set the
  one-shot entry after the other has cleaned up and released the Server.
* The property says nothing while a run holds the Server, so the invariant has to say what
  the run's record tells about the node. `StoredArms`: a node that is selected belongs to a
  reserving run that is PreparingBoot or AwaitingLive with `netbootArmed`, or is Blocked in
  maintenance. `Selection`: a one-shot entry is on an installed host, a loaded kernel in the
  run's source session, so a live session that is not the source session, and every session
  that has just begun, has no selection. `PassArms` and `PatchArms`: no copy of the
  run and no checkpoint in progress forgets a selection that may be there; the
  one that announces it is written before the node is touched (`prepare_boot`), and the one that gives
  up the maintenance only after the cleanup has seen it gone (`handle_failure`).

`ConfigurationsProofs`, from `Inv`:

* `TypeCorrect` and `OneWorkerPerHost` (`SoleWorker`): `Owns` says that the stored claims
  of a pass are exactly those it counts, `Ranges` that it counts all hosts while it
  works, `Accounted` that work left behind by an aborted pass is covered by a claim that is
  kept.
* `ReadyReportsStand` (`ReadyIsGrounded`), for every graph of prerequisites, cyclic
  ones included: `Assured` says what a pass carries from its plan to its report. It rests on lemmas
  about `Upstream` (it is transitive, and a Configuration on no cycle is not upstream of its prerequisites), proved
  from its definition as a least closed set, and on the fact that a part of a revision is the
  revision of the part.
* `KeptForAnEdit` (`RetainedAfterEdit`), for every number of pipelines and with commands that
  fail: `Honesty` says that a listed generation is never newer than the stored one, and is older
  whenever a pass has lost its resourceVersion or leaves its claims with an unknown outcome.
  That nobody else reports on the Configuration (`OnePassEach`) and that no request fails are
  the property's premises; the generation is what makes it inductive.

`HostTrustProofs`, from `Inv == TypeOK /\ StoreSound /\ LocalsSound /\ DeliveredToPinned`:

* `TypeCorrect`, `SecretsToPinned` (`DeliveredToPinned`), `TrustIsProved`
  (`AcceptedIsProved`), `PinNotExchanged` (`OneEnrollment`), `IdentityStays`
  (`EstablishedStays`). `LocalsSound` is what the `If-Match` writes rest on: a pass that
  is not stale has the stored identity in its locals, and the pin it delivers to was recorded in the
  enrollment it belongs to; `StoreSound` says the same of the stored pin and of Ready.

`KubeClusterProofs`, from `Inv`:

* `TypeCorrect`, `NoInitReplay` (`BootstrapOnce`), `NothingStranded`
  (`NoSilentRebuild`), `LifetimesStay` (`LifetimeKept`), `OthersRespected`
  (`PatchRespectsOthers`). `MarkersSound` says what a marker tells about an installation
  (without an intent kubeadm has not run), `PlanSound` what a pass knows of the members it has not
  bootstrapped yet, although kubeadm and others act in between, `LifetimeSound` that the
  lifetime a pass found agrees with all that was recorded, `ReadsSound` that a Node with the UID
  that was read is still that Node; `Grown` keeps uids and lifetimes within their types.

`RunnerProofs`, from `Inv`:

* `TypeCorrect`, `CredentialsBelongTogether` (`CredentialsAgree`), `ContextDisposable`
  (`Disposable`), `ContextVerified` (`ContextSound`), `UserFileSafe`
  (`UserFileKept`). `Installing` says what has been written so far, `NoneOfOurs` that no
  context of ours is there between its removal and a new one, `Doomed` that a context read from the
  wrong machine is one whose KubeCluster or Server has been replaced since, so that the recheck
  that is still ahead refuses it.

Checked by TLC only: liveness (`ClaimSettles`, `Settles`, `Released`, `Converges`,
`Reported`, and of `EveryoneExamined` that the walk ends), which the prover does not
handle. Every invariant and every action property that a passing run checks is a theorem.
`ReleasedQuiet` and `CommandForCurrentSpec` are the findings and do not hold;
`WorkHoldsTarget` holds under `SignalsClassified`, as stated above.

## 6. Plan

Done: claims with their abstract lock, provisioning, configurations, dependency order,
host identity, the Kubernetes play and the runner, each with proofs.

What would come next, in this order:

1. `SystemOperations`: the request, boot checks and reboot play as a module over
   the lock.
2. `StorageLayout`: `validate_storage` and `verify_installed_storage` of
   `provisioning.py` as operators, checked against a reference definition.
3. A second Server in `Provisioning`'s claim step, for the check of other runs in
   `prepare_attempt`.

## 7. Not modelled

Wire-format narrowing (`models.py`), address, key and inventory parsing, fact
collection on the node (`probe.py`), partitioning and package installation,
the settings, network, Flannel and artifact filters of `kube_plan.py` (pure data
validation and rewriting), declarative roles, platform bootstrap and image builds, plays that administrators run
by hand, and experiments: they have no protocol state or are plain I/O. The
API itself is external and is modelled by what the operators rely on:
`If-Match` writes, atomic creation of an Operation with the target's reference,
and release of the reference with a terminal phase.
