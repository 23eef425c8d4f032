---------------------------- MODULE KubeCluster ----------------------------
(* The kubeadm cluster that plays/configure_kube.yml builds and repairs with the
   kube role and the kube_plan filters: the protected markers of the members, the
   one bootstrap of each installation, the lifetime of the API behind one
   KubeCluster, and the Nodes with their managed labels.

   One pass of the play runs at a time: the Operation claims of its Servers see to
   that (ServerOperation, Configurations), and they keep reprovisioning away from a
   member for as long.  A task runs on its hosts in lockstep and any failed host
   ends the play (any_errors_fatal).  Between the tasks, kubeadm and kubelet go on
   by themselves and other clients of either API do what they like.

   A cluster lifetime (the UID of the kube-system namespace, which comes with a CA
   of its own) and the UIDs of KubeClusters and Nodes are numbers; 0 stands for the
   empty string.  The settings that members must agree on, artifacts, node readiness and
   the network probes are not told apart: a task that refuses because of them is a
   failed task.  What makes every later pass refuse the API is: a kubeadm init that did
   not get far enough, other settings or another owner's Flannel, and a Node on which
   Flannel never runs. *)
EXTENDS Naturals, FiniteSets

CONSTANTS Server, ControlPlane, None, MaxFaults

ASSUME ControlPlaneAssumption == ControlPlane \in Server /\ None \notin Server
ASSUME FaultsAssumption == MaxFaults \in Nat

VARIABLES
  uid,         \* of the KubeCluster object with the cluster's name
  selected,    \* the Servers labelled as its members
  outputs,     \* status.outputs of the Configuration
  observation, \* the membership last published in KubeCluster.status
  marker,      \* /var/lib/homelab/kube-cluster.json of each Server
  creds,       \* the lifetime its kubelet.conf, CA (and admin.conf) belong to
  boot,        \* Servers on which a kubeadm process is running
  fresh,       \* Servers whose kubelet has not registered since it started
  api,         \* the lifetime that the control plane's API serves
  setup,       \* how it was initialised
  bound,       \* clusterUID of its homelab-identity ConfigMap
  node,        \* its Nodes
  token,       \* the join token of a pass
  pass,        \* the pass in progress
  born,        \* lifetimes there have been
  begun,       \* kubeadm init/join runs on the present installation of a Server
  faults       \* disturbances so far

objects == <<uid, selected>>
reports == <<outputs, observation>>
hosts == <<marker, creds, boot, fresh>>
cluster == <<api, setup, bound, node>>
history == <<born, begun>>
vars == <<objects, reports, hosts, cluster, token, pass, history, faults>>

Phase == {"Prepared", "Initialising", "Joining", "Ready"}
\* mine: both identity labels as desired; other: one of them names another owner;
\* role, opposite: the node-role labels; user: anything else.
Label == {"mine", "other", "role", "opposite", "user"}
Workers == Server \ {ControlPlane}
\* kubeadm init ended before it uploaded kubeadm-config, or after that and before
\* workers could join, or well; or someone initialised the API with other settings,
\* or with a Flannel that is not this KubeCluster's.
Setup == {"none", "config", "full", "settings", "network"}

Idle == [pc |-> "idle", uid |-> 0, members |-> {}, has |-> {}, ns |-> 0,
         read |-> [s \in Server |-> None], bad |-> FALSE, seen |-> None]

Init ==
  /\ uid = 1 /\ \E S \in SUBSET Workers : selected = S \cup {ControlPlane}
  /\ outputs = [uid |-> 0, ns |-> 0] /\ observation = None
  /\ marker = [s \in Server |-> None] /\ creds = [s \in Server |-> 0]
  /\ boot = {} /\ fresh = {}
  /\ api = 0 /\ setup = "none" /\ bound = 0 /\ node = [s \in Server |-> None]
  /\ token = "none" /\ pass = Idle
  /\ born = 0 /\ begun = [s \in Server |-> 0] /\ faults = 0

At(pc) == pass.pc = pc
Goto(pc) == pass' = [pass EXCEPT !.pc = pc]
Members == pass.members
Joiners == (Members \cap Workers) \ pass.has
Disturbs == faults < MaxFaults /\ faults' = faults + 1

\* The desired inputs are what the pass was planned from.
SameInputs == uid = pass.uid /\ selected = Members

\* A play that failed: observations it wrote are published, its result never is.
Failed ==
  /\ observation' = IF pass.seen # None /\ SameInputs THEN pass.seen ELSE observation
  /\ pass' = Idle

-----------------------------------------------------------------------------
(* The filters. *)

\* registration_action() raises for a Node of another owner or another address.
Adoptable(n) == n.own /\ "other" \notin n.labels

\* ... and asks for a patch unless the managed labels are as desired.
Desired(n) == {"mine", "role"} \subseteq n.labels /\ "opposite" \notin n.labels

\* Mutant: the patch without its tests.
AppliesBlind(r, n) == n # None

\* The tests of managed_label_patch(): the Node that was read, with the labels that
\* were read; without any, with the resourceVersion that was read.
Applies(r, n) ==
  /\ n # None /\ n.uid = r.uid /\ n.labels = r.labels
  /\ r.labels = {} => n = r

ManagedLabels(labels) == (labels \cup {"mine", "role"}) \ {"opposite"}

\* membership_observation()
Observed(members) ==
  IF /\ \A s \in Server : node[s] # None <=> s \in members
     /\ \A s \in members : {"mine", "role"} \subseteq node[s].labels
  THEN "ready" ELSE "degraded"

\* verify_nodes() and the address check that follows it
NodesVerified(members) ==
  /\ \A s \in Server : node[s] # None <=> s \in members
  /\ \A s \in members :
       /\ node[s].own /\ "mine" \in node[s].labels
       /\ IF s = ControlPlane THEN "role" \in node[s].labels
                              ELSE "opposite" \notin node[s].labels

-----------------------------------------------------------------------------
(* Preflight: what may be built on. *)

\* Mutant: an interrupted bootstrap is taken for a member to prepare.
OwnedByFiles(s, u, has) ==
  /\ marker[s] = None => s \notin has
  /\ marker[s] # None => marker[s].uid = u
  /\ s \notin boot

\* The marker and the credentials of a member make sense together and kubeadm does
\* not run; has are the members whose credential files were seen.
Owned(s, u, has) ==
  /\ marker[s] = None => s \notin has
  /\ marker[s] # None => marker[s].uid = u /\ (marker[s].phase = "Prepared" <=> s \notin has)
  /\ s \notin boot

\* Mutant: only the published outputs are asked, not the members.
MayBuildUnpublished(u, members, has) ==
  ControlPlane \in has \/ outputs.uid # u \/ outputs.ns = 0

\* A lost control plane is not rebuilt under the identity of a recorded lifetime.
MayBuild(u, members, has) ==
  \/ ControlPlane \in has
  \/ /\ outputs.uid # u \/ outputs.ns = 0
     /\ \A s \in members : marker[s] = None \/ marker[s].ns = 0

Begin ==
  /\ At("idle")
  /\ pass' = [Idle EXCEPT !.pc = "inspect", !.uid = uid, !.members = selected]
  /\ UNCHANGED <<objects, reports, hosts, cluster, token, history, faults>>

Inspect ==
  /\ At("inspect")
  /\ pass' = [pass EXCEPT !.pc = "identify", !.has = {s \in Members : creds[s] # 0}]
  /\ UNCHANGED <<objects, reports, hosts, cluster, token, history, faults>>

Identify ==
  /\ At("identify")
  /\ IF /\ \A s \in Members : Owned(s, pass.uid, pass.has)
        /\ MayBuild(pass.uid, Members, pass.has)
     THEN Goto("prepare") /\ UNCHANGED observation
     ELSE Failed
  /\ UNCHANGED <<objects, outputs, hosts, cluster, token, history, faults>>

\* Every write of a marker on several hosts may reach some of them only.
Mark(hs, new) == marker' = [s \in Server |-> IF s \in hs THEN new[s] ELSE marker[s]]

\* Mutant: the marker is written anew without the recorded lifetime.
PreparedAnew(s) ==
  [uid |-> pass.uid, phase |-> IF marker[s] = None THEN "Prepared" ELSE marker[s].phase, ns |-> 0]

Prepared(s) ==
  IF marker[s] = None THEN [uid |-> pass.uid, phase |-> "Prepared", ns |-> 0] ELSE marker[s]

Prepare ==
  /\ At("prepare")
  /\ \E done \in SUBSET Members :
       /\ Mark(done, [s \in Members |-> Prepared(s)])
       /\ IF done = Members THEN Goto("control") /\ UNCHANGED <<observation, faults>>
                            ELSE Disturbs /\ Failed
  /\ UNCHANGED <<objects, outputs, creds, boot, fresh, cluster, token, history>>

-----------------------------------------------------------------------------
(* The control plane. *)

InitIntent ==
  /\ At("control")
  /\ IF ControlPlane \in pass.has
     THEN Goto("api") /\ UNCHANGED marker
     ELSE /\ marker' = [marker EXCEPT ![ControlPlane] =
                          [uid |-> pass.uid, phase |-> "Initialising", ns |-> 0]]
          /\ Goto("init")
  /\ UNCHANGED <<objects, reports, creds, boot, fresh, cluster, token, history, faults>>

Bootstrap(hs) ==
  /\ boot' = boot \cup hs
  /\ begun' = [s \in Server |-> IF s \in hs THEN begun[s] + 1 ELSE begun[s]]

KubeadmInit ==
  /\ At("init")
  /\ Bootstrap({ControlPlane})
  /\ Goto("initwait")
  /\ UNCHANGED <<objects, reports, marker, creds, fresh, cluster, token, born, faults>>

InitEnded ==
  /\ At("initwait") /\ ControlPlane \notin boot
  /\ IF pass.bad THEN Failed ELSE Goto("api") /\ UNCHANGED observation
  /\ UNCHANGED <<objects, outputs, hosts, cluster, token, history, faults>>

\* The API is bound to the KubeCluster before its lifetime is compared.
SameLifetime(ns) ==
  /\ marker[ControlPlane].ns \in {0, ns}
  /\ outputs.uid = pass.uid => outputs.ns \in {0, ns}

VerifyApi ==
  /\ At("api")
  /\ IF api # 0 /\ setup \notin {"none", "settings"} /\ bound \in {0, pass.uid}
     THEN /\ bound' = pass.uid
          /\ IF SameLifetime(api)
             THEN pass' = [pass EXCEPT !.pc = "flannel", !.ns = api] /\ UNCHANGED observation
             ELSE Failed
     ELSE Failed /\ UNCHANGED bound
  /\ UNCHANGED <<objects, outputs, hosts, api, setup, node, token, history, faults>>

\* Flannel is applied and waited for on every Node there is, of the cluster or not,
\* before anything is observed.
FlannelRuns == \A s \in Server : node[s] # None => node[s].flannel

AwaitFlannel ==
  /\ At("flannel")
  /\ IF setup # "network" /\ FlannelRuns
     THEN Goto("observe") /\ UNCHANGED observation
     ELSE Failed
  /\ UNCHANGED <<objects, outputs, hosts, cluster, token, history, faults>>

\* Mutant: a failing play keeps its observations to itself.
ObserveSilently ==
  /\ pass.pc \in {"observe", "reobserve", "lastly"}
  /\ LET next == [observe |-> "join", reobserve |-> "verify", lastly |-> "record"]
     IN pass' = IF pass.bad THEN Idle
                ELSE [pass EXCEPT !.pc = next[pass.pc], !.seen = Observed(Members)]
  /\ UNCHANGED <<objects, reports, hosts, cluster, token, history, faults>>

\* The observation is made before the joins, and again however the membership tasks
\* and the verification end.
Observe ==
  /\ pass.pc \in {"observe", "reobserve", "lastly"}
  /\ LET next == [observe |-> "join", reobserve |-> "verify", lastly |-> "record"]
         seen == Observed(Members)
     IN IF pass.bad
        THEN /\ observation' = IF SameInputs THEN seen ELSE observation
             /\ pass' = Idle
        ELSE /\ pass' = [pass EXCEPT !.pc = next[pass.pc], !.seen = seen]
             /\ UNCHANGED observation
  /\ UNCHANGED <<objects, outputs, hosts, cluster, token, history, faults>>

-----------------------------------------------------------------------------
(* Workers join with a token of this pass, which is revoked however that ends. *)

JoinCheck ==
  /\ At("join")
  /\ IF \E s \in Members \cap Workers : marker[s].ns \notin {0, pass.ns}
     THEN Failed /\ UNCHANGED token
     ELSE /\ IF Joiners = {} THEN Goto("ca") /\ UNCHANGED token
                             ELSE Goto("intent") /\ token' = "live"
          /\ UNCHANGED observation
  /\ UNCHANGED <<objects, outputs, hosts, cluster, history, faults>>

JoinMarker(s) == [uid |-> pass.uid, phase |-> "Joining", ns |-> pass.ns]

JoinIntent ==
  /\ At("intent")
  /\ \E done \in SUBSET Joiners :
       /\ Mark(done, [s \in Joiners |-> JoinMarker(s)])
       /\ IF done = Joiners THEN Goto("joining") /\ UNCHANGED faults
                            ELSE /\ Disturbs
                                 /\ pass' = [pass EXCEPT !.pc = "cleanup", !.bad = TRUE]
  /\ UNCHANGED <<objects, reports, creds, boot, fresh, cluster, token, history>>

KubeadmJoin ==
  /\ At("joining")
  /\ Bootstrap(Joiners)
  /\ Goto("joinwait")
  /\ UNCHANGED <<objects, reports, marker, creds, fresh, cluster, token, born, faults>>

JoinEnded ==
  /\ At("joinwait") /\ Joiners \cap boot = {}
  /\ Goto("cleanup")
  /\ UNCHANGED <<objects, reports, hosts, cluster, token, history, faults>>

\* Mutant: the token is revoked after successful joins only.
JoinCleanupOnSuccess ==
  /\ At("cleanup")
  /\ IF pass.bad THEN Failed /\ UNCHANGED token
                 ELSE Goto("ca") /\ token' = "none" /\ UNCHANGED observation
  /\ UNCHANGED <<objects, outputs, hosts, cluster, history, faults>>

JoinCleanup ==
  /\ At("cleanup")
  /\ token' = "none"
  /\ IF pass.bad THEN Failed ELSE Goto("ca") /\ UNCHANGED observation
  /\ UNCHANGED <<objects, outputs, hosts, cluster, history, faults>>

CheckCA ==
  /\ At("ca")
  /\ IF \A s \in Members : creds[s] = creds[ControlPlane]
     THEN Goto("members") /\ UNCHANGED observation
     ELSE Failed
  /\ UNCHANGED <<objects, outputs, hosts, cluster, token, history, faults>>

-----------------------------------------------------------------------------
(* Registration and labels of the initialised members. *)

\* The member's own credentials authenticate to this API, under a marker of this
\* cluster and lifetime.
Initialised(s) ==
  /\ creds[s] # 0 /\ creds[s] = api
  /\ marker[s].uid = pass.uid /\ marker[s].phase # "Prepared"
  /\ marker[s].ns \in {0, pass.ns}

\* Mutant: a missing Node is waited for without restarting its kubelet.
MembershipWaits ==
  /\ At("members")
  /\ pass' = IF \A s \in Members : Initialised(s) /\ (node[s] = None \/ Adoptable(node[s]))
             THEN [pass EXCEPT !.pc = "registered"]
             ELSE [pass EXCEPT !.pc = "reobserve", !.bad = TRUE]
  /\ UNCHANGED <<objects, reports, hosts, cluster, token, history, faults>>

Membership ==
  /\ At("members")
  /\ IF \A s \in Members : Initialised(s) /\ (node[s] = None \/ Adoptable(node[s]))
     THEN /\ fresh' = fresh \cup {s \in Members : node[s] = None}
          /\ Goto("registered")
     ELSE /\ pass' = [pass EXCEPT !.pc = "reobserve", !.bad = TRUE]
          /\ UNCHANGED fresh
  /\ UNCHANGED <<objects, reports, marker, creds, boot, cluster, token, history, faults>>

AwaitRegistered ==
  /\ At("registered")
  /\ \A s \in Members : node[s] # None /\ node[s].own
  /\ pass' = IF \A s \in Members : Adoptable(node[s])
             THEN [pass EXCEPT !.pc = "patch",
                               !.read = [s \in Server |-> IF s \in Members THEN node[s] ELSE None]]
             ELSE [pass EXCEPT !.pc = "reobserve", !.bad = TRUE]
  /\ UNCHANGED <<objects, reports, hosts, cluster, token, history, faults>>

\* No member is left that will register with its own address.
RegistrationTimeout ==
  /\ At("registered")
  /\ \E s \in Members : IF node[s] = None THEN s \notin fresh ELSE ~node[s].own
  /\ pass' = [pass EXCEPT !.pc = "reobserve", !.bad = TRUE]
  /\ UNCHANGED <<objects, reports, hosts, cluster, token, history, faults>>

PatchLabels ==
  /\ At("patch")
  /\ LET changed == {s \in Members : ~Desired(pass.read[s])}
         applied == {s \in changed : Applies(pass.read[s], node[s])}
     IN /\ node' = [s \in Server |->
                      IF s \in applied
                      THEN [node[s] EXCEPT !.labels = ManagedLabels(pass.read[s].labels)]
                      ELSE node[s]]
        /\ pass' = [pass EXCEPT !.pc = "reobserve", !.bad = applied # changed,
                                !.read = Idle.read]
  /\ UNCHANGED <<objects, reports, hosts, api, setup, bound, token, history, faults>>

-----------------------------------------------------------------------------
(* Verification and the record of it. *)

Verify ==
  /\ At("verify")
  /\ pass' = IF NodesVerified(Members) /\ FlannelRuns THEN [pass EXCEPT !.pc = "label"]
             ELSE [pass EXCEPT !.pc = "lastly", !.bad = TRUE]
  /\ UNCHANGED <<objects, reports, hosts, cluster, token, history, faults>>

\* The worker label is set without any test, on whatever Node has the name by now.
LabelWorkers ==
  /\ At("label")
  /\ node' = [s \in Server |-> IF s \in Members \cap Workers /\ node[s] # None
                               THEN [node[s] EXCEPT !.labels = @ \cup {"role"}] ELSE node[s]]
  /\ pass' = [pass EXCEPT !.pc = "lastly",
                          !.bad = \E s \in Members \cap Workers : node[s] = None]
  /\ UNCHANGED <<objects, reports, hosts, api, setup, bound, token, history, faults>>

ReadyMarker(s) == [uid |-> pass.uid, phase |-> "Ready", ns |-> pass.ns]

Record ==
  /\ At("record")
  /\ \E done \in SUBSET Members :
       /\ Mark(done, [s \in Members |-> ReadyMarker(s)])
       /\ IF done = Members THEN Goto("publish") /\ UNCHANGED <<observation, faults>>
                            ELSE Disturbs /\ Failed
  /\ UNCHANGED <<objects, outputs, creds, boot, fresh, cluster, token, history>>

\* execute() of the Configurations operator, after the command has ended well.
Publish ==
  /\ At("publish")
  /\ IF SameInputs
     THEN observation' = pass.seen /\ outputs' = [uid |-> pass.uid, ns |-> pass.ns]
     ELSE UNCHANGED reports
  /\ pass' = Idle
  /\ UNCHANGED <<objects, hosts, cluster, token, history, faults>>

-----------------------------------------------------------------------------
(* What goes wrong with a pass. *)

\* A task fails: the always parts of its block still run.
TaskFails ==
  /\ pass.pc \notin {"idle", "prepare", "initwait", "joinwait", "record"}
  /\ Disturbs
  /\ LET on(pc) == /\ pass' = [pass EXCEPT !.pc = pc, !.bad = TRUE, !.read = Idle.read]
                   /\ UNCHANGED observation
     IN CASE pass.pc \in {"intent", "joining"} -> on("cleanup")
          [] pass.pc \in {"members", "registered", "patch"} -> on("reobserve")
          [] pass.pc \in {"verify", "label"} -> on("lastly")
          [] OTHER -> Failed
  /\ token' = IF At("cleanup") THEN "orphan" ELSE token
  /\ UNCHANGED <<objects, outputs, hosts, cluster, history>>

\* The executor dies or loses its hosts.  An administrator inspects them and resolves
\* the claims; kubeadm is not stopped by any of this.
CutOff ==
  /\ ~At("idle")
  /\ Disturbs
  /\ pass' = Idle
  /\ token' = IF token = "live" THEN "orphan" ELSE token
  /\ UNCHANGED <<objects, reports, hosts, cluster, history>>

-----------------------------------------------------------------------------
(* kubeadm and kubelet. *)

\* A worker finds what it needs to join the API.
Joinable == api # 0 /\ setup \notin {"none", "config"}

KubeadmWrites(s) ==
  /\ s \in boot /\ creds[s] = 0
  /\ IF s = ControlPlane
     THEN born' = born + 1 /\ creds' = [creds EXCEPT ![s] = born + 1]
     ELSE Joinable /\ creds' = [creds EXCEPT ![s] = api] /\ UNCHANGED born
  /\ UNCHANGED <<objects, reports, marker, boot, fresh, cluster, token, pass, begun, faults>>

KubeadmEnds(s) ==
  /\ s \in boot /\ creds[s] # 0
  /\ boot' = boot \ {s} /\ fresh' = fresh \cup {s}
  /\ IF s = ControlPlane THEN api' = creds[s] /\ setup' = "full" ELSE UNCHANGED <<api, setup>>
  /\ UNCHANGED <<objects, reports, marker, creds, bound, node, token, pass, history, faults>>

\* A play that waits for kubeadm sees that it failed.
Noticed(s) ==
  pass' = IF pass.pc \in {"initwait", "joinwait"} /\ s \in Members
          THEN [pass EXCEPT !.bad = TRUE] ELSE pass

\* kubeadm join gives up on an API that does not let workers in.
JoinRefused(s) ==
  /\ s \in boot \cap Workers /\ creds[s] = 0 /\ ~Joinable
  /\ boot' = boot \ {s}
  /\ Noticed(s)
  /\ UNCHANGED <<objects, reports, marker, creds, fresh, cluster, token, history, faults>>

\* kubeadm fails or is killed.  init may have started the API by then, and may have
\* uploaded its configuration and what joins need, one after the other.
KubeadmDies(s) ==
  /\ s \in boot
  /\ Disturbs
  /\ boot' = boot \ {s}
  /\ IF s = ControlPlane
     THEN /\ api' \in {0, creds[s]}
          /\ setup' \in IF api' = 0 THEN {"none"} ELSE {"none", "config", "full"}
     ELSE UNCHANGED <<api, setup>>
  /\ fresh' = IF creds[s] # 0 THEN fresh \cup {s} ELSE fresh
  /\ Noticed(s)
  /\ UNCHANGED <<objects, reports, marker, creds, bound, node, token, history>>

\* A kubelet registers once after it started, with labels of its own, and Flannel runs
\* there.  A deletion is a disturbance, so their count tells the Nodes of one name apart.
Registered(own, flannel) == [uid |-> faults, own |-> own, flannel |-> flannel, labels |-> {"user"}]

KubeletRegisters(s) ==
  /\ s \in fresh /\ api # 0 /\ creds[s] = api
  /\ fresh' = fresh \ {s}
  /\ node' = [node EXCEPT ![s] = IF @ = None THEN Registered(TRUE, TRUE) ELSE @]
  /\ UNCHANGED <<objects, reports, marker, creds, boot, api, setup, bound, token, pass, history,
                 faults>>

-----------------------------------------------------------------------------
(* Everybody else. *)

\* The KubeCluster is replaced, Servers are labelled or not, the Configuration is
\* created anew.
Edit ==
  /\ Disturbs
  /\ \/ uid' = uid + 1 /\ UNCHANGED <<selected, outputs>>
     \/ /\ \E S \in SUBSET Workers :
             S \cup {ControlPlane} # selected /\ selected' = S \cup {ControlPlane}
        /\ UNCHANGED <<uid, outputs>>
     \/ At("idle") /\ outputs' = [uid |-> 0, ns |-> 0] /\ UNCHANGED objects
  /\ UNCHANGED <<observation, hosts, cluster, token, pass, history>>

\* The Node of a machine that has left the cluster stays, and Flannel stops there.
Abandoned(s) ==
  [node EXCEPT ![s] = IF @ # None /\ @.own THEN [@ EXCEPT !.flannel = FALSE] ELSE @]

\* A Server is reinstalled; with the control plane goes its API.
Reinstall(s) ==
  /\ At("idle") /\ Disturbs
  /\ marker' = [marker EXCEPT ![s] = None] /\ creds' = [creds EXCEPT ![s] = 0]
  /\ boot' = boot \ {s} /\ fresh' = fresh \ {s} /\ begun' = [begun EXCEPT ![s] = 0]
  /\ IF s = ControlPlane
     THEN api' = 0 /\ setup' = "none" /\ bound' = 0 /\ node' = [m \in Server |-> None]
     ELSE node' = Abandoned(s) /\ UNCHANGED <<api, setup, bound>>
  /\ UNCHANGED <<objects, reports, token, pass, born>>

\* Someone resets kubeadm by hand and makes the Server part of another lifetime.
RebuildByHand(s) ==
  /\ At("idle") /\ Disturbs
  /\ creds[s] # 0 /\ s \notin boot
  /\ born' = born + 1 /\ creds' = [creds EXCEPT ![s] = born + 1]
  /\ IF s = ControlPlane
     THEN /\ api' = born + 1 /\ setup' \in {"full", "settings", "network"}
          /\ bound' = 0 /\ node' = [m \in Server |-> None]
          /\ fresh' = fresh \cup {s}
     ELSE node' = Abandoned(s) /\ UNCHANGED <<api, setup, bound, fresh>>
  /\ UNCHANGED <<objects, reports, marker, boot, token, pass, begun>>

\* Clients of the cluster delete a Node, relabel it, or register a machine of their
\* own under its name, on which Flannel may run or not.
NodeChanges(s) ==
  /\ api # 0 /\ Disturbs
  /\ \/ node[s] # None /\ node' = [node EXCEPT ![s] = None]
     \/ /\ node[s] = None
        /\ \E flannel \in BOOLEAN : node' = [node EXCEPT ![s] = Registered(FALSE, flannel)]
     \/ /\ node[s] # None
        /\ \E l \in SUBSET Label :
             /\ l # node[s].labels /\ ~({"mine", "other"} \subseteq l)
             /\ "mine" \in l => "mine" \in node[s].labels
             /\ node' = [node EXCEPT ![s].labels = l]
  /\ UNCHANGED <<objects, reports, hosts, api, setup, bound, token, pass, history>>

-----------------------------------------------------------------------------
Play ==
  \/ Begin \/ Inspect \/ Identify \/ Prepare
  \/ InitIntent \/ KubeadmInit \/ InitEnded \/ VerifyApi \/ AwaitFlannel \/ Observe
  \/ JoinCheck \/ JoinIntent \/ KubeadmJoin \/ JoinEnded \/ JoinCleanup \/ CheckCA
  \/ Membership \/ AwaitRegistered \/ RegistrationTimeout \/ PatchLabels
  \/ Verify \/ LabelWorkers \/ Record \/ Publish

Machine(s) == KubeadmWrites(s) \/ KubeadmEnds(s) \/ JoinRefused(s) \/ KubeletRegisters(s)

Disturbance ==
  \/ TaskFails \/ CutOff \/ Edit
  \/ \E s \in Server : KubeadmDies(s) \/ Reinstall(s) \/ RebuildByHand(s) \/ NodeChanges(s)

Next == Play \/ Disturbance \/ \E s \in Server : Machine(s)

Spec == Init /\ [][Next]_vars

FairSpec == Spec /\ WF_vars(Play) /\ \A s \in Server : WF_vars(Machine(s))
-----------------------------------------------------------------------------
(* Properties. *)

MarkerType == [uid : 1..(MaxFaults + 1), phase : Phase, ns : 0..(MaxFaults + 1)]
NodeType == [uid : 0..MaxFaults, own : BOOLEAN, flannel : BOOLEAN, labels : SUBSET Label]

\* The absent marker or Node is neither.
ASSUME NoneAssumption == None \notin MarkerType \cup NodeType

\* Types; and a pass leaves nothing behind: no plan or facts, no reads of Nodes past
\* the patch, and no join token past join.yml, also if a join fails half way, unless the
\* executor was cut off or the revocation itself failed.
TypeOK ==
  /\ uid \in 1..(MaxFaults + 1) /\ selected \subseteq Server
  /\ outputs \in [uid : 0..(MaxFaults + 1), ns : 0..(MaxFaults + 1)]
  /\ observation \in {None, "ready", "degraded"}
  /\ marker \in [Server -> MarkerType \cup {None}]
  /\ creds \in [Server -> 0..(MaxFaults + 1)]
  /\ boot \subseteq Server /\ fresh \subseteq Server
  /\ api \in 0..(MaxFaults + 1) /\ bound \in 0..(MaxFaults + 1) /\ setup \in Setup
  /\ node \in [Server -> NodeType \cup {None}]
  /\ token \in {"none", "live", "orphan"}
  /\ At("idle") => pass = Idle
  /\ ~At("patch") => pass.read = Idle.read
  /\ token = "live" => pass.pc \in {"intent", "joining", "joinwait", "cleanup"}

\* kubeadm init and join are run at most once on an installation of a Server, however
\* passes are interrupted and repeated ("no init replay", identity.yml).
BootstrapOnce == \A s \in Server : begun[s] <= 1

\* A pass that initialises a control plane strands no member: none of them holds
\* credentials of an earlier lifetime, and none was published for this KubeCluster
\* ("do not silently recreate etcd", configure_kube.yml).
NoSilentRebuild ==
  [][begun'[ControlPlane] > begun[ControlPlane] =>
       /\ \A s \in Members : creds[s] = 0
       /\ outputs.uid # pass.uid \/ outputs.ns = 0]_vars

\* A lifetime that was recorded is never exchanged for another one, neither in the
\* marker of an installation nor in the outputs for the same KubeCluster, although
\* the cluster behind them may be rebuilt by hand ("Refuse a replaced installed
\* cluster", control_plane.yml).
LifetimeKept ==
  [][/\ \A s \in Server :
          marker[s] # None /\ marker[s].ns # 0 /\ marker'[s] # None
            => marker'[s].ns = marker[s].ns
     /\ outputs.ns # 0 /\ outputs'.uid = outputs.uid => outputs'.ns = outputs.ns]_vars

\* Passes never put identity labels on a Node of another owner or machine, and never
\* remove or replace a label they do not manage, even if the Node is relabelled or
\* registered again after it was read (managed_label_patch()).
PatchRespectsOthers ==
  [][pass' # pass => \A s \in Server : node[s] # None /\ node'[s] # None =>
       /\ "mine" \in node'[s].labels \ node[s].labels => Adoptable(node[s])
       /\ node[s].labels \cap {"user", "other"} = node'[s].labels \cap {"user", "other"}]_vars

Has == {s \in Server : creds[s] # 0}

\* The members are as a pass may find and continue them.
Sound ==
  /\ \A s \in selected : Owned(s, uid, Has)
  /\ MayBuild(uid, selected, Has)
  /\ IF creds[ControlPlane] = 0 THEN selected \cap Has = {}
     ELSE /\ creds[ControlPlane] = api /\ setup \in {"config", "full"} /\ bound \in {0, uid}
          /\ outputs.uid = uid => outputs.ns \in {0, api}
          /\ \A s \in selected :
               creds[s] \in {0, api} /\ (marker[s] # None => marker[s].ns \in {0, api})

Repairable ==
  /\ Sound /\ FlannelRuns
  /\ \A s \in Server : node[s] # None => s \in selected /\ Adoptable(node[s])

Settled ==
  /\ outputs = [uid |-> uid, ns |-> api] /\ api # 0
  /\ \A s \in selected :
       /\ marker[s] = [uid |-> uid, phase |-> "Ready", ns |-> api]
       /\ node[s] # None /\ node[s].own /\ Desired(node[s])

\* Once the disturbances are over, the passes build or repair the cluster (missing
\* Nodes and labels, unjoined workers, unfinished passes) and it stays verified,
\* unless it is left in a state that is an administrator's to resolve: a kubeadm init
\* that ended too early, and the Node of a worker that was reinstalled, are such.
Converges == <>[]Settled \/ <>[]~Repairable

\* Another owner or machine holds the Node of one of the members.
Usurped(members) == \E s \in members : node[s] # None /\ ~Adoptable(node[s])

\* While another owner or machine holds a member's Node every pass fails, and the
\* degraded membership is published nevertheless (observe.yml, publish_observations()),
\* if the pass gets past Flannel to observe it.
Reported ==
  <>[](Sound /\ FlannelRuns /\ Usurped(selected)) => <>[](observation = "degraded")
=============================================================================
