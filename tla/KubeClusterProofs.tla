-------------------------- MODULE KubeClusterProofs --------------------------
(* Proofs about KubeCluster for any Servers and any number of disturbances. *)
EXTENDS KubeCluster, TLAPS

PCs == {"idle", "inspect", "identify", "prepare", "control", "init", "initwait", "api",
        "flannel", "observe", "join", "intent", "joining", "joinwait", "cleanup", "ca", "members",
        "registered", "patch", "reobserve", "verify", "label", "lastly", "record", "publish"}

N == MaxFaults + 1

PassType ==
  [pc : PCs, uid : 0..N, members : SUBSET Server, has : SUBSET Server, ns : 0..N,
   read : [Server -> NodeType \cup {None}], bad : BOOLEAN, seen : {None, "ready", "degraded"}]

\* The variables that TypeOK leaves out.
PassTyped ==
  /\ pass \in PassType
  /\ faults \in 0..MaxFaults /\ born \in 0..N /\ begun \in [Server -> Nat]

\* Every number is one of something there has been: uids are made by edits, lifetimes
\* by kubeadm init, which the control plane runs once, or by hand.
Grown ==
  /\ uid <= faults + 1
  /\ born <= faults + (IF creds[ControlPlane] = 0 THEN 0 ELSE 1)
  /\ \A s \in Server : creds[s] <= born
  /\ \A s \in Server : node[s] # None => node[s].uid <= faults
  /\ api <= born

\* A Server on which kubeadm was not meant to run yet.
Unbegun(s) == marker[s] = None \/ marker[s].phase = "Prepared"

\* What the marker of a Server tells about its installation.
MarkersSound ==
  \A s \in Server :
    /\ marker[s] # None /\ marker[s].phase = "Prepared" => marker[s].ns = 0
    /\ marker[s] # None /\ marker[s].phase = "Initialising" => s = ControlPlane
    /\ marker[s] # None /\ marker[s].phase \in {"Joining", "Ready"} => marker[s].ns # 0
    /\ Unbegun(s) => begun[s] = 0 /\ creds[s] = 0 /\ s \notin boot

Unpublished == outputs.uid # pass.uid \/ outputs.ns = 0

\* What a pass knows of the Servers it has not bootstrapped yet.
PlanSound ==
  /\ ControlPlane \in selected
  /\ ~At("idle") => ControlPlane \in Members /\ pass.uid # 0
  /\ pass.pc \in {"prepare", "control"} => \A s \in Members \ pass.has : Unbegun(s)
  /\ pass.pc \in {"prepare", "control"} /\ ControlPlane \notin pass.has =>
       Unpublished /\ \A s \in Members : Unbegun(s)
  /\ At("init") =>
       /\ Unpublished /\ \A s \in Members : creds[s] = 0 /\ s \notin boot
       /\ ~Unbegun(ControlPlane) /\ begun[ControlPlane] = 0
  /\ pass.pc \in {"init", "initwait", "api", "flannel", "observe", "join", "intent"} =>
       \A s \in Joiners : Unbegun(s)
  /\ At("joining") => \A s \in Joiners : ~Unbegun(s) /\ begun[s] = 0

Marked == PCs \ {"idle", "inspect", "identify", "prepare"}
Joined == {"intent", "joining", "joinwait", "cleanup", "ca", "members", "registered", "patch",
           "reobserve", "verify", "label", "lastly", "record", "publish"}
Bound == {"flannel", "observe", "join"} \cup Joined

\* The lifetime a pass has found agrees with all that was recorded.
LifetimeSound ==
  /\ outputs.uid = 0 => outputs.ns = 0
  /\ pass.pc \in Marked => \A s \in Members : marker[s] # None
  /\ pass.pc \in Bound =>
       /\ pass.ns # 0 /\ marker[ControlPlane].ns \in {0, pass.ns}
       /\ outputs.uid = pass.uid => outputs.ns \in {0, pass.ns}
  /\ pass.pc \in Joined => \A s \in Members : marker[s].ns \in {0, pass.ns}

\* A Node that has the UID that was read is still a Node of the member.
ReadsSound ==
  At("patch") => \A s \in Server :
    /\ pass.read[s] # None <=> s \in Members
    /\ pass.read[s] # None =>
         /\ Adoptable(pass.read[s]) /\ pass.read[s].uid <= faults
         /\ node[s] = None => pass.read[s].uid < faults
         /\ node[s] # None /\ node[s].uid = pass.read[s].uid => node[s].own

Inv ==
  /\ TypeOK /\ PassTyped /\ Grown
  /\ MarkersSound /\ BootstrapOnce /\ PlanSound
  /\ LifetimeSound /\ ReadsSound

-----------------------------------------------------------------------------
\* The bounds are numbers and there is a control plane.
LEMMA Bounds ==
  /\ MaxFaults \in Nat /\ N \in Nat /\ N = MaxFaults + 1 /\ 0 \in 0..N /\ 1 \in 0..N /\ 1 \in 1..N
  /\ ControlPlane \in Server
  BY FaultsAssumption, ControlPlaneAssumption DEF FaultsAssumption, ControlPlaneAssumption, N

\* Between passes nothing is planned or known.
LEMMA IdleTyped ==
  Idle \in PassType /\ Idle.pc = "idle" /\ Idle.read \in [Server -> NodeType \cup {None}]
  <1>1. Idle.read \in [Server -> NodeType \cup {None}]
    BY DEF Idle
  <1>2. Idle \in PassType
    BY <1>1, Bounds DEF Idle, PassType, PCs
  <1> QED
    BY <1>1, <1>2 DEF Idle

\* The observation of a pass that ends is published or not.
LEMMA FailedEnds ==
  ASSUME Inv, Failed
  PROVE  pass' = Idle /\ observation' \in {None, "ready", "degraded"}
  BY DEF Failed, Inv, TypeOK, PassTyped, PassType

\* The steps that only change what the pass knows.
Kept == UNCHANGED <<uid, selected, outputs, marker, creds, boot, api, setup, born, begun>>

\* A bound that leaves room for d more leaves it also later.
LEMMA Later == \A a, b, c, d \in Nat : b <= c /\ a <= b + d => a <= c + d
  OBVIOUS

\* Disturbances only make room for more.
LEMMA GrownLater ==
  ASSUME Inv, UNCHANGED <<uid, creds, api, born>>, faults' \in faults..MaxFaults,
         \/ UNCHANGED node
         \/ \A s \in Server : node'[s] # None => node'[s].uid \in Nat /\ node'[s].uid <= faults
  PROVE  Grown'
  <1>1. faults \in Nat /\ faults' \in Nat /\ faults <= faults' /\ uid \in Nat /\ born \in Nat
    BY Bounds DEF Inv, PassTyped, TypeOK
  <1>2. /\ uid <= faults + 1 /\ api <= born /\ \A s \in Server : creds[s] <= born
        /\ born <= faults + (IF creds[ControlPlane] = 0 THEN 0 ELSE 1)
    BY DEF Inv, Grown
  <1>3. uid <= faults' + 1 /\ born <= faults' + (IF creds[ControlPlane] = 0 THEN 0 ELSE 1)
    BY <1>1, <1>2, Later
  <1>4. ASSUME NEW s \in Server, node'[s] # None PROVE node'[s].uid <= faults'
    <2>1. node'[s].uid \in Nat /\ node'[s].uid <= faults
      BY <1>4 DEF Inv, TypeOK, NodeType, Grown
    <2> QED
      BY <1>1, <2>1
  <1> QED
    BY <1>2, <1>3, <1>4 DEF Grown

\* A step that ends the pass leaves nothing that the invariant says of it.
LEMMA EndMarkedStep ==
  ASSUME Inv, pass' = Idle,
         UNCHANGED <<uid, selected, outputs, creds, boot, api, setup, born, begun, fresh, node>>,
         marker' \in [Server -> MarkerType \cup {None}], MarkersSound', bound' \in 0..N,
         faults' \in faults..MaxFaults, token' \in {"none", "orphan"},
         observation' \in {None, "ready", "degraded"}
  PROVE  Inv'
  <1> USE Bounds
  <1>1. TypeOK'
    BY IdleTyped DEF Inv, TypeOK, At, N
  <1>2. PassTyped'
    BY IdleTyped DEF Inv, PassTyped
  <1>3. Grown' /\ BootstrapOnce'
    BY GrownLater DEF Inv, BootstrapOnce
  <1>4. PlanSound' /\ LifetimeSound' /\ ReadsSound'
    BY IdleTyped DEF Inv, PlanSound, LifetimeSound, ReadsSound, At, Marked, Bound, Joined
  <1> QED
    BY <1>1, <1>2, <1>3, <1>4 DEF Inv

\* The same for a step that leaves the markers alone.
LEMMA EndStep ==
  ASSUME Inv, pass' = Idle, Kept, UNCHANGED <<fresh, node>>, bound' \in 0..N,
         faults' \in faults..MaxFaults, token' \in {"none", "orphan"},
         observation' \in {None, "ready", "degraded"}
  PROVE  Inv'
  <1>1. marker' \in [Server -> MarkerType \cup {None}] /\ MarkersSound'
    BY DEF Inv, TypeOK, MarkersSound, Unbegun, Kept
  <1> QED
    BY <1>1, EndMarkedStep DEF Kept

\* The play goes on to a step of which it knows no more than of the one before.
Follows(next) ==
  /\ pass'.pc = next /\ next \in PCs \ {"idle", "prepare", "control", "init", "joining", "patch"}
  /\ pass' \in PassType /\ ~At("idle")
  /\ pass'.uid = pass.uid /\ pass'.members = pass.members /\ pass'.has = pass.has
  /\ pass'.ns = pass.ns /\ pass'.read = Idle.read
  /\ next \in {"initwait", "api", "flannel", "observe", "join", "intent"}
       => pass.pc \in {"init", "initwait", "api", "flannel", "observe", "join", "intent"}
  /\ next \in Marked => pass.pc \in Marked
  /\ next \in Bound => pass.pc \in Bound
  /\ next \in Joined => pass.pc \in Joined

\* Then the invariant needs nothing new.
LEMMA FollowStep ==
  ASSUME Inv, NEW next, Follows(next), Kept, fresh' \subseteq Server, bound' \in 0..N,
         faults' \in faults..MaxFaults, token' \in {"none", "live", "orphan"},
         token' = "live" => next \in {"intent", "joining", "joinwait", "cleanup"},
         observation' \in {None, "ready", "degraded"},
         node' \in [Server -> NodeType \cup {None}],
         \A s \in Server : node'[s] # None => node'[s].uid <= faults
  PROVE  Inv'
  <1> USE Bounds DEF Kept, Follows
  <1>0. faults \in 0..MaxFaults /\ faults' \in 0..MaxFaults /\ faults <= faults'
    BY DEF Inv, PassTyped
  <1>1. TypeOK'
    BY DEF Inv, TypeOK, At, N
  <1>2. PassTyped'
    BY <1>0 DEF Inv, PassTyped
  <1>3. Grown'
    BY GrownLater DEF NodeType
  <1>4. MarkersSound' /\ BootstrapOnce'
    BY DEF Inv, MarkersSound, BootstrapOnce, Unbegun
  <1>5. PlanSound'
    BY DEF Inv, PlanSound, At, Members, Joiners, Unbegun, Unpublished
  <1>6. LifetimeSound' /\ ReadsSound'
    BY DEF Inv, LifetimeSound, ReadsSound, At, Members
  <1> QED
    BY <1>1, <1>2, <1>3, <1>4, <1>5, <1>6 DEF Inv

-----------------------------------------------------------------------------
(* The steps that only change what the pass knows. *)

\* A pass begins with the members selected for the KubeCluster and looks at their files.
LEMMA BeginSteps ==
  ASSUME Inv, Begin \/ Inspect
  PROVE  Inv'
  <1> USE Bounds
  <1>0. /\ Kept /\ UNCHANGED <<observation, fresh, bound, node, token, faults>>
    BY DEF Begin, Inspect, Kept, objects, reports, hosts, cluster, history
  <1>1. /\ pass' \in PassType /\ pass'.pc \in {"inspect", "identify"} /\ pass'.read = Idle.read
        /\ ControlPlane \in pass'.members /\ pass'.uid # 0 /\ token # "live"
    <2>1. CASE Begin
      <3>1. pass' = [Idle EXCEPT !.pc = "inspect", !.uid = uid, !.members = selected]
        BY <2>1 DEF Begin
      <3>2. uid \in 0..N /\ uid # 0 /\ selected \subseteq Server /\ ControlPlane \in selected
            /\ pass.pc = "idle" /\ token # "live"
        BY <2>1 DEF Begin, At, Inv, TypeOK, PlanSound, N
      <3> QED
        BY <3>1, <3>2, IdleTyped DEF PassType, PCs
    <2>2. CASE Inspect
      <3>1. pass' = [pass EXCEPT !.pc = "identify", !.has = {s \in Members : creds[s] # 0}]
        BY <2>2 DEF Inspect
      <3>2. pass \in PassType /\ Members \subseteq Server /\ pass.read = Idle.read
            /\ pass.uid # 0 /\ ControlPlane \in Members /\ token # "live"
        BY <2>2 DEF Inspect, At, Inv, TypeOK, PassTyped, PassType, PlanSound, Members
      <3> QED
        BY <3>1, <3>2 DEF PassType, PCs, Members
    <2> QED
      BY <2>1, <2>2
  <1>2. TypeOK' /\ PassTyped'
    BY <1>0, <1>1 DEF Inv, TypeOK, PassTyped, Kept, At
  <1>3. Grown' /\ MarkersSound' /\ BootstrapOnce'
    BY <1>0 DEF Inv, Grown, MarkersSound, BootstrapOnce, Unbegun, Kept
  <1>4. PlanSound'
    BY <1>0, <1>1 DEF Inv, PlanSound, At, Members, Kept
  <1>5. LifetimeSound' /\ ReadsSound'
    BY <1>0, <1>1 DEF Inv, LifetimeSound, ReadsSound, At, Marked, Bound, Joined, Kept
  <1> QED
    BY <1>2, <1>3, <1>4, <1>5 DEF Inv

\* A plan that passes the checks has nothing begun on the members without files, and
\* builds a control plane only where nothing was begun at all.
LEMMA IdentifyStep ==
  ASSUME Inv, Identify
  PROVE  Inv'
  <1> USE Bounds
  <1>0. Kept /\ UNCHANGED <<fresh, bound, node, token, faults>> /\ pass.pc = "identify"
    BY DEF Identify, Kept, objects, hosts, cluster, history, At
  <1>1. token \in {"none", "orphan"} /\ faults \in 0..MaxFaults /\ bound \in 0..N
    BY <1>0 DEF Inv, TypeOK, PassTyped, N
  <1>2. CASE Failed
    <2>1. pass' = Idle /\ observation' \in {None, "ready", "degraded"}
      BY <1>2, FailedEnds
    <2> QED
      BY <1>0, <1>1, <2>1, EndStep
  <1>3. CASE /\ Goto("prepare") /\ UNCHANGED observation
             /\ \A s \in Members : Owned(s, pass.uid, pass.has)
             /\ MayBuild(pass.uid, Members, pass.has)
    <2>1. /\ pass' \in PassType /\ pass'.pc = "prepare" /\ pass'.uid = pass.uid
          /\ pass'.members = pass.members /\ pass'.has = pass.has /\ pass'.read = Idle.read
      BY <1>0, <1>3 DEF Goto, Inv, TypeOK, PassTyped, PassType, PCs, At
    <2>2. Members \subseteq Server /\ ControlPlane \in Members /\ pass.uid # 0
      BY <1>0 DEF Inv, PassTyped, PassType, PlanSound, At, Members
    <2>3. ASSUME NEW s \in Members \ pass.has PROVE Unbegun(s)
      BY <1>3 DEF Owned, Unbegun
    <2>4. ASSUME ControlPlane \notin pass.has, NEW s \in Members PROVE Unbegun(s) /\ Unpublished
      <3>1. marker[s] = None \/ marker[s].ns = 0
        BY <1>3, <2>4 DEF MayBuild
      <3>2. marker[s] # None => marker[s].phase \in Phase
        BY <2>2 DEF Inv, TypeOK, MarkerType
      <3>3. Unpublished
        BY <1>3, <2>4 DEF MayBuild, Unpublished
      <3> QED
        BY <1>3, <2>2, <2>4, <3>1, <3>2, <3>3 DEF Inv, MarkersSound, Owned, Unbegun, Phase
    <2>5. TypeOK' /\ PassTyped'
      BY <1>0, <1>1, <1>3, <2>1 DEF Inv, TypeOK, PassTyped, Kept, At
    <2>6. Grown' /\ MarkersSound' /\ BootstrapOnce'
      BY <1>0 DEF Inv, Grown, MarkersSound, BootstrapOnce, Unbegun, Kept
    <2>7. PlanSound'
      BY <1>0, <2>1, <2>2, <2>3, <2>4
         DEF Inv, PlanSound, At, Members, Unbegun, Unpublished, Kept
    <2>8. LifetimeSound' /\ ReadsSound'
      BY <1>0, <2>1 DEF Inv, LifetimeSound, ReadsSound, At, Marked, Bound, Joined, Kept
    <2> QED
      BY <2>5, <2>6, <2>7, <2>8 DEF Inv
  <1> QED
    BY <1>2, <1>3 DEF Identify

\* The API that a pass goes on with serves the lifetime that was recorded, if any was.
LEMMA VerifyApiStep ==
  ASSUME Inv, VerifyApi
  PROVE  Inv'
  <1> USE Bounds
  <1>0. Kept /\ UNCHANGED <<fresh, node, token, faults>> /\ pass.pc = "api"
    BY DEF VerifyApi, Kept, objects, hosts, history, At
  <1>1. /\ token \in {"none", "orphan"} /\ faults \in 0..MaxFaults /\ bound' \in 0..N
        /\ pass \in PassType
    BY <1>0 DEF Inv, TypeOK, PassTyped, VerifyApi, N, PassType
  <1>2. CASE Failed
    <2>1. pass' = Idle /\ observation' \in {None, "ready", "degraded"}
      BY <1>2, FailedEnds
    <2> QED
      BY <1>0, <1>1, <2>1, EndStep
  <1>3. CASE /\ api # 0 /\ SameLifetime(api) /\ UNCHANGED observation
             /\ pass' = [pass EXCEPT !.pc = "flannel", !.ns = api]
    <2>0. api \in 0..N /\ pass.read = Idle.read /\ ControlPlane \in Members /\ pass.uid # 0
      BY <1>0 DEF Inv, TypeOK, N, At, PlanSound
    <2>1. /\ pass' \in PassType /\ pass'.pc = "flannel" /\ pass'.uid = pass.uid
          /\ pass'.members = pass.members /\ pass'.has = pass.has /\ pass'.read = Idle.read
          /\ pass'.ns = api
      BY <1>1, <1>3, <2>0 DEF PassType, PCs
    <2>2. TypeOK' /\ PassTyped'
      BY <1>0, <1>1, <1>3, <2>1 DEF Inv, TypeOK, PassTyped, Kept, At, N
    <2>3. Grown' /\ MarkersSound' /\ BootstrapOnce'
      BY <1>0 DEF Inv, Grown, MarkersSound, BootstrapOnce, Unbegun, Kept
    <2>4. PlanSound'
      BY <1>0, <2>0, <2>1 DEF Inv, PlanSound, At, Members, Joiners, Unbegun, Kept
    <2>5. LifetimeSound' /\ ReadsSound'
      BY <1>0, <1>3, <2>0, <2>1
         DEF Inv, LifetimeSound, ReadsSound, At, Members, Marked, Bound, Joined, Kept, SameLifetime,
             PCs
    <2> QED
      BY <2>2, <2>3, <2>4, <2>5 DEF Inv
  <1> QED
    BY <1>2, <1>3 DEF VerifyApi

\* Nobody joins who has a marker of another lifetime.
LEMMA JoinCheckStep ==
  ASSUME Inv, JoinCheck
  PROVE  Inv'
  <1> USE Bounds
  <1>0. Kept /\ UNCHANGED <<fresh, node, bound, faults>> /\ pass.pc = "join"
    BY DEF JoinCheck, Kept, objects, hosts, cluster, history, At
  <1>1. /\ token \in {"none", "orphan"} /\ faults \in 0..MaxFaults /\ bound \in 0..N
        /\ pass \in PassType
    BY <1>0 DEF Inv, TypeOK, PassTyped, N
  <1>2. CASE Failed /\ UNCHANGED token
    <2>1. pass' = Idle /\ observation' \in {None, "ready", "degraded"}
      BY <1>2, FailedEnds
    <2> QED
      BY <1>0, <1>1, <1>2, <2>1, EndStep
  <1>3. CASE /\ ~\E s \in Members \cap Workers : marker[s].ns \notin {0, pass.ns}
             /\ UNCHANGED observation
             /\ \/ Goto("ca") /\ UNCHANGED token
                \/ Goto("intent") /\ token' = "live"
    <2>0. pass.read = Idle.read /\ ControlPlane \in Members /\ pass.uid # 0
          /\ Members \subseteq Server
      BY <1>0, <1>1 DEF Inv, TypeOK, At, PlanSound, PassType, Members
    <2>1. /\ pass' \in PassType /\ pass'.pc \in {"ca", "intent"} /\ pass'.uid = pass.uid
          /\ pass'.members = pass.members /\ pass'.has = pass.has /\ pass'.read = Idle.read
          /\ pass'.ns = pass.ns /\ (token' = "live" => pass'.pc = "intent")
          /\ token' \in {"none", "live", "orphan"}
      BY <1>1, <1>3, <2>0 DEF PassType, PCs, Goto
    <2>2. TypeOK' /\ PassTyped'
      BY <1>0, <1>1, <1>3, <2>1 DEF Inv, TypeOK, PassTyped, Kept, At, N
    <2>3. Grown' /\ MarkersSound' /\ BootstrapOnce'
      BY <1>0 DEF Inv, Grown, MarkersSound, BootstrapOnce, Unbegun, Kept
    <2>4. PlanSound'
      BY <1>0, <2>0, <2>1 DEF Inv, PlanSound, At, Members, Joiners, Unbegun, Kept
    <2>5. \A s \in Members : marker[s].ns \in {0, pass.ns}
      BY <1>0, <1>3, <2>0 DEF Inv, LifetimeSound, Bound, Workers
    <2>6. LifetimeSound' /\ ReadsSound'
      BY <1>0, <1>3, <2>0, <2>1, <2>5
         DEF Inv, LifetimeSound, ReadsSound, At, Members, Marked, Bound, Joined, Kept, PCs
    <2> QED
      BY <2>2, <2>3, <2>4, <2>6 DEF Inv
  <1> QED
    BY <1>2, <1>3 DEF JoinCheck

\* The steps of a pass that go on to the next one or end the pass.
LEMMA OnwardSteps ==
  ASSUME Inv, InitEnded \/ AwaitFlannel \/ Observe \/ JoinEnded \/ JoinCleanup \/ CheckCA \/ Membership
              \/ RegistrationTimeout \/ Verify \/ TaskFails \/ CutOff
  PROVE  Inv'
  <1> USE Bounds
  <1>0. /\ Kept /\ UNCHANGED <<bound, node>> /\ ~At("idle")
        /\ fresh' \subseteq Server /\ faults' \in faults..MaxFaults
    <2>1. Kept /\ UNCHANGED <<bound, node>> /\ ~At("idle")
      BY DEF InitEnded, AwaitFlannel, Observe, JoinEnded, JoinCleanup, CheckCA, Membership,
         RegistrationTimeout, Verify, TaskFails, CutOff, At, Kept, objects, reports, hosts,
         cluster, history
    <2>2. fresh \subseteq Server /\ faults \in 0..MaxFaults /\ Members \subseteq Server
      BY DEF Inv, TypeOK, PassTyped, PassType, Members
    <2>3. fresh' \subseteq Server
      BY <2>2 DEF InitEnded, AwaitFlannel, Observe, JoinEnded, JoinCleanup, CheckCA, Membership,
         RegistrationTimeout, Verify, TaskFails, CutOff, hosts
    <2>4. faults' \in faults..MaxFaults
      BY <2>2 DEF InitEnded, AwaitFlannel, Observe, JoinEnded, JoinCleanup, CheckCA, Membership,
         RegistrationTimeout, Verify, TaskFails, CutOff, Disturbs
    <2> QED
      BY <2>1, <2>3, <2>4
  <1>1. /\ bound \in 0..N /\ faults \in 0..MaxFaults /\ pass \in PassType
        /\ observation \in {None, "ready", "degraded"} /\ token \in {"none", "live", "orphan"}
        /\ token = "live" => pass.pc \in {"intent", "joining", "joinwait", "cleanup"}
        /\ pass.pc # "patch" => pass.read = Idle.read
    BY DEF Inv, TypeOK, PassTyped, N, At
  <1>2. /\ node' \in [Server -> NodeType \cup {None}]
        /\ \A s \in Server : node'[s] # None => node'[s].uid <= faults
    BY <1>0 DEF Inv, TypeOK, Grown
  <1>3. ASSUME pass' = Idle, observation' \in {None, "ready", "degraded"},
               token' \in {"none", "orphan"}, UNCHANGED fresh
        PROVE  Inv'
    BY <1>0, <1>1, <1>3, EndStep
  <1>4. ASSUME Failed, token' \in {"none", "orphan"}, UNCHANGED fresh
        PROVE  Inv'
    BY <1>3, <1>4, FailedEnds
  <1>5. ASSUME NEW next, Follows(next), UNCHANGED observation,
               token' \in {"none", "live", "orphan"},
               token' = "live" => next \in {"intent", "joining", "joinwait", "cleanup"}
        PROVE  Inv'
    BY <1>0, <1>1, <1>2, <1>5, FollowStep
  <1>6. CASE InitEnded
    <2>0. pass.pc = "initwait" /\ UNCHANGED <<token, fresh>>
      BY <1>6 DEF InitEnded, At, hosts
    <2>1. CASE Failed
      BY <1>1, <1>4, <2>0, <2>1
    <2>2. CASE Goto("api") /\ UNCHANGED observation
      <3>1. Follows("api")
        BY <1>0, <1>1, <2>0, <2>2 DEF Follows, Goto, PassType, PCs, Marked, Bound, Joined
      <3> QED
        BY <1>1, <1>5, <2>0, <2>2, <3>1
    <2> QED
      BY <1>6, <2>1, <2>2 DEF InitEnded
  <1>7. CASE Observe
    <2>0. /\ pass.pc \in {"observe", "reobserve", "lastly"} /\ UNCHANGED <<token, fresh>>
          /\ Observed(Members) \in {None, "ready", "degraded"} /\ token # "live"
      BY <1>1, <1>7 DEF Observe, hosts, Observed
    <2>1. CASE pass.bad
      <3>1. pass' = Idle /\ observation' \in {None, "ready", "degraded"}
        BY <1>1, <1>7, <2>0, <2>1 DEF Observe
      <3> QED
        BY <1>1, <1>3, <2>0, <3>1
    <2>2. CASE ~pass.bad
      <3>1. PICK next \in {"join", "verify", "record"} :
              /\ <<pass.pc, next>> \in {<<"observe", "join">>, <<"reobserve", "verify">>,
                                       <<"lastly", "record">>}
              /\ pass' = [pass EXCEPT !.pc = next, !.seen = Observed(Members)]
              /\ UNCHANGED observation
        <4>1. CASE pass.pc = "observe"
          BY <1>7, <2>2, <4>1 DEF Observe
        <4>2. CASE pass.pc = "reobserve"
          BY <1>7, <2>2, <4>2 DEF Observe
        <4>3. CASE pass.pc = "lastly"
          BY <1>7, <2>2, <4>3 DEF Observe
        <4> QED
          BY <2>0, <4>1, <4>2, <4>3
      <3>2. Follows(next)
        BY <1>0, <1>1, <2>0, <3>1 DEF Follows, PassType, PCs, Marked, Bound, Joined
      <3> QED
        BY <1>1, <1>5, <2>0, <3>1, <3>2
    <2> QED
      BY <2>1, <2>2
  <1>8. CASE JoinEnded
    <2>1. Follows("cleanup") /\ UNCHANGED <<token, observation>>
      BY <1>0, <1>1, <1>8 DEF JoinEnded, At, reports, Follows, Goto, PassType, PCs, Marked,
         Bound, Joined
    <2> QED
      BY <1>1, <1>5, <2>1
  <1>9. CASE JoinCleanup
    <2>0. token' = "none" /\ pass.pc = "cleanup" /\ UNCHANGED fresh
      BY <1>9 DEF JoinCleanup, At, hosts
    <2>1. CASE Failed
      BY <1>4, <2>0, <2>1
    <2>2. CASE Goto("ca") /\ UNCHANGED observation
      <3>1. Follows("ca")
        BY <1>0, <1>1, <2>0, <2>2 DEF Follows, Goto, PassType, PCs, Marked, Bound, Joined
      <3> QED
        BY <1>5, <2>0, <2>2, <3>1
    <2> QED
      BY <1>9, <2>1, <2>2 DEF JoinCleanup
  <1>10. CASE CheckCA
    <2>0. token \in {"none", "orphan"} /\ pass.pc = "ca" /\ UNCHANGED <<token, fresh>>
      BY <1>1, <1>10 DEF CheckCA, At, hosts
    <2>1. CASE Failed
      BY <1>4, <2>0, <2>1
    <2>2. CASE Goto("members") /\ UNCHANGED observation
      <3>1. Follows("members")
        BY <1>0, <1>1, <2>0, <2>2 DEF Follows, Goto, PassType, PCs, Marked, Bound, Joined
      <3> QED
        BY <1>5, <2>0, <2>2, <3>1
    <2> QED
      BY <1>10, <2>1, <2>2 DEF CheckCA
  <1>11. CASE Membership \/ RegistrationTimeout \/ Verify
    <2>0. /\ pass.pc \in {"members", "registered", "verify"} /\ UNCHANGED <<token, observation>>
          /\ token \in {"none", "orphan"}
      BY <1>1, <1>11 DEF Membership, RegistrationTimeout, Verify, At, reports
    <2>1. \/ pass' = [pass EXCEPT !.pc = "registered"] /\ pass.pc = "members"
          \/ pass' = [pass EXCEPT !.pc = "label"] /\ pass.pc = "verify"
          \/ pass' = [pass EXCEPT !.pc = "reobserve", !.bad = TRUE]
          \/ pass' = [pass EXCEPT !.pc = "lastly", !.bad = TRUE]
      BY <1>11 DEF Membership, RegistrationTimeout, Verify, At, Goto
    <2>2. \E next \in {"registered", "label", "reobserve", "lastly"} : Follows(next)
      BY <1>0, <1>1, <2>0, <2>1 DEF Follows, PassType, PCs, Marked, Bound, Joined
    <2> QED
      BY <1>5, <2>0, <2>2
  <1>12. CASE TaskFails
    <2>0. /\ UNCHANGED fresh /\ token' = IF pass.pc = "cleanup" THEN "orphan" ELSE token
          /\ pass.pc # "joinwait"
      BY <1>12 DEF TaskFails, hosts, At
    <2>1. CASE pass.pc \in {"intent", "joining", "members", "registered", "patch", "verify", "label"}
      <3>1. PICK next \in {"cleanup", "reobserve", "lastly"} :
              /\ pass' = [pass EXCEPT !.pc = next, !.bad = TRUE, !.read = Idle.read]
              /\ pass.pc \in {"intent", "joining"} => next = "cleanup"
              /\ UNCHANGED observation
        <4>1. CASE pass.pc \in {"intent", "joining"}
          BY <1>12, <4>1 DEF TaskFails
        <4>2. CASE pass.pc \in {"members", "registered", "patch"}
          BY <1>12, <4>2 DEF TaskFails
        <4>3. CASE pass.pc \in {"verify", "label"}
          BY <1>12, <4>3 DEF TaskFails
        <4> QED
          BY <2>1, <4>1, <4>2, <4>3
      <3>2. pass' \in PassType /\ pass'.pc = next /\ pass'.uid = pass.uid /\ pass'.has = pass.has
            /\ pass'.members = pass.members /\ pass'.ns = pass.ns /\ pass'.read = Idle.read
        BY <1>1, <3>1, IdleTyped DEF PassType, PCs
      <3>3. Follows(next)
        BY <1>0, <2>1, <3>2 DEF Follows, PCs, Marked, Bound, Joined
      <3>4. token' = "live" => next = "cleanup"
        BY <1>1, <2>0, <2>1, <3>1
      <3> QED
        BY <1>1, <1>5, <2>0, <3>1, <3>3, <3>4
    <2>2. CASE pass.pc \notin {"intent", "joining", "members", "registered", "patch", "verify", "label"}
      <3>1. Failed
        BY <1>12, <2>2 DEF TaskFails
      <3> QED
        BY <1>1, <1>4, <2>0, <2>2, <3>1
    <2> QED
      BY <2>1, <2>2
  <1>13. CASE CutOff
    <2>1. /\ pass' = Idle /\ UNCHANGED <<fresh, observation>>
          /\ token' = IF token = "live" THEN "orphan" ELSE token
      BY <1>13 DEF CutOff, hosts, reports
    <2> QED
      BY <1>1, <1>3, <2>1
  <1>14. CASE AwaitFlannel
    <2>0. pass.pc = "flannel" /\ UNCHANGED <<token, fresh>> /\ token # "live"
      BY <1>1, <1>14 DEF AwaitFlannel, At, hosts
    <2>1. CASE Failed
      BY <1>1, <1>4, <2>0, <2>1
    <2>2. CASE Goto("observe") /\ UNCHANGED observation
      <3>1. Follows("observe")
        BY <1>0, <1>1, <2>0, <2>2 DEF Follows, Goto, PassType, PCs, Marked, Bound, Joined
      <3> QED
        BY <1>1, <1>5, <2>0, <2>2, <3>1
    <2> QED
      BY <1>14, <2>1, <2>2 DEF AwaitFlannel
  <1> QED
    BY <1>6, <1>7, <1>8, <1>9, <1>10, <1>11, <1>12, <1>13, <1>14

\* The Nodes are read, patched under tests, and labelled.
LEMMA NodeSteps ==
  ASSUME Inv, AwaitRegistered \/ PatchLabels \/ LabelWorkers
  PROVE  Inv'
  <1> USE Bounds
  <1>1. /\ bound \in 0..N /\ faults \in 0..MaxFaults /\ pass \in PassType
        /\ observation \in {None, "ready", "degraded"} /\ token \in {"none", "live", "orphan"}
        /\ token = "live" => pass.pc \in {"intent", "joining", "joinwait", "cleanup"}
        /\ pass.pc # "patch" => pass.read = Idle.read
        /\ node \in [Server -> NodeType \cup {None}] /\ fresh \subseteq Server
        /\ \A s \in Server : node[s] # None => node[s].uid <= faults
    BY DEF Inv, TypeOK, PassTyped, N, At, Grown
  <1>2. /\ Kept /\ UNCHANGED <<bound, fresh, faults, token, observation>>
        /\ pass.pc \in {"registered", "patch", "label"}
    BY DEF AwaitRegistered, PatchLabels, LabelWorkers, At, Kept, objects, reports, hosts,
       cluster, history
  <1>3. token \in {"none", "orphan"} /\ ~At("idle")
    BY <1>1, <1>2 DEF At
  <1>4. ASSUME NEW next \in {"reobserve", "lastly"}, Follows(next),
               node' \in [Server -> NodeType \cup {None}],
               \A s \in Server : node'[s] # None => node'[s].uid <= faults
        PROVE  Inv'
    BY <1>1, <1>2, <1>3, <1>4, FollowStep
  <1>5. CASE AwaitRegistered
    <2>0. /\ UNCHANGED node /\ pass.pc = "registered"
          /\ \A s \in Members : node[s] # None /\ node[s].own
      BY <1>5 DEF AwaitRegistered, At, cluster
    <2>1. CASE ~\A s \in Members : Adoptable(node[s])
      <3>1. pass' = [pass EXCEPT !.pc = "reobserve", !.bad = TRUE]
        BY <1>5, <2>1 DEF AwaitRegistered
      <3>2. Follows("reobserve")
        BY <1>1, <1>2, <1>3, <2>0, <3>1 DEF Follows, PassType, PCs, Marked, Bound, Joined
      <3> QED
        BY <1>1, <1>4, <2>0, <3>2
    <2>2. CASE \A s \in Members : Adoptable(node[s])
      <3> DEFINE read == [s \in Server |-> IF s \in Members THEN node[s] ELSE None]
      <3>0. read \in [Server -> NodeType \cup {None}]
        BY <1>1
      <3>1. pass' = [pass EXCEPT !.pc = "patch", !.read = read]
        BY <1>5, <2>2 DEF AwaitRegistered
      <3>2. ASSUME NEW s \in Server
            PROVE  /\ read[s] # None <=> s \in Members
                   /\ read[s] # None => read[s] = node[s]
        BY <2>0
      <3> HIDE DEF read
      <3>3. /\ pass' \in PassType /\ pass'.pc = "patch" /\ pass'.uid = pass.uid
            /\ pass'.members = pass.members /\ pass'.has = pass.has /\ pass'.read = read
            /\ pass'.ns = pass.ns
        BY <1>1, <3>0, <3>1 DEF PassType, PCs
      <3>4. TypeOK' /\ PassTyped'
        BY <1>1, <1>2, <1>3, <2>0, <3>3 DEF Inv, TypeOK, PassTyped, Kept, At
      <3>5. Grown' /\ MarkersSound' /\ BootstrapOnce'
        BY <1>2, <2>0 DEF Inv, Grown, MarkersSound, BootstrapOnce, Unbegun, Kept
      <3>6. PlanSound'
        BY <1>2, <2>0, <3>3 DEF Inv, PlanSound, At, Members, Kept
      <3>7. LifetimeSound'
        BY <1>2, <2>0, <3>3 DEF Inv, LifetimeSound, Members, Marked, Bound, Joined, Kept, PCs
      <3>8. ReadsSound'
        <4> SUFFICES ASSUME NEW s \in Server
            PROVE  /\ read[s] # None <=> s \in Members
                   /\ read[s] # None =>
                        /\ Adoptable(read[s]) /\ read[s].uid <= faults /\ node[s] # None
                        /\ node[s].own
          BY <1>2, <2>0, <3>3 DEF ReadsSound, Members, Adoptable
        <4> QED
          BY <1>1, <2>0, <2>2, <3>2
      <3> QED
        BY <3>4, <3>5, <3>6, <3>7, <3>8 DEF Inv
    <2> QED
      BY <2>1, <2>2
  <1>6. CASE PatchLabels
    <2> DEFINE changed == {s \in Members : ~Desired(pass.read[s])}
               applied == {s \in changed : Applies(pass.read[s], node[s])}
    <2>0. /\ pass.pc = "patch"
          /\ pass' = [pass EXCEPT !.pc = "reobserve", !.bad = applied # changed,
                                  !.read = Idle.read]
          /\ node' = [s \in Server |->
                        IF s \in applied
                        THEN [node[s] EXCEPT !.labels = ManagedLabels(pass.read[s].labels)]
                        ELSE node[s]]
      BY <1>6 DEF PatchLabels, At
    <2>1. Follows("reobserve")
      <3>1. (applied # changed) \in BOOLEAN
        OBVIOUS
      <3> HIDE DEF applied, changed
      <3> QED
        BY <1>1, <1>3, <2>0, <3>1, IdleTyped DEF Follows, PassType, PCs, Marked, Bound, Joined
    <2>2. ASSUME NEW s \in Server
          PROVE  /\ node'[s] \in NodeType \cup {None}
                 /\ node'[s] # None => node'[s].uid <= faults
      <3>1. CASE s \in applied
        <4>1. /\ node[s] # None /\ node[s] \in NodeType /\ node[s].labels = pass.read[s].labels
          BY <1>1, <3>1 DEF Applies
        <4>2. ManagedLabels(pass.read[s].labels) \in SUBSET Label
          BY <4>1 DEF ManagedLabels, NodeType, Label
        <4>3. node'[s] = [node[s] EXCEPT !.labels = ManagedLabels(pass.read[s].labels)]
          BY <2>0, <3>1
        <4>4. node'[s] \in NodeType /\ node'[s].uid = node[s].uid
          BY <4>1, <4>2, <4>3 DEF NodeType
        <4> QED
          BY <1>1, <4>1, <4>4
      <3>2. CASE s \notin applied
        BY <1>1, <2>0, <3>2
      <3> QED
        BY <3>1, <3>2
    <2>3. node' \in [Server -> NodeType \cup {None}]
      BY <2>0, <2>2
    <2> QED
      BY <1>4, <2>1, <2>2, <2>3
  <1>7. CASE LabelWorkers
    <2>0. /\ pass.pc = "label"
          /\ pass' = [pass EXCEPT !.pc = "lastly",
                                  !.bad = \E s \in Members \cap Workers : node[s] = None]
          /\ node' = [s \in Server |-> IF s \in Members \cap Workers /\ node[s] # None
                               THEN [node[s] EXCEPT !.labels = @ \cup {"role"}] ELSE node[s]]
      BY <1>7 DEF LabelWorkers, At
    <2>1. Follows("lastly")
      BY <1>1, <1>3, <2>0 DEF Follows, PassType, PCs, Marked, Bound, Joined
    <2>2. ASSUME NEW s \in Server
          PROVE  /\ node'[s] \in NodeType \cup {None}
                 /\ node'[s] # None => node'[s].uid <= faults
      <3>1. CASE s \in Members \cap Workers /\ node[s] # None
        <4>1. node[s] \in NodeType /\ node'[s] = [node[s] EXCEPT !.labels = node[s].labels \cup {"role"}]
          BY <1>1, <2>0, <3>1
        <4>2. node'[s] \in NodeType /\ node'[s].uid = node[s].uid
          BY <4>1 DEF NodeType, Label
        <4> QED
          BY <1>1, <3>1, <4>2
      <3>2. CASE ~(s \in Members \cap Workers /\ node[s] # None)
        BY <1>1, <2>0, <3>2
      <3> QED
        BY <3>1, <3>2
    <2>3. node' \in [Server -> NodeType \cup {None}]
      BY <2>0, <2>2
    <2> QED
      BY <1>4, <2>1, <2>2, <2>3
  <1> QED
    BY <1>5, <1>6, <1>7

-----------------------------------------------------------------------------
(* The markers, and kubeadm. *)

\* What a write of markers must be for the invariant: a marker of a member, written
\* over one that says less.
LEMMA MarkerStep ==
  ASSUME Inv, NEW hs \in SUBSET Server, NEW new, Mark(hs, new),
         \A s \in hs :
           /\ new[s] \in MarkerType
           /\ new[s].phase = "Prepared" => new[s].ns = 0 /\ Unbegun(s)
           /\ new[s].phase = "Initialising" => s = ControlPlane
           /\ new[s].phase \in {"Joining", "Ready"} => new[s].ns # 0,
         UNCHANGED <<creds, boot, begun>>
  PROVE  /\ marker' \in [Server -> MarkerType \cup {None}]
         /\ MarkersSound' /\ BootstrapOnce'
         /\ \A s \in hs : marker'[s] = new[s] /\ marker'[s] # None
         /\ \A s \in Server \ hs : marker'[s] = marker[s]
  <1>1. /\ \A s \in hs : marker'[s] = new[s] /\ marker'[s] # None
        /\ \A s \in Server \ hs : marker'[s] = marker[s]
    BY NoneAssumption DEF Mark
  <1>2. marker' \in [Server -> MarkerType \cup {None}]
    BY <1>1 DEF Mark, Inv, TypeOK
  <1>3. BootstrapOnce'
    BY DEF Inv, BootstrapOnce
  <1>4. ASSUME NEW s \in Server
        PROVE  /\ marker'[s] # None /\ marker'[s].phase = "Prepared" => marker'[s].ns = 0
               /\ marker'[s] # None /\ marker'[s].phase = "Initialising" => s = ControlPlane
               /\ marker'[s] # None /\ marker'[s].phase \in {"Joining", "Ready"}
                    => marker'[s].ns # 0
               /\ Unbegun(s)' => begun[s] = 0 /\ creds[s] = 0 /\ s \notin boot
    <2>1. CASE s \in hs
      BY <1>1, <2>1 DEF Inv, MarkersSound, Unbegun
    <2>2. CASE s \notin hs
      BY <1>1, <2>2 DEF Inv, MarkersSound, Unbegun
    <2> QED
      BY <2>1, <2>2
  <1>5. MarkersSound'
    BY <1>4 DEF MarkersSound, Unbegun
  <1> QED
    BY <1>1, <1>2, <1>3, <1>5

\* The preparation keeps what a marker says.
LEMMA PrepareStep ==
  ASSUME Inv, Prepare
  PROVE  Inv'
  <1> USE Bounds
  <1>0. /\ UNCHANGED <<uid, selected, outputs, creds, boot, fresh, api, setup, bound, node, token,
                       born, begun>>
        /\ pass.pc = "prepare"
    BY DEF Prepare, objects, cluster, history, At
  <1>1. /\ faults \in 0..MaxFaults /\ pass \in PassType /\ pass.read = Idle.read /\ bound \in 0..N
        /\ observation \in {None, "ready", "degraded"} /\ token \in {"none", "orphan"}
        /\ Members \subseteq Server /\ ControlPlane \in Members /\ pass.uid \in 1..N
    BY <1>0 DEF Inv, TypeOK, PassTyped, PassType, PlanSound, At, Members, N
  <1> DEFINE new == [s \in Members |-> Prepared(s)]
  <1>2. PICK done \in SUBSET Members :
          /\ Mark(done, new)
          /\ \/ done = Members /\ Goto("control") /\ UNCHANGED <<observation, faults>>
             \/ done # Members /\ Disturbs /\ Failed
    BY DEF Prepare
  <1>3. ASSUME NEW s \in Members
        PROVE  /\ new[s] \in MarkerType /\ (marker[s] # None => new[s] = marker[s])
               /\ marker[s] = None => new[s].phase = "Prepared" /\ new[s].ns = 0
    <2>1. CASE marker[s] = None
      BY <1>1, <2>1 DEF Prepared, MarkerType, Phase, N
    <2>2. CASE marker[s] # None
      BY <1>1, <2>2 DEF Prepared, Inv, TypeOK
    <2> QED
      BY <2>1, <2>2
  <1>4. ASSUME NEW s \in done
        PROVE  /\ new[s] \in MarkerType
               /\ new[s].phase = "Prepared" => new[s].ns = 0 /\ Unbegun(s)
               /\ new[s].phase = "Initialising" => s = ControlPlane
               /\ new[s].phase \in {"Joining", "Ready"} => new[s].ns # 0
    <2>1. s \in Server /\ s \in Members
      BY <1>1
    <2> QED
      BY <1>3, <2>1 DEF Inv, MarkersSound, Unbegun
  <1> HIDE DEF new
  <1>5. /\ marker' \in [Server -> MarkerType \cup {None}] /\ MarkersSound' /\ BootstrapOnce'
        /\ \A s \in done : marker'[s] = new[s] /\ marker'[s] # None
        /\ \A s \in Server \ done : marker'[s] = marker[s]
    BY <1>0, <1>1, <1>2, <1>4, MarkerStep
  <1>6. \A s \in Members : Unbegun(s) => Unbegun(s)'
    BY <1>1, <1>3, <1>5 DEF Unbegun
  <1>7. faults' \in faults..MaxFaults
    BY <1>1, <1>2 DEF Disturbs
  <1>8. CASE Failed
    <2>1. pass' = Idle /\ observation' \in {None, "ready", "degraded"}
      BY <1>8, FailedEnds
    <2> QED
      BY <1>0, <1>1, <1>5, <1>7, <2>1, EndMarkedStep
  <1>9. CASE done = Members /\ Goto("control") /\ UNCHANGED <<observation, faults>>
    <2>1. /\ pass' \in PassType /\ pass'.pc = "control" /\ pass'.uid = pass.uid
          /\ pass'.members = pass.members /\ pass'.has = pass.has /\ pass'.read = Idle.read
      BY <1>1, <1>9 DEF Goto, PassType, PCs
    <2>2. TypeOK' /\ PassTyped'
      BY <1>0, <1>1, <1>5, <1>9, <2>1 DEF Inv, TypeOK, PassTyped, At
    <2>3. Grown'
      BY <1>0, <1>9 DEF Inv, Grown
    <2>4. PlanSound'
      BY <1>0, <1>1, <1>6, <2>1 DEF Inv, PlanSound, At, Members, Unpublished
    <2>5. LifetimeSound' /\ ReadsSound'
      BY <1>0, <1>5, <1>9, <2>1
         DEF Inv, LifetimeSound, ReadsSound, At, Members, Marked, Bound, Joined
    <2> QED
      BY <1>5, <2>2, <2>3, <2>4, <2>5 DEF Inv
  <1> QED
    BY <1>2, <1>8, <1>9

\* The intent to initialise is recorded before kubeadm runs.
LEMMA InitIntentStep ==
  ASSUME Inv, InitIntent
  PROVE  Inv'
  <1> USE Bounds
  <1>0. /\ UNCHANGED <<uid, selected, outputs, observation, creds, boot, fresh, api, setup, bound, node,
                       token, born, begun, faults>>
        /\ pass.pc = "control"
    BY DEF InitIntent, objects, reports, cluster, history, At
  <1>1. /\ faults \in 0..MaxFaults /\ pass \in PassType /\ pass.read = Idle.read
        /\ token \in {"none", "orphan"} /\ node \in [Server -> NodeType \cup {None}]
        /\ \A s \in Server : node[s] # None => node[s].uid <= faults
        /\ Members \subseteq Server /\ ControlPlane \in Members /\ pass.uid \in 1..N
    BY <1>0 DEF Inv, TypeOK, PassTyped, PassType, PlanSound, At, Members, Grown
  <1>2. CASE ControlPlane \in pass.has
    <2>1. pass' = [pass EXCEPT !.pc = "api"] /\ UNCHANGED marker
      BY <1>2 DEF InitIntent, Goto
    <2>2. /\ pass' \in PassType /\ pass'.pc = "api" /\ pass'.uid = pass.uid
          /\ pass'.members = pass.members /\ pass'.has = pass.has /\ pass'.read = Idle.read
      BY <1>1, <2>1 DEF PassType, PCs
    <2>3. TypeOK' /\ PassTyped'
      BY <1>0, <1>1, <2>1, <2>2 DEF Inv, TypeOK, PassTyped, At
    <2>4. Grown' /\ MarkersSound' /\ BootstrapOnce'
      BY <1>0, <2>1 DEF Inv, Grown, MarkersSound, BootstrapOnce, Unbegun
    <2>5. PlanSound'
      BY <1>0, <1>1, <2>1, <2>2 DEF Inv, PlanSound, At, Members, Joiners, Unbegun
    <2>6. LifetimeSound' /\ ReadsSound'
      BY <1>0, <2>1, <2>2
         DEF Inv, LifetimeSound, ReadsSound, At, Members, Marked, Bound, Joined, PCs
    <2> QED
      BY <2>3, <2>4, <2>5, <2>6 DEF Inv
  <1>3. CASE ControlPlane \notin pass.has
    <2> DEFINE new == [s \in {ControlPlane} |->
                         [uid |-> pass.uid, phase |-> "Initialising", ns |-> 0]]
    <2>1. pass' = [pass EXCEPT !.pc = "init"] /\ Mark({ControlPlane}, new)
      <3>1. marker' = [marker EXCEPT ![ControlPlane] =
                         [uid |-> pass.uid, phase |-> "Initialising", ns |-> 0]]
        BY <1>3 DEF InitIntent
      <3>2. marker' = [s \in Server |-> IF s \in {ControlPlane} THEN new[s] ELSE marker[s]]
        BY <3>1 DEF Inv, TypeOK
      <3> QED
        BY <1>3, <3>2 DEF InitIntent, Goto, Mark
    <2>2. \A s \in {ControlPlane} :
            s = ControlPlane /\ new[s] \in MarkerType /\ new[s].phase = "Initialising"
      BY <1>1 DEF MarkerType, Phase, N
    <2> HIDE DEF new
    <2>3. /\ marker' \in [Server -> MarkerType \cup {None}] /\ MarkersSound' /\ BootstrapOnce'
          /\ marker'[ControlPlane] = new[ControlPlane] /\ marker'[ControlPlane] # None
          /\ \A s \in Server \ {ControlPlane} : marker'[s] = marker[s]
      <3>1. {ControlPlane} \in SUBSET Server /\ UNCHANGED <<creds, boot, begun>>
        BY <1>0
      <3>2. \A s \in {ControlPlane} :
              /\ new[s] \in MarkerType
              /\ new[s].phase = "Prepared" => new[s].ns = 0 /\ Unbegun(s)
              /\ new[s].phase = "Initialising" => s = ControlPlane
              /\ new[s].phase \in {"Joining", "Ready"} => new[s].ns # 0
        BY <2>2
      <3> QED
        BY <2>1, <3>1, <3>2, MarkerStep
    <2>4. /\ pass' \in PassType /\ pass'.pc = "init" /\ pass'.uid = pass.uid
          /\ pass'.members = pass.members /\ pass'.has = pass.has /\ pass'.read = Idle.read
      BY <1>1, <2>1 DEF PassType, PCs
    <2>5. TypeOK' /\ PassTyped'
      BY <1>0, <1>1, <2>3, <2>4 DEF Inv, TypeOK, PassTyped, At
    <2>6. Grown'
      BY <1>0 DEF Inv, Grown
    <2>7. /\ Unpublished /\ \A s \in Members : Unbegun(s)
          /\ \A s \in Members : begun[s] = 0 /\ creds[s] = 0 /\ s \notin boot
      BY <1>0, <1>1, <1>3 DEF Inv, PlanSound, MarkersSound
    <2>8. \A s \in Members \ {ControlPlane} : Unbegun(s)'
      BY <1>1, <2>3, <2>7 DEF Unbegun
    <2>9. ~Unbegun(ControlPlane)'
      BY <2>2, <2>3 DEF Unbegun
    <2>10. PlanSound'
      BY <1>0, <1>1, <2>4, <2>7, <2>8, <2>9
         DEF Inv, PlanSound, At, Members, Joiners, Workers, Unpublished
    <2>11. LifetimeSound' /\ ReadsSound'
      BY <1>0, <1>1, <2>3, <2>4
         DEF Inv, LifetimeSound, ReadsSound, At, Members, Marked, Bound, Joined, PCs
    <2> QED
      BY <2>3, <2>5, <2>6, <2>10, <2>11 DEF Inv
  <1> QED
    BY <1>2, <1>3

\* The intents to join and the records of a verified cluster carry the lifetime that
\* the pass has compared with what the members recorded.
LEMMA LifetimeSteps ==
  ASSUME Inv, JoinIntent \/ Record
  PROVE  Inv'
  <1> USE Bounds
  <1>0. /\ UNCHANGED <<uid, selected, outputs, creds, boot, fresh, api, setup, bound, node, token,
                       born, begun>>
        /\ pass.pc \in {"intent", "record"}
    BY DEF JoinIntent, Record, objects, reports, cluster, history, At
  <1>1. /\ faults \in 0..MaxFaults /\ pass \in PassType /\ pass.read = Idle.read /\ bound \in 0..N
        /\ observation \in {None, "ready", "degraded"} /\ token \in {"none", "live", "orphan"}
        /\ token = "live" => pass.pc = "intent"
        /\ Members \subseteq Server /\ ControlPlane \in Members /\ pass.uid \in 1..N
        /\ pass.ns \in 0..N
    BY <1>0 DEF Inv, TypeOK, PassTyped, PassType, PlanSound, At, Members, N
  <1>2. /\ pass.ns # 0 /\ \A s \in Members : marker[s] # None /\ marker[s].ns \in {0, pass.ns}
        /\ outputs.uid = pass.uid => outputs.ns \in {0, pass.ns}
    BY <1>0 DEF Inv, LifetimeSound, Marked, Bound, Joined, PCs
  <1>3. ASSUME NEW hs \in SUBSET Members, NEW done \in SUBSET hs, NEW phase \in {"Joining", "Ready"},
               NEW new, \A s \in hs : new[s] = [uid |-> pass.uid, phase |-> phase, ns |-> pass.ns],
               Mark(done, new)
        PROVE  /\ marker' \in [Server -> MarkerType \cup {None}] /\ MarkersSound' /\ BootstrapOnce'
               /\ \A s \in done : marker'[s] = new[s] /\ marker'[s] # None
               /\ \A s \in Server \ done : marker'[s] = marker[s]
               /\ \A s \in Members : marker'[s] # None /\ marker'[s].ns \in {0, pass.ns}
    <2>1. ASSUME NEW s \in done
          PROVE  new[s] \in MarkerType /\ new[s].phase = phase /\ new[s].ns = pass.ns
      BY <1>1, <1>3 DEF MarkerType, Phase, N
    <2>2. /\ marker' \in [Server -> MarkerType \cup {None}] /\ MarkersSound' /\ BootstrapOnce'
          /\ \A s \in done : marker'[s] = new[s] /\ marker'[s] # None
          /\ \A s \in Server \ done : marker'[s] = marker[s]
      <3>1. done \in SUBSET Server /\ UNCHANGED <<creds, boot, begun>>
        BY <1>0, <1>1, <1>3
      <3>2. \A s \in done :
              /\ new[s] \in MarkerType
              /\ new[s].phase = "Prepared" => new[s].ns = 0 /\ Unbegun(s)
              /\ new[s].phase = "Initialising" => s = ControlPlane
              /\ new[s].phase \in {"Joining", "Ready"} => new[s].ns # 0
        BY <1>2, <1>3, <2>1
      <3> QED
        BY <1>3, <3>1, <3>2, MarkerStep
    <2> QED
      BY <1>1, <1>2, <2>1, <2>2
  <1>4. CASE JoinIntent
    <2> DEFINE new == [s \in Joiners |-> JoinMarker(s)]
    <2>0. pass.pc = "intent" /\ UNCHANGED observation
      BY <1>4 DEF JoinIntent, At, reports
    <2>1. PICK done \in SUBSET Joiners :
            /\ Mark(done, new)
            /\ \/ done = Joiners /\ Goto("joining") /\ UNCHANGED faults
               \/ /\ done # Joiners /\ Disturbs
                  /\ pass' = [pass EXCEPT !.pc = "cleanup", !.bad = TRUE]
      BY <1>4 DEF JoinIntent
    <2>2. /\ Joiners \in SUBSET Members
          /\ \A s \in Joiners : new[s] = [uid |-> pass.uid, phase |-> "Joining", ns |-> pass.ns]
      BY DEF Joiners, JoinMarker
    <2> HIDE DEF new
    <2>3. /\ marker' \in [Server -> MarkerType \cup {None}] /\ MarkersSound' /\ BootstrapOnce'
          /\ \A s \in done : marker'[s] = new[s] /\ marker'[s] # None
          /\ \A s \in Server \ done : marker'[s] = marker[s]
          /\ \A s \in Members : marker'[s] # None /\ marker'[s].ns \in {0, pass.ns}
      BY <1>3, <2>1, <2>2
    <2>4. /\ pass' \in PassType /\ pass'.pc \in {"joining", "cleanup"} /\ pass'.uid = pass.uid
          /\ pass'.members = pass.members /\ pass'.has = pass.has /\ pass'.read = Idle.read
          /\ pass'.ns = pass.ns /\ (pass'.pc = "joining" => done = Joiners)
      BY <1>1, <2>1 DEF Goto, PassType, PCs
    <2>5. faults' \in faults..MaxFaults
      BY <1>1, <2>1 DEF Disturbs
    <2>6. TypeOK' /\ PassTyped'
      BY <1>0, <1>1, <2>0, <2>3, <2>4, <2>5 DEF Inv, TypeOK, PassTyped, At
    <2>7. Grown'
      BY <1>0, <1>1, <2>5, GrownLater
    <2>8. \A s \in Joiners : begun[s] = 0
      BY <1>1, <2>0 DEF Inv, PlanSound, MarkersSound, Joiners
    <2>9. done = Joiners => \A s \in Joiners : ~Unbegun(s)'
      BY <2>2, <2>3 DEF Unbegun
    <2>10. PlanSound'
      BY <1>0, <1>1, <2>4, <2>8, <2>9 DEF Inv, PlanSound, At, Members, Joiners
    <2>11. LifetimeSound' /\ ReadsSound'
      BY <1>0, <1>1, <1>2, <2>3, <2>4
         DEF Inv, LifetimeSound, ReadsSound, At, Members, Marked, Bound, Joined, PCs
    <2> QED
      BY <2>3, <2>6, <2>7, <2>10, <2>11 DEF Inv
  <1>5. CASE Record
    <2> DEFINE new == [s \in Members |-> ReadyMarker(s)]
    <2>0. pass.pc = "record"
      BY <1>5 DEF Record, At
    <2>1. PICK done \in SUBSET Members :
            /\ Mark(done, new)
            /\ \/ done = Members /\ Goto("publish") /\ UNCHANGED <<observation, faults>>
               \/ done # Members /\ Disturbs /\ Failed
      BY <1>5 DEF Record
    <2>2. \A s \in Members : new[s] = [uid |-> pass.uid, phase |-> "Ready", ns |-> pass.ns]
      BY DEF ReadyMarker
    <2> HIDE DEF new
    <2>3. /\ marker' \in [Server -> MarkerType \cup {None}] /\ MarkersSound' /\ BootstrapOnce'
          /\ \A s \in Members : marker'[s] # None /\ marker'[s].ns \in {0, pass.ns}
      BY <1>3, <2>1, <2>2
    <2>4. CASE Failed /\ Disturbs
      <3>1. pass' = Idle /\ observation' \in {None, "ready", "degraded"}
        BY <2>4, FailedEnds
      <3>2. faults' \in faults..MaxFaults /\ token \in {"none", "orphan"}
        BY <1>1, <2>0, <2>4 DEF Disturbs
      <3> QED
        BY <1>0, <1>1, <2>3, <3>1, <3>2, EndMarkedStep
    <2>5. CASE Goto("publish") /\ UNCHANGED <<observation, faults>>
      <3>1. /\ pass' \in PassType /\ pass'.pc = "publish" /\ pass'.uid = pass.uid
            /\ pass'.members = pass.members /\ pass'.has = pass.has /\ pass'.read = Idle.read
            /\ pass'.ns = pass.ns
        BY <1>1, <2>5 DEF Goto, PassType, PCs
      <3>2. TypeOK' /\ PassTyped'
        BY <1>0, <1>1, <2>0, <2>3, <2>5, <3>1 DEF Inv, TypeOK, PassTyped, At
      <3>3. Grown'
        BY <1>0, <2>5 DEF Inv, Grown
      <3>4. PlanSound'
        BY <1>0, <1>1, <3>1 DEF Inv, PlanSound, At, Members
      <3>5. LifetimeSound' /\ ReadsSound'
        BY <1>0, <1>1, <1>2, <2>3, <3>1
           DEF Inv, LifetimeSound, ReadsSound, At, Members, Marked, Bound, Joined, PCs
      <3> QED
        BY <2>3, <3>2, <3>3, <3>4, <3>5 DEF Inv
    <2> QED
      BY <2>1, <2>4, <2>5
  <1> QED
    BY <1>4, <1>5

\* kubeadm runs on Servers where it never ran before.
LEMMA BootstrapSteps ==
  ASSUME Inv, KubeadmInit \/ KubeadmJoin
  PROVE  Inv'
  <1> USE Bounds
  <1>0. /\ UNCHANGED <<uid, selected, outputs, observation, marker, creds, fresh, api, setup, bound, node,
                       token, born, faults>>
        /\ pass.pc \in {"init", "joining"}
    BY DEF KubeadmInit, KubeadmJoin, objects, reports, cluster, At
  <1>1. /\ pass \in PassType /\ pass.read = Idle.read /\ token \in {"none", "live", "orphan"}
        /\ token = "live" => pass.pc = "joining"
        /\ Members \subseteq Server /\ ControlPlane \in Members
        /\ begun \in [Server -> Nat] /\ boot \subseteq Server
    BY <1>0 DEF Inv, TypeOK, PassTyped, PassType, PlanSound, At, Members
  <1>2. ASSUME NEW hs \in SUBSET Members, Bootstrap(hs),
               \A s \in hs : ~Unbegun(s) /\ begun[s] = 0
        PROVE  /\ begun' \in [Server -> Nat] /\ boot' \subseteq Server
               /\ MarkersSound' /\ BootstrapOnce'
    <2>1. \A s \in Server : begun'[s] = IF s \in hs THEN begun[s] + 1 ELSE begun[s]
      BY <1>2 DEF Bootstrap
    <2>2. boot' = boot \cup hs /\ boot' \subseteq Server
      BY <1>1, <1>2 DEF Bootstrap
    <2>3. begun' \in [Server -> Nat]
      BY <1>1, <1>2 DEF Bootstrap
    <2>4. BootstrapOnce'
      BY <1>1, <1>2, <2>1 DEF Inv, BootstrapOnce
    <2>5. MarkersSound'
      BY <1>0, <1>2, <2>1, <2>2 DEF Inv, MarkersSound, Unbegun
    <2> QED
      BY <2>2, <2>3, <2>4, <2>5
  <1>3. /\ begun' \in [Server -> Nat] /\ boot' \subseteq Server
        /\ MarkersSound' /\ BootstrapOnce'
    <2>1. CASE KubeadmInit
      <3>1. ~Unbegun(ControlPlane) /\ begun[ControlPlane] = 0 /\ Bootstrap({ControlPlane})
        BY <2>1 DEF KubeadmInit, Inv, PlanSound
      <3> QED
        BY <1>1, <1>2, <3>1
    <2>2. CASE KubeadmJoin
      <3>1. /\ Joiners \in SUBSET Members /\ Bootstrap(Joiners)
            /\ \A s \in Joiners : ~Unbegun(s) /\ begun[s] = 0
        BY <2>2 DEF KubeadmJoin, Inv, PlanSound, Joiners
      <3> QED
        BY <1>2, <3>1
    <2> QED
      BY <2>1, <2>2
  <1>4. /\ pass' \in PassType /\ pass'.uid = pass.uid /\ pass'.members = pass.members
        /\ pass'.has = pass.has /\ pass'.read = Idle.read /\ pass'.ns = pass.ns
        /\ \/ pass.pc = "init" /\ pass'.pc = "initwait"
           \/ pass.pc = "joining" /\ pass'.pc = "joinwait"
    BY <1>1 DEF KubeadmInit, KubeadmJoin, Goto, At, PassType, PCs
  <1>5. TypeOK' /\ PassTyped'
    BY <1>0, <1>1, <1>3, <1>4 DEF Inv, TypeOK, PassTyped, At
  <1>6. Grown'
    BY <1>0 DEF Inv, Grown
  <1>7. PlanSound'
    BY <1>0, <1>4 DEF Inv, PlanSound, At, Members, Joiners, Unbegun
  <1>8. LifetimeSound' /\ ReadsSound'
    BY <1>0, <1>4 DEF Inv, LifetimeSound, ReadsSound, At, Members, Marked, Bound, Joined, PCs
  <1> QED
    BY <1>3, <1>5, <1>6, <1>7, <1>8 DEF Inv

\* The result is published under the uid the pass was planned for.
LEMMA PublishStep ==
  ASSUME Inv, Publish
  PROVE  Inv'
  <1> USE Bounds
  <1>0. /\ UNCHANGED <<uid, selected, marker, creds, boot, fresh, api, setup, bound, node, token, born,
                       begun, faults>>
        /\ pass.pc = "publish" /\ pass' = Idle
    BY DEF Publish, objects, hosts, cluster, history, At
  <1>1. /\ pass \in PassType /\ token \in {"none", "orphan"} /\ pass.uid # 0
    BY <1>0 DEF Inv, TypeOK, PassTyped, At, PlanSound
  <1>2. /\ observation' \in {None, "ready", "degraded"}
        /\ outputs' \in [uid : 0..N, ns : 0..N] /\ (outputs'.uid = 0 => outputs'.ns = 0)
    BY <1>1 DEF Publish, reports, Inv, TypeOK, LifetimeSound, PassType, N
  <1>3. TypeOK' /\ PassTyped'
    BY <1>0, <1>1, <1>2, IdleTyped DEF Inv, TypeOK, PassTyped, At, N
  <1>4. Grown' /\ MarkersSound' /\ BootstrapOnce'
    BY <1>0 DEF Inv, Grown, MarkersSound, BootstrapOnce, Unbegun
  <1>5. PlanSound' /\ LifetimeSound' /\ ReadsSound'
    BY <1>0, <1>2, IdleTyped
       DEF Inv, PlanSound, LifetimeSound, ReadsSound, At, Marked, Bound, Joined
  <1> QED
    BY <1>3, <1>4, <1>5 DEF Inv

-----------------------------------------------------------------------------
(* What kubeadm, kubelet and everybody else do meanwhile. *)

\* kubeadm makes credentials, of a new lifetime on the control plane, and ends.
LEMMA MachineSteps ==
  ASSUME Inv, NEW s \in Server, KubeadmWrites(s) \/ KubeadmEnds(s)
  PROVE  Inv'
  <1> USE Bounds
  <1>0. /\ UNCHANGED <<uid, selected, outputs, observation, marker, bound, node, token, pass,
                       begun, faults>>
        /\ s \in boot
    BY DEF KubeadmWrites, KubeadmEnds, objects, reports, cluster, history
  <1>1. /\ boot \subseteq Server /\ fresh \subseteq Server /\ creds \in [Server -> 0..N]
        /\ born \in 0..N /\ api \in 0..N /\ faults \in 0..MaxFaults /\ ~Unbegun(s)
        /\ setup' \in Setup
    BY <1>0 DEF Inv, TypeOK, PassTyped, N, MarkersSound, KubeadmWrites, KubeadmEnds, cluster, Setup
  <1>2. /\ creds' \in [Server -> 0..N] /\ boot' \subseteq boot /\ fresh' \subseteq Server
        /\ api' \in 0..N /\ born' \in 0..N /\ Grown'
        /\ \A m \in Server : m # s => creds'[m] = creds[m]
    <2>1. CASE KubeadmWrites(s) /\ s = ControlPlane
      <3>1. /\ creds[s] = 0 /\ born' = born + 1 /\ creds' = [creds EXCEPT ![s] = born + 1]
            /\ UNCHANGED <<api, boot, fresh>>
        BY <2>1 DEF KubeadmWrites, cluster
      <3>2. born <= faults /\ born + 1 \in 0..N
        BY <1>1, <2>1, <3>1 DEF Inv, Grown, N
      <3>3. creds' \in [Server -> 0..N] /\ creds'[s] = born + 1
            /\ \A m \in Server : m # s => creds'[m] = creds[m]
        BY <1>1, <3>1, <3>2
      <3>4. \A m \in Server : creds'[m] <= born + 1
        BY <1>1, <3>3 DEF Inv, Grown
      <3>5. Grown'
        BY <1>0, <1>1, <2>1, <3>1, <3>2, <3>3, <3>4 DEF Inv, Grown
      <3> QED
        BY <1>1, <3>1, <3>2, <3>3, <3>5
    <2>2. CASE KubeadmWrites(s) /\ s # ControlPlane
      <3>1. /\ creds' = [creds EXCEPT ![s] = api] /\ UNCHANGED <<api, boot, fresh, born>>
        BY <2>2 DEF KubeadmWrites, cluster
      <3>2. creds' \in [Server -> 0..N] /\ creds'[s] = api
            /\ \A m \in Server : m # s => creds'[m] = creds[m]
        BY <1>1, <3>1
      <3>3. Grown'
        BY <1>0, <1>1, <2>2, <3>1, <3>2 DEF Inv, Grown
      <3> QED
        BY <1>1, <3>1, <3>2, <3>3
    <2>3. CASE KubeadmEnds(s)
      <3>1. /\ UNCHANGED <<creds, born>> /\ boot' = boot \ {s} /\ fresh' = fresh \cup {s}
            /\ api' \in {api, creds[s]}
        BY <2>3 DEF KubeadmEnds, history
      <3>2. Grown'
        BY <1>0, <3>1 DEF Inv, Grown
      <3> QED
        BY <1>1, <3>1, <3>2
    <2> QED
      BY <2>1, <2>2, <2>3
  <1>3. TypeOK' /\ PassTyped'
    BY <1>0, <1>1, <1>2 DEF Inv, TypeOK, PassTyped, At, N
  <1>4. MarkersSound' /\ BootstrapOnce'
    BY <1>0, <1>1, <1>2 DEF Inv, MarkersSound, BootstrapOnce, Unbegun
  <1>5. PlanSound'
    <2>1. ASSUME pass.pc = "init", NEW m \in Members PROVE creds'[m] = 0 /\ m \notin boot'
      <3>1. m \in Server /\ creds[m] = 0 /\ m \notin boot
        BY <2>1 DEF Inv, PlanSound, At, PassTyped, PassType, Members
      <3> QED
        BY <1>0, <1>2, <3>1
    <2> QED
      BY <1>0, <2>1 DEF Inv, PlanSound, At, Members, Joiners, Unbegun, Unpublished
  <1>6. LifetimeSound' /\ ReadsSound'
    BY <1>0 DEF Inv, LifetimeSound, ReadsSound, At, Members
  <1> QED
    BY <1>2, <1>3, <1>4, <1>5, <1>6 DEF Inv

\* kubeadm dies or is refused, and a pass that waits for it will know.
LEMMA DiesStep ==
  ASSUME Inv, NEW s \in Server, KubeadmDies(s) \/ JoinRefused(s)
  PROVE  Inv'
  <1> USE Bounds
  <1>0. /\ UNCHANGED <<uid, selected, outputs, observation, marker, creds, bound, node, token,
                       born, begun>>
        /\ s \in boot /\ boot' = boot \ {s}
    BY DEF KubeadmDies, JoinRefused, objects, reports, cluster, history
  <1>1. /\ boot \subseteq Server /\ fresh \subseteq Server /\ creds \in [Server -> 0..N]
        /\ born \in 0..N /\ api \in 0..N /\ faults \in 0..MaxFaults /\ pass \in PassType
    BY <1>0 DEF Inv, TypeOK, PassTyped, N
  <1>2. /\ api' \in {0, api, creds[s]} /\ setup' \in Setup /\ fresh' \subseteq Server
        /\ faults' \in {faults, faults + 1} /\ faults' \in 0..MaxFaults
    BY <1>1 DEF KubeadmDies, JoinRefused, Disturbs, cluster, Setup, Inv, TypeOK
  <1>3. /\ pass' \in PassType /\ pass'.pc = pass.pc /\ pass'.uid = pass.uid
        /\ pass'.members = pass.members /\ pass'.has = pass.has /\ pass'.ns = pass.ns
        /\ pass'.read = pass.read /\ (pass.pc = "idle" => pass' = pass)
    BY <1>1 DEF KubeadmDies, JoinRefused, Noticed, PassType
  <1>4. TypeOK' /\ PassTyped'
    BY <1>0, <1>1, <1>2, <1>3 DEF Inv, TypeOK, PassTyped, At, N
  <1>5. Grown'
    <2>1. /\ uid <= faults + 1 /\ api' <= born /\ \A m \in Server : creds[m] <= born
          /\ born <= faults + (IF creds[ControlPlane] = 0 THEN 0 ELSE 1) /\ uid \in Nat
          /\ \A m \in Server : node[m] # None => node[m].uid <= faults /\ node[m].uid \in Nat
      BY <1>1, <1>2 DEF Inv, Grown, TypeOK, NodeType
    <2>2. /\ uid <= faults' + 1
          /\ born <= faults' + (IF creds[ControlPlane] = 0 THEN 0 ELSE 1)
          /\ \A m \in Server : node[m] # None => node[m].uid <= faults'
      <3>1. CASE faults' = faults
        BY <2>1, <3>1
      <3>2. CASE faults' = faults + 1
        <4>1. /\ uid <= faults + 1 + 1
              /\ born <= faults + 1 + (IF creds[ControlPlane] = 0 THEN 0 ELSE 1)
              /\ \A m \in Server : node[m] # None => node[m].uid <= faults + 1
          BY <1>1, <2>1
        <4> QED
          BY <3>2, <4>1
      <3> QED
        BY <1>2, <3>1, <3>2
    <2> QED
      BY <1>0, <1>2, <2>1, <2>2 DEF Grown
  <1>6. MarkersSound' /\ BootstrapOnce'
    BY <1>0 DEF Inv, MarkersSound, BootstrapOnce, Unbegun
  <1>7. PlanSound'
    BY <1>0, <1>3 DEF Inv, PlanSound, At, Members, Joiners, Unbegun, Unpublished
  <1>8. LifetimeSound'
    BY <1>0, <1>3 DEF Inv, LifetimeSound, Members
  <1>9. ReadsSound'
    <2> SUFFICES ASSUME pass.pc = "patch", NEW m \in Server, pass.read[m] # None
        PROVE  pass.read[m].uid <= faults'
               /\ (node[m] = None => pass.read[m].uid < faults')
      BY <1>0, <1>2, <1>3 DEF Inv, ReadsSound, At, Members
    <2>1. /\ pass.read[m].uid \in Nat /\ pass.read[m].uid <= faults
          /\ node[m] = None => pass.read[m].uid < faults
      BY <1>1 DEF Inv, ReadsSound, At, PassType, NodeType
    <2> QED
      BY <1>1, <1>2, <2>1
  <1> QED
    BY <1>4, <1>5, <1>6, <1>7, <1>8, <1>9 DEF Inv

\* A kubelet registers, edits are made.
LEMMA RegisterStep ==
  ASSUME Inv, NEW s \in Server, KubeletRegisters(s)
  PROVE  Inv'
  <1> USE Bounds
  <1>0. UNCHANGED <<uid, selected, outputs, observation, marker, creds, boot, api, setup, bound, token,
                    pass, born, begun, faults>>
    BY DEF KubeletRegisters, objects, reports, history
  <1>1. /\ fresh' \subseteq Server /\ faults \in 0..MaxFaults
        /\ node \in [Server -> NodeType \cup {None}]
    BY DEF KubeletRegisters, Inv, TypeOK, PassTyped
  <1> DEFINE new == Registered(TRUE, TRUE)
  <1>2. new \in NodeType /\ new.uid = faults /\ new.own
    BY <1>1 DEF Registered, NodeType, Label
  <1>3. /\ node' \in [Server -> NodeType \cup {None}]
        /\ \A m \in Server : node'[m] = node[m] \/ (node'[m] = new /\ node[m] = None)
    <2>1. /\ node[s] = None => node' = [node EXCEPT ![s] = new]
          /\ node[s] # None => node' = [node EXCEPT ![s] = node[s]]
      BY DEF KubeletRegisters
    <2> HIDE DEF new
    <2>2. CASE node[s] = None
      <3>1. node' = [node EXCEPT ![s] = new]
        BY <2>1, <2>2
      <3>2. node'[s] = new /\ \A m \in Server : m # s => node'[m] = node[m]
        BY <1>1, <3>1
      <3>3. node' \in [Server -> NodeType \cup {None}]
        BY <1>1, <1>2, <3>1
      <3> QED
        BY <2>2, <3>2, <3>3
    <2>3. CASE node[s] # None
      <3>1. node' = node
        BY <1>1, <2>1, <2>3
      <3> QED
        BY <1>1, <3>1
    <2> QED
      BY <2>2, <2>3
  <1> HIDE DEF new
  <1>4. TypeOK' /\ PassTyped'
    BY <1>0, <1>1, <1>3 DEF Inv, TypeOK, PassTyped, At
  <1>5. Grown'
    <2>1. \A m \in Server : node'[m] # None => node'[m].uid <= faults
      BY <1>1, <1>2, <1>3 DEF Inv, Grown
    <2> QED
      BY <1>0, <2>1 DEF Inv, Grown
  <1>6. MarkersSound' /\ BootstrapOnce' /\ PlanSound' /\ LifetimeSound'
    BY <1>0 DEF Inv, MarkersSound, BootstrapOnce, Unbegun, PlanSound, At, Members, Joiners,
       Unpublished, LifetimeSound
  <1>7. ReadsSound'
    <2> SUFFICES ASSUME pass.pc = "patch", NEW m \in Server, pass.read[m] # None
        PROVE  /\ node'[m] = None => pass.read[m].uid < faults
               /\ node'[m] # None /\ node'[m].uid = pass.read[m].uid => node'[m].own
      BY <1>0 DEF Inv, ReadsSound, At, Members
    <2>1. /\ node[m] = None => pass.read[m].uid < faults
          /\ node[m] # None /\ node[m].uid = pass.read[m].uid => node[m].own
      BY DEF Inv, ReadsSound, At
    <2> QED
      BY <1>2, <1>3, <2>1
  <1> QED
    BY <1>4, <1>5, <1>6, <1>7 DEF Inv

\* The reads of a pass stay sound while others disturb it: a Node that is deleted makes
\* room for UIDs that were not read.
LEMMA ReadsLater ==
  ASSUME Inv, UNCHANGED pass, faults' = faults + 1,
         \A m \in Server :
           \/ node'[m] = node[m]
           \/ node'[m] = None
           \/ node[m] = None /\ node'[m].uid = faults
           \/ node[m] # None /\ node'[m].uid = node[m].uid /\ node'[m].own = node[m].own
  PROVE  ReadsSound'
  <1> SUFFICES ASSUME pass.pc = "patch", NEW m \in Server, pass.read[m] # None
      PROVE  /\ pass.read[m].uid <= faults + 1 /\ pass.read[m].uid < faults + 1
             /\ node'[m] # None /\ node'[m].uid = pass.read[m].uid => node'[m].own
    BY DEF Inv, ReadsSound, At, Members
  <1>1. /\ pass.read[m].uid \in Nat /\ pass.read[m].uid <= faults /\ faults \in Nat
        /\ node[m] = None => pass.read[m].uid < faults
        /\ node[m] # None /\ node[m].uid = pass.read[m].uid => node[m].own
    BY Bounds DEF Inv, ReadsSound, At, PassTyped, PassType, NodeType
  <1>2. node[m] = None => pass.read[m].uid # faults
    BY <1>1
  <1> QED
    BY <1>1, <1>2

\* The numbers of an edit, a rebuild or a new Node fit under one disturbance more.
LEMMA RoomForOne ==
  ASSUME Inv, Disturbs
  PROVE  /\ faults \in Nat /\ faults' = faults + 1 /\ faults + 1 \in 0..MaxFaults
         /\ uid \in Nat /\ uid <= faults + 1 /\ uid + 1 \in 1..N
         /\ born \in Nat /\ born + 1 \in 0..N
         /\ born <= faults + (IF creds[ControlPlane] = 0 THEN 0 ELSE 1)
         /\ \A m \in Server : creds[m] <= born /\ creds[m] <= born + 1
         /\ api <= born
         /\ \A m \in Server : node[m] # None => node[m].uid <= faults /\ node[m].uid <= faults + 1
  <1> USE Bounds
  <1>1. /\ faults \in 0..MaxFaults /\ faults' = faults + 1 /\ faults < MaxFaults
        /\ uid \in Nat /\ born \in 0..N /\ creds \in [Server -> 0..N]
        /\ node \in [Server -> NodeType \cup {None}]
    BY DEF Disturbs, Inv, PassTyped, TypeOK, N
  <1>2. /\ uid <= faults + 1 /\ \A m \in Server : creds[m] <= born
        /\ born <= faults + (IF creds[ControlPlane] = 0 THEN 0 ELSE 1) /\ api <= born
        /\ \A m \in Server : node[m] # None => node[m].uid <= faults
    BY DEF Inv, Grown
  <1>3. \A m \in Server : creds[m] <= born + 1
    BY <1>1, <1>2
  <1>4. ASSUME NEW m \in Server, node[m] # None PROVE node[m].uid <= faults + 1
    <2>1. node[m].uid \in Nat /\ node[m].uid <= faults
      BY <1>1, <1>2, <1>4 DEF NodeType
    <2> QED
      BY <1>1, <2>1
  <1>5. uid + 1 \in 1..N /\ born + 1 \in 0..N /\ faults + 1 \in 0..MaxFaults
    BY <1>1, <1>2
  <1> QED
    BY <1>1, <1>2, <1>3, <1>4, <1>5

\* Edits of the KubeCluster, of its selection and of the Configuration.
LEMMA EditStep ==
  ASSUME Inv, Edit
  PROVE  Inv'
  <1> USE Bounds
  <1>0. UNCHANGED <<observation, marker, creds, boot, fresh, api, setup, bound, node, token, pass, born,
                    begun>> /\ Disturbs
    BY DEF Edit, hosts, cluster, history
  <1>1. /\ uid' \in {uid, uid + 1} /\ selected' \subseteq Server /\ ControlPlane \in selected'
        /\ \/ UNCHANGED outputs
           \/ pass.pc = "idle" /\ outputs' = [uid |-> 0, ns |-> 0]
    BY DEF Edit, objects, At, Inv, TypeOK, PlanSound, Workers
  <1>2. /\ faults \in Nat /\ faults' = faults + 1 /\ faults + 1 \in 0..MaxFaults
        /\ uid \in Nat /\ uid <= faults + 1 /\ uid + 1 \in 1..N
        /\ born \in Nat /\ born <= faults + (IF creds[ControlPlane] = 0 THEN 0 ELSE 1)
        /\ \A m \in Server : creds[m] <= born
        /\ api <= born
        /\ \A m \in Server : node[m] # None => node[m].uid <= faults + 1
    BY <1>0, RoomForOne
  <1>3. TypeOK' /\ PassTyped'
    BY <1>0, <1>1, <1>2 DEF Inv, TypeOK, PassTyped, At, N
  <1>4. Grown'
    <2>1. uid' <= faults + 1 + 1 /\ born <= faults + 1 + (IF creds[ControlPlane] = 0 THEN 0 ELSE 1)
      BY <1>1, <1>2
    <2> QED
      BY <1>0, <1>2, <2>1 DEF Grown
  <1>5. MarkersSound' /\ BootstrapOnce'
    BY <1>0 DEF Inv, MarkersSound, BootstrapOnce, Unbegun
  <1>6. PlanSound' /\ LifetimeSound'
    <2>1. CASE UNCHANGED outputs
      BY <1>0, <1>1, <2>1 DEF Inv, PlanSound, At, Members, Joiners, Unbegun, Unpublished, LifetimeSound
    <2>2. CASE pass.pc = "idle" /\ outputs' = [uid |-> 0, ns |-> 0]
      BY <1>0, <1>1, <2>2 DEF Inv, PlanSound, At, LifetimeSound, Marked, Bound, Joined
    <2> QED
      BY <1>1, <2>1, <2>2
  <1>7. ReadsSound'
    BY <1>0, <1>2, ReadsLater
  <1> QED
    BY <1>3, <1>4, <1>5, <1>6, <1>7 DEF Inv

\* Clients of the cluster change its Nodes.
LEMMA NodeChangesStep ==
  ASSUME Inv, NEW s \in Server, NodeChanges(s)
  PROVE  Inv'
  <1> USE Bounds
  <1>0. UNCHANGED <<uid, selected, outputs, observation, marker, creds, boot, fresh, api, setup, bound,
                    token, pass, born, begun>> /\ Disturbs
    BY DEF NodeChanges, objects, reports, hosts, history
  <1>1. /\ faults \in Nat /\ faults' = faults + 1 /\ faults + 1 \in 0..MaxFaults
        /\ uid \in Nat /\ uid <= faults + 1
        /\ born \in Nat /\ born <= faults + (IF creds[ControlPlane] = 0 THEN 0 ELSE 1)
        /\ \A m \in Server : creds[m] <= born
        /\ api <= born
        /\ \A m \in Server : node[m] # None => node[m].uid <= faults + 1
    BY <1>0, RoomForOne
  <1>2. node \in [Server -> NodeType \cup {None}]
    BY DEF Inv, TypeOK
  <1>3. \A flannel \in BOOLEAN :
          Registered(FALSE, flannel) \in NodeType /\ Registered(FALSE, flannel).uid = faults
    BY <1>1 DEF Registered, NodeType, Label
  <1> DEFINE Succeeds(m) ==
               \/ node'[m] = node[m]
               \/ node'[m] = None
               \/ node[m] = None /\ node'[m].uid = faults
               \/ node[m] # None /\ node'[m].uid = node[m].uid /\ node'[m].own = node[m].own
  <1>4. /\ node' \in [Server -> NodeType \cup {None}]
        /\ \A m \in Server : Succeeds(m)
    <2>1. CASE node[s] # None /\ node' = [node EXCEPT ![s] = None]
      BY <1>2, <2>1
    <2>2. ASSUME node[s] = None, NEW flannel \in BOOLEAN,
                 node' = [node EXCEPT ![s] = Registered(FALSE, flannel)]
          PROVE  node' \in [Server -> NodeType \cup {None}] /\ \A m \in Server : Succeeds(m)
      BY <1>2, <1>3, <2>2
    <2>3. ASSUME node[s] # None, NEW l \in SUBSET Label, node' = [node EXCEPT ![s].labels = l]
          PROVE  node' \in [Server -> NodeType \cup {None}] /\ \A m \in Server : Succeeds(m)
      <3>1. node[s] \in NodeType /\ node'[s] = [node[s] EXCEPT !.labels = l]
            /\ \A m \in Server : m # s => node'[m] = node[m]
        BY <1>2, <2>3
      <3>2. node'[s] \in NodeType /\ node'[s].uid = node[s].uid /\ node'[s].own = node[s].own
        BY <3>1 DEF NodeType
      <3> QED
        BY <1>2, <2>3, <3>1, <3>2
    <2> QED
      BY <2>1, <2>2, <2>3 DEF NodeChanges
  <1>5. TypeOK' /\ PassTyped'
    BY <1>0, <1>1, <1>4 DEF Inv, TypeOK, PassTyped, At
  <1>6. Grown'
    <2>1. uid <= faults + 1 + 1 /\ born <= faults + 1 + (IF creds[ControlPlane] = 0 THEN 0 ELSE 1)
          /\ faults <= faults + 1
      BY <1>1
    <2>2. \A m \in Server : node'[m] # None => node'[m].uid <= faults + 1
      BY <1>1, <1>4, <2>1
    <2> QED
      BY <1>0, <1>1, <2>1, <2>2 DEF Grown
  <1>7. MarkersSound' /\ BootstrapOnce' /\ PlanSound' /\ LifetimeSound'
    BY <1>0 DEF Inv, MarkersSound, BootstrapOnce, Unbegun, PlanSound, At, Members, Joiners,
       Unpublished, LifetimeSound
  <1>8. ReadsSound'
    BY <1>0, <1>1, <1>4, ReadsLater
  <1> QED
    BY <1>5, <1>6, <1>7, <1>8 DEF Inv

\* Between passes Servers are reinstalled, or made part of another lifetime.
LEMMA RebuildSteps ==
  ASSUME Inv, NEW s \in Server, Reinstall(s) \/ RebuildByHand(s)
  PROVE  Inv'
  <1> USE Bounds
  <1>0. /\ UNCHANGED <<uid, selected, outputs, observation, token, pass>> /\ Disturbs
        /\ pass.pc = "idle"
    BY DEF Reinstall, RebuildByHand, objects, reports, At
  <1>1. /\ faults \in Nat /\ faults' = faults + 1 /\ faults + 1 \in 0..MaxFaults
        /\ uid \in Nat /\ uid <= faults + 1
        /\ born \in Nat /\ born + 1 \in 0..N
        /\ born <= faults + (IF creds[ControlPlane] = 0 THEN 0 ELSE 1)
        /\ \A m \in Server : creds[m] <= born /\ creds[m] <= born + 1
        /\ api <= born
        /\ \A m \in Server : node[m] # None => node[m].uid <= faults + 1
    BY <1>0, RoomForOne
  <1>2. /\ node \in [Server -> NodeType \cup {None}] /\ creds \in [Server -> 0..N]
        /\ marker \in [Server -> MarkerType \cup {None}] /\ begun \in [Server -> Nat]
        /\ boot \subseteq Server /\ fresh \subseteq Server /\ api \in 0..N /\ bound \in 0..N
    BY DEF Inv, TypeOK, PassTyped, N
  <1>3. /\ node' \in [Server -> NodeType \cup {None}]
        /\ \A m \in Server : node'[m] # None => node[m] # None /\ node'[m].uid = node[m].uid
    <2>1. /\ Abandoned(s) \in [Server -> NodeType \cup {None}]
          /\ \A m \in Server : Abandoned(s)[m] # None =>
               node[m] # None /\ Abandoned(s)[m].uid = node[m].uid
      <3>1. CASE node[s] # None /\ node[s].own
        <4>1. /\ node[s] \in NodeType
              /\ [node[s] EXCEPT !.flannel = FALSE] \in NodeType
              /\ [node[s] EXCEPT !.flannel = FALSE].uid = node[s].uid
          BY <1>2, <3>1 DEF NodeType
        <4> DEFINE gone == [node[s] EXCEPT !.flannel = FALSE]
        <4>2. Abandoned(s) = [node EXCEPT ![s] = gone] /\ gone \in NodeType /\ gone.uid = node[s].uid
          BY <3>1, <4>1 DEF Abandoned
        <4> HIDE DEF gone
        <4> QED
          BY <1>2, <3>1, <4>2
      <3>2. CASE ~(node[s] # None /\ node[s].own)
        <4>1. Abandoned(s) = [node EXCEPT ![s] = node[s]]
          BY <3>2 DEF Abandoned
        <4>2. Abandoned(s) = node
          BY <1>2, <4>1
        <4> QED
          BY <1>2, <4>2
      <3> QED
        BY <3>1, <3>2
    <2>2. node' \in {Abandoned(s), [m \in Server |-> None]}
      BY DEF Reinstall, RebuildByHand
    <2>3. CASE node' = Abandoned(s)
      BY <2>1, <2>3
    <2>4. CASE node' = [m \in Server |-> None]
      BY <2>4
    <2> QED
      BY <2>2, <2>3, <2>4
  <1>3a. fresh' \subseteq Server /\ bound' \in 0..N /\ setup' \in Setup
    BY <1>2 DEF Reinstall, RebuildByHand, Inv, TypeOK, Setup
  <1>4. /\ creds' \in [Server -> 0..N] /\ marker' \in [Server -> MarkerType \cup {None}]
        /\ begun' \in [Server -> Nat] /\ boot' \subseteq Server /\ api' \in 0..N /\ born' \in 0..N
        /\ MarkersSound' /\ BootstrapOnce' /\ Grown'
    <2>1. CASE Reinstall(s)
      <3>1. /\ marker' = [marker EXCEPT ![s] = None] /\ creds' = [creds EXCEPT ![s] = 0]
            /\ boot' = boot \ {s} /\ begun' = [begun EXCEPT ![s] = 0] /\ UNCHANGED born
            /\ api' \in {0, api}
        BY <2>1 DEF Reinstall, cluster
      <3>2. /\ creds' \in [Server -> 0..N] /\ marker' \in [Server -> MarkerType \cup {None}]
            /\ begun' \in [Server -> Nat] /\ boot' \subseteq Server /\ api' \in 0..N /\ born' \in 0..N
        BY <1>2, <3>1 DEF Inv, PassTyped
      <3>3. MarkersSound' /\ BootstrapOnce'
        BY <1>2, <3>1 DEF Inv, MarkersSound, BootstrapOnce, Unbegun
      <3>4. Grown'
        <4>1. \A m \in Server : creds'[m] <= born
          BY <1>1, <1>2, <3>1
        <4>2. born <= faults + 1 + (IF creds'[ControlPlane] = 0 THEN 0 ELSE 1)
          BY <1>1, <1>2, <3>1
        <4>3. uid <= faults + 1 + 1 /\ api' <= born
          BY <1>1, <3>1
        <4> QED
          BY <1>0, <1>1, <1>3, <3>1, <4>1, <4>2, <4>3 DEF Grown
      <3> QED
        BY <3>2, <3>3, <3>4
    <2>2. CASE RebuildByHand(s)
      <3>1. /\ creds[s] # 0 /\ creds' = [creds EXCEPT ![s] = born + 1] /\ born' = born + 1
            /\ UNCHANGED <<marker, boot, begun>> /\ api' \in {born + 1, api}
        BY <2>2 DEF RebuildByHand, cluster
      <3>2. /\ creds' \in [Server -> 0..N] /\ api' \in 0..N /\ born' \in 0..N
        BY <1>1, <1>2, <3>1
      <3>3. MarkersSound' /\ BootstrapOnce'
        BY <1>2, <3>1 DEF Inv, MarkersSound, BootstrapOnce, Unbegun
      <3>4. Grown'
        <4>1. \A m \in Server : creds'[m] <= born + 1
          BY <1>1, <1>2, <3>1
        <4>2. born + 1 <= faults + 1 + (IF creds'[ControlPlane] = 0 THEN 0 ELSE 1)
          BY <1>1, <1>2, <3>1
        <4>3. uid <= faults + 1 + 1 /\ api' <= born + 1
          BY <1>1, <1>2, <3>1
        <4> QED
          BY <1>0, <1>1, <1>3, <3>1, <4>1, <4>2, <4>3 DEF Grown
      <3> QED
        BY <1>2, <3>1, <3>2, <3>3, <3>4
    <2> QED
      BY <2>1, <2>2
  <1>5. TypeOK' /\ PassTyped'
    BY <1>0, <1>1, <1>3, <1>3a, <1>4 DEF Inv, TypeOK, PassTyped, At, N
  <1>6. PlanSound' /\ LifetimeSound' /\ ReadsSound'
    BY <1>0 DEF Inv, PlanSound, LifetimeSound, ReadsSound, At, Marked, Bound, Joined
  <1> QED
    BY <1>4, <1>5, <1>6 DEF Inv

-----------------------------------------------------------------------------
\* The inductive invariant holds initially,
LEMMA InvInit == Init => Inv
  <1> SUFFICES ASSUME Init PROVE Inv
    OBVIOUS
  <1> USE Bounds DEF Init
  <1>1. pass = Idle /\ pass.pc = "idle" /\ Idle \in PassType
    BY IdleTyped
  <1>2. TypeOK
    BY <1>1 DEF TypeOK, At, Workers, N, Setup
  <1>3. PassTyped
    BY <1>1 DEF PassTyped
  <1>4. Grown
    BY DEF Grown
  <1>5. MarkersSound /\ BootstrapOnce
    BY DEF MarkersSound, BootstrapOnce, Unbegun
  <1>6. PlanSound /\ LifetimeSound /\ ReadsSound
    BY <1>1 DEF PlanSound, LifetimeSound, ReadsSound, At, Marked, Bound, Joined
  <1> QED
    BY <1>2, <1>3, <1>4, <1>5, <1>6 DEF Inv

\* every step keeps it,
LEMMA InvStep == Inv /\ [Next]_vars => Inv'
  <1> SUFFICES ASSUME Inv, [Next]_vars PROVE Inv'
    OBVIOUS
  <1>1. CASE Play
    BY <1>1, BeginSteps, IdentifyStep, PrepareStep, InitIntentStep, BootstrapSteps, VerifyApiStep,
       JoinCheckStep, LifetimeSteps, OnwardSteps, NodeSteps, PublishStep DEF Play
  <1>2. CASE Disturbance
    BY <1>2, OnwardSteps, EditStep, DiesStep, RebuildSteps, NodeChangesStep DEF Disturbance
  <1>3. CASE \E s \in Server : Machine(s)
    BY <1>3, MachineSteps, DiesStep, RegisterStep DEF Machine
  <1>4. CASE UNCHANGED vars
    <2>1. UNCHANGED <<uid, selected, outputs, observation, marker, creds, boot, fresh, api, setup, bound,
                      node, token, pass, born, begun, faults>>
      BY <1>4 DEF vars, objects, reports, hosts, cluster, history
    <2>2. TypeOK' /\ PassTyped' /\ Grown'
      BY <2>1 DEF Inv, TypeOK, PassTyped, Grown, At
    <2>3. MarkersSound' /\ BootstrapOnce' /\ PlanSound' /\ LifetimeSound' /\ ReadsSound'
      BY <2>1 DEF Inv, MarkersSound, BootstrapOnce, Unbegun, PlanSound, At, Members, Joiners,
         Unpublished, LifetimeSound, ReadsSound
    <2> QED
      BY <2>2, <2>3 DEF Inv
  <1> QED
    BY <1>1, <1>2, <1>3, <1>4 DEF Next

\* so it always holds.
LEMMA Invariance == Spec => []Inv
  BY InvInit, InvStep, PTL DEF Spec

\* Types hold for any Servers and any number of disturbances, and no pass leaves a plan,
\* a read Node or a live join token behind (join.yml, its always part).
THEOREM TypeCorrect == Spec => []TypeOK
  BY Invariance, PTL DEF Inv

\* kubeadm runs at most once on an installation, however passes are interrupted and
\* repeated (identity.yml, the markers of control_plane.yml and join.yml).
THEOREM NoInitReplay == Spec => []BootstrapOnce
  BY Invariance, PTL DEF Inv

\* A control plane is initialised only where no member has credentials and no lifetime
\* was published for the KubeCluster (identity.yml, configure_kube.yml).
THEOREM NothingStranded == Spec => NoSilentRebuild
  <1> DEFINE Stranded == begun'[ControlPlane] > begun[ControlPlane] =>
                           /\ \A s \in Members : creds[s] = 0
                           /\ outputs.uid # pass.uid \/ outputs.ns = 0
  <1>1. Inv /\ [Next]_vars => [Stranded]_vars
    <2> SUFFICES ASSUME Inv, Next, begun'[ControlPlane] > begun[ControlPlane]
        PROVE  /\ \A s \in Members : creds[s] = 0
               /\ outputs.uid # pass.uid \/ outputs.ns = 0
      OBVIOUS
    <2>0. begun[ControlPlane] \in Nat /\ ControlPlane \in Server /\ begun \in [Server -> Nat]
      BY Bounds DEF Inv, PassTyped
    <2>1. begun'[ControlPlane] # begun[ControlPlane]
      BY <2>0
    <2>2. KubeadmInit \/ KubeadmJoin \/ \E s \in Server : Reinstall(s)
      BY <2>1 DEF Next, Play, Disturbance, Machine, Begin, Inspect, Identify, Prepare,
         InitIntent, InitEnded, VerifyApi, AwaitFlannel, Observe, JoinCheck, JoinIntent, JoinEnded,
         JoinCleanup, CheckCA, Membership, AwaitRegistered, RegistrationTimeout, PatchLabels, Verify,
         LabelWorkers, Record, Publish, KubeadmWrites, KubeadmEnds, JoinRefused, KubeletRegisters, TaskFails,
         CutOff, Edit, KubeadmDies, RebuildByHand, NodeChanges, history
    <2>3. CASE KubeadmInit
      BY <2>3 DEF KubeadmInit, Inv, PlanSound, Unpublished
    <2>4. CASE KubeadmJoin
      BY <2>0, <2>1, <2>4 DEF KubeadmJoin, Bootstrap, Joiners, Workers
    <2>5. ASSUME NEW s \in Server, Reinstall(s) PROVE FALSE
      <3>1. begun'[ControlPlane] \in {0, begun[ControlPlane]}
        BY <2>0, <2>5 DEF Reinstall
      <3> QED
        BY <2>0, <3>1
    <2> QED
      BY <2>2, <2>3, <2>4, <2>5
  <1> QED
    BY <1>1, Invariance, PTL DEF Spec, NoSilentRebuild

\* Where the markers and the outputs are written.
LEMMA WritesOfLifetimes ==
  ASSUME Inv, Next
  PROVE  \/ UNCHANGED <<marker, outputs>>
         \/ (Prepare \/ InitIntent \/ JoinIntent \/ Record \/ \E s \in Server : Reinstall(s))
            /\ UNCHANGED outputs
         \/ (Publish \/ Edit) /\ UNCHANGED marker
  <1>1. CASE Begin \/ Inspect \/ Identify \/ KubeadmInit \/ InitEnded \/ VerifyApi \/ AwaitFlannel
             \/ Observe \/ JoinCheck \/ KubeadmJoin \/ JoinEnded \/ JoinCleanup \/ CheckCA
    BY <1>1 DEF Begin, Inspect, Identify, KubeadmInit, InitEnded, VerifyApi, AwaitFlannel, Observe, JoinCheck,
       KubeadmJoin, JoinEnded, JoinCleanup, CheckCA, reports, hosts
  <1>2. CASE Membership \/ AwaitRegistered \/ RegistrationTimeout \/ PatchLabels \/ Verify
             \/ LabelWorkers \/ TaskFails \/ CutOff
    BY <1>2 DEF Membership, AwaitRegistered, RegistrationTimeout, PatchLabels, Verify,
       LabelWorkers, TaskFails, CutOff, reports, hosts
  <1>3. CASE \E s \in Server : Machine(s) \/ KubeadmDies(s) \/ RebuildByHand(s) \/ NodeChanges(s)
    BY <1>3 DEF Machine, KubeadmWrites, KubeadmEnds, JoinRefused, KubeletRegisters, KubeadmDies, RebuildByHand,
       NodeChanges, reports, hosts
  <1>4. CASE Prepare \/ InitIntent \/ JoinIntent \/ Record \/ \E s \in Server : Reinstall(s)
    BY <1>4 DEF Prepare, InitIntent, JoinIntent, Record, Reinstall, reports
  <1>5. CASE Publish \/ Edit
    BY <1>5 DEF Publish, Edit, hosts
  <1> QED
    BY <1>1, <1>2, <1>3, <1>4, <1>5 DEF Next, Play, Disturbance

\* A recorded lifetime is never exchanged, in a marker or in the outputs for a
\* KubeCluster, though the cluster may be rebuilt by hand (control_plane.yml, join.yml,
\* the result of configure_kube.yml).
THEOREM LifetimesStay == Spec => LifetimeKept
  <1> DEFINE KeptMarkers == \A s \in Server :
               marker[s] # None /\ marker[s].ns # 0 /\ marker'[s] # None
                 => marker'[s].ns = marker[s].ns
             KeptOutputs == outputs.ns # 0 /\ outputs'.uid = outputs.uid => outputs'.ns = outputs.ns
  <1>1. ASSUME Inv, Next PROVE KeptMarkers /\ KeptOutputs
    <2>0. /\ ControlPlane \in Server /\ marker \in [Server -> MarkerType \cup {None}]
          /\ pass \in PassType /\ Members \subseteq Server
      BY <1>1, Bounds DEF Inv, TypeOK, PassTyped, PassType, Members
    <2>1. CASE UNCHANGED <<marker, outputs>>
      BY <2>1
    <2>2. CASE Prepare /\ UNCHANGED outputs
      <3>1. PICK done \in SUBSET Members : Mark(done, [s \in Members |-> Prepared(s)])
        BY <2>2 DEF Prepare
      <3>2. \A s \in Server : marker[s] # None => marker'[s] = marker[s]
        BY <2>0, <3>1 DEF Mark, Prepared
      <3> QED
        BY <2>2, <3>2
    <2>3. CASE InitIntent /\ UNCHANGED outputs
      <3>1. CASE ControlPlane \in pass.has
        BY <2>3, <3>1 DEF InitIntent
      <3>2. CASE ControlPlane \notin pass.has
        <4>1. marker[ControlPlane] # None => marker[ControlPlane].ns = 0
          BY <1>1, <2>0, <2>3, <3>2 DEF InitIntent, Inv, PlanSound, MarkersSound, Unbegun, At
        <4>2. \A s \in Server : s # ControlPlane => marker'[s] = marker[s]
          BY <2>0, <2>3, <3>2 DEF InitIntent
        <4> QED
          BY <2>3, <4>1, <4>2
      <3> QED
        BY <3>1, <3>2
    <2>4. CASE JoinIntent /\ UNCHANGED outputs
      <3>1. PICK done \in SUBSET Joiners : Mark(done, [s \in Joiners |-> JoinMarker(s)])
        BY <2>4 DEF JoinIntent
      <3>2. \A s \in Joiners : s \in Server /\ (marker[s] # None => marker[s].ns = 0)
        BY <1>1, <2>0, <2>4 DEF JoinIntent, Inv, PlanSound, MarkersSound, Unbegun, At, Joiners
      <3>3. \A s \in Server : s \in Joiners \/ marker'[s] = marker[s]
        BY <3>1 DEF Mark
      <3> QED
        BY <2>4, <3>2, <3>3
    <2>5. CASE Record /\ UNCHANGED outputs
      <3>1. PICK done \in SUBSET Members : Mark(done, [s \in Members |-> ReadyMarker(s)])
        BY <2>5 DEF Record
      <3>2. \A s \in Members : marker[s].ns \in {0, pass.ns}
        BY <1>1, <2>5 DEF Record, Inv, LifetimeSound, Joined, At
      <3>3. \A s \in Server : \/ marker'[s] = marker[s]
                              \/ s \in Members /\ marker'[s].ns = pass.ns
        BY <3>1 DEF Mark, ReadyMarker
      <3> QED
        BY <2>5, <3>2, <3>3
    <2>6. ASSUME NEW s \in Server, Reinstall(s), UNCHANGED outputs PROVE KeptMarkers /\ KeptOutputs
      BY <2>0, <2>6 DEF Reinstall
    <2>7. CASE Publish /\ UNCHANGED marker
      <3>1. /\ pass.pc = "publish"
            /\ \/ outputs' = [uid |-> pass.uid, ns |-> pass.ns]
               \/ UNCHANGED outputs
        BY <2>7 DEF Publish, reports, At
      <3>2. outputs.uid = pass.uid => outputs.ns \in {0, pass.ns}
        BY <1>1, <3>1 DEF Inv, LifetimeSound, Bound, Joined
      <3> QED
        BY <2>7, <3>1, <3>2
    <2>8. CASE Edit /\ UNCHANGED marker
      <3>1. outputs' = [uid |-> 0, ns |-> 0] \/ UNCHANGED outputs
        BY <2>8 DEF Edit
      <3>2. outputs.uid = 0 => outputs.ns = 0
        BY <1>1 DEF Inv, LifetimeSound
      <3> QED
        BY <2>8, <3>1, <3>2
    <2> QED
      BY <1>1, <2>1, <2>2, <2>3, <2>4, <2>5, <2>6, <2>7, <2>8, WritesOfLifetimes
  <1>2. Inv /\ [Next]_vars => [KeptMarkers /\ KeptOutputs]_vars
    BY <1>1
  <1> QED
    BY <1>2, Invariance, PTL DEF Spec, LifetimeKept

\* Passes put identity labels on Nodes of their members only and leave the labels of
\* others alone, whatever happens to a Node after it was read (managed_label_patch()).
THEOREM OthersRespected == Spec => PatchRespectsOthers
  <1> DEFINE Respected == pass' # pass => \A s \in Server : node[s] # None /\ node'[s] # None =>
        /\ "mine" \in node'[s].labels \ node[s].labels => Adoptable(node[s])
        /\ node[s].labels \cap {"user", "other"} = node'[s].labels \cap {"user", "other"}
  <1>1. ASSUME Inv, Next, pass' # pass, NEW s \in Server, node[s] # None, node'[s] # None
        PROVE  /\ "mine" \in node'[s].labels \ node[s].labels => Adoptable(node[s])
               /\ node[s].labels \cap {"user", "other"} = node'[s].labels \cap {"user", "other"}
    <2>0. node \in [Server -> NodeType \cup {None}] /\ node[s] \in NodeType
      BY <1>1 DEF Inv, TypeOK
    <2>1. UNCHANGED node \/ PatchLabels \/ LabelWorkers
      <3>1. CASE Play
        BY <3>1 DEF Play, Begin, Inspect, Identify, Prepare, InitIntent, KubeadmInit, InitEnded,
           VerifyApi, AwaitFlannel, Observe, JoinCheck, JoinIntent, KubeadmJoin, JoinEnded, JoinCleanup, CheckCA,
           Membership, AwaitRegistered, RegistrationTimeout, Verify, Record, Publish, cluster
      <3>2. CASE Disturbance
        BY <1>1, <3>2 DEF Disturbance, TaskFails, CutOff, Edit, KubeadmDies, Reinstall,
           RebuildByHand, NodeChanges, cluster
      <3>3. CASE \E m \in Server : Machine(m)
        BY <1>1, <3>3 DEF Machine, KubeadmWrites, KubeadmEnds, JoinRefused, KubeletRegisters, cluster
      <3> QED
        BY <1>1, <3>1, <3>2, <3>3 DEF Next
    <2>2. CASE UNCHANGED node
      BY <2>2
    <2>3. CASE PatchLabels
      <3>1. CASE node'[s] = node[s]
        BY <3>1
      <3>2. CASE node'[s] # node[s]
        <4>1. /\ s \in Members /\ Applies(pass.read[s], node[s]) /\ pass.pc = "patch"
              /\ node'[s] = [node[s] EXCEPT !.labels = ManagedLabels(pass.read[s].labels)]
          BY <2>3, <3>2 DEF PatchLabels, At
        <4>2. /\ pass.read[s] # None /\ Adoptable(pass.read[s])
              /\ node[s].uid = pass.read[s].uid => node[s].own
          BY <1>1, <4>1 DEF Inv, ReadsSound, At
        <4>3. node[s].labels = pass.read[s].labels /\ Adoptable(node[s])
          BY <4>1, <4>2 DEF Applies, Adoptable
        <4>4. node'[s].labels = (node[s].labels \cup {"mine", "role"}) \ {"opposite"}
          BY <2>0, <4>1, <4>3 DEF ManagedLabels, NodeType
        <4> QED
          BY <4>3, <4>4
      <3> QED
        BY <3>1, <3>2
    <2>4. CASE LabelWorkers
      <3>1. CASE node'[s] = node[s]
        BY <3>1
      <3>2. CASE node'[s] # node[s]
        <4>1. node'[s] = [node[s] EXCEPT !.labels = node[s].labels \cup {"role"}]
          BY <2>4, <3>2 DEF LabelWorkers
        <4>2. node'[s].labels = node[s].labels \cup {"role"}
          BY <2>0, <4>1 DEF NodeType
        <4> QED
          BY <4>2
      <3> QED
        BY <3>1, <3>2
    <2> QED
      BY <2>1, <2>2, <2>3, <2>4
  <1>2. Inv /\ [Next]_vars => [Respected]_vars
    BY <1>1
  <1> QED
    BY <1>2, Invariance, PTL DEF Spec, PatchRespectsOthers
=============================================================================
