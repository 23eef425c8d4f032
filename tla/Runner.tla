------------------------------ MODULE Runner ------------------------------
(* How an interactive runner gets its credentials: runner_credentials installs the
   SSH key and certificate of the subject "ansible-runner" from three API resources,
   then runner_kubernetes installs the kubeconfig of the cluster its inventory group
   is labelled with, read over SSH from the control plane (verified_context(), which
   the Configurations operator uses too).  Each file is written in place, and the
   container may be stopped at any point and started again with the same home.

   Nothing locks the resources: the key is rotated or replaced, the certificate
   issued and the Secret written by their controllers, each on its own; clusters,
   Servers and labels are edited, control planes rebuilt, and the user has a
   kubeconfig of his own at times.  UIDs, revisions, lifetimes and keys are numbers
   that only grow. *)
EXTENDS Naturals

CONSTANTS None, MaxChanges

ASSUME ChangesAssumption == MaxChanges \in Nat

VARIABLES
  keypair,  \* SSHKeyPair: its UID and the public key in its status
  cert,     \* SSHCertificate: the key pair it refers to and the key it certifies
  secret,   \* Secret: the key pair it is annotated with and the stored key
  kube,     \* KubeCluster of the labelled name: UID, revision of its spec
  server,   \* the control-plane Server: UID, revision of its identity, trusted
  group,    \* whether the capture group carries the cluster label, and its revision
  machine,  \* the control plane itself: marker, API lifetime and its binding
  ssh,      \* ~/.ssh: private key, public key, certificate
  config,   \* ~/.kube/config
  owned,    \* ~/.kube/homelab-context.json exists
  run,      \* the program that is running
  torn,     \* history: the last writing of ~/.ssh was not completed
  late,     \* history: the user's kubeconfig is younger than the look for one
  changes   \* what others did so far

ssh_resources == <<keypair, cert, secret>>
resources == <<ssh_resources, kube, server, group, machine>>
home == <<ssh, config, owned>>
vars == <<resources, home, run, torn, late, changes>>

Files == {"private", "public", "cert"}

\* An installed file holds key k; 0 is a file that is missing or half written.
\* A kubeconfig of ours names the UID and the lifetime it was fetched for, and
\* whether that was the cluster of that name then.
File(kind) == [kind |-> kind]
Stopped == [pc |-> "stopped", key |-> None, cert |-> None, secret |-> None,
            group |-> None, kube |-> None, server |-> None, context |-> None]

Init ==
  /\ keypair = [uid |-> 1, key |-> 1] /\ cert = [of |-> 1, key |-> 1]
  /\ secret = [of |-> 1, key |-> 1]
  /\ kube = [uid |-> 1, rev |-> 1] /\ server = [uid |-> 1, rev |-> 1, trusted |-> TRUE]
  /\ group = [labelled |-> TRUE, rev |-> 1]
  /\ machine = [uid |-> 1, server |-> 1, ns |-> 1, api |-> 1, bound |-> 1]
  /\ ssh = [f \in Files |-> 0]
  /\ config \in {File("none"), File("user")} /\ owned = FALSE
  /\ run = Stopped /\ torn = FALSE /\ late = FALSE /\ changes = 0

At(pc) == run.pc = pc
Step(pc, field, value) == run' = [run EXCEPT !.pc = pc, ![field] = value]
Goto(pc) == run' = [run EXCEPT !.pc = pc]
Ends(pc) == run' = [Stopped EXCEPT !.pc = pc]

InCredentials == {"key", "cert", "secret", "validate", "private", "public", "certificate"}
Resolving == {"cluster", "server", "fetch", "recheck", "recheckserver", "recheckgroup",
              "own", "config"}

\* A context run that fails has refused before it touched anything, or has failed with
\* what was ours removed, or in the middle of writing the new kubeconfig.
Over == {"stopped", "done", "refused", "failed", "broken"}

Managed == config.kind = "ours"

-----------------------------------------------------------------------------
(* runner_credentials *)

Start ==
  /\ run.pc \in Over
  /\ Ends("key")
  /\ UNCHANGED <<resources, home, torn, late, changes>>

GetKey ==
  /\ At("key")
  /\ Step("cert", "key", keypair)
  /\ UNCHANGED <<resources, home, torn, late, changes>>

\* require_current_certificate(): the certificate refers to the key pair by UID.
GetCertificate ==
  /\ At("cert")
  /\ IF cert.of = run.key.uid THEN Step("secret", "cert", cert) ELSE Goto("clean")
  /\ UNCHANGED <<resources, home, torn, late, changes>>

GetSecret ==
  /\ At("secret")
  /\ IF secret.of = run.key.uid /\ secret.key = run.key.key
     THEN Step("validate", "secret", secret) ELSE Goto("clean")
  /\ UNCHANGED <<resources, home, torn, late, changes>>

\* Mutant: ssh-keygen is asked about the key pair only.
AgreeByKey(r) == r.secret.key = r.key.key

\* validate_credentials(): one key is behind all three.  (The private and the public key
\* of a Secret are one key here: a Secret holds both halves of what was generated.)
Agree(r) == r.secret.key = r.key.key /\ r.cert.key = r.key.key

Validate ==
  /\ At("validate")
  /\ Goto(IF Agree(run) THEN "private" ELSE "clean")
  /\ UNCHANGED <<resources, home, torn, late, changes>>

\* install_credentials() writes one file after the other.
Material(f) == CASE f = "private" -> run.secret.key
                 [] f = "public" -> run.key.key
                 [] f = "cert" -> run.cert.key

InstallFile(f) ==
  /\ run.pc = IF f = "cert" THEN "certificate" ELSE f
  /\ ssh' = [ssh EXCEPT ![f] = Material(f)]
  /\ Goto([private |-> "public", public |-> "certificate", cert |-> "clean"][f])
  /\ torn' = (f # "cert")
  /\ UNCHANGED <<resources, config, owned, late, changes>>

-----------------------------------------------------------------------------
(* runner_kubernetes.  What starts the two programs is outside the repository: the
   second one is taken to start however the first one ended. *)

\* setup_context(): what is ours goes before anything is resolved.
RemoveConfig ==
  /\ At("clean")
  /\ IF owned THEN config' = File("none") /\ Goto("disown") ELSE UNCHANGED config /\ Goto("group")
  /\ UNCHANGED <<resources, ssh, owned, torn, late, changes>>

Disown ==
  /\ At("disown")
  /\ owned' = FALSE
  /\ Goto("group")
  /\ UNCHANGED <<resources, ssh, config, torn, late, changes>>

MayInstall == config.kind = "none"

GetGroup ==
  /\ At("group")
  /\ IF ~group.labelled THEN Ends("done")
     ELSE IF ~MayInstall THEN Ends("failed") ELSE Step("cluster", "group", group)
  /\ late' = FALSE
  /\ UNCHANGED <<resources, home, torn, changes>>

GetCluster ==
  /\ At("cluster")
  /\ Step("server", "kube", kube)
  /\ UNCHANGED <<resources, home, torn, late, changes>>

\* control_plane(), and prepare() of runner_trust for the Server that was read.
GetServer ==
  /\ At("server")
  /\ IF server.trusted THEN Step("fetch", "server", server) ELSE Ends("failed")
  /\ UNCHANGED <<resources, home, torn, late, changes>>

\* REMOTE_READ: the machine is the Server that was asked for, its marker is Ready for
\* this KubeCluster, and marker and API agree on the lifetime.
Exports(r) ==
  /\ machine.server = r.server.uid /\ machine.uid = r.kube.uid
  /\ machine.ns = machine.api /\ machine.bound = r.kube.uid

Fetch ==
  /\ At("fetch")
  /\ IF Exports(run)
     THEN Step("recheck", "context", [kind |-> "ours", uid |-> run.kube.uid, ns |-> machine.api,
                 sound |-> kube.uid = run.kube.uid /\ server.uid = run.server.uid])
     ELSE Ends("failed")
  /\ UNCHANGED <<resources, home, torn, late, changes>>

\* Mutant: the cluster is not read again.
RecheckSkipsCluster ==
  /\ At("recheck")
  /\ Goto("recheckserver")
  /\ UNCHANGED <<resources, home, torn, late, changes>>

\* verified_context() and setup_context() read all three again.
RecheckCluster ==
  /\ At("recheck")
  /\ IF kube = run.kube THEN Goto("recheckserver") ELSE Ends("failed")
  /\ UNCHANGED <<resources, home, torn, late, changes>>

RecheckServer ==
  /\ At("recheckserver")
  /\ IF server.uid = run.server.uid /\ server.rev = run.server.rev
     THEN Goto("recheckgroup") ELSE Ends("failed")
  /\ UNCHANGED <<resources, home, torn, late, changes>>

RecheckGroup ==
  /\ At("recheckgroup")
  /\ IF group = run.group THEN Goto("own") ELSE Ends("failed")
  /\ UNCHANGED <<resources, home, torn, late, changes>>

\* Mutant: the kubeconfig is written before the mark of ownership.
WriteOwnershipLater ==
  /\ At("own")
  /\ config' = run.context
  /\ Goto("config")
  /\ UNCHANGED <<resources, ssh, owned, torn, late, changes>>

\* After kubectl is installed: the mark of ownership, then the kubeconfig.
WriteOwnership ==
  /\ At("own")
  /\ owned' = TRUE
  /\ Goto("config")
  /\ UNCHANGED <<resources, ssh, config, torn, late, changes>>

\* Mutant: the run keeps the credentials it fetched.
WriteConfigKeeps ==
  /\ At("config")
  /\ config' = run.context
  /\ Goto("done")
  /\ UNCHANGED <<resources, ssh, owned, torn, late, changes>>

WriteConfig ==
  /\ At("config")
  /\ config' = run.context
  /\ Ends("done")
  /\ UNCHANGED <<resources, ssh, owned, torn, late, changes>>

-----------------------------------------------------------------------------
(* What happens meanwhile. *)

Changes == changes < MaxChanges /\ changes' = changes + 1

\* A file that was being written is left half written, or as it should be but for its
\* mode; the mark of ownership needs no contents to be one.
HalfWritten ==
  \/ /\ run.pc \in {"private", "public", "certificate"}
     /\ ssh' = [ssh EXCEPT ![IF At("certificate") THEN "cert" ELSE run.pc] = 0]
     /\ torn' = TRUE
     /\ UNCHANGED <<config, owned>>
  \/ At("own") /\ owned' = TRUE /\ UNCHANGED <<ssh, config, torn>>
  \/ At("config") /\ config' \in {File("torn"), run.context} /\ UNCHANGED <<ssh, owned, torn>>

\* A request, a command, a write or a check that is not modelled fails.  Before the
\* removal of what is ours these are the missing token or name of the group, symbolic
\* links, and the removal itself.
Fails ==
  /\ run.pc \notin Over
  /\ Changes
  /\ \/ /\ Ends(CASE run.pc \in InCredentials -> "clean"
                 [] At("clean") -> "refused"
                 [] OTHER -> "failed")
        /\ UNCHANGED <<home, torn>>
     \/ /\ HalfWritten
        /\ Ends(CASE run.pc \in InCredentials -> "clean"
                 [] At("own") -> "failed"
                 [] At("config") -> "broken")
  /\ UNCHANGED <<resources, late>>

\* The container is stopped.
Killed ==
  /\ run.pc \notin Over
  /\ Changes
  /\ Ends("stopped")
  /\ UNCHANGED <<home, torn>> \/ HalfWritten
  /\ UNCHANGED <<resources, late>>

\* The controllers of the SSH resources, one write at a time.
SSHChanges ==
  /\ Changes
  /\ \/ keypair' = [keypair EXCEPT !.key = @ + 1] /\ UNCHANGED <<cert, secret>>
     \/ /\ keypair' = [uid |-> keypair.uid + 1, key |-> keypair.key + 1]
        /\ UNCHANGED <<cert, secret>>
     \/ /\ secret' = [of |-> keypair.uid, key |-> keypair.key]
        /\ secret' # secret /\ UNCHANGED <<keypair, cert>>
     \/ /\ secret' = [secret EXCEPT !.key = keypair.key + 1]
        /\ UNCHANGED <<keypair, cert>>
     \/ /\ cert' = [of |-> keypair.uid, key |-> keypair.key]
        /\ cert' # cert /\ UNCHANGED <<keypair, secret>>
  /\ UNCHANGED <<kube, server, group, machine, home, run, torn, late>>

KubeChanges ==
  /\ Changes
  /\ \/ kube' = [uid |-> kube.uid + 1, rev |-> 1] /\ UNCHANGED <<server, group, machine>>
     \/ kube' = [kube EXCEPT !.rev = @ + 1] /\ UNCHANGED <<server, group, machine>>
     \/ /\ server' \in {[uid |-> server.uid + 1, rev |-> 1, trusted |-> TRUE],
                        [server EXCEPT !.rev = @ + 1, !.trusted = ~@]}
        /\ UNCHANGED <<kube, group, machine>>
     \/ /\ group' = [labelled |-> ~group.labelled, rev |-> group.rev + 1]
        /\ UNCHANGED <<kube, server, machine>>
     \/ /\ machine' = [machine EXCEPT !.api = @ + 1, !.bound = 0]
        /\ UNCHANGED <<kube, server, group>>
     \/ /\ machine' = [uid |-> kube.uid, server |-> server.uid, ns |-> machine.api + 1,
                       api |-> machine.api + 1, bound |-> kube.uid]
        /\ UNCHANGED <<kube, server, group>>
  /\ UNCHANGED <<ssh_resources, home, run, torn, late>>

\* The user brings a kubeconfig of his own.
UserSupplies ==
  /\ Changes
  /\ config.kind # "user" /\ config' = File("user")
  /\ late' = (run.pc \in Resolving)
  /\ UNCHANGED <<resources, ssh, owned, run, torn>>

-----------------------------------------------------------------------------
Credentials ==
  Start \/ GetKey \/ GetCertificate \/ GetSecret \/ Validate \/ \E f \in Files : InstallFile(f)

Context ==
  \/ RemoveConfig \/ Disown \/ GetGroup \/ GetCluster \/ GetServer \/ Fetch
  \/ RecheckCluster \/ RecheckServer \/ RecheckGroup \/ WriteOwnership \/ WriteConfig

Next == Credentials \/ Context \/ Fails \/ Killed \/ SSHChanges \/ KubeChanges \/ UserSupplies

Spec == Init /\ [][Next]_vars

-----------------------------------------------------------------------------
(* Properties. *)

N == MaxChanges + 1

\* Types; and a run that is over has let go of everything it fetched.
TypeOK ==
  /\ keypair \in [uid : 1..N, key : 1..N]
  /\ cert \in [of : 1..N, key : 1..N] /\ secret \in [of : 1..N, key : 1..(N + 1)]
  /\ kube \in [uid : 1..N, rev : 1..N]
  /\ server \in [uid : 1..N, rev : 1..N, trusted : BOOLEAN]
  /\ group \in [labelled : BOOLEAN, rev : 1..N]
  /\ ssh \in [Files -> 0..(N + 1)]
  /\ Managed => config \in [kind : {"ours"}, uid : 1..N, ns : 1..N, sound : BOOLEAN]
  /\ owned \in BOOLEAN /\ torn \in BOOLEAN /\ late \in BOOLEAN
  /\ run.pc \in Over => run = [Stopped EXCEPT !.pc = run.pc]

\* The installed private key, public key and certificate belong together whenever the
\* last installation of them was completed, whatever was rotated, replaced or issued
\* between the three requests, and a refused refresh leaves them as they were
\* (fetch_credentials(), validate_credentials(), install_credentials()).
CredentialsAgree == ~torn => \A f, g \in Files : ssh[f] = ssh[g]

\* A kubeconfig of ours, complete or not, is marked as ours, wherever a run was
\* stopped or failed: the next start will remove it and not take it for the user's.  And
\* from the removal of what is ours on, as long as a run resolves the cluster and if that
\* fails, there is none ("Remove our old credentials before resolving anything",
\* setup_context()).  A run that is refused before that leaves the previous context.
Disposable ==
  LET left == Managed \/ config.kind = "torn" IN
  /\ left => owned
  /\ run.pc \in {"disown", "group", "failed"} \cup Resolving => ~left

\* An installed context was read from the control plane of the KubeCluster and Server
\* that had the names at that moment, although the three resources are read one by
\* one before and after ("recheck both resource lifetimes", verified_context()).
ContextSound == Managed => config.sound

\* setup_context() is to "never overwrite user-supplied kubeconfig".  There are two
\* places, and no more, where the user's file is lost all the same: to the removal of
\* what is ours, if the mark of a context lies beside it (of an interrupted run, or of a
\* completed one whose kubeconfig the user has replaced or edited since), and to the
\* kubeconfig that a run writes, if it appeared after that run had looked for one.
UserFileKept ==
  [][config.kind = "user" /\ config'.kind # "user"
       => (At("clean") /\ owned) \/ (At("config") /\ late)]_vars
=============================================================================
