---------------------------- MODULE RunnerProofs ----------------------------
(* Proofs about Runner for any number of changes. *)
EXTENDS Runner, TLAPS

Steps == Over \cup InCredentials \cup {"clean", "disown", "group"} \cup Resolving

KeyPairs == [uid : 1..N, key : 1..N]
Certs == [of : 1..N, key : 1..N]
Secrets == [of : 1..N, key : 1..(N + 1)]
Kubes == [uid : 1..N, rev : 1..N]
Servers == [uid : 1..N, rev : 1..N, trusted : BOOLEAN]
Groups == [labelled : BOOLEAN, rev : 1..N]
Machines == [uid : 1..N, server : 1..N, ns : 1..N, api : 1..N, bound : 0..N]
Contexts == [kind : {"ours"}, uid : 1..N, ns : 1..N, sound : BOOLEAN]
Runs == [pc : Steps, key : KeyPairs \cup {None}, cert : Certs \cup {None},
         secret : Secrets \cup {None}, group : Groups \cup {None}, kube : Kubes \cup {None},
         server : Servers \cup {None}, context : Contexts \cup {None}]

ResourcesTyped ==
  /\ changes \in 0..MaxChanges
  /\ keypair \in KeyPairs /\ cert \in Certs /\ secret \in Secrets
  /\ kube \in Kubes /\ server \in Servers /\ group \in Groups /\ machine \in Machines

\* No number has grown more often than there were changes.
Grown ==
  LET b == changes + 1 IN
  /\ keypair.uid <= b /\ keypair.key <= b /\ secret.key <= b + 1
  /\ kube.uid <= b /\ kube.rev <= b /\ server.uid <= b /\ server.rev <= b
  /\ group.rev <= b /\ machine.api <= b

FilesTyped ==
  /\ ssh \in [Files -> 0..(N + 1)]
  /\ config \in {File("none"), File("user"), File("torn")} \cup Contexts
  /\ owned \in BOOLEAN /\ torn \in BOOLEAN /\ late \in BOOLEAN

\* What a program has read by the step it has got to.
HasKey == {"cert", "secret", "validate", "private", "public", "certificate"}
HasCert == HasKey \ {"cert"}
HasSecret == HasCert \ {"secret"}
HasKube == Resolving \ {"cluster"}
HasServer == HasKube \ {"server"}
HasContext == HasServer \ {"fetch"}

RunTyped ==
  /\ run \in Runs
  /\ run.pc \in HasKey => run.key \in KeyPairs
  /\ run.pc \in HasCert => run.cert \in Certs
  /\ run.pc \in HasSecret => run.secret \in Secrets
  /\ run.pc \in HasKube => run.kube \in Kubes
  /\ run.pc \in HasServer => run.server \in Servers
  /\ run.pc \in HasContext => run.context \in Contexts
  /\ run.pc \in Over => run = [Stopped EXCEPT !.pc = run.pc]

Typed == ResourcesTyped /\ Grown /\ FilesTyped /\ RunTyped

\* Nothing is written but what agrees, and what is written so far is that.
Installing ==
  /\ run.pc \in {"private", "public", "certificate"} => Agree(run)
  /\ run.pc \in {"public", "certificate"} => ssh["private"] = run.secret.key
  /\ run.pc = "certificate" => ssh["public"] = run.key.key

\* From the removal of what is ours to the writing of a new context there is no
\* kubeconfig of ours, and one of the user's only if it came after the look for one.
NoneOfOurs ==
  /\ run.pc \in {"disown", "group", "failed"} \cup Resolving => config.kind \in {"none", "user"}
  /\ run.pc \in Resolving => config.kind = "none" \/ late
  /\ run.pc = "config" => owned

\* A context that was read from the wrong machine is one of a KubeCluster or Server
\* that has been replaced since it was read, and UIDs never come back.
Doomed ==
  /\ run.pc \in HasKube => run.kube.uid <= kube.uid
  /\ run.pc \in HasServer => run.server.uid <= server.uid
  /\ run.pc \in HasContext /\ ~run.context.sound =>
       \/ run.pc = "recheck" /\ run.kube.uid < kube.uid
       \/ run.pc \in {"recheck", "recheckserver"} /\ run.server.uid < server.uid

Inv ==
  /\ Typed /\ Installing /\ NoneOfOurs /\ Doomed
  /\ CredentialsAgree /\ Disposable /\ ContextSound

-----------------------------------------------------------------------------
\* A run that ends keeps nothing but the step it ended in.
LEMMA EndsTyped ==
  ASSUME NEW pc \in Steps
  PROVE  [Stopped EXCEPT !.pc = pc] \in Runs /\ [Stopped EXCEPT !.pc = pc].pc = pc
  BY DEF Stopped, Runs

\* A file that was being written is one of those it may be.
LEMMA HalfWrittenTyped ==
  ASSUME Typed, HalfWritten
  PROVE  /\ ssh' \in [Files -> 0..(N + 1)]
         /\ config' \in {File("none"), File("user"), File("torn")} \cup Contexts
         /\ owned' \in BOOLEAN /\ torn' \in BOOLEAN
  <1> USE DEF Typed, FilesTyped, At
  <1>1. CASE /\ torn' = TRUE /\ UNCHANGED <<config, owned>>
             /\ ssh' = [ssh EXCEPT ![IF At("certificate") THEN "cert" ELSE run.pc] = 0]
    <2>1. 0 \in 0..(N + 1)
      BY ChangesAssumption DEF ChangesAssumption, N
    <2> DEFINE f == IF At("certificate") THEN "cert" ELSE run.pc
    <2>2. ssh' = [ssh EXCEPT ![f] = 0]
      BY <1>1
    <2> HIDE DEF f
    <2> QED
      BY <1>1, <2>1, <2>2
  <1>2. CASE owned' = TRUE /\ UNCHANGED <<ssh, config, torn>>
    BY <1>2
  <1>3. CASE /\ run.pc = "config" /\ config' \in {File("torn"), run.context}
             /\ UNCHANGED <<ssh, owned, torn>>
    <2>1. run.context \in Contexts
      BY <1>3 DEF RunTyped, HasContext, HasServer, HasKube, Resolving
    <2> QED
      BY <1>3, <2>1
  <1> QED
    BY <1>1, <1>2, <1>3 DEF HalfWritten

\* A failure ends the run, or credentials only; it is a failed refresh only if the
\* previous context was removed before and the next one is not begun.
LEMMA FailsEnds ==
  ASSUME Typed, Fails
  PROVE  \E pc \in {"clean", "refused", "failed", "broken"} :
           /\ run' = [Stopped EXCEPT !.pc = pc]
           /\ \/ /\ UNCHANGED <<home, torn>>
                 /\ pc = "failed" => run.pc \in {"disown", "group"} \cup Resolving
              \/ HalfWritten /\ (pc = "failed" => run.pc = "own")
  <1>0. run.pc \in InCredentials \cup {"clean", "disown", "group"} \cup Resolving
    BY DEF Fails, Typed, RunTyped, Runs, Steps
  <1>1. CASE HalfWritten /\ run' = [Stopped EXCEPT !.pc =
                CASE run.pc \in InCredentials -> "clean"
                  [] At("own") -> "failed"
                  [] At("config") -> "broken"]
    <2>1. CASE run.pc \in {"private", "public", "certificate"}
      BY <1>1, <2>1 DEF At, InCredentials
    <2>2. CASE run.pc = "own"
      BY <1>1, <2>2 DEF At, InCredentials
    <2>3. CASE run.pc = "config"
      BY <1>1, <2>3 DEF At, InCredentials
    <2> QED
      BY <1>1, <2>1, <2>2, <2>3 DEF HalfWritten, At
  <1>2. CASE UNCHANGED <<home, torn>> /\ run' = [Stopped EXCEPT !.pc =
                CASE run.pc \in InCredentials -> "clean"
                  [] At("clean") -> "refused"
                  [] OTHER -> "failed"]
    <2>1. CASE run.pc \in InCredentials
      BY <1>2, <2>1 DEF At, InCredentials
    <2>2. CASE run.pc \notin InCredentials
      BY <1>0, <1>2, <2>2 DEF At, InCredentials
    <2> QED
      BY <2>1, <2>2
  <1> QED
    BY <1>1, <1>2 DEF Fails, Ends

\* Every step keeps the types, the bounds on what grows, and what a run has read.
LEMMA TypedStep ==
  ASSUME Typed, Next
  PROVE  Typed'
  <1> USE ChangesAssumption DEF ChangesAssumption, Typed
  <1>1. CASE Start
    <2>1. ResourcesTyped' /\ Grown'
      BY <1>1 DEF Start, ResourcesTyped, Grown, resources, ssh_resources
    <2>2. FilesTyped'
      BY <1>1 DEF Start, FilesTyped, home
    <2>3. RunTyped'
      BY <1>1, EndsTyped DEF Start, RunTyped, Goto, Ends, At, Step, Runs, ResourcesTyped,
             Steps, Over, InCredentials, Resolving, HasKey, HasCert, HasSecret, HasKube,
             HasServer, HasContext
    <2> QED
      BY <2>1, <2>2, <2>3
  <1>2. CASE GetKey
    <2>1. ResourcesTyped' /\ Grown'
      BY <1>2 DEF GetKey, ResourcesTyped, Grown, resources, ssh_resources
    <2>2. FilesTyped'
      BY <1>2 DEF GetKey, FilesTyped, home
    <2>3. RunTyped'
      BY <1>2 DEF GetKey, RunTyped, Goto, Ends, At, Step, Runs, ResourcesTyped, Steps, Over,
             InCredentials, Resolving, HasKey, HasCert, HasSecret, HasKube, HasServer,
             HasContext
    <2> QED
      BY <2>1, <2>2, <2>3
  <1>3. CASE GetCertificate
    <2>1. ResourcesTyped' /\ Grown'
      BY <1>3 DEF GetCertificate, ResourcesTyped, Grown, resources, ssh_resources
    <2>2. FilesTyped'
      BY <1>3 DEF GetCertificate, FilesTyped, home
    <2>3. RunTyped'
      <3>1. CASE cert.of = run.key.uid
        <4>1. At("cert") /\ Step("secret", "cert", cert)
          BY <1>3, <3>1 DEF GetCertificate
        <4>2. cert \in Certs
          BY DEF ResourcesTyped
        <4>3. /\ run'.pc = "secret" /\ run'.cert = cert /\ run'.key = run.key
              /\ run' \in Runs
          BY <4>1, <4>2 DEF RunTyped, Step, Runs, Steps, InCredentials, Resolving
        <4> QED
          BY <4>1, <4>2, <4>3 DEF RunTyped, At, Steps, Over, InCredentials, Resolving,
                 HasKey, HasCert, HasSecret, HasKube, HasServer, HasContext
      <3>2. CASE ~(cert.of = run.key.uid)
        BY <1>3, <3>2, EndsTyped DEF GetCertificate, RunTyped, Goto, Ends, At, Runs, Steps,
               Over, InCredentials, Resolving, HasKey, HasCert, HasSecret, HasKube,
               HasServer, HasContext
      <3> QED
        BY <3>1, <3>2
    <2> QED
      BY <2>1, <2>2, <2>3
  <1>4. CASE GetSecret
    <2>1. ResourcesTyped' /\ Grown'
      BY <1>4 DEF GetSecret, ResourcesTyped, Grown, resources, ssh_resources
    <2>2. FilesTyped'
      BY <1>4 DEF GetSecret, FilesTyped, home
    <2>3. RunTyped'
      <3>1. CASE secret.of = run.key.uid /\ secret.key = run.key.key
        <4>1. At("secret") /\ Step("validate", "secret", secret)
          BY <1>4, <3>1 DEF GetSecret
        <4>2. secret \in Secrets
          BY DEF ResourcesTyped
        <4>3. /\ run'.pc = "validate" /\ run'.secret = secret /\ run'.key = run.key /\ run'.cert = run.cert
              /\ run' \in Runs
          BY <4>1, <4>2 DEF RunTyped, Step, Runs, Steps, InCredentials, Resolving
        <4> QED
          BY <4>1, <4>2, <4>3 DEF RunTyped, At, Steps, Over, InCredentials, Resolving,
                 HasKey, HasCert, HasSecret, HasKube, HasServer, HasContext
      <3>2. CASE ~(secret.of = run.key.uid /\ secret.key = run.key.key)
        BY <1>4, <3>2, EndsTyped DEF GetSecret, RunTyped, Goto, Ends, At, Runs, Steps, Over,
               InCredentials, Resolving, HasKey, HasCert, HasSecret, HasKube, HasServer,
               HasContext
      <3> QED
        BY <3>1, <3>2
    <2> QED
      BY <2>1, <2>2, <2>3
  <1>5. CASE Validate
    <2>1. ResourcesTyped' /\ Grown'
      BY <1>5 DEF Validate, ResourcesTyped, Grown, resources, ssh_resources
    <2>2. FilesTyped'
      BY <1>5 DEF Validate, FilesTyped, home
    <2>3. RunTyped'
      BY <1>5 DEF Validate, RunTyped, Goto, Ends, At, Step, Runs, ResourcesTyped, Steps,
             Over, InCredentials, Resolving, HasKey, HasCert, HasSecret, HasKube, HasServer,
             HasContext
    <2> QED
      BY <2>1, <2>2, <2>3
  <1>6. ASSUME NEW f \in Files, InstallFile(f) PROVE Typed'
    <2>1. ResourcesTyped' /\ Grown'
      BY <1>6 DEF InstallFile, ResourcesTyped, Grown, resources, ssh_resources
    <2>2. FilesTyped'
      BY <1>6 DEF InstallFile, FilesTyped, home, RunTyped, Material, Files, HasKey, HasCert,
             HasSecret, KeyPairs, Certs, Secrets, N
    <2>3. RunTyped'
      BY <1>6 DEF InstallFile, RunTyped, Goto, Ends, At, Step, Runs, ResourcesTyped, Steps,
             Over, InCredentials, Resolving, HasKey, HasCert, HasSecret, HasKube, HasServer,
             HasContext, Files
    <2> QED
      BY <2>1, <2>2, <2>3
  <1>7. CASE RemoveConfig
    <2>1. ResourcesTyped' /\ Grown'
      BY <1>7 DEF RemoveConfig, ResourcesTyped, Grown, resources, ssh_resources
    <2>2. FilesTyped'
      BY <1>7 DEF RemoveConfig, FilesTyped, home, File
    <2>3. RunTyped'
      BY <1>7 DEF RemoveConfig, RunTyped, Goto, Ends, At, Step, Runs, ResourcesTyped, Steps,
             Over, InCredentials, Resolving, HasKey, HasCert, HasSecret, HasKube, HasServer,
             HasContext
    <2> QED
      BY <2>1, <2>2, <2>3
  <1>8. CASE Disown
    <2>1. ResourcesTyped' /\ Grown'
      BY <1>8 DEF Disown, ResourcesTyped, Grown, resources, ssh_resources
    <2>2. FilesTyped'
      BY <1>8 DEF Disown, FilesTyped, home
    <2>3. RunTyped'
      BY <1>8 DEF Disown, RunTyped, Goto, Ends, At, Step, Runs, ResourcesTyped, Steps, Over,
             InCredentials, Resolving, HasKey, HasCert, HasSecret, HasKube, HasServer,
             HasContext
    <2> QED
      BY <2>1, <2>2, <2>3
  <1>9. CASE GetGroup
    <2>1. ResourcesTyped' /\ Grown'
      BY <1>9 DEF GetGroup, ResourcesTyped, Grown, resources, ssh_resources
    <2>2. FilesTyped'
      BY <1>9 DEF GetGroup, FilesTyped, home
    <2>3. RunTyped'
      <3>1. CASE group.labelled /\ MayInstall
        <4>1. At("group") /\ Step("cluster", "group", group)
          BY <1>9, <3>1 DEF GetGroup, MayInstall
        <4>2. group \in Groups
          BY DEF ResourcesTyped
        <4>3. /\ run'.pc = "cluster" /\ run'.group = group
              /\ run' \in Runs
          BY <4>1, <4>2 DEF RunTyped, Step, Runs, Steps, InCredentials, Resolving
        <4> QED
          BY <4>1, <4>2, <4>3 DEF RunTyped, At, Steps, Over, InCredentials, Resolving,
                 HasKey, HasCert, HasSecret, HasKube, HasServer, HasContext
      <3>2. CASE ~(group.labelled /\ MayInstall)
        BY <1>9, <3>2, EndsTyped DEF GetGroup, RunTyped, Goto, Ends, At, Runs, Steps, Over,
               InCredentials, Resolving, HasKey, HasCert, HasSecret, HasKube, HasServer,
               HasContext, MayInstall
      <3> QED
        BY <3>1, <3>2
    <2> QED
      BY <2>1, <2>2, <2>3
  <1>10. CASE GetCluster
    <2>1. ResourcesTyped' /\ Grown'
      BY <1>10 DEF GetCluster, ResourcesTyped, Grown, resources, ssh_resources
    <2>2. FilesTyped'
      BY <1>10 DEF GetCluster, FilesTyped, home
    <2>3. RunTyped'
      BY <1>10 DEF GetCluster, RunTyped, Goto, Ends, At, Step, Runs, ResourcesTyped, Steps,
             Over, InCredentials, Resolving, HasKey, HasCert, HasSecret, HasKube, HasServer,
             HasContext
    <2> QED
      BY <2>1, <2>2, <2>3
  <1>11. CASE GetServer
    <2>1. ResourcesTyped' /\ Grown'
      BY <1>11 DEF GetServer, ResourcesTyped, Grown, resources, ssh_resources
    <2>2. FilesTyped'
      BY <1>11 DEF GetServer, FilesTyped, home
    <2>3. RunTyped'
      <3>1. CASE server.trusted
        <4>1. At("server") /\ Step("fetch", "server", server)
          BY <1>11, <3>1 DEF GetServer
        <4>2. server \in Servers
          BY DEF ResourcesTyped
        <4>3. /\ run'.pc = "fetch" /\ run'.server = server /\ run'.kube = run.kube
              /\ run' \in Runs
          BY <4>1, <4>2 DEF RunTyped, Step, Runs, Steps, InCredentials, Resolving
        <4> QED
          BY <4>1, <4>2, <4>3 DEF RunTyped, At, Steps, Over, InCredentials, Resolving,
                 HasKey, HasCert, HasSecret, HasKube, HasServer, HasContext
      <3>2. CASE ~(server.trusted)
        BY <1>11, <3>2, EndsTyped DEF GetServer, RunTyped, Goto, Ends, At, Runs, Steps,
               Over, InCredentials, Resolving, HasKey, HasCert, HasSecret, HasKube,
               HasServer, HasContext
      <3> QED
        BY <3>1, <3>2
    <2> QED
      BY <2>1, <2>2, <2>3
  <1>12. CASE Fetch
    <2>1. ResourcesTyped' /\ Grown'
      BY <1>12 DEF Fetch, ResourcesTyped, Grown, resources, ssh_resources
    <2>2. FilesTyped'
      BY <1>12 DEF Fetch, FilesTyped, home
    <2>3. RunTyped'
      <3> DEFINE context == [kind |-> "ours", uid |-> run.kube.uid, ns |-> machine.api,
                 sound |-> kube.uid = run.kube.uid /\ server.uid = run.server.uid]
      <3>1. CASE Exports(run)
        <4>1. At("fetch") /\ Step("recheck", "context", context)
          BY <1>12, <3>1 DEF Fetch
        <4>2. context \in Contexts
          BY <4>1 DEF RunTyped, ResourcesTyped, At, Kubes, Machines, Contexts,
                 HasServer, HasKube, Resolving
        <4> HIDE DEF context
        <4>3. /\ run'.pc = "recheck" /\ run'.context = context /\ run'.kube = run.kube /\ run'.server = run.server
              /\ run' \in Runs
          BY <4>1, <4>2 DEF RunTyped, Step, Runs, Steps, InCredentials, Resolving
        <4> QED
          BY <4>1, <4>2, <4>3 DEF RunTyped, At, Steps, Over, InCredentials, Resolving,
                 HasKey, HasCert, HasSecret, HasKube, HasServer, HasContext
      <3>2. CASE ~(Exports(run))
        BY <1>12, <3>2, EndsTyped DEF Fetch, RunTyped, Goto, Ends, At, Runs, Steps, Over,
               InCredentials, Resolving, HasKey, HasCert, HasSecret, HasKube, HasServer,
               HasContext
      <3> QED
        BY <3>1, <3>2
    <2> QED
      BY <2>1, <2>2, <2>3
  <1>13. CASE RecheckCluster
    <2>1. ResourcesTyped' /\ Grown'
      BY <1>13 DEF RecheckCluster, ResourcesTyped, Grown, resources, ssh_resources
    <2>2. FilesTyped'
      BY <1>13 DEF RecheckCluster, FilesTyped, home
    <2>3. RunTyped'
      BY <1>13, EndsTyped DEF RecheckCluster, RunTyped, Goto, Ends, At, Step, Runs,
             ResourcesTyped, Steps, Over, InCredentials, Resolving, HasKey, HasCert,
             HasSecret, HasKube, HasServer, HasContext
    <2> QED
      BY <2>1, <2>2, <2>3
  <1>14. CASE RecheckServer
    <2>1. ResourcesTyped' /\ Grown'
      BY <1>14 DEF RecheckServer, ResourcesTyped, Grown, resources, ssh_resources
    <2>2. FilesTyped'
      BY <1>14 DEF RecheckServer, FilesTyped, home
    <2>3. RunTyped'
      BY <1>14, EndsTyped DEF RecheckServer, RunTyped, Goto, Ends, At, Step, Runs,
             ResourcesTyped, Steps, Over, InCredentials, Resolving, HasKey, HasCert,
             HasSecret, HasKube, HasServer, HasContext
    <2> QED
      BY <2>1, <2>2, <2>3
  <1>15. CASE RecheckGroup
    <2>1. ResourcesTyped' /\ Grown'
      BY <1>15 DEF RecheckGroup, ResourcesTyped, Grown, resources, ssh_resources
    <2>2. FilesTyped'
      BY <1>15 DEF RecheckGroup, FilesTyped, home
    <2>3. RunTyped'
      BY <1>15, EndsTyped DEF RecheckGroup, RunTyped, Goto, Ends, At, Step, Runs,
             ResourcesTyped, Steps, Over, InCredentials, Resolving, HasKey, HasCert,
             HasSecret, HasKube, HasServer, HasContext
    <2> QED
      BY <2>1, <2>2, <2>3
  <1>16. CASE WriteOwnership
    <2>1. ResourcesTyped' /\ Grown'
      BY <1>16 DEF WriteOwnership, ResourcesTyped, Grown, resources, ssh_resources
    <2>2. FilesTyped'
      BY <1>16 DEF WriteOwnership, FilesTyped, home
    <2>3. RunTyped'
      BY <1>16 DEF WriteOwnership, RunTyped, Goto, Ends, At, Step, Runs, ResourcesTyped,
             Steps, Over, InCredentials, Resolving, HasKey, HasCert, HasSecret, HasKube,
             HasServer, HasContext
    <2> QED
      BY <2>1, <2>2, <2>3
  <1>17. CASE WriteConfig
    <2>1. ResourcesTyped' /\ Grown'
      BY <1>17 DEF WriteConfig, ResourcesTyped, Grown, resources, ssh_resources
    <2>2. FilesTyped'
      BY <1>17 DEF WriteConfig, FilesTyped, home, RunTyped, At, HasContext, HasServer,
             HasKube, Resolving
    <2>3. RunTyped'
      BY <1>17, EndsTyped DEF WriteConfig, RunTyped, Goto, Ends, At, Step, Runs,
             ResourcesTyped, Steps, Over, InCredentials, Resolving, HasKey, HasCert,
             HasSecret, HasKube, HasServer, HasContext, Stopped
    <2> QED
      BY <2>1, <2>2, <2>3
  <1>18. CASE Fails
    <2>1. ResourcesTyped' /\ Grown'
      BY <1>18 DEF Fails, ResourcesTyped, Grown, resources, ssh_resources, Changes,
             KeyPairs, Certs, Secrets, Kubes, Servers, Groups, Machines, N
    <2>2. FilesTyped'
      <3>1. CASE UNCHANGED <<home, torn>>
        BY <1>18, <3>1 DEF Fails, FilesTyped, home
      <3>2. CASE HalfWritten
        BY <1>18, <3>2, HalfWrittenTyped DEF Fails, FilesTyped
      <3> QED
        BY <1>18, <3>1, <3>2 DEF Fails
    <2>3. RunTyped'
      BY <1>18, FailsEnds, EndsTyped DEF RunTyped, Steps, Over, InCredentials, Resolving,
             HasKey, HasCert, HasSecret, HasKube, HasServer, HasContext
    <2> QED
      BY <2>1, <2>2, <2>3
  <1>19. CASE Killed
    <2>1. ResourcesTyped' /\ Grown'
      BY <1>19 DEF Killed, ResourcesTyped, Grown, resources, ssh_resources, Changes,
             KeyPairs, Certs, Secrets, Kubes, Servers, Groups, Machines, N
    <2>2. FilesTyped'
      <3>1. CASE UNCHANGED <<home, torn>>
        BY <1>19, <3>1 DEF Killed, FilesTyped, home
      <3>2. CASE HalfWritten
        BY <1>19, <3>2, HalfWrittenTyped DEF Killed, FilesTyped
      <3> QED
        BY <1>19, <3>1, <3>2 DEF Killed
    <2>3. RunTyped'
      BY <1>19, EndsTyped DEF Killed, RunTyped, Goto, Ends, At, Step, Runs, ResourcesTyped,
             Steps, Over, InCredentials, Resolving, HasKey, HasCert, HasSecret, HasKube,
             HasServer, HasContext, home
    <2> QED
      BY <2>1, <2>2, <2>3
  <1>20. CASE SSHChanges
    <2>1. ResourcesTyped' /\ Grown'
      BY <1>20 DEF SSHChanges, ResourcesTyped, Grown, resources, ssh_resources, Changes,
             KeyPairs, Certs, Secrets, Kubes, Servers, Groups, Machines, N
    <2>2. FilesTyped'
      BY <1>20 DEF SSHChanges, FilesTyped, home
    <2>3. RunTyped'
      BY <1>20 DEF SSHChanges, RunTyped, Goto, Ends, At, Step, Runs, ResourcesTyped, Steps,
             Over, InCredentials, Resolving, HasKey, HasCert, HasSecret, HasKube, HasServer,
             HasContext
    <2> QED
      BY <2>1, <2>2, <2>3
  <1>21. CASE KubeChanges
    <2>1. ResourcesTyped' /\ Grown'
      <3>0. changes' = changes + 1 /\ changes' \in 0..MaxChanges /\ UNCHANGED ssh_resources
        BY <1>21 DEF KubeChanges, Changes, ResourcesTyped
      <3>1. kube' \in Kubes /\ kube'.uid <= changes' + 1 /\ kube'.rev <= changes' + 1
        BY <1>21, <3>0 DEF KubeChanges, ResourcesTyped, Grown, Kubes, N
      <3>2. server' \in Servers /\ server'.uid <= changes' + 1 /\ server'.rev <= changes' + 1
        <4>0. server.uid <= changes + 1 /\ server.rev <= changes + 1 /\ server \in Servers /\ changes \in Nat
          BY DEF ResourcesTyped, Grown
        <4>1. CASE server' = [uid |-> server.uid + 1, rev |-> 1, trusted |-> TRUE]
          BY <3>0, <4>0, <4>1 DEF Servers, N
        <4>2. CASE server' = [server EXCEPT !.rev = @ + 1, !.trusted = ~@]
          <5>1. server'.uid = server.uid /\ server'.rev = server.rev + 1
            BY <4>0, <4>2 DEF Servers
          <5>2. server'.trusted \in BOOLEAN
            BY <4>0, <4>2 DEF Servers
          <5>3. server' = [uid |-> server'.uid, rev |-> server'.rev, trusted |-> server'.trusted]
            BY <4>0, <4>2 DEF Servers
          <5> QED
            BY <3>0, <4>0, <5>1, <5>2, <5>3 DEF Servers, N
        <4>3. CASE UNCHANGED server
          BY <3>0, <4>0, <4>3 DEF Servers, N
        <4> QED
          BY <1>21, <4>1, <4>2, <4>3, Zenon DEF KubeChanges
      <3>3. group' \in Groups /\ group'.rev <= changes' + 1
        <4>0. group.rev <= changes + 1 /\ group \in Groups /\ changes \in Nat
          BY DEF ResourcesTyped, Grown
        <4>1. CASE group' = [labelled |-> ~group.labelled, rev |-> group.rev + 1]
          BY <3>0, <4>0, <4>1 DEF Groups, N
        <4>2. CASE UNCHANGED group
          BY <3>0, <4>0, <4>2 DEF Groups, N
        <4> QED
          BY <1>21, <4>1, <4>2 DEF KubeChanges
      <3>4. machine' \in Machines /\ machine'.api <= changes' + 1
        <4>0. /\ machine.api <= changes + 1 /\ machine \in Machines /\ changes \in Nat
              /\ kube.uid \in 1..N /\ server.uid \in 1..N
          BY DEF ResourcesTyped, Grown, Kubes, Servers
        <4>1. CASE machine' = [machine EXCEPT !.api = @ + 1, !.bound = 0]
          <5>1. machine.api + 1 \in 1..N /\ 0 \in 0..N
            BY <3>0, <4>0 DEF Machines, N
          <5>2. machine' \in Machines
            BY <4>0, <4>1, <5>1 DEF Machines
          <5>3. machine'.api = machine.api + 1 /\ machine.api \in Nat
            BY <4>0, <4>1 DEF Machines, N
          <5> QED
            BY <3>0, <4>0, <5>2, <5>3
        <4>2. CASE machine' = [uid |-> kube.uid, server |-> server.uid, ns |-> machine.api + 1,
                               api |-> machine.api + 1, bound |-> kube.uid]
          BY <3>0, <4>0, <4>2 DEF Machines, N
        <4>3. CASE UNCHANGED machine
          BY <3>0, <4>0, <4>3 DEF Machines, N
        <4> QED
          BY <1>21, <4>1, <4>2, <4>3, Zenon DEF KubeChanges
      <3> QED
        BY <3>0, <3>1, <3>2, <3>3, <3>4 DEF ResourcesTyped, Grown, ssh_resources, KeyPairs, Secrets, N
    <2>2. FilesTyped'
      BY <1>21 DEF KubeChanges, FilesTyped, home
    <2>3. RunTyped'
      BY <1>21 DEF KubeChanges, RunTyped, Goto, Ends, At, Step, Runs, ResourcesTyped, Steps,
             Over, InCredentials, Resolving, HasKey, HasCert, HasSecret, HasKube, HasServer,
             HasContext
    <2> QED
      BY <2>1, <2>2, <2>3
  <1>22. CASE UserSupplies
    <2>1. ResourcesTyped' /\ Grown'
      BY <1>22 DEF UserSupplies, ResourcesTyped, Grown, resources, ssh_resources, Changes,
             KeyPairs, Certs, Secrets, Kubes, Servers, Groups, Machines, N
    <2>2. FilesTyped'
      BY <1>22 DEF UserSupplies, FilesTyped, home, File
    <2>3. RunTyped'
      BY <1>22 DEF UserSupplies, RunTyped, Goto, Ends, At, Step, Runs, ResourcesTyped,
             Steps, Over, InCredentials, Resolving, HasKey, HasCert, HasSecret, HasKube,
             HasServer, HasContext
    <2> QED
      BY <2>1, <2>2, <2>3
  <1> QED
    BY <1>1, <1>2, <1>3, <1>4, <1>5, <1>6, <1>7, <1>8, <1>9, <1>10, <1>11, <1>12, <1>13,
           <1>14, <1>15, <1>16, <1>17, <1>18, <1>19, <1>20, <1>21, <1>22 DEF Next,
           Credentials, Context

-----------------------------------------------------------------------------
\* Only the three writes of install_credentials() and an interruption of them touch
\* ~/.ssh or get to a further write.
LEMMA InstallingStep ==
  ASSUME Typed, Next, Installing, CredentialsAgree
  PROVE  Installing' /\ CredentialsAgree'
  <1> USE DEF Installing, CredentialsAgree, Agree, At, Goto, Ends
  <1>0. ssh \in [Files -> 0..(N + 1)] /\ run \in Runs
    BY DEF Typed, FilesTyped, RunTyped
  <1>1. CASE Validate
    BY <1>0, <1>1 DEF Validate, Runs, home
  <1>2. ASSUME NEW f \in Files, InstallFile(f) PROVE Installing' /\ CredentialsAgree'
    <2>1. CASE f = "private"
      BY <1>0, <1>2, <2>1 DEF InstallFile, Material, Files, Runs
    <2>2. CASE f = "public"
      BY <1>0, <1>2, <2>2 DEF InstallFile, Material, Files, Runs
    <2>3. CASE f = "cert"
      BY <1>0, <1>2, <2>3 DEF InstallFile, Material, Files, Runs
    <2> QED
      BY <2>1, <2>2, <2>3 DEF Files
  <1>3. CASE Killed \/ Fails
    BY <1>0, <1>3, FailsEnds DEF Killed, HalfWritten, Stopped, home, Runs
  <1>4. CASE UNCHANGED <<ssh, torn>> /\ run'.pc \notin {"private", "public", "certificate"}
    BY <1>4
  <1>5. CASE UNCHANGED <<ssh, torn, run>>
    BY <1>5
  <1>6. ASSUME Credentials, ~Validate, ~\E f \in Files : InstallFile(f)
        PROVE  UNCHANGED <<ssh, torn>> /\ run'.pc \notin {"private", "public", "certificate"}
    BY <1>0, <1>6 DEF Credentials, Start, GetKey, GetCertificate, GetSecret, Step, Stopped, home, Runs
  <1>7. ASSUME Context
        PROVE  UNCHANGED <<ssh, torn>> /\ run'.pc \notin {"private", "public", "certificate"}
    BY <1>0, <1>7 DEF Context, RemoveConfig, Disown, GetGroup, GetCluster, GetServer, Fetch,
           RecheckCluster, RecheckServer, RecheckGroup, WriteOwnership, WriteConfig, Step,
           Stopped, home, Runs
  <1>8. ASSUME SSHChanges \/ KubeChanges \/ UserSupplies PROVE UNCHANGED <<ssh, torn, run>>
    BY <1>8 DEF SSHChanges, KubeChanges, UserSupplies, home
  <1> QED
    BY <1>1, <1>2, <1>3, <1>4, <1>5, <1>6, <1>7, <1>8 DEF Next, Credentials


\* Every step keeps what is known of ~/.kube; most leave it alone.
LEMMA NoneOfOursStep ==
  ASSUME Typed, Next, NoneOfOurs, Disposable
  PROVE  NoneOfOurs' /\ Disposable'
  <1> USE DEF NoneOfOurs, Disposable, Managed, At, Goto, Ends, Resolving, Over, InCredentials
  <1>0. /\ run \in Runs /\ late \in BOOLEAN /\ owned \in BOOLEAN
        /\ run.pc \in HasContext => run.context \in Contexts
    BY DEF Typed, FilesTyped, RunTyped
  <1>1. CASE RemoveConfig
    BY <1>0, <1>1 DEF RemoveConfig, File, Runs, Typed, FilesTyped, Contexts
  <1>2. CASE Disown
    BY <1>0, <1>2 DEF Disown, Runs
  <1>3. CASE GetGroup
    BY <1>0, <1>3 DEF GetGroup, MayInstall, Step, Stopped, home, Runs
  <1>4. CASE WriteOwnership
    BY <1>0, <1>4 DEF WriteOwnership, Runs
  <1>5. CASE WriteConfig
    BY <1>0, <1>5 DEF WriteConfig, Stopped, Contexts, HasContext, HasServer, HasKube
  <1>6. CASE Killed
    BY <1>0, <1>6 DEF Killed, HalfWritten, Stopped, File, home
  <1>7. CASE UserSupplies
    BY <1>0, <1>7 DEF UserSupplies, File
  <1>8. CASE Fails
    <2>1. PICK pc \in {"clean", "refused", "failed", "broken"} :
            /\ run'.pc = pc /\ UNCHANGED late
            /\ \/ /\ UNCHANGED <<home, torn>>
                  /\ pc = "failed" => run.pc \in {"disown", "group"} \cup Resolving
               \/ HalfWritten /\ (pc = "failed" => run.pc = "own")
      BY <1>8, FailsEnds DEF Fails, Stopped
    <2>2. CASE UNCHANGED <<home, torn>> /\ (pc = "failed" => run.pc \in {"disown", "group"} \cup Resolving)
      BY <1>0, <2>1, <2>2 DEF home
    <2>3. CASE HalfWritten /\ (pc = "failed" => run.pc = "own")
      BY <1>0, <2>1, <2>3 DEF HalfWritten, File
    <2> QED
      BY <2>1, <2>2, <2>3
  <1>9. CASE SSHChanges \/ KubeChanges
    BY <1>9 DEF SSHChanges, KubeChanges, home
  <1>10. CASE Credentials
    <2>1. CASE \E f \in Files : InstallFile(f)
      BY <1>0, <2>1 DEF InstallFile, Files, Runs
    <2>2. CASE ~\E f \in Files : InstallFile(f)
      BY <1>0, <1>10, <2>2 DEF Credentials, Start, GetKey, GetCertificate, GetSecret, Validate,
             Step, Stopped, home, Runs
    <2> QED
      BY <2>1, <2>2
  <1>11. CASE GetCluster \/ GetServer \/ Fetch
    BY <1>0, <1>11 DEF GetCluster, GetServer, Fetch, Step, Stopped, home, Runs
  <1>12. CASE RecheckCluster \/ RecheckServer \/ RecheckGroup
    BY <1>0, <1>12 DEF RecheckCluster, RecheckServer, RecheckGroup, Stopped, home, Runs
  <1> QED
    BY <1>1, <1>2, <1>3, <1>4, <1>5, <1>6, <1>7, <1>8, <1>9, <1>10, <1>11, <1>12 DEF Next, Context

\* Every step keeps what the rechecks of verified_context() rely on: UIDs only grow.
LEMMA DoomedStep ==
  ASSUME Typed, Next, NoneOfOurs, Doomed, ContextSound
  PROVE  Doomed' /\ ContextSound'
  <1> USE DEF Doomed, ContextSound, Managed, At, Goto, Ends, Resolving, HasKube, HasServer, HasContext
  <1>0. /\ run \in Runs /\ kube.uid \in Nat /\ server.uid \in Nat /\ kube.rev \in Nat
        /\ run.pc \in HasKube => run.kube \in Kubes /\ run.kube.uid \in Nat
        /\ run.pc \in HasServer => run.server \in Servers /\ run.server.uid \in Nat
        /\ run.pc \in HasContext => run.context.sound \in BOOLEAN
    BY DEF Typed, ResourcesTyped, RunTyped, Kubes, Servers, Contexts
  <1>1. CASE Fetch
    <2>1. CASE Exports(run)
      <3> DEFINE sound == kube.uid = run.kube.uid /\ server.uid = run.server.uid
                 context == [kind |-> "ours", uid |-> run.kube.uid, ns |-> machine.api, sound |-> sound]
      <3>1. run.pc = "fetch" /\ run' = [run EXCEPT !.pc = "recheck", !["context"] = context]
            /\ UNCHANGED <<kube, server, config>>
        BY <1>1, <2>1 DEF Fetch, Step, home, resources
      <3>2. context.sound <=> sound
        OBVIOUS
      <3> HIDE DEF context
      <3>3. /\ run'.pc = "recheck" /\ run'.kube = run.kube /\ run'.server = run.server
            /\ run'.context = context
        BY <1>0, <3>1 DEF Runs
      <3> QED
        BY <1>0, <3>1, <3>2, <3>3
    <2>2. CASE ~Exports(run)
      BY <1>0, <1>1, <2>2 DEF Fetch, Stopped, home, resources
    <2> QED
      BY <2>1, <2>2
  <1>2. CASE GetCluster \/ GetServer
    <2>1. CASE GetCluster
      BY <1>0, <2>1 DEF GetCluster, Step, home, resources, Runs
    <2>2. CASE GetServer /\ server.trusted
      <3>1. /\ run.pc = "server" /\ run'.pc = "fetch" /\ run'.kube = run.kube /\ run'.server = server
            /\ UNCHANGED <<kube, server, config>>
        BY <1>0, <2>2 DEF GetServer, Step, home, resources, Runs
      <3> QED
        BY <1>0, <3>1
    <2>3. CASE GetServer /\ ~server.trusted
      BY <1>0, <2>3 DEF GetServer, Stopped, home, resources
    <2> QED
      BY <1>2, <2>1, <2>2, <2>3
  <1>3. CASE RecheckCluster \/ RecheckServer \/ RecheckGroup
    BY <1>0, <1>3 DEF RecheckCluster, RecheckServer, RecheckGroup, Stopped, home, resources, Runs
  <1>4. CASE WriteOwnership
    BY <1>0, <1>4 DEF WriteOwnership, resources, Runs
  <1>5. CASE WriteConfig
    BY <1>0, <1>5 DEF WriteConfig, Stopped, resources
  <1>6. CASE RemoveConfig \/ Disown \/ GetGroup
    <2>1. CASE RemoveConfig \/ Disown
      BY <1>0, <2>1 DEF RemoveConfig, Disown, File, resources, Runs
    <2>2. CASE GetGroup
      <3>1. run'.pc \in {"done", "failed", "cluster"} /\ UNCHANGED config
        BY <1>0, <2>2 DEF GetGroup, Step, Stopped, home, Runs
      <3> QED
        BY <3>1
    <2> QED
      BY <1>6, <2>1, <2>2
  <1>7. CASE Credentials
    <2>1. CASE \E f \in Files : InstallFile(f)
      BY <1>0, <2>1 DEF InstallFile, Files, resources, Runs
    <2>2. CASE ~\E f \in Files : InstallFile(f)
      <3>1. run'.pc \in {"key", "cert", "secret", "validate", "private", "clean"} /\ UNCHANGED config
        BY <1>0, <1>7, <2>2 DEF Credentials, Start, GetKey, GetCertificate, GetSecret, Validate,
               Step, Stopped, home, Runs
      <3> QED
        BY <3>1
    <2> QED
      BY <2>1, <2>2
  <1>8. CASE Fails \/ Killed
    <2>1. /\ run'.pc \in {"clean", "stopped", "refused", "failed", "broken"}
          /\ UNCHANGED home \/ HalfWritten
      BY <1>8, FailsEnds DEF Killed, Stopped
    <2>2. CASE UNCHANGED home
      BY <1>0, <2>1, <2>2 DEF home
    <2>3. CASE HalfWritten
      BY <1>0, <2>1, <2>3 DEF HalfWritten, File
    <2> QED
      BY <2>1, <2>2, <2>3
  <1>9. CASE SSHChanges
    BY <1>9 DEF SSHChanges, home
  <1>10. CASE KubeChanges
    <2>1. kube'.uid \in Nat /\ kube.uid <= kube'.uid
      BY <1>0, <1>10 DEF KubeChanges, Typed, ResourcesTyped, Kubes
    <2>2. server'.uid \in Nat /\ server.uid <= server'.uid
      <3> USE DEF Typed, ResourcesTyped, Servers
      <3>1. CASE server' = [server EXCEPT !.rev = @ + 1, !.trusted = ~@]
        BY <1>0, <3>1
      <3>2. CASE server'.uid = server.uid + 1 \/ UNCHANGED server
        BY <1>0, <3>2
      <3> QED
        BY <1>10, <3>1, <3>2 DEF KubeChanges
    <2>3. UNCHANGED <<run, config>>
      BY <1>10 DEF KubeChanges, home
    <2> QED
      BY <1>0, <2>1, <2>2, <2>3
  <1>11. CASE UserSupplies
    BY <1>11 DEF UserSupplies, File, resources
  <1> QED
    BY <1>1, <1>2, <1>3, <1>4, <1>5, <1>6, <1>7, <1>8, <1>9, <1>10, <1>11 DEF Next, Context

-----------------------------------------------------------------------------
\* The inductive invariant holds at first ...
LEMMA InvInit == Init => Inv
  <1> SUFFICES ASSUME Init PROVE Inv
    OBVIOUS
  <1> USE ChangesAssumption DEF ChangesAssumption, Init, Stopped
  <1>1. ResourcesTyped /\ Grown
    BY DEF ResourcesTyped, Grown, KeyPairs, Certs, Secrets, Kubes, Servers, Groups, Machines, N
  <1>2. FilesTyped
    <2>1. 0 \in 0..(N + 1)
      BY DEF N
    <2> QED
      BY <2>1, Zenon DEF FilesTyped
  <1>3. RunTyped
    BY DEF RunTyped, Runs, Steps, Over, HasKey, HasCert, HasSecret, HasKube, HasServer, HasContext,
           Resolving
  <1>4. Installing /\ NoneOfOurs /\ Doomed
    BY DEF Installing, NoneOfOurs, Doomed, Resolving, HasKube, HasServer, HasContext
  <1>5. CredentialsAgree /\ Disposable /\ ContextSound
    BY DEF CredentialsAgree, Files, Disposable, ContextSound, Managed, File
  <1> QED
    BY <1>1, <1>2, <1>3, <1>4, <1>5 DEF Inv, Typed

\* ... is kept by every step ...
LEMMA InvStep == Inv /\ [Next]_vars => Inv'
  <1> SUFFICES ASSUME Inv, [Next]_vars PROVE Inv'
    OBVIOUS
  <1>1. CASE Next
    BY <1>1, TypedStep, InstallingStep, NoneOfOursStep, DoomedStep DEF Inv
  <1>2. CASE UNCHANGED vars
    <2> USE <1>2 DEF vars, resources, ssh_resources, home
    <2>1. Typed'
      BY DEF Inv, Typed, ResourcesTyped, Grown, FilesTyped, RunTyped
    <2>2. Installing' /\ NoneOfOurs' /\ Doomed'
      BY DEF Inv, Installing, Agree, NoneOfOurs, Doomed
    <2>3. CredentialsAgree' /\ Disposable' /\ ContextSound'
      BY DEF Inv, CredentialsAgree, Disposable, ContextSound, Managed, At
    <2> QED
      BY <2>1, <2>2, <2>3 DEF Inv
  <1> QED
    BY <1>1, <1>2

\* ... and so always holds.
LEMMA Invariance == Spec => []Inv
  BY InvInit, InvStep, PTL DEF Spec

\* Types hold whatever the number of changes, and a run that is over has let go of the
\* credentials it fetched (install_credentials(), setup_context()).
THEOREM TypeCorrect == Spec => []TypeOK
  <1>1. Inv => TypeOK
    BY DEF Inv, Typed, ResourcesTyped, FilesTyped, RunTyped, TypeOK, KeyPairs, Certs, Secrets, Kubes,
           Servers, Groups, Contexts, Managed, File
  <1> QED
    BY <1>1, Invariance, PTL

\* After a completed installation private key, public key and certificate belong
\* together, however the three resources change between the requests and wherever
\* earlier runs were cut off (validate_credentials(), install_credentials()).
THEOREM CredentialsBelongTogether == Spec => []CredentialsAgree
  BY Invariance, PTL DEF Inv

\* A kubeconfig of ours is always marked as ours, also one that was being written when
\* the run failed or was stopped; while the cluster is resolved, and if that fails, there
\* is none (setup_context()).
THEOREM ContextDisposable == Spec => []Disposable
  BY Invariance, PTL DEF Inv

\* An installed context was read from the control plane of the KubeCluster and Server
\* of that moment (verified_context()).
THEOREM ContextVerified == Spec => []ContextSound
  BY Invariance, PTL DEF Inv

\* The user's kubeconfig is lost in two places only (setup_context()).
THEOREM UserFileSafe == Spec => UserFileKept
  <1>1. Inv /\ [Next]_vars =>
          [config.kind = "user" /\ config'.kind # "user"
             => (At("clean") /\ owned) \/ (At("config") /\ late)]_vars
    <2> SUFFICES ASSUME Inv, Next, config.kind = "user", config' # config
                 PROVE  \/ (At("clean") /\ owned) \/ (At("config") /\ late)
                        \/ config'.kind = "user"
      OBVIOUS
    <2>1. config' = config \/ RemoveConfig \/ WriteConfig \/ HalfWritten \/ UserSupplies
      BY DEF Next, Credentials, Context, Start, GetKey, GetCertificate, GetSecret, Validate,
             InstallFile, Disown, GetGroup, GetCluster, GetServer, Fetch, RecheckCluster,
             RecheckServer, RecheckGroup, WriteOwnership, Fails, Killed, SSHChanges, KubeChanges,
             home
    <2>2. CASE RemoveConfig
      BY <2>2 DEF RemoveConfig
    <2>3. CASE WriteConfig
      BY <2>3 DEF WriteConfig, At, Inv, NoneOfOurs, Resolving
    <2>4. CASE HalfWritten
      BY <2>4 DEF HalfWritten, At, Inv, NoneOfOurs, Resolving
    <2>5. CASE UserSupplies
      BY <2>5 DEF UserSupplies
    <2> QED
      BY <2>1, <2>2, <2>3, <2>4, <2>5
  <1> QED
    BY <1>1, Invariance, PTL DEF Spec, UserFileKept
=============================================================================
