------------------------------ MODULE HostTrust ------------------------------
(***************************************************************************)
(* The SSH host identity operator (operators/ssh_host_keys.py) on one      *)
(* Server: a pass claims the Server, pins the key of a first contact,      *)
(* delivers the managed private host key, verifies it over a fresh         *)
(* connection and records it as installed.                                 *)
(*                                                                         *)
(* The claim is the lock that ServerOperation implements.  An If-Match     *)
(* write succeeds exactly when nobody wrote the Server since the writer    *)
(* read it, which pass[e].stale records.                                        *)
(***************************************************************************)
EXTENDS Integers, FiniteSets

CONSTANTS
  Machine,      \* machines that may answer at the management address
  Executor,     \* passes that may overlap
  None,
  MaxPairs,     \* bound: managed key pairs the API ever creates for the Server
  MaxResets,    \* bound: times an administrator resets the enrollment
  MaxAttempts,  \* attempts of observation() (5 in the code)
  MaxFaults     \* bound: faults, of any kind

ASSUME ConstantsAssumption ==
  /\ Machine # {} /\ None \notin Executor
  /\ MaxPairs \in Nat \ {0} /\ MaxResets \in Nat /\ MaxAttempts \in Nat \ {0}
  /\ MaxFaults \in Nat

\* A machine's own host key is named by the machine, managed key pair k by k.
Pairs == 1 .. MaxPairs
Key(kind, of) == <<kind, of>>
Managed(k) == Key("managed", k)
Own(m) == Key("own", m)
Keys == {Managed(k) : k \in Pairs} \cup {Own(m) : m \in Machine}

VARIABLES
  hostSSH,    \* the Server's status.hostSSH: keyPairRef, pin, installedKeyPairRef, phase
  claim,      \* [by, phase]: the Operation that status.operationRef names
  machine,    \* the machine that answers at the management address
  hostKey,    \* hostKey[m]: the key sshd of m presents
  resets, faults,
  pass,       \* pass[e]: the locals of a pass, see Fresh
  pinned,     \* history: <<resets, key>>: the pins of each enrollment
  delivered,  \* history: <<key, pair, resets>>: pair was sent to who presented key
  proved      \* history: pairs accepted alone by a fresh connection after both plays

server == <<hostSSH, claim>>
node == <<machine, hostKey>>
history == <<pinned, delivered, proved>>
vars == <<server, node, resets, faults, pass, history>>

Free == [by |-> None, phase |-> "Released"]
NewSSH == [pair |-> 0, pin |-> None, installed |-> None, phase |-> "Pending"]

\* Between passes.  ssh, by and reset are the pass's copy of the Server.
Fresh == [pc |-> "idle", ssh |-> NewSSH, by |-> None, reset |-> 0, stale |-> FALSE,
          contact |-> None, attempts |-> 0, outcome |-> "none"]

Init ==
  /\ hostSSH = NewSSH /\ claim = Free
  /\ machine \in Machine /\ hostKey = [m \in Machine |-> Own(m)]
  /\ resets = 0 /\ faults = 0
  /\ pass = [e \in Executor |-> Fresh]
  /\ pinned = {} /\ delivered = {} /\ proved = {}

-----------------------------------------------------------------------------
(* The API and the connection.                                             *)

\* Mutant of Current: a pin that was removed or replaced is not noticed.
CurrentIgnoresPin(e) ==
  /\ pass[e].by = claim.by
  /\ \A field \in {"pair", "installed"} : pass[e].ssh[field] = hostSSH[field]

\* current(): the identity fields and the owner are as in the pass's copy.
Current(e) ==
  /\ pass[e].by = claim.by
  /\ \A field \in {"pair", "pin", "installed"} : pass[e].ssh[field] = hostSSH[field]

\* who writes the Server and goes on with the given locals: the revision that any
\* other pass is about to name in If-Match is out of date.
Patching == {"pinPatch", "observePatch", "reportPatch"}
WrittenBy(who, locals) ==
  pass' = [x \in Executor |->
    IF x = who THEN locals
    ELSE IF pass[x].pc \in Patching THEN [pass[x] EXCEPT !.stale = TRUE] ELSE pass[x]]

\* The known_hosts of the probe before delivery.
Known(e) ==
  {Managed(pass[e].ssh.pair)}
    \cup (IF pass[e].ssh.installed = None THEN {pass[e].ssh.pin} \ {None} ELSE {})
Presented == hostKey[machine]

At(e, label) == pass[e].pc = label
Local(e, locals) ==
  pass' = [pass EXCEPT ![e] = locals] /\ UNCHANGED <<server, node, resets, history>>
Step(e, next) == Local(e, [pass[e] EXCEPT !.pc = next])
Leave(e) == Local(e, Fresh)

\* An exception leaves the body of reservation().  An OperatorError, which is what
\* ssh_probe raises, is a known outcome; a lost transport during a play and any
\* other exception, the refusals of current() included, are not.
Raised(e, result) == [pass[e] EXCEPT !.pc = "complete", !.outcome = result]
Raise(e, result) == Local(e, Raised(e, result))

-----------------------------------------------------------------------------
(* One pass over the Server.                                               *)

Begin(e) ==
  /\ At(e, "idle")
  /\ Local(e, [Fresh EXCEPT !.pc = "reserve", !.ssh = hostSSH, !.by = claim.by,
                            !.reset = resets])

\* reservation(): a busy Server is left to the next pass.
Reserve(e) ==
  /\ At(e, "reserve")
  /\ \/ /\ pass[e].by = None /\ claim.by = None
        /\ claim' = [by |-> e, phase |-> "Running"]
        /\ WrittenBy(e, [Fresh EXCEPT !.pc = "inspect", !.ssh = hostSSH, !.by = e,
                                      !.reset = resets])
        /\ UNCHANGED <<hostSSH, node, resets, history>>
     \/ (pass[e].by # None \/ claim.by # None) /\ Leave(e)

\* The checks on the claimed Server: the managed key is pending, or an identity
\* other than the desired one is installed, or nothing is trusted yet.
Inspect(e) ==
  /\ At(e, "inspect")
  /\ LET trust == pass[e].ssh IN
     \/ trust.pair = 0 /\ Raise(e, "succeeded")
     \/ trust.pair # 0 /\ trust.installed \notin {None, trust.pair} /\ Raise(e, "uncertain")
     \/ trust.pair # 0 /\ trust.installed = None /\ trust.pin = None /\ Step(e, "contact")
     \/ /\ trust.pair # 0
        /\ trust.installed = trust.pair \/ (trust.installed = None /\ trust.pin # None)
        /\ Step(e, "probe")

\* pin_first_contact(): whoever answers is accepted, before any secret is read.
Contact(e) ==
  /\ At(e, "contact")
  /\ Local(e, [pass[e] EXCEPT !.pc = "pinRead", !.contact = Presented])

PinRead(e) ==
  /\ At(e, "pinRead")
  /\ LET unenrolled == Current(e) /\ hostSSH.pin = None /\ hostSSH.installed = None IN
     \/ unenrolled /\ Local(e, [pass[e] EXCEPT !.pc = "pinPatch", !.stale = FALSE])
     \/ ~unenrolled /\ Raise(e, "uncertain")

\* The pin is stored, and the pass continues with the answer, or without one.
RecordPin(e, locals) ==
  /\ hostSSH' = [hostSSH EXCEPT !.pin = pass[e].contact, !.phase = "BootstrapPinned"]
  /\ pinned' = pinned \cup {<<resets, pass[e].contact>>}
  /\ WrittenBy(e, locals)
  /\ UNCHANGED <<claim, node, resets, delivered, proved>>
Enrolled(e) == RecordPin(e, [pass[e] EXCEPT !.pc = "probe", !.ssh = hostSSH', !.reset = resets])

\* Mutant of PinPatch: the pin is written over whatever happened since.
PinPatchBlind(e) == At(e, "pinPatch") /\ Enrolled(e)

\* "A conflicting pin write MUST stop".
PinPatch(e) ==
  /\ At(e, "pinPatch")
  /\ IF pass[e].stale THEN Raise(e, "uncertain") ELSE Enrolled(e)

\* The write takes effect and its answer is lost.
PinPatchLost(e) ==
  At(e, "pinPatch") /\ ~pass[e].stale /\ RecordPin(e, Raised(e, "uncertain"))

Probe(e) ==
  /\ At(e, "probe")
  /\ IF Presented \in Known(e) THEN Step(e, "fetch") ELSE Raise(e, "failed")

\* host_private_key() between two rereads of the Server.
Fetch(e) ==
  /\ At(e, "fetch")
  /\ IF Current(e) THEN Local(e, [pass[e] EXCEPT !.pc = "progress", !.reset = resets])
     ELSE Raise(e, "uncertain")

Progress(e) ==
  /\ At(e, "progress")
  /\ \/ ~Current(e) /\ Raise(e, "uncertain")
     \/ Current(e) /\ claim.phase # "Running" /\ Raise(e, "failed")
     \/ Current(e) /\ claim.phase = "Running" /\ Step(e, "deliver")

\* The play that installs the managed key.  It connects with the same known_hosts.
Connected(e, locals) ==
  /\ At(e, "deliver") /\ Presented \in Known(e)
  /\ delivered' = delivered \cup {<<Presented, pass[e].ssh.pair, pass[e].reset>>}
  /\ pass' = [pass EXCEPT ![e] = locals]
  /\ UNCHANGED <<server, machine, resets, pinned, proved>>

Deliver(e) ==
  \/ At(e, "deliver") /\ Presented \notin Known(e) /\ Raise(e, "uncertain")
  \/ /\ Connected(e, [pass[e] EXCEPT !.pc = "verify"])
     /\ hostKey' = [hostKey EXCEPT ![machine] = Managed(pass[e].ssh.pair)]

\* A failed installation restores the previous key.
DeliverFails(e) == Connected(e, Raised(e, "failed")) /\ UNCHANGED hostKey

\* A fresh connection that accepts only the managed key, after either play.
AfterVerify == [verify |-> "trust", confirm |-> "observeRead"]
ShowsManaged(e) == Presented = Managed(pass[e].ssh.pair)
Verified(e) ==
  /\ proved' = proved \cup {k \in {pass[e].ssh.pair} : At(e, "confirm") /\ ShowsManaged(e)}
  /\ pass' = [pass EXCEPT ![e].pc = AfterVerify[@]]
  /\ UNCHANGED <<server, node, resets, pinned, delivered>>

\* Mutant of Verify: the play's success is enough.
VerifyIgnoresFailure(e) == pass[e].pc \in {"verify", "confirm"} /\ Verified(e)

Verify(e) ==
  /\ pass[e].pc \in {"verify", "confirm"}
  /\ IF ShowsManaged(e) THEN Verified(e) ELSE Raise(e, "failed")

\* The user-CA trust play, under the claim and the managed key alone.
Owns(e) == claim.by = e /\ claim.phase = "Running"
Trust(e) ==
  /\ At(e, "trust")
  /\ \/ ~Owns(e) /\ Raise(e, "failed")
     \/ Owns(e) /\ ShowsManaged(e) /\ Step(e, "confirm")
     \/ Owns(e) /\ ~ShowsManaged(e) /\ Raise(e, "uncertain")

TrustFails(e) == At(e, "trust") /\ Owns(e) /\ ShowsManaged(e) /\ Raise(e, "failed")

-----------------------------------------------------------------------------
(* observation(), completion and the report of a failure.                  *)

\* Reread, with a bounded number of attempts; the failure report of main gives
\* up silently.
Reread(e, at, patch, giveUp) ==
  /\ At(e, at)
  /\ IF Current(e) /\ pass[e].attempts < MaxAttempts
     THEN Local(e, [pass[e] EXCEPT !.pc = patch, !.stale = FALSE, !.attempts = @ + 1])
     ELSE giveUp

ObserveRead(e) == Reread(e, "observeRead", "observePatch", Raise(e, "uncertain"))

\* The report of a verified identity, and what the pass makes of the answer.
Observed(e, pin, result) ==
  /\ At(e, "observePatch")
  /\ hostSSH' = [hostSSH EXCEPT !.pin = pin, !.installed = pass[e].ssh.pair, !.phase = "Ready"]
  /\ WrittenBy(e, Raised(e, result))
  /\ UNCHANGED <<claim, node, resets, history>>

\* Mutants of ObservePatch: the report does not name the revision that was read;
\* the pin is not removed.
ObservePatchBlind(e) == Observed(e, None, "succeeded")
ObservePatchKeepsPin(e) == ~pass[e].stale /\ Observed(e, hostSSH.pin, "succeeded")

ObservePatch(e) ==
  \/ ~pass[e].stale /\ Observed(e, None, "succeeded")
  \/ At(e, "observePatch") /\ pass[e].stale /\ Step(e, "observeRead")
ObservePatchLost(e) == ~pass[e].stale /\ Observed(e, None, "uncertain")

\* main reports every exception but those of a busy Server.
Reporting(e) == [pass[e] EXCEPT !.pc = "reportRead", !.attempts = 0, !.outcome = "none"]

\* reservation() ends: a known outcome frees the Server, an unknown one keeps it.
\* A claim that was resolved meanwhile is left alone, with one more exception.
Complete(e) ==
  /\ At(e, "complete")
  /\ \/ /\ claim.by = e
        /\ claim' = IF pass[e].outcome = "uncertain" THEN [claim EXCEPT !.phase = "Uncertain"]
                    ELSE Free
        /\ WrittenBy(e, IF pass[e].outcome = "succeeded" THEN Fresh ELSE Reporting(e))
        /\ UNCHANGED <<hostSSH, node, resets, history>>
     \/ claim.by # e /\ Local(e, Reporting(e))

CompleteFails(e) == At(e, "complete") /\ claim.by = e /\ Local(e, Reporting(e))

ReportRead(e) == Reread(e, "reportRead", "reportPatch", Leave(e))

ReportPatch(e) ==
  /\ At(e, "reportPatch")
  /\ \/ /\ ~pass[e].stale
        /\ hostSSH' = [hostSSH EXCEPT !.phase = "Failed"]
        /\ WrittenBy(e, Fresh)
        /\ UNCHANGED <<claim, node, resets, history>>
     \/ pass[e].stale /\ Step(e, "reportRead")

-----------------------------------------------------------------------------
(* Faults, and what others do.                                             *)

InReservation(e) ==
  pass[e].pc \notin {"idle", "reserve", "complete", "reportRead", "reportPatch"}

\* A connection of ssh_probe fails; a play loses its transport, or any request or
\* command times out.
Unreachable(e) ==
  \/ pass[e].pc \in {"contact", "probe", "verify", "confirm"} /\ Raise(e, "failed")
  \/ InReservation(e) /\ Raise(e, "uncertain")

\* SIGTERM records the interruption and ends the pass; SIGKILL records nothing.
Terminate(e) ==
  /\ InReservation(e)
  /\ claim' = IF claim.by = e THEN [claim EXCEPT !.phase = "Uncertain"] ELSE claim
  /\ WrittenBy(e, Fresh)
  /\ UNCHANGED <<hostSSH, node, resets, history>>

Kill(e) == ~At(e, "idle") /\ Leave(e)

\* The heartbeat of the node's agent.
Heartbeat == WrittenBy(None, Fresh) /\ UNCHANGED <<server, node, resets, history>>

\* An administrator resolves a claim: one that is abandoned, or, as a fault, one
\* that is still in use.
Abandoned == ~\E e \in Executor : e = claim.by /\ ~At(e, "idle")
Freed ==
  /\ claim.by # None
  /\ claim' = Free
  /\ WrittenBy(None, Fresh)
  /\ UNCHANGED <<hostSSH, node, resets, history>>
Resolve == Abandoned /\ Freed
ForceResolve == ~Abandoned /\ Freed

\* The API creates the managed key pair, or a later one.
Rotate ==
  /\ hostSSH.pair < MaxPairs
  /\ hostSSH' = [hostSSH EXCEPT !.pair = @ + 1]
  /\ WrittenBy(None, Fresh)
  /\ UNCHANGED <<claim, node, resets, history>>

\* An administrator approves a new enrollment.
Reset ==
  /\ resets < MaxResets
  /\ resets' = resets + 1
  /\ hostSSH' = [hostSSH EXCEPT !.pin = None, !.installed = None, !.phase = "Pending"]
  /\ WrittenBy(None, Fresh)
  /\ UNCHANGED <<claim, node, history>>

\* Another machine answers at the address.
Swap ==
  /\ \E m \in Machine \ {machine} : machine' = m
  /\ UNCHANGED <<server, hostKey, resets, pass, history>>

Pass(e) ==
  \/ Begin(e) \/ Reserve(e) \/ Inspect(e) \/ Contact(e) \/ PinRead(e) \/ PinPatch(e)
  \/ Probe(e) \/ Fetch(e) \/ Progress(e) \/ Deliver(e) \/ Verify(e) \/ Trust(e)
  \/ ObserveRead(e) \/ ObservePatch(e) \/ Complete(e) \/ ReportRead(e) \/ ReportPatch(e)

Fault(e) ==
  \/ PinPatchLost(e) \/ DeliverFails(e) \/ TrustFails(e) \/ ObservePatchLost(e)
  \/ CompleteFails(e) \/ Unreachable(e) \/ Terminate(e) \/ Kill(e)

Next ==
  \/ /\ (\E e \in Executor : Pass(e)) \/ Resolve \/ Rotate \/ Reset
     /\ UNCHANGED faults
  \/ /\ faults < MaxFaults /\ faults' = faults + 1
     /\ (\E e \in Executor : Fault(e)) \/ Heartbeat \/ ForceResolve \/ Swap

Spec == Init /\ [][Next]_vars

-----------------------------------------------------------------------------
(* Properties.                                                             *)

SSH == [pair : 0 .. MaxPairs, pin : Keys \cup {None}, installed : Pairs \cup {None},
        phase : {"Pending", "BootstrapPinned", "Ready", "Failed"}]
PCs == {"idle", "reserve", "inspect", "contact", "pinRead", "pinPatch", "probe", "fetch",
        "progress", "deliver", "verify", "trust", "confirm", "observeRead", "observePatch", "complete",
        "reportRead", "reportPatch"}

\* Every variable keeps its type, and an installed identity has no pin besides it.
TypeOK ==
  /\ hostSSH \in SSH
  /\ hostSSH.installed # None => hostSSH.pin = None
  /\ claim \in [by : Executor \cup {None}, phase : {"Released", "Running", "Uncertain"}]
  /\ machine \in Machine /\ hostKey \in [Machine -> Keys]
  /\ resets \in 0 .. MaxResets /\ faults \in 0 .. MaxFaults
  /\ pass \in [Executor -> [pc : PCs, ssh : SSH, by : Executor \cup {None},
                            reset : 0 .. MaxResets, stale : BOOLEAN,
                            contact : Keys \cup {None}, attempts : 0 .. MaxAttempts,
                            outcome : {"none", "succeeded", "failed", "uncertain"}]]

\* "Persist a Server-bound TOFU pin before delivering private host material": a
\* managed private key is sent only to who already presents it, or to who presents
\* a key that the API had recorded as the pin of the same enrollment, across
\* crashes, lost answers, resets and machines that change places.
DeliveredToPinned ==
  \A d \in delivered : d[1] = Managed(d[2]) \/ <<d[3], d[1]>> \in pinned

\* A recorded pin is removed or promoted, never exchanged for another key: of
\* two passes that meet different machines only one enrolls.
OneEnrollment ==
  [][hostSSH.pin # None /\ hostSSH'.pin # None => hostSSH'.pin = hostSSH.pin]_vars

\* "Unapproved managed host identity replacement" does not happen: an installed
\* identity changes only through a reset, even if the desired pair changes while a
\* pass is between its checks and its report.
EstablishedStays ==
  [][hostSSH.installed # None /\ hostSSH'.installed # None
       => hostSSH'.installed = hostSSH.installed]_vars

\* prepare() of runner_trust.py, for the commands that use the result.
Accepts == hostSSH.phase = "Ready" /\ hostSSH.pair # 0 /\ hostSSH.installed = hostSSH.pair

\* "Fresh SSH connection verified managed host identity": what ordinary commands
\* trust was presented to a connection opened after both plays, although machines
\* change places between the plays and the report.  (A proof is of the key pair, at some
\* time: a reset forgets the installation but not its proof.)
AcceptedIsProved == Accepts => hostSSH.pair \in proved
=============================================================================
