--------------------------- MODULE HostTrustProofs ---------------------------
(* Proofs about HostTrust for any machines, passes, key pairs, resets and faults. *)
EXTENDS HostTrust, TLAPS

Locals == [pc : PCs, ssh : SSH, by : Executor \cup {None}, reset : 0 .. MaxResets,
           stale : BOOLEAN, contact : Keys \cup {None}, attempts : 0 .. MaxAttempts,
           outcome : {"none", "succeeded", "failed", "uncertain"}]

\* The steps between the checks on the claimed Server and the end of its reservation.
Working == {"contact", "pinRead", "pinPatch", "probe", "fetch", "progress", "deliver", "verify",
            "trust", "confirm", "observeRead", "observePatch"}

\* What the locals l of a pass tell about the stored state.  A write that names a
\* revision nobody replaced meets the Server its pass has read.
LocalsSound(l) ==
  /\ l.pc \in Working => l.ssh.pair \in Pairs /\ l.ssh.installed \in {None, l.ssh.pair}
  /\ l.pc \in {"progress", "deliver"} /\ l.ssh.pin # None => <<l.reset, l.ssh.pin>> \in pinned
  /\ l.pc \in {"observeRead", "observePatch"} => l.ssh.pair \in proved
  /\ l.pc \in Patching /\ ~l.stale =>
       \A field \in {"pair", "pin", "installed"} : l.ssh[field] = hostSSH[field]
  /\ l.pc = "pinPatch" /\ ~l.stale => hostSSH.pin = None /\ hostSSH.installed = None

\* A stored pin is one of the present enrollment, and Ready was proved.
StoreSound ==
  /\ hostSSH.pin # None => <<resets, hostSSH.pin>> \in pinned
  /\ hostSSH.phase = "Ready" => hostSSH.installed \in proved

Inv ==
  /\ TypeOK
  /\ StoreSound
  /\ \A e \in Executor : LocalsSound(pass[e])
  /\ DeliveredToPinned

-----------------------------------------------------------------------------
\* The keys are what machines and key pairs are named by.
LEMMA KeyTypes ==
  /\ \A k \in Pairs : Managed(k) \in Keys
  /\ \A m \in Machine : Own(m) \in Keys
  /\ TypeOK => Presented \in Keys
  BY DEF Keys, TypeOK, Presented

\* A pass that has not begun claims nothing about the Server.
LEMMA FreshTyped ==
  /\ Fresh \in Locals /\ LocalsSound(Fresh) /\ Fresh.pc = "idle"
  /\ NewSSH \in SSH
  /\ Free \in [by : Executor \cup {None}, phase : {"Released", "Running", "Uncertain"}]
  BY ConstantsAssumption
     DEF ConstantsAssumption, Fresh, NewSSH, Free, Locals, SSH, PCs, LocalsSound, Working, Patching

\* A step that only changes the locals of its pass needs sound locals only.
LEMMA LocalStep ==
  ASSUME Inv, NEW e \in Executor, NEW l \in Locals, LocalsSound(l), Local(e, l),
         faults' \in 0 .. MaxFaults
  PROVE  Inv'
  <1>1. pass' \in [Executor -> Locals] /\ pass'[e] = l
        /\ \A x \in Executor \ {e} : pass'[x] = pass[x]
    BY DEF Inv, TypeOK, Local, Locals
  <1>2. UNCHANGED <<hostSSH, claim, machine, hostKey, resets, pinned, delivered, proved>>
    BY DEF Local, server, node, history
  <1>3. TypeOK'
    BY <1>1, <1>2 DEF Inv, TypeOK, Locals
  <1>4. StoreSound' /\ DeliveredToPinned'
    BY <1>2 DEF Inv, StoreSound, DeliveredToPinned
  <1>5. \A x \in Executor : LocalsSound(pass[x])'
    BY <1>1, <1>2 DEF Inv, LocalsSound
  <1> QED
    BY <1>3, <1>4, <1>5 DEF Inv

\* A write of the Server puts every revision that is about to be named out of date.
LEMMA WriteStep ==
  ASSUME Inv, NEW who, NEW l, WrittenBy(who, l),
         who \in Executor => l \in Locals /\ LocalsSound(l) /\ l.pc \notin Patching,
         pinned \subseteq pinned', UNCHANGED proved
  PROVE  /\ pass' \in [Executor -> Locals]
         /\ \A x \in Executor : LocalsSound(pass[x])'
  <1>1. pass \in [Executor -> Locals]
    BY DEF Inv, TypeOK, Locals
  <1>2. ASSUME NEW x \in Executor PROVE pass'[x] \in Locals /\ LocalsSound(pass[x])'
    <2>1. CASE x = who
      <3>1. pass'[x] = l
        BY <2>1 DEF WrittenBy
      <3> QED
        BY <2>1, <3>1 DEF LocalsSound, Patching
    <2>2. CASE x # who /\ pass[x].pc \in Patching
      <3>1. pass'[x] = [pass[x] EXCEPT !.stale = TRUE]
        BY <2>2 DEF WrittenBy
      <3>2. /\ pass'[x] \in Locals /\ pass'[x].stale
            /\ pass'[x].pc = pass[x].pc /\ pass'[x].ssh = pass[x].ssh
        BY <1>1, <3>1 DEF Locals
      <3> QED
        BY <2>2, <3>2 DEF Inv, LocalsSound, Patching
    <2>3. CASE x # who /\ pass[x].pc \notin Patching
      <3>1. pass'[x] = pass[x]
        BY <2>3 DEF WrittenBy
      <3> QED
        BY <1>1, <2>3, <3>1 DEF Inv, LocalsSound, Patching
    <2> QED
      BY <2>1, <2>2, <2>3
  <1> QED
    BY <1>2 DEF WrittenBy

\* A step that changes the claim only.
LEMMA ClaimStep ==
  ASSUME Inv, NEW who, NEW l, WrittenBy(who, l),
         who \in Executor => l \in Locals /\ LocalsSound(l) /\ l.pc \notin Patching,
         claim' \in [by : Executor \cup {None}, phase : {"Released", "Running", "Uncertain"}],
         UNCHANGED <<hostSSH, node, resets, history>>, faults' \in 0 .. MaxFaults
  PROVE  Inv'
  <1>1. UNCHANGED <<hostSSH, machine, hostKey, resets, pinned, delivered, proved>>
    BY DEF node, history
  <1>2. pass' \in [Executor -> Locals] /\ \A x \in Executor : LocalsSound(pass[x])'
    BY <1>1, WriteStep
  <1>3. TypeOK'
    BY <1>1, <1>2 DEF Inv, TypeOK, Locals
  <1>4. StoreSound' /\ DeliveredToPinned'
    BY <1>1 DEF Inv, StoreSound, DeliveredToPinned
  <1> QED
    BY <1>2, <1>3, <1>4 DEF Inv

\* The locals of a pass keep their soundness while it only moves on, or gives up.
LEMMA MoveTyped ==
  ASSUME Inv, NEW e \in Executor
  PROVE  /\ pass[e] \in Locals /\ LocalsSound(pass[e])
         /\ \A pc \in PCs : [pass[e] EXCEPT !.pc = pc] \in Locals
         /\ \A result \in {"succeeded", "failed", "uncertain"} :
              Raised(e, result) \in Locals /\ LocalsSound(Raised(e, result))
              /\ Raised(e, result).pc = "complete"
         /\ Reporting(e) \in Locals /\ LocalsSound(Reporting(e)) /\ Reporting(e).pc = "reportRead"
  <1>1. pass[e] \in Locals /\ LocalsSound(pass[e])
    BY DEF Inv, TypeOK, Locals
  <1>2. \A pc \in PCs : [pass[e] EXCEPT !.pc = pc] \in Locals
    BY <1>1 DEF Locals
  <1>3. ASSUME NEW result \in {"succeeded", "failed", "uncertain"}
        PROVE  Raised(e, result) \in Locals /\ LocalsSound(Raised(e, result))
               /\ Raised(e, result).pc = "complete"
    <2>1. Raised(e, result) \in Locals /\ Raised(e, result).pc = "complete"
      BY <1>1 DEF Locals, Raised, PCs
    <2> QED
      BY <2>1 DEF LocalsSound, Working, Patching
  <1>4. Reporting(e) \in Locals /\ LocalsSound(Reporting(e)) /\ Reporting(e).pc = "reportRead"
    <2>0. 0 \in 0 .. MaxAttempts
      BY ConstantsAssumption DEF ConstantsAssumption
    <2>1. Reporting(e) \in Locals /\ Reporting(e).pc = "reportRead"
      BY <1>1, <2>0 DEF Locals, Reporting, PCs
    <2> QED
      BY <2>1 DEF LocalsSound, Working, Patching
  <1> QED
    BY <1>1, <1>2, <1>3, <1>4

\* An exception in the body of reservation().
LEMMA RaiseStep ==
  ASSUME Inv, NEW e \in Executor, NEW result \in {"succeeded", "failed", "uncertain"},
         Raise(e, result), faults' \in 0 .. MaxFaults
  PROVE  Inv'
  BY MoveTyped, LocalStep DEF Raise

\* A pass that ends without one.
LEMMA LeaveStep ==
  ASSUME Inv, NEW e \in Executor, Leave(e), faults' \in 0 .. MaxFaults
  PROVE  Inv'
  BY FreshTyped, LocalStep DEF Leave

-----------------------------------------------------------------------------
\* Every step of a pass up to its first write keeps the invariant ...
LEMMA EarlySteps ==
  ASSUME Inv, NEW e \in Executor, faults' \in 0 .. MaxFaults,
         Begin(e) \/ Reserve(e) \/ Inspect(e) \/ Contact(e) \/ PinRead(e)
  PROVE  Inv'
  <1>0. /\ pass[e] \in Locals /\ LocalsSound(pass[e])
        /\ hostSSH \in SSH /\ claim.by \in Executor \cup {None} /\ resets \in 0 .. MaxResets
    BY MoveTyped DEF Inv, TypeOK
  <1>1. CASE Begin(e)
    <2> DEFINE l == [Fresh EXCEPT !.pc = "reserve", !.ssh = hostSSH, !.by = claim.by, !.reset = resets]
    <2>1. l \in Locals /\ l.pc = "reserve"
      BY <1>0, FreshTyped DEF Locals, PCs
    <2>2. LocalsSound(l)
      BY <2>1 DEF LocalsSound, Working, Patching
    <2>3. Local(e, l)
      BY <1>1 DEF Begin
    <2> QED
      BY <2>1, <2>2, <2>3, LocalStep
  <1>2. CASE Reserve(e)
    <2> DEFINE l == [Fresh EXCEPT !.pc = "inspect", !.ssh = hostSSH, !.by = e, !.reset = resets]
    <2>1. l \in Locals /\ l.pc = "inspect"
      BY <1>0, FreshTyped DEF Locals, PCs
    <2>2. LocalsSound(l) /\ l.pc \notin Patching
      BY <2>1 DEF LocalsSound, Working, Patching
    <2> HIDE DEF l
    <2>3. CASE WrittenBy(e, l) /\ claim' = [by |-> e, phase |-> "Running"]
               /\ UNCHANGED <<hostSSH, node, resets, history>>
      BY <2>1, <2>2, <2>3, ClaimStep
    <2>4. CASE Leave(e)
      BY <2>4, LeaveStep
    <2> QED
      BY <1>2, <2>3, <2>4 DEF Reserve, l
  <1>3. CASE Inspect(e)
    <2>0. pass[e].ssh.pair \in 0 .. MaxPairs
      BY <1>0 DEF Locals, SSH
    <2>1. ASSUME NEW pc \in {"contact", "probe"}, Step(e, pc), pass[e].ssh.pair # 0,
                 pass[e].ssh.installed \in {None, pass[e].ssh.pair}
          PROVE  Inv'
      <3> DEFINE l == [pass[e] EXCEPT !.pc = pc]
      <3>1. l \in Locals /\ l.pc = pc /\ l.ssh = pass[e].ssh
        BY <1>0 DEF Locals, PCs
      <3> HIDE DEF l
      <3>2. LocalsSound(l)
        BY <2>0, <2>1, <3>1, ConstantsAssumption
           DEF LocalsSound, Working, Patching, Pairs, ConstantsAssumption
      <3> QED
        BY <2>1, <3>1, <3>2, LocalStep DEF Step, l
    <2>2. CASE Raise(e, "succeeded") \/ Raise(e, "uncertain")
      BY <2>2, RaiseStep
    <2> QED
      BY <1>3, <2>1, <2>2 DEF Inspect
  <1>4. CASE Contact(e)
    <2> DEFINE l == [pass[e] EXCEPT !.pc = "pinRead", !.contact = Presented]
    <2>1. l \in Locals /\ l.pc = "pinRead" /\ l.ssh = pass[e].ssh
      BY <1>0, KeyTypes DEF Locals, PCs, Inv
    <2> HIDE DEF l
    <2>2. LocalsSound(l)
      BY <1>0, <1>4, <2>1 DEF LocalsSound, Working, Patching, Contact, At
    <2> QED
      BY <1>4, <2>1, <2>2, LocalStep DEF Contact, l
  <1>5. CASE PinRead(e)
    <2> DEFINE l == [pass[e] EXCEPT !.pc = "pinPatch", !.stale = FALSE]
    <2>1. l \in Locals /\ l.pc = "pinPatch" /\ l.ssh = pass[e].ssh
      BY <1>0 DEF Locals, PCs
    <2> HIDE DEF l
    <2>2. CASE Current(e) /\ hostSSH.pin = None /\ hostSSH.installed = None /\ Local(e, l)
      <3>1. LocalsSound(l)
        BY <1>0, <1>5, <2>1, <2>2 DEF LocalsSound, Working, Patching, PinRead, At, Current
      <3> QED
        BY <2>1, <2>2, <3>1, LocalStep
    <2>3. CASE Raise(e, "uncertain")
      BY <2>3, RaiseStep
    <2> QED
      BY <1>5, <2>2, <2>3 DEF PinRead, l
  <1> QED
    BY <1>1, <1>2, <1>3, <1>4, <1>5

\* ... and so does the pin write, whatever becomes of its answer: an unreplaced
\* revision means that nothing is pinned or installed yet.
LEMMA PinSteps ==
  ASSUME Inv, NEW e \in Executor, faults' \in 0 .. MaxFaults, PinPatch(e) \/ PinPatchLost(e)
  PROVE  Inv'
  <1>0. /\ pass[e] \in Locals /\ LocalsSound(pass[e]) /\ hostSSH \in SSH
        /\ resets \in 0 .. MaxResets
    BY MoveTyped DEF Inv, TypeOK
  <1>1. CASE Raise(e, "uncertain")
    BY <1>1, RaiseStep
  <1>2. ASSUME NEW l, pass[e].pc = "pinPatch", ~pass[e].stale, RecordPin(e, l), l \in Locals,
               LocalsSound(l), l.pc \notin Patching
        PROVE  Inv'
    <2>1. /\ hostSSH' = [hostSSH EXCEPT !.pin = pass[e].contact, !.phase = "BootstrapPinned"]
          /\ pinned' = pinned \cup {<<resets, pass[e].contact>>}
          /\ UNCHANGED <<claim, machine, hostKey, resets, delivered, proved>> /\ WrittenBy(e, l)
      BY <1>2 DEF RecordPin, node
    <2>2. pass' \in [Executor -> Locals] /\ \A x \in Executor : LocalsSound(pass[x])'
      BY <1>2, <2>1, WriteStep
    <2>3. /\ hostSSH.installed = None /\ hostSSH' \in SSH /\ hostSSH'.installed = hostSSH.installed
          /\ hostSSH'.pin = pass[e].contact /\ hostSSH'.phase = "BootstrapPinned"
      BY <1>0, <1>2, <2>1 DEF LocalsSound, SSH, Locals
    <2>4. TypeOK'
      BY <2>1, <2>2, <2>3 DEF Inv, TypeOK, Locals
    <2>5. StoreSound' /\ DeliveredToPinned'
      BY <2>1, <2>3 DEF Inv, StoreSound, DeliveredToPinned
    <2> QED
      BY <2>2, <2>4, <2>5 DEF Inv
  <1>3. CASE At(e, "pinPatch") /\ ~pass[e].stale /\ Enrolled(e)
    <2> DEFINE l == [pass[e] EXCEPT !.pc = "probe", !.ssh = hostSSH', !.reset = resets]
    <2>1. /\ hostSSH' \in SSH /\ hostSSH'.pair = hostSSH.pair
          /\ hostSSH'.installed = hostSSH.installed
      BY <1>0, <1>3 DEF Enrolled, RecordPin, SSH, Locals
    <2>2. l \in Locals /\ l.pc = "probe" /\ l.ssh = hostSSH'
      BY <1>0, <2>1 DEF Locals, PCs
    <2>3. LocalsSound(l)
      <3>1. hostSSH.pair \in Pairs /\ hostSSH.installed = None
        BY <1>0, <1>3 DEF LocalsSound, At, Working, Patching
      <3> HIDE DEF l
      <3> QED
        BY <2>1, <2>2, <3>1 DEF LocalsSound, Patching
    <2> HIDE DEF l
    <2>4. RecordPin(e, l)
      BY <1>3 DEF Enrolled, l
    <2> QED
      BY <1>2, <1>3, <2>2, <2>3, <2>4 DEF At, Patching
  <1>4. CASE PinPatchLost(e)
    <2>1. Raised(e, "uncertain") \in Locals /\ LocalsSound(Raised(e, "uncertain"))
          /\ Raised(e, "uncertain").pc = "complete"
      BY MoveTyped
    <2> QED
      BY <1>2, <1>4, <2>1 DEF PinPatchLost, At, Patching
  <1> QED
    BY <1>1, <1>3, <1>4 DEF PinPatch

\* The steps up to the delivery, which is made to a key of the known_hosts only.
LEMMA DeliverySteps ==
  ASSUME Inv, NEW e \in Executor, faults' \in 0 .. MaxFaults,
         Probe(e) \/ Fetch(e) \/ Progress(e) \/ Deliver(e) \/ DeliverFails(e)
  PROVE  Inv'
  <1>0. /\ pass[e] \in Locals /\ LocalsSound(pass[e]) /\ resets \in 0 .. MaxResets
    BY MoveTyped DEF Inv, TypeOK
  <1>1. ASSUME NEW result \in {"succeeded", "failed", "uncertain"}, Raise(e, result) PROVE Inv'
    BY <1>1, RaiseStep
  <1>2. ASSUME Probe(e), Step(e, "fetch") PROVE Inv'
    <2> DEFINE l == [pass[e] EXCEPT !.pc = "fetch"]
    <2>1. l \in Locals /\ l.pc = "fetch" /\ l.ssh = pass[e].ssh
      BY <1>0 DEF Locals, PCs
    <2> HIDE DEF l
    <2>2. LocalsSound(l)
      BY <1>0, <1>2, <2>1 DEF LocalsSound, Working, Patching, Probe, At
    <2> QED
      BY <1>2, <2>1, <2>2, LocalStep DEF Step, l
  <1>3. ASSUME Fetch(e), Current(e) PROVE Inv'
    <2> DEFINE l == [pass[e] EXCEPT !.pc = "progress", !.reset = resets]
    <2>1. l \in Locals /\ l.pc = "progress" /\ l.ssh = pass[e].ssh /\ l.reset = resets
      BY <1>0 DEF Locals, PCs
    <2>2. Local(e, l)
      BY <1>3 DEF Fetch
    <2> HIDE DEF l
    <2>3. LocalsSound(l)
      BY <1>0, <1>3, <2>1 DEF LocalsSound, Working, Patching, Fetch, At, Current, Inv, StoreSound
    <2> QED
      BY <2>1, <2>2, <2>3, LocalStep
  <1>4. ASSUME Progress(e), Step(e, "deliver") PROVE Inv'
    <2> DEFINE l == [pass[e] EXCEPT !.pc = "deliver"]
    <2>1. l \in Locals /\ l.pc = "deliver" /\ l.ssh = pass[e].ssh /\ l.reset = pass[e].reset
      BY <1>0 DEF Locals, PCs
    <2> HIDE DEF l
    <2>2. LocalsSound(l)
      BY <1>0, <1>4, <2>1 DEF LocalsSound, Working, Patching, Progress, At
    <2> QED
      BY <1>4, <2>1, <2>2, LocalStep DEF Step, l
  <1>5. ASSUME NEW l, Connected(e, l), l \in Locals, LocalsSound(l), hostKey' \in [Machine -> Keys]
        PROVE  Inv'
    <2>1. /\ pass[e].pc = "deliver" /\ Presented \in Known(e)
          /\ delivered' = delivered \cup {<<Presented, pass[e].ssh.pair, pass[e].reset>>}
          /\ pass' = [pass EXCEPT ![e] = l]
          /\ UNCHANGED <<hostSSH, claim, machine, resets, pinned, proved>>
      BY <1>5 DEF Connected, At, server
    <2>2. pass' \in [Executor -> Locals] /\ pass'[e] = l
          /\ \A x \in Executor \ {e} : pass'[x] = pass[x]
      BY <1>5, <2>1 DEF Inv, TypeOK, Locals
    <2>3. TypeOK'
      BY <1>5, <2>1, <2>2 DEF Inv, TypeOK, Locals
    <2>4. \A x \in Executor : LocalsSound(pass[x])'
      BY <1>5, <2>1, <2>2 DEF Inv, LocalsSound
    <2>5. \/ Presented = Managed(pass[e].ssh.pair)
          \/ <<pass[e].reset, Presented>> \in pinned
      BY <1>0, <2>1 DEF Known, LocalsSound
    <2>6. StoreSound' /\ DeliveredToPinned'
      BY <2>1, <2>5 DEF Inv, StoreSound, DeliveredToPinned
    <2> QED
      BY <2>3, <2>4, <2>6 DEF Inv
  <1>6. ASSUME Connected(e, [pass[e] EXCEPT !.pc = "verify"]),
               hostKey' = [hostKey EXCEPT ![machine] = Managed(pass[e].ssh.pair)]
        PROVE  Inv'
    <2> DEFINE l == [pass[e] EXCEPT !.pc = "verify"]
    <2>1. l \in Locals /\ l.pc = "verify" /\ l.ssh = pass[e].ssh
      BY <1>0 DEF Locals, PCs
    <2>2. Connected(e, l)
      BY <1>6
    <2> HIDE DEF l
    <2>3. pass[e].ssh.pair \in Pairs
      BY <1>0, <1>6 DEF LocalsSound, Working, Connected, At
    <2>4. LocalsSound(l)
      BY <1>0, <1>6, <2>1 DEF LocalsSound, Working, Patching, Connected, At
    <2>5. hostKey' \in [Machine -> Keys]
      BY <1>6, <2>3, KeyTypes DEF Inv, TypeOK
    <2> QED
      BY <1>5, <2>1, <2>2, <2>4, <2>5
  <1>7. CASE DeliverFails(e)
    <2>1. hostKey' \in [Machine -> Keys]
      BY <1>7 DEF DeliverFails, Inv, TypeOK
    <2> QED
      BY <1>5, <1>7, <2>1, MoveTyped DEF DeliverFails
  <1> QED
    BY <1>1, <1>2, <1>3, <1>4, <1>6, <1>7 DEF Probe, Fetch, Progress, Deliver

\* The verification over fresh connections, which alone leads to a report.
LEMMA VerifySteps ==
  ASSUME Inv, NEW e \in Executor, faults' \in 0 .. MaxFaults, Verify(e) \/ Trust(e) \/ TrustFails(e)
  PROVE  Inv'
  <1>0. pass[e] \in Locals /\ LocalsSound(pass[e])
    BY MoveTyped
  <1>1. ASSUME NEW result \in {"succeeded", "failed", "uncertain"}, Raise(e, result) PROVE Inv'
    BY <1>1, RaiseStep
  <1>2. ASSUME Trust(e), Step(e, "confirm") PROVE Inv'
    <2> DEFINE l == [pass[e] EXCEPT !.pc = "confirm"]
    <2>1. l \in Locals /\ l.pc = "confirm" /\ l.ssh = pass[e].ssh
      BY <1>0 DEF Locals, PCs
    <2> HIDE DEF l
    <2>2. LocalsSound(l)
      BY <1>0, <1>2, <2>1 DEF LocalsSound, Working, Patching, Trust, At
    <2> QED
      BY <1>2, <2>1, <2>2, LocalStep DEF Step, l
  <1>3. ASSUME pass[e].pc \in {"verify", "confirm"}, ShowsManaged(e), Verified(e) PROVE Inv'
    <2>1. /\ UNCHANGED <<hostSSH, claim, machine, hostKey, resets, pinned, delivered>>
          /\ proved \subseteq proved'
          /\ pass[e].pc = "confirm" => pass[e].ssh.pair \in proved'
          /\ pass' = [pass EXCEPT ![e].pc = AfterVerify[@]]
      BY <1>3 DEF Verified, server, node, At
    <2>2. /\ pass' \in [Executor -> Locals]
          /\ \A x \in Executor \ {e} : pass'[x] = pass[x]
          /\ pass'[e].ssh = pass[e].ssh
          /\ pass'[e].pc = IF pass[e].pc = "verify" THEN "trust" ELSE "observeRead"
      BY <1>0, <1>3, <2>1 DEF Inv, TypeOK, Locals, PCs, AfterVerify
    <2>3. TypeOK'
      BY <2>1, <2>2 DEF Inv, TypeOK, Locals
    <2>4. \A x \in Executor \ {e} : LocalsSound(pass[x])'
      BY <2>1, <2>2 DEF Inv, LocalsSound
    <2>5. LocalsSound(pass[e])'
      BY <1>0, <1>3, <2>1, <2>2 DEF LocalsSound, Working, Patching
    <2>6. StoreSound' /\ DeliveredToPinned'
      BY <2>1 DEF Inv, StoreSound, DeliveredToPinned
    <2> QED
      BY <2>3, <2>4, <2>5, <2>6 DEF Inv
  <1> QED
    BY <1>1, <1>2, <1>3 DEF Verify, Trust, TrustFails

\* The report of a verified identity.
LEMMA ObserveSteps ==
  ASSUME Inv, NEW e \in Executor, faults' \in 0 .. MaxFaults,
         ObserveRead(e) \/ ObservePatch(e) \/ ObservePatchLost(e)
  PROVE  Inv'
  <1>0. /\ pass[e] \in Locals /\ LocalsSound(pass[e]) /\ hostSSH \in SSH
        /\ pass[e].attempts \in 0 .. MaxAttempts
    BY MoveTyped DEF Inv, TypeOK, Locals
  <1>1. ASSUME Raise(e, "uncertain") PROVE Inv'
    BY <1>1, RaiseStep
  <1>2. ASSUME At(e, "observeRead"), Current(e), pass[e].attempts < MaxAttempts,
               Local(e, [pass[e] EXCEPT !.pc = "observePatch", !.stale = FALSE, !.attempts = @ + 1])
        PROVE  Inv'
    <2> DEFINE l == [pass[e] EXCEPT !.pc = "observePatch", !.stale = FALSE, !.attempts = @ + 1]
    <2>1. pass[e].attempts + 1 \in 0 .. MaxAttempts
      BY <1>0, <1>2, ConstantsAssumption DEF ConstantsAssumption
    <2>2. l \in Locals /\ l.pc = "observePatch" /\ l.ssh = pass[e].ssh
      BY <1>0, <2>1 DEF Locals, PCs
    <2>3. Local(e, l)
      BY <1>2
    <2> HIDE DEF l
    <2>4. LocalsSound(l)
      BY <1>0, <1>2, <2>2 DEF LocalsSound, Working, At, Current
    <2> QED
      BY <2>2, <2>3, <2>4, LocalStep
  <1>3. ASSUME At(e, "observePatch"), Step(e, "observeRead") PROVE Inv'
    <2> DEFINE l == [pass[e] EXCEPT !.pc = "observeRead"]
    <2>1. l \in Locals /\ l.pc = "observeRead" /\ l.ssh = pass[e].ssh
      BY <1>0 DEF Locals, PCs
    <2> HIDE DEF l
    <2>2. LocalsSound(l)
      BY <1>0, <1>3, <2>1 DEF LocalsSound, Working, Patching, At
    <2> QED
      BY <1>3, <2>1, <2>2, LocalStep DEF Step, l
  <1>4. ASSUME NEW result \in {"succeeded", "uncertain"}, ~pass[e].stale, Observed(e, None, result)
        PROVE  Inv'
    <2>1. /\ pass[e].pc = "observePatch"
          /\ hostSSH' = [hostSSH EXCEPT !.pin = None, !.installed = pass[e].ssh.pair, !.phase = "Ready"]
          /\ UNCHANGED <<claim, machine, hostKey, resets, pinned, delivered, proved>>
          /\ WrittenBy(e, Raised(e, result))
      BY <1>4 DEF Observed, At, node, history
    <2>2. pass' \in [Executor -> Locals] /\ \A x \in Executor : LocalsSound(pass[x])'
      <3>1. Raised(e, result) \in Locals /\ LocalsSound(Raised(e, result))
            /\ Raised(e, result).pc \notin Patching
        BY <1>4, MoveTyped DEF Patching
      <3> QED
        BY <2>1, <3>1, WriteStep
    <2>3. pass[e].ssh.pair \in Pairs /\ pass[e].ssh.pair \in proved
      BY <1>0, <2>1 DEF LocalsSound, Working
    <2>4. /\ hostSSH' \in SSH /\ hostSSH'.installed = pass[e].ssh.pair /\ hostSSH'.pin = None
      BY <1>0, <2>1, <2>3 DEF SSH
    <2>5. TypeOK'
      BY <2>1, <2>2, <2>4 DEF Inv, TypeOK, Locals
    <2>6. StoreSound' /\ DeliveredToPinned'
      BY <2>1, <2>3, <2>4 DEF Inv, StoreSound, DeliveredToPinned
    <2> QED
      BY <2>2, <2>5, <2>6 DEF Inv
  <1> QED
    BY <1>1, <1>2, <1>3, <1>4 DEF ObserveRead, Reread, ObservePatch, ObservePatchLost

\* The end of a reservation, and the report of a failure.
LEMMA EndSteps ==
  ASSUME Inv, NEW e \in Executor, faults' \in 0 .. MaxFaults,
         Complete(e) \/ CompleteFails(e) \/ ReportRead(e) \/ ReportPatch(e)
  PROVE  Inv'
  <1>0. /\ pass[e] \in Locals /\ LocalsSound(pass[e]) /\ hostSSH \in SSH
        /\ claim \in [by : Executor \cup {None}, phase : {"Released", "Running", "Uncertain"}]
        /\ pass[e].attempts \in 0 .. MaxAttempts
    BY MoveTyped DEF Inv, TypeOK, Locals
  <1>1. ASSUME Local(e, Reporting(e)) PROVE Inv'
    BY <1>1, MoveTyped, LocalStep
  <1>2. ASSUME Leave(e) PROVE Inv'
    BY <1>2, LeaveStep
  <1>3. ASSUME claim' = IF pass[e].outcome = "uncertain" THEN [claim EXCEPT !.phase = "Uncertain"]
                        ELSE Free,
               WrittenBy(e, IF pass[e].outcome = "succeeded" THEN Fresh ELSE Reporting(e)),
               UNCHANGED <<hostSSH, node, resets, history>>
        PROVE  Inv'
    <2> DEFINE l == IF pass[e].outcome = "succeeded" THEN Fresh ELSE Reporting(e)
    <2>1. l \in Locals /\ LocalsSound(l) /\ l.pc \notin Patching
      BY FreshTyped, MoveTyped DEF Patching
    <2>2. claim' \in [by : Executor \cup {None}, phase : {"Released", "Running", "Uncertain"}]
      BY <1>0, <1>3, FreshTyped
    <2> QED
      BY <1>3, <2>1, <2>2, ClaimStep
  <1>4. ASSUME At(e, "reportRead"), Current(e), pass[e].attempts < MaxAttempts,
               Local(e, [pass[e] EXCEPT !.pc = "reportPatch", !.stale = FALSE, !.attempts = @ + 1])
        PROVE  Inv'
    <2> DEFINE l == [pass[e] EXCEPT !.pc = "reportPatch", !.stale = FALSE, !.attempts = @ + 1]
    <2>1. pass[e].attempts + 1 \in 0 .. MaxAttempts
      BY <1>0, <1>4, ConstantsAssumption DEF ConstantsAssumption
    <2>2. l \in Locals /\ l.pc = "reportPatch" /\ l.ssh = pass[e].ssh
      BY <1>0, <2>1 DEF Locals, PCs
    <2>3. Local(e, l)
      BY <1>4
    <2> HIDE DEF l
    <2>4. LocalsSound(l)
      BY <1>4, <2>2 DEF LocalsSound, Working, Current
    <2> QED
      BY <2>2, <2>3, <2>4, LocalStep
  <1>5. ASSUME Step(e, "reportRead") PROVE Inv'
    <2> DEFINE l == [pass[e] EXCEPT !.pc = "reportRead"]
    <2>1. l \in Locals /\ l.pc = "reportRead"
      BY <1>0 DEF Locals, PCs
    <2> HIDE DEF l
    <2>2. LocalsSound(l)
      BY <2>1 DEF LocalsSound, Working, Patching
    <2> QED
      BY <1>5, <2>1, <2>2, LocalStep DEF Step, l
  <1>6. ASSUME hostSSH' = [hostSSH EXCEPT !.phase = "Failed"], WrittenBy(e, Fresh),
               UNCHANGED <<claim, node, resets, history>>
        PROVE  Inv'
    <2>1. /\ UNCHANGED <<claim, machine, hostKey, resets, pinned, delivered, proved>>
          /\ hostSSH' \in SSH /\ hostSSH'.installed = hostSSH.installed /\ hostSSH'.pin = hostSSH.pin
          /\ hostSSH'.phase = "Failed"
      BY <1>0, <1>6 DEF node, history, SSH
    <2>2. pass' \in [Executor -> Locals] /\ \A x \in Executor : LocalsSound(pass[x])'
      BY <1>6, <2>1, WriteStep, FreshTyped DEF Patching
    <2>3. TypeOK'
      BY <2>1, <2>2 DEF Inv, TypeOK, Locals
    <2>4. StoreSound' /\ DeliveredToPinned'
      BY <2>1 DEF Inv, StoreSound, DeliveredToPinned
    <2> QED
      BY <2>2, <2>3, <2>4 DEF Inv
  <1> QED
    BY <1>1, <1>2, <1>3, <1>4, <1>5, <1>6
       DEF Complete, CompleteFails, ReportRead, Reread, ReportPatch

\* Faults of a pass.
LEMMA FaultSteps ==
  ASSUME Inv, NEW e \in Executor, faults' \in 0 .. MaxFaults,
         Unreachable(e) \/ Terminate(e) \/ Kill(e)
  PROVE  Inv'
  <1>1. CASE Unreachable(e)
    BY <1>1, RaiseStep DEF Unreachable
  <1>2. CASE Terminate(e)
    <2>1. claim' \in [by : Executor \cup {None}, phase : {"Released", "Running", "Uncertain"}]
      BY <1>2 DEF Terminate, Inv, TypeOK
    <2>2. Fresh \in Locals /\ LocalsSound(Fresh) /\ Fresh.pc \notin Patching
      BY FreshTyped DEF Patching
    <2> QED
      BY <1>2, <2>1, <2>2, ClaimStep DEF Terminate
  <1>3. CASE Kill(e)
    BY <1>3, LeaveStep DEF Kill
  <1> QED
    BY <1>1, <1>2, <1>3

\* What others do to the Server and behind its address.
LEMMA OtherSteps ==
  ASSUME Inv, faults' \in 0 .. MaxFaults,
         Heartbeat \/ Resolve \/ ForceResolve \/ Rotate \/ Reset \/ Swap
  PROVE  Inv'
  <1> USE ConstantsAssumption DEF ConstantsAssumption
  <1>0. /\ hostSSH \in SSH /\ resets \in 0 .. MaxResets
        /\ claim \in [by : Executor \cup {None}, phase : {"Released", "Running", "Uncertain"}]
    BY DEF Inv, TypeOK
  <1>1. ASSUME WrittenBy(None, Fresh), pinned \subseteq pinned', UNCHANGED proved
        PROVE  pass' \in [Executor -> Locals] /\ \A x \in Executor : LocalsSound(pass[x])'
    BY <1>1, WriteStep
  <1>2. CASE Heartbeat
    BY <1>0, <1>2, ClaimStep DEF Heartbeat, server
  <1>3. CASE Resolve \/ ForceResolve
    BY <1>3, FreshTyped, ClaimStep DEF Resolve, ForceResolve, Freed
  <1>4. CASE Rotate
    <2>1. /\ UNCHANGED <<claim, machine, hostKey, resets, pinned, delivered, proved>>
          /\ WrittenBy(None, Fresh)
          /\ hostSSH' = [hostSSH EXCEPT !.pair = hostSSH.pair + 1] /\ hostSSH.pair < MaxPairs
      BY <1>4 DEF Rotate, node, history
    <2>2. /\ hostSSH' \in SSH /\ hostSSH'.pin = hostSSH.pin /\ hostSSH'.phase = hostSSH.phase
          /\ hostSSH'.installed = hostSSH.installed
      BY <1>0, <2>1 DEF SSH
    <2>3. TypeOK'
      BY <1>1, <2>1, <2>2 DEF Inv, TypeOK, Locals
    <2>4. StoreSound' /\ DeliveredToPinned'
      BY <2>1, <2>2 DEF Inv, StoreSound, DeliveredToPinned
    <2> QED
      BY <1>1, <2>1, <2>3, <2>4 DEF Inv
  <1>5. CASE Reset
    <2>1. /\ UNCHANGED <<claim, machine, hostKey, pinned, delivered, proved>>
          /\ WrittenBy(None, Fresh)
          /\ hostSSH' = [hostSSH EXCEPT !.pin = None, !.installed = None, !.phase = "Pending"]
          /\ resets' \in 0 .. MaxResets
      BY <1>0, <1>5 DEF Reset, node, history
    <2>2. hostSSH' \in SSH /\ hostSSH'.pin = None /\ hostSSH'.phase = "Pending"
      BY <1>0, <2>1 DEF SSH
    <2>3. TypeOK'
      BY <1>1, <2>1, <2>2 DEF Inv, TypeOK, Locals
    <2>4. StoreSound' /\ DeliveredToPinned'
      BY <2>1, <2>2 DEF Inv, StoreSound, DeliveredToPinned
    <2> QED
      BY <1>1, <2>1, <2>3, <2>4 DEF Inv
  <1>6. CASE Swap
    <2>1. /\ UNCHANGED <<hostSSH, claim, hostKey, resets, pass, pinned, delivered, proved>>
          /\ machine' \in Machine
      BY <1>6 DEF Swap, server, history
    <2> QED
      BY <2>1 DEF Inv, TypeOK, StoreSound, LocalsSound, DeliveredToPinned
  <1> QED
    BY <1>2, <1>3, <1>4, <1>5, <1>6

-----------------------------------------------------------------------------
\* The inductive invariant holds initially,
LEMMA InvInit == Init => Inv
  <1> SUFFICES ASSUME Init PROVE Inv
    OBVIOUS
  <1>1. TypeOK
    BY FreshTyped, KeyTypes, ConstantsAssumption DEF ConstantsAssumption, Init, TypeOK, Locals, NewSSH
  <1>2. StoreSound /\ DeliveredToPinned
    BY DEF Init, NewSSH, StoreSound, DeliveredToPinned
  <1>3. \A e \in Executor : LocalsSound(pass[e])
    BY FreshTyped DEF Init
  <1> QED
    BY <1>1, <1>2, <1>3 DEF Inv

\* every step keeps it,
LEMMA InvStep == Inv /\ [Next]_vars => Inv'
  <1> SUFFICES ASSUME Inv, [Next]_vars PROVE Inv'
    OBVIOUS
  <1>1. CASE Next
    <2>1. faults' \in 0 .. MaxFaults
      BY <1>1, ConstantsAssumption DEF ConstantsAssumption, Next, Inv, TypeOK
    <2>2. ASSUME NEW e \in Executor, Pass(e) \/ Fault(e) PROVE Inv'
      BY <2>1, <2>2, EarlySteps, PinSteps, DeliverySteps, VerifySteps, ObserveSteps, EndSteps,
         FaultSteps DEF Pass, Fault
    <2>3. CASE Heartbeat \/ Resolve \/ ForceResolve \/ Rotate \/ Reset \/ Swap
      BY <2>1, <2>3, OtherSteps
    <2> QED
      BY <1>1, <2>2, <2>3 DEF Next
  <1>2. CASE UNCHANGED vars
    BY <1>2 DEF vars, server, node, history, Inv, TypeOK, StoreSound, LocalsSound, DeliveredToPinned
  <1> QED
    BY <1>1, <1>2

\* so it always holds.
LEMMA Invariance == Spec => []Inv
  BY InvInit, InvStep, PTL DEF Spec

\* Types hold for every set of machines and passes and all bounds, and an installed
\* identity has no pin besides it (pin_first_contact(), observation()).
THEOREM TypeCorrect == Spec => []TypeOK
  BY Invariance, PTL DEF Inv

\* The managed private key goes only to who already presents it or to a pin the API
\* had recorded in the same enrollment (pin_first_contact(), the delivery play).
THEOREM SecretsToPinned == Spec => []DeliveredToPinned
  BY Invariance, PTL DEF Inv

\* What ordinary commands accept was presented to a fresh connection after both plays
\* (observation(), prepare() of runner_trust).
THEOREM TrustIsProved == Spec => []AcceptedIsProved
  <1>1. Inv => AcceptedIsProved
    BY DEF Inv, StoreSound, AcceptedIsProved, Accepts
  <1> QED
    BY <1>1, Invariance, PTL

\* Who writes the identity of the Server, and what they found there: the pin is
\* recorded over none, and the verified pair is installed over none or over itself.
LEMMA WritesOfIdentity ==
  ASSUME Inv, Next
  PROVE  \/ hostSSH'.pin = hostSSH.pin /\ hostSSH'.installed = hostSSH.installed
         \/ hostSSH'.pin = None /\ hostSSH'.installed = None
         \/ hostSSH.pin = None /\ hostSSH.installed = None
         \/ hostSSH'.pin = None /\ hostSSH.installed \in {None, hostSSH'.installed}
  <1>0. hostSSH \in SSH
    BY DEF Inv, TypeOK
  <1>1. ASSUME NEW e \in Executor, NEW l, At(e, "pinPatch"), ~pass[e].stale, RecordPin(e, l)
        PROVE  hostSSH.pin = None /\ hostSSH.installed = None
    BY <1>1 DEF Inv, LocalsSound, Patching, At
  <1>2. ASSUME NEW e \in Executor, NEW result, ~pass[e].stale, Observed(e, None, result)
        PROVE  hostSSH'.pin = None /\ hostSSH.installed \in {None, hostSSH'.installed}
    <2>1. LocalsSound(pass[e]) /\ pass[e].pc = "observePatch"
      BY <1>2 DEF Inv, Observed, At
    <2>2. pass[e].ssh.installed = hostSSH.installed
      BY <1>2, <2>1 DEF LocalsSound, Patching
    <2>3. hostSSH.installed \in {None, pass[e].ssh.pair}
      BY <2>1, <2>2 DEF LocalsSound, Working
    <2> QED
      BY <1>0, <1>2, <2>3 DEF Observed, SSH
  <1>3. ASSUME NEW e \in Executor, Pass(e) \/ Fault(e),
               hostSSH'.pin # hostSSH.pin \/ hostSSH'.installed # hostSSH.installed
        PROVE  \/ \E l : At(e, "pinPatch") /\ ~pass[e].stale /\ RecordPin(e, l)
               \/ \E result : ~pass[e].stale /\ Observed(e, None, result)
    <2>1. hostSSH' # hostSSH
      BY <1>3
    <2>2. CASE PinPatch(e) \/ PinPatchLost(e)
      BY <2>1, <2>2 DEF PinPatch, PinPatchLost, Enrolled, Raise, Local, server
    <2>3. CASE ObservePatch(e) \/ ObservePatchLost(e)
      BY <2>1, <2>3 DEF ObservePatch, ObservePatchLost, Step, Local, server
    <2>4. CASE ReportPatch(e)
      <3>1. hostSSH' = [hostSSH EXCEPT !.phase = "Failed"]
        BY <2>1, <2>4 DEF ReportPatch, Step, Local, server
      <3> QED
        BY <1>0, <1>3, <3>1 DEF SSH
    <2>5. CASE Begin(e) \/ Reserve(e) \/ Inspect(e) \/ Contact(e) \/ PinRead(e) \/ Probe(e)
               \/ Fetch(e) \/ Progress(e)
      BY <2>1, <2>5 DEF Begin, Reserve, Inspect, Contact, PinRead, Probe, Fetch, Progress,
         Step, Raise, Leave, Local, server
    <2>6. CASE Deliver(e) \/ DeliverFails(e) \/ Verify(e) \/ Trust(e) \/ TrustFails(e)
      BY <2>1, <2>6 DEF Deliver, DeliverFails, Connected, Verify, Verified, Trust, TrustFails,
         Step, Raise, Local, server
    <2>7. CASE ObserveRead(e) \/ ReportRead(e) \/ Complete(e) \/ CompleteFails(e)
      BY <2>1, <2>7 DEF ObserveRead, ReportRead, Reread, Complete, CompleteFails,
         Raise, Leave, Local, server
    <2>8. CASE Unreachable(e) \/ Terminate(e) \/ Kill(e)
      BY <2>1, <2>8 DEF Unreachable, Terminate, Kill, Raise, Leave, Local, server
    <2> QED
      BY <1>3, <2>2, <2>3, <2>4, <2>5, <2>6, <2>7, <2>8 DEF Pass, Fault
  <1>4. CASE \E e \in Executor : Pass(e) \/ Fault(e)
    BY <1>1, <1>2, <1>3, <1>4
  <1>5. CASE Heartbeat \/ Resolve \/ ForceResolve \/ Swap
    BY <1>5 DEF Heartbeat, Resolve, ForceResolve, Freed, Swap, server
  <1>6. CASE Rotate
    BY <1>0, <1>6 DEF Rotate, SSH
  <1>7. CASE Reset
    BY <1>0, <1>7 DEF Reset, SSH
  <1> QED
    BY <1>4, <1>5, <1>6, <1>7 DEF Next

\* Of any number of passes that meet different machines only one enrolls: a pin is
\* never exchanged for another one (the If-Match write of pin_first_contact()).
THEOREM PinNotExchanged == Spec => OneEnrollment
  <1>1. Inv /\ [Next]_vars
          => [hostSSH.pin # None /\ hostSSH'.pin # None => hostSSH'.pin = hostSSH.pin]_vars
    BY WritesOfIdentity
  <1> QED
    BY <1>1, Invariance, PTL DEF Spec, OneEnrollment

\* An installed identity changes through a reset only, whatever happens between the
\* checks of a pass and its report (reconcile(), observation()).
THEOREM IdentityStays == Spec => EstablishedStays
  <1>1. Inv /\ [Next]_vars
          => [hostSSH.installed # None /\ hostSSH'.installed # None
                => hostSSH'.installed = hostSSH.installed]_vars
    BY WritesOfIdentity
  <1> QED
    BY <1>1, Invariance, PTL DEF Spec, EstablishedStays
=============================================================================
