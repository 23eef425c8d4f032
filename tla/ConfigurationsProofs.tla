------------------------ MODULE ConfigurationsProofs ------------------------
(***************************************************************************)
(* Proofs about the configuration operator, for every set of               *)
(* Configurations, hosts and passes and every graph of prerequisites: a    *)
(* host has one worker at a time, a Ready report stands on verified        *)
(* executions of the Configuration and of everything it depends on, and    *)
(* without faults only an edit leaves a host to an administrator.          *)
(*                                                                         *)
(* SoleWorker needs to know who owns a host whenever something may run on  *)
(* it: a pass owns exactly the hosts it counts (Owns), all of them while   *)
(* it works (Ranges), and what is left running stays covered by its claim  *)
(* until an administrator resolves that (Accounted).  ReadyIsGrounded      *)
(* needs what a pass carries from its plan to its report: the revision it  *)
(* planned, with every prerequisite verified at its part of it (Assured).  *)
(* RetainedAfterEdit needs that a pass with an old resourceVersion, or an  *)
(* unknown outcome, has listed an older generation than is stored          *)
(* (Honesty): without faults nothing but an edit makes its copy stale.     *)
(***************************************************************************)
EXTENDS Configurations, FiniteSetTheorems, TLAPS

SpecType == [generation : 0 .. MaxEdits, suspended : BOOLEAN]
Revisions ==
  {NoRevision} \cup {RevisionOf(c, g, m) :
                       c \in Config, g \in [Config -> 0 .. MaxEdits], m \in [Host -> 0 .. MaxChanges]}
StatusType == [phase : Phases, observed : 0 .. MaxEdits, revision : Revisions]
Outcomes == {"none", "suspended", "pending", "failed", "uncertain", "succeeded", "terminated"}
Locals ==
  [pc : PCs, at : Nat, listed : [Config -> SpecType], revision : Revisions,
   held : Nat, stage : 1 .. 3, outcome : Outcomes]
Owners == Executor \cup {"free", "retained"}

\* The API objects, the claims and the local states have their types.
ApiTyped ==
  /\ spec \in [Config -> SpecType] /\ status \in [Config -> StatusType]
  /\ inputs \in [Host -> 0 .. MaxChanges] /\ leased \in [Host -> BOOLEAN]
ClaimsTyped == owner \in [Host -> Owners] /\ orphans \in [Host -> Nat]

\* What is said of executor e in local state l.
At(e, l) == Order[e][l.at]
HeldIn(e, l) == {Hosts[At(e, l)][i] : i \in 1 .. l.held}

\* A pass is at one of its Configurations and holds a prefix of its hosts: none
\* outside execute(), all of them from the Reconciling report to the last check.
Working == {"reconciling", "reconcilePatch", "verify", "running", "confirm"}
Ranges(e, l) ==
  /\ l.at \in 1 .. Len(Order[e])
  /\ l.held \in 0 .. Len(Hosts[At(e, l)])
  /\ l.pc \in {"list", "plan", "report", "reportPatch"} => l.held = 0
  /\ l.pc \in Working => l.held = Len(Hosts[At(e, l)])

\* The stored claims of a pass are the ones it counts.
Owns(e, l) == \A h \in Host : owner[h] = e <=> h \in HeldIn(e, l)

\* A pass that leaves its claims without knowing how its work ended.
Unsure(l) == l.pc = "unwind" /\ l.outcome \in {"uncertain", "terminated"}
\* What is left running on a host is covered by a claim that is kept or will be.
Covered(h) ==
  \/ owner[h] = "retained"
  \/ owner[h] \in Executor /\ Unsure(ex[owner[h]])
Accounted(h) ==
  /\ leased[h] => owner[h] = "free"
  /\ orphans[h] \in {0, 1}
  /\ orphans[h] = 1 => Covered(h)

\* A revision of c is one whose prerequisites were all verified at their part of it.
Vouched(c, r) ==
  /\ RevisionOf(c, r.generations, r.members) = r
  /\ \A d \in Upstream(c) \ {c} : <<d, RevisionOf(d, r.generations, r.members)>> \in verified
Succeeded(l) == l.pc \in {"unwind", "report", "reportPatch"} /\ l.outcome = "succeeded"
Assured(e, l) ==
  /\ l.pc \in Working \cup {"claim"} \/ Succeeded(l) => Vouched(At(e, l), l.revision)
  /\ l.pc = "confirm" \/ Succeeded(l) => <<At(e, l), l.revision>> \in verified

Inv ==
  /\ ApiTyped /\ ClaimsTyped
  /\ ex \in [Executor -> Locals]
  /\ \A e \in Executor : Ranges(e, ex[e]) /\ Owns(e, ex[e]) /\ Assured(e, ex[e])
  /\ \A h \in Host : Accounted(h)
  /\ ReadyIsGrounded

-----------------------------------------------------------------------------
(* The graph of prerequisites and the revisions it gives.                  *)

\* What is upstream of a Configuration: itself, the prerequisites of what is
\* upstream, and nothing that a closed set with the Configuration does without.
LEMMA UpstreamFacts ==
  ASSUME NEW c \in Config
  PROVE  /\ c \in Upstream(c) /\ Upstream(c) \subseteq Config
         /\ Closed(Upstream(c))
         /\ \A S \in SUBSET Config : c \in S /\ Closed(S) => Upstream(c) \subseteq S
<1>1. DependsOn \in [Config -> SUBSET Config]
  BY ConstantsAssumption
<1>2. Upstream(c) = {d \in Config : \A S \in SUBSET Config : c \in S /\ Closed(S) => d \in S}
  BY DEF Upstream, Upstreams
<1>3. c \in Upstream(c) /\ Upstream(c) \subseteq Config
  BY <1>2
<1>4. \A S \in SUBSET Config : c \in S /\ Closed(S) => Upstream(c) \subseteq S
  BY <1>2
<1>5. ASSUME NEW d \in Upstream(c), NEW x \in DependsOn[d]
      PROVE  x \in Upstream(c)
  <2>1. d \in Config /\ x \in Config
    BY <1>1, <1>3, <1>5
  <2>2. ASSUME NEW S \in SUBSET Config, c \in S, Closed(S)
        PROVE  x \in S
    BY <1>4, <1>5, <2>2 DEF Closed
  <2> QED
    BY <1>2, <2>1, <2>2
<1>6. Closed(Upstream(c))
  BY <1>5 DEF Closed
<1> QED
  BY <1>3, <1>4, <1>6

\* What a prerequisite needs, its dependents need.
LEMMA UpstreamTransitive ==
  ASSUME NEW c \in Config, NEW d \in Upstream(c)
  PROVE  d \in Config /\ Upstream(d) \subseteq Upstream(c)
<1>1. d \in Config /\ Closed(Upstream(c)) /\ Upstream(c) \in SUBSET Config
  BY UpstreamFacts
<1> QED
  BY <1>1, UpstreamFacts

\* A Configuration on no cycle is not a prerequisite of its prerequisites.
LEMMA NoReturn ==
  ASSUME NEW c \in Config, Acyclic(c), NEW d \in Upstream(c) \ {c}
  PROVE  c \notin Upstream(d)
<1>1. DependsOn[c] \subseteq Config /\ c \in Upstream(c)
  BY ConstantsAssumption, UpstreamFacts
<1> DEFINE S == {c} \cup UNION {Upstream(x) : x \in DependsOn[c]}
<1>2. S \in SUBSET Config
  BY <1>1, UpstreamFacts
<1>3. ASSUME NEW y \in S
      PROVE  DependsOn[y] \subseteq S
  <2>1. CASE y = c
    <3>1. \A x \in DependsOn[c] : x \in Upstream(x)
      BY <1>1, UpstreamFacts
    <3> QED
      BY <2>1, <3>1
  <2>2. CASE y # c
    <3>1. PICK x \in DependsOn[c] : y \in Upstream(x)
      BY <1>3, <2>2
    <3>2. DependsOn[y] \subseteq Upstream(x)
      BY <1>1, <3>1, UpstreamFacts DEF Closed
    <3> QED
      BY <3>1, <3>2
  <2> QED
    BY <2>1, <2>2
<1>4. Upstream(c) \subseteq S
  <2>1. Closed(S)
    BY <1>3 DEF Closed
  <2> HIDE DEF S
  <2>2. c \in S
    BY DEF S
  <2> QED
    BY <1>2, <2>1, <2>2, UpstreamFacts
<1>5. PICK x \in DependsOn[c] : d \in Upstream(x)
  BY <1>4
<1>6. c \notin Upstream(x)
  BY <1>1 DEF Acyclic
<1>7. Upstream(d) \subseteq Upstream(x)
  BY <1>1, <1>5, UpstreamTransitive
<1> QED
  BY <1>6, <1>7

\* The hosts of a Configuration and of what is upstream of it.
Members(c) == UNION {HostSet(d) : d \in Upstream(c)}

\* The hosts of what is upstream are among the hosts a revision covers.
LEMMA MembersFacts ==
  ASSUME NEW c \in Config, NEW d \in Upstream(c)
  PROVE  Members(d) \subseteq Members(c) /\ Members(c) \subseteq Host
<1>1. Upstream(d) \subseteq Upstream(c) /\ Upstream(c) \subseteq Config
  BY UpstreamTransitive, UpstreamFacts
<1>2. \A x \in Config : HostSet(x) \subseteq Host
  BY ConstantsAssumption DEF HostSet
<1>3. Members(d) \subseteq Members(c)
  BY <1>1 DEF Members
<1> QED
  BY <1>1, <1>2, <1>3 DEF Members

\* The part of a revision that is a prerequisite's is the revision of the
\* prerequisite at the same inputs.
LEMMA PartOfRevision ==
  ASSUME NEW c \in Config, NEW d \in Upstream(c), NEW g, NEW m
  PROVE  RevisionOf(d, RevisionOf(c, g, m).generations, RevisionOf(c, g, m).members)
           = RevisionOf(d, g, m)
<1>1. Upstream(d) \subseteq Upstream(c) /\ Members(d) \subseteq Members(c)
  BY UpstreamTransitive, MembersFacts
<1> DEFINE r == RevisionOf(c, g, m)
<1>2. /\ r.generations = [x \in Upstream(c) |-> g[x]]
      /\ r.members = [h \in Members(c) |-> m[h]]
  BY DEF RevisionOf, Members
<1> HIDE DEF r
<1>3. [x \in Upstream(d) |-> r.generations[x]] = [x \in Upstream(d) |-> g[x]]
  BY <1>1, <1>2
<1>4. [h \in Members(d) |-> r.members[h]] = [h \in Members(d) |-> m[h]]
  BY <1>1, <1>2
<1>5. RevisionOf(d, r.generations, r.members) = RevisionOf(d, g, m)
  BY <1>3, <1>4 DEF RevisionOf, Members
<1> QED
  BY <1>5 DEF r

\* A revision depends on the specs upstream only.
LEMMA SameRevision ==
  ASSUME NEW c \in Config, NEW g, NEW k, NEW m, \A d \in Upstream(c) : g[d] = k[d]
  PROVE  RevisionOf(c, g, m) = RevisionOf(c, k, m)
<1>1. [x \in Upstream(c) |-> g[x]] = [x \in Upstream(c) |-> k[x]]
  OBVIOUS
<1> QED
  BY <1>1 DEF RevisionOf

-----------------------------------------------------------------------------
(* Steps of one pass.                                                      *)

\* What Inv says of one executor.
LEMMA OfExecutor ==
  ASSUME Inv, NEW e \in Executor
  PROVE  /\ ex[e] \in Locals /\ ex \in [Executor -> Locals]
         /\ Ranges(e, ex[e]) /\ Owns(e, ex[e]) /\ Assured(e, ex[e])
         /\ conf(e) = At(e, ex[e]) /\ conf(e) \in Config
         /\ Hosts[conf(e)] \in Seq(Host) /\ Len(Hosts[conf(e)]) \in Nat
         /\ ex[e].held \in Nat /\ ex[e].at \in Nat /\ Len(Order[e]) \in Nat
<1>1. ex[e] \in Locals /\ ex \in [Executor -> Locals] /\ Ranges(e, ex[e]) /\ Owns(e, ex[e])
      /\ Assured(e, ex[e])
  BY DEF Inv
<1>2. conf(e) = At(e, ex[e])
  BY DEF conf, At
<1>3. Order[e] \in Seq(Config) /\ ex[e].at \in 1 .. Len(Order[e])
  BY <1>1, ConstantsAssumption DEF Ranges
<1>4. conf(e) \in Config
  BY <1>3 DEF conf
<1>5. Hosts[conf(e)] \in Seq(Host)
  BY <1>4, ConstantsAssumption
<1> QED
  BY <1>1, <1>2, <1>3, <1>4, <1>5 DEF Locals

\* Nothing that was verified is forgotten, so what is assured stays assured.
LEMMA AssuredStays ==
  ASSUME verified \subseteq verified', NEW e \in Executor, NEW l, Assured(e, l)
  PROVE  Assured(e, l)'
<1>1. ASSUME NEW c, NEW r, Vouched(c, r)
      PROVE  Vouched(c, r)'
  BY <1>1 DEF Vouched
<1> QED
  BY <1>1 DEF Assured

\* A Ready report stays grounded while nothing verified is forgotten.
LEMMA ReadyStays ==
  ASSUME verified \subseteq verified', status' = status, ReadyIsGrounded
  PROVE  ReadyIsGrounded'
BY DEF ReadyIsGrounded, Grounded

\* A step of e that touches nobody else's claims keeps the invariant when it keeps
\* what the invariant says of e, of the hosts and of the API.
LEMMA StepOf ==
  ASSUME Inv, NEW e \in Executor, NEW l \in Locals, ex' = [ex EXCEPT ![e] = l],
         Ranges(e, l), Owns(e, l)', Assured(e, l)',
         \A f \in Executor \ {e} : \A h \in Host : owner'[h] = f <=> owner[h] = f,
         verified \subseteq verified', ApiTyped', ClaimsTyped',
         \A h \in Host : Accounted(h)', ReadyIsGrounded'
  PROVE  Inv'
<1>1. ex \in [Executor -> Locals]
  BY DEF Inv
<1>2. ex' \in [Executor -> Locals]
  BY <1>1
<1>3. ASSUME NEW f \in Executor
      PROVE  (Ranges(f, ex[f]) /\ Owns(f, ex[f]) /\ Assured(f, ex[f]))'
  <2>1. CASE f = e
    <3>1. ex'[f] = l
      BY <1>1, <2>1
    <3>2. Ranges(f, ex[f])'
      BY <2>1, <3>1 DEF Ranges, At
    <3>3. Owns(f, ex[f])'
      BY <2>1, <3>1 DEF Owns, HeldIn, At
    <3>4. Assured(f, ex[f])'
      BY <2>1, <3>1 DEF Assured, Succeeded, At
    <3> QED
      BY <3>2, <3>3, <3>4
  <2>2. CASE f # e
    <3>1. ex'[f] = ex[f] /\ Ranges(f, ex[f]) /\ Owns(f, ex[f]) /\ Assured(f, ex[f])
      BY <1>1, <2>2 DEF Inv
    <3>2. Ranges(f, ex[f])'
      BY <3>1 DEF Ranges, At
    <3>3. Owns(f, ex[f])'
      BY <2>2, <3>1 DEF Owns, HeldIn, At
    <3>4. Assured(f, ex[f])'
      <4>1. \A c, r : Vouched(c, r) => Vouched(c, r)'
        BY DEF Vouched
      <4> QED
        BY <3>1, <4>1 DEF Assured, Succeeded, At
    <3> QED
      BY <3>2, <3>3, <3>4
  <2> QED
    BY <2>1, <2>2
<1> QED
  BY <1>2, <1>3 DEF Inv

\* A pass that moves with its claims untouched.
LEMMA ClaimsKept ==
  ASSUME Inv, NEW e \in Executor, NEW l \in Locals, ex' = [ex EXCEPT ![e] = l],
         UNCHANGED <<leased, owner, orphans>>, verified \subseteq verified', ApiTyped', ReadyIsGrounded',
         Ranges(e, l), Assured(e, l)',
         \/ l.at = ex[e].at /\ l.held = ex[e].held
         \/ l.held = 0 /\ ex[e].held = 0,
         ex[e].pc = "unwind" => ex[e].held = 0
  PROVE  Inv'
<1>1. ex[e] \in Locals /\ ex \in [Executor -> Locals] /\ Owns(e, ex[e])
  BY OfExecutor
<1>2. HeldIn(e, l) = HeldIn(e, ex[e])
  BY DEF HeldIn, At
<1>3. Owns(e, l)'
  BY <1>1, <1>2 DEF Owns
<1>4. ASSUME NEW h \in Host
      PROVE  Accounted(h)'
  <2>1. Accounted(h)
    BY DEF Inv
  <2>2. ASSUME Covered(h)
        PROVE  Covered(h)'
    <3>1. CASE owner[h] = "retained"
      BY <3>1 DEF Covered
    <3>2. CASE owner[h] \in Executor /\ Unsure(ex[owner[h]]) /\ owner[h] # e
      <4>1. ex'[owner'[h]] = ex[owner[h]] /\ owner'[h] = owner[h]
        BY <1>1, <3>2
      <4> QED
        BY <3>2, <4>1 DEF Covered, Unsure
    <3>3. CASE Unsure(ex[e]) /\ owner[h] = e
      <4>1. h \in HeldIn(e, ex[e])
        BY <1>1, <3>3 DEF Owns
      <4>2. ex[e].held # 0
        BY <4>1 DEF HeldIn
      <4> QED
        BY <3>3, <4>2 DEF Unsure
    <3> QED
      BY <2>2, <3>1, <3>2, <3>3 DEF Covered
  <2> QED
    BY <2>1, <2>2 DEF Accounted
<1>5. ClaimsTyped'
  BY DEF Inv, ClaimsTyped
<1>6. \A f \in Executor \ {e} : \A h \in Host : owner'[h] = f <=> owner[h] = f
  OBVIOUS
<1> QED
  BY <1>3, <1>4, <1>5, <1>6, StepOf

\* The same when nothing else changes.
LEMMA LocalSound ==
  ASSUME Inv, NEW e \in Executor, NEW l \in Locals, Local(e, l), Ranges(e, l), Assured(e, l),
         \/ l.at = ex[e].at /\ l.held = ex[e].held
         \/ l.held = 0 /\ ex[e].held = 0,
         ex[e].pc = "unwind" => ex[e].held = 0
  PROVE  Inv'
<1>1. /\ ex' = [ex EXCEPT ![e] = l] /\ UNCHANGED <<leased, owner, orphans>>
      /\ UNCHANGED <<spec, status, inputs, leased, owner, orphans, verified>>
      /\ verified \subseteq verified'
  BY DEF Local, apiVars
<1>2. ApiTyped'
  BY <1>1 DEF Inv, ApiTyped
<1>3. ReadyIsGrounded'
  BY <1>1, ReadyStays DEF Inv
<1>4. Assured(e, l)'
  BY <1>1, AssuredStays
<1> QED
  BY <1>1, <1>2, <1>3, <1>4, ClaimsKept

\* A pass that gives up its execution: it keeps its claims to unwind them, and says
\* that it succeeded only after the last check.
LEMMA UnwindSound ==
  ASSUME Inv, NEW e \in Executor, NEW o \in Outcomes,
         o = "succeeded" => ex[e].pc = "confirm"
  PROVE  /\ Unwind(e, o) \in Locals
         /\ Ranges(e, Unwind(e, o)) /\ Assured(e, Unwind(e, o))
         /\ Unwind(e, o).at = ex[e].at /\ Unwind(e, o).held = ex[e].held
         /\ Unwind(e, o).pc = "unwind" /\ Unwind(e, o).outcome = o
<1>1. ex[e] \in Locals /\ Ranges(e, ex[e]) /\ Assured(e, ex[e])
  BY OfExecutor
<1> DEFINE l == Unwind(e, o)
<1>2. /\ l \in Locals
      /\ l.at = ex[e].at /\ l.held = ex[e].held /\ l.pc = "unwind" /\ l.outcome = o
      /\ l.revision = ex[e].revision
  BY <1>1 DEF Unwind, Locals, PCs
<1> HIDE DEF l
<1>3. Ranges(e, l)
  BY <1>1, <1>2 DEF Ranges, At, Working
<1>4. Assured(e, l)
  BY <1>1, <1>2 DEF Assured, Succeeded, At, Working
<1> QED
  BY <1>2, <1>3, <1>4 DEF l

\* The same as a step of its own.
LEMMA UnwindStep ==
  ASSUME Inv, NEW e \in Executor, NEW o \in Outcomes,
         ex[e].pc \in Working \cup {"claim"}, o = "succeeded" => ex[e].pc = "confirm",
         Local(e, Unwind(e, o))
  PROVE  Inv'
<1> DEFINE l == Unwind(e, o)
<1>1. l \in Locals /\ Ranges(e, l) /\ Assured(e, l) /\ l.at = ex[e].at /\ l.held = ex[e].held
  BY UnwindSound
<1>2. ex[e].pc # "unwind"
  BY DEF Working
<1>3. Local(e, l)
  OBVIOUS
<1> HIDE DEF l
<1> QED
  BY <1>1, <1>2, <1>3, LocalSound

\* The beginning of a pass, and the next Configuration of one.
LEMMA IdleSound ==
  ASSUME NEW e \in Executor
  PROVE  /\ Idle \in Locals /\ Ranges(e, Idle) /\ Assured(e, Idle)
         /\ Idle.held = 0 /\ Idle.at = 1 /\ Idle.pc = "list"
<1>1. Order[e] \in Seq(Config) /\ Order[e] # <<>>
  BY ConstantsAssumption
<1>2. Len(Order[e]) \in Nat /\ 1 \in 1 .. Len(Order[e])
  BY <1>1
<1>3. Hosts[Order[e][1]] \in Seq(Host)
  BY <1>1, <1>2, ConstantsAssumption
<1>4. NewSpec \in SpecType
  BY ConstantsAssumption DEF NewSpec, SpecType
<1>5. Idle.pc = "list" /\ Idle.at = 1 /\ Idle.held = 0 /\ Idle.outcome = "none"
  BY DEF Idle
<1>6. Idle \in Locals
  BY <1>4 DEF Idle, Locals, PCs, Revisions, Outcomes
<1> HIDE DEF Idle
<1>7. Ranges(e, Idle)
  BY <1>2, <1>3, <1>5 DEF Ranges, At, Working
<1>8. Assured(e, Idle)
  BY <1>5 DEF Assured, Succeeded, Working
<1> QED
  BY <1>5, <1>6, <1>7, <1>8

\* The pass goes on to its next Configuration without claims.
LEMMA AdvanceSound ==
  ASSUME Inv, NEW e \in Executor
  PROVE  Advance(e) \in Locals /\ Ranges(e, Advance(e)) /\ Assured(e, Advance(e)) /\ Advance(e).held = 0
<1>1. CASE ex[e].at = Len(Order[e])
  BY <1>1, IdleSound DEF Advance
<1>2. CASE ex[e].at # Len(Order[e])
  <2>1. ex[e] \in Locals /\ Ranges(e, ex[e]) /\ Len(Order[e]) \in Nat /\ Idle \in Locals /\ Idle.held = 0
    BY OfExecutor, IdleSound
  <2>2. Order[e] \in Seq(Config) /\ ex[e].at + 1 \in 1 .. Len(Order[e])
    BY <1>2, <2>1, ConstantsAssumption DEF Ranges, Locals
  <2>3. Hosts[Order[e][ex[e].at + 1]] \in Seq(Host)
    BY <2>2, ConstantsAssumption
  <2> DEFINE n == ex[e].at + 1
             l == [Idle EXCEPT !.pc = "plan", !.at = n, !.listed = ex[e].listed]
  <2>4. Advance(e) = l
    BY <1>2 DEF Advance
  <2>n. n \in Nat /\ n \in 1 .. Len(Order[e]) /\ Hosts[Order[e][n]] \in Seq(Host)
    BY <2>1, <2>2, <2>3
  <2> HIDE DEF n
  <2>5. l.at = n /\ l.pc = "plan" /\ l.held = 0
    BY <2>1 DEF Locals
  <2>6. l \in Locals
    BY <2>1, <2>n DEF Locals, PCs
  <2> HIDE DEF l
  <2>7. Ranges(e, l)
    BY <2>n, <2>5 DEF Ranges, At, Working
  <2>8. Assured(e, l)
    BY <2>5 DEF Assured, Succeeded, Working
  <2> QED
    BY <2>4, <2>5, <2>6, <2>7, <2>8
<1> QED
  BY <1>1, <1>2

\* The step of a pass to another place of the same execution.
LEMMA MoveSound ==
  ASSUME Inv, NEW e \in Executor, NEW l \in Locals,
         ex[e].pc \in Working \cup {"claim"}, ex[e].held = Len(Hosts[conf(e)]),
         l.pc \in {"reconciling", "reconcilePatch", "verify", "running"},
         l.at = ex[e].at, l.held = ex[e].held, l.revision = ex[e].revision
  PROVE  Ranges(e, l) /\ Assured(e, l)
<1>1. /\ ex[e] \in Locals /\ Ranges(e, ex[e]) /\ Assured(e, ex[e])
      /\ conf(e) = At(e, ex[e]) /\ At(e, l) = At(e, ex[e])
  BY OfExecutor DEF At
<1>2. Ranges(e, l)
  BY <1>1 DEF Ranges, Working
<1>3. Assured(e, l)
  BY <1>1 DEF Assured, Succeeded, Working
<1> QED
  BY <1>2, <1>3

\* The invariant holds at the start.
LEMMA InitInv ==
  ASSUME Init
  PROVE  Inv
<1>1. ApiTyped
  BY ConstantsAssumption DEF Init, ApiTyped, NewSpec, SpecType, StatusType, Revisions, Phases
<1>2. ClaimsTyped
  BY DEF Init, ClaimsTyped, Owners
<1>3. ex \in [Executor -> Locals]
  BY IdleSound DEF Init
<1>4. ASSUME NEW e \in Executor
      PROVE  Ranges(e, ex[e]) /\ Owns(e, ex[e]) /\ Assured(e, ex[e])
  <2>1. ex[e] = Idle /\ e # "free" /\ owner = [h \in Host |-> "free"]
    BY ConstantsAssumption DEF Init
  <2>2. HeldIn(e, Idle) = {}
    BY IdleSound DEF HeldIn
  <2>3. Owns(e, Idle)
    BY <2>1, <2>2 DEF Owns
  <2> QED
    BY <2>1, <2>3, IdleSound
<1>5. ASSUME NEW h \in Host
      PROVE  Accounted(h)
  BY DEF Init, Accounted
<1>6. ReadyIsGrounded
  BY DEF Init, ReadyIsGrounded
<1> QED
  BY <1>1, <1>2, <1>3, <1>4, <1>5, <1>6 DEF Inv

\* The one listing of a pass.
LEMMA ListInv ==
  ASSUME Inv, NEW e \in Executor, List(e)
  PROVE  Inv'
<1>1. ex[e] \in Locals /\ Ranges(e, ex[e]) /\ spec \in [Config -> SpecType]
  BY OfExecutor DEF Inv, ApiTyped
<1> DEFINE l == [ex[e] EXCEPT !.pc = "plan", !.listed = spec]
<1>2. l \in Locals /\ l.pc = "plan" /\ l.at = ex[e].at /\ l.held = ex[e].held
  BY <1>1 DEF Locals, PCs
<1>3. Local(e, l) /\ ex[e].pc = "list"
  BY DEF List
<1> HIDE DEF l
<1>4. Ranges(e, l) /\ Assured(e, l)
  BY <1>1, <1>2, <1>3 DEF Ranges, At, Working, Assured, Succeeded
<1> QED
  BY <1>2, <1>3, <1>4, LocalSound

\* A plan that is found: every prerequisite is Ready at its present inputs, which are
\* the ones of the plan since the Configuration is not among its own prerequisites.
LEMMA PlanIsVouched ==
  ASSUME Inv, NEW e \in Executor, Plannable(conf(e), Seen(e))
  PROVE  /\ Vouched(conf(e), Revision(conf(e), Seen(e)))
         /\ Revision(conf(e), Seen(e)) \in Revisions
<1> DEFINE c == conf(e)
           g == [d \in Config |-> Seen(e)[d].generation]
           k == [d \in Config |-> spec[d].generation]
           r == RevisionOf(c, g, inputs)
<1>1. /\ c \in Config /\ ex[e] \in Locals
      /\ spec \in [Config -> SpecType] /\ inputs \in [Host -> 0 .. MaxChanges]
  BY OfExecutor DEF Inv, ApiTyped
<1>2. Seen(e) \in [Config -> SpecType] /\ \A d \in Config \ {c} : Seen(e)[d] = spec[d]
  BY <1>1 DEF Seen, Locals
<1>3. g \in [Config -> 0 .. MaxEdits] /\ \A d \in Config \ {c} : g[d] = k[d]
  BY <1>2 DEF SpecType
<1>4. Revision(c, Seen(e)) = r /\ \A d \in Config : Revision(d, spec) = RevisionOf(d, k, inputs)
  BY DEF Revision
<1>5. Acyclic(c) /\ \A d \in Upstream(c) \ {c} : UpToDate(d)
  BY DEF Plannable, Available
<1> HIDE DEF c, g, k
<1>6. r \in Revisions
  BY <1>1, <1>3 DEF Revisions
<1> HIDE DEF r
<1>7. RevisionOf(c, r.generations, r.members) = r
  BY <1>1, UpstreamFacts, PartOfRevision DEF r
<1>8. ASSUME NEW d \in Upstream(c) \ {c}
      PROVE  <<d, RevisionOf(d, r.generations, r.members)>> \in verified
  <2>1. d \in Config /\ c \notin Upstream(d) /\ Upstream(d) \subseteq Config /\ d \in Upstream(d)
    BY <1>1, <1>5, UpstreamTransitive, UpstreamFacts, NoReturn
  <2>2. RevisionOf(d, r.generations, r.members) = RevisionOf(d, g, inputs)
    BY <1>1, PartOfRevision DEF r
  <2>3. RevisionOf(d, g, inputs) = RevisionOf(d, k, inputs)
    BY <1>3, <2>1, SameRevision
  <2>4. status[d].phase = "Ready" /\ status[d].revision = RevisionOf(d, k, inputs)
    BY <1>4, <1>5, <2>1 DEF UpToDate
  <2>5. <<d, RevisionOf(d, status[d].revision.generations, status[d].revision.members)>> \in verified
    BY <2>1, <2>4 DEF Inv, ReadyIsGrounded, Grounded
  <2>6. RevisionOf(d, status[d].revision.generations, status[d].revision.members)
          = RevisionOf(d, k, inputs)
    BY <2>1, <2>4, PartOfRevision
  <2> QED
    BY <2>2, <2>3, <2>5, <2>6
<1>9. Vouched(c, r)
  BY <1>7, <1>8 DEF Vouched
<1> QED
  BY <1>4, <1>6, <1>9 DEF c

\* The plan is made of what was listed and of what is reported Ready.
LEMMA PlanInv ==
  ASSUME Inv, NEW e \in Executor, Plan(e)
  PROVE  Inv'
<1>1. ex[e] \in Locals /\ Ranges(e, ex[e]) /\ ex[e].pc = "plan" /\ conf(e) = At(e, ex[e])
  BY OfExecutor DEF Plan
<1>2. CASE Plannable(conf(e), Seen(e))
           /\ Local(e, [ex[e] EXCEPT !.pc = "claim", !.revision = Revision(conf(e), Seen(e))])
  <2> DEFINE r == Revision(conf(e), Seen(e))
             l == [ex[e] EXCEPT !.pc = "claim", !.revision = r]
  <2>1. r \in Revisions /\ Vouched(conf(e), r)
    BY <1>2, PlanIsVouched
  <2>2. Local(e, l)
    BY <1>2
  <2> HIDE DEF r
  <2>3. /\ l \in Locals /\ l.pc = "claim" /\ l.at = ex[e].at /\ l.held = ex[e].held
        /\ l.revision = r
    BY <1>1, <2>1 DEF Locals, PCs
  <2> HIDE DEF l
  <2>4. Ranges(e, l) /\ At(e, l) = conf(e)
    BY <1>1, <2>3 DEF Ranges, At, Working
  <2>5. Assured(e, l)
    BY <2>1, <2>3, <2>4 DEF Assured, Succeeded, Working
  <2> QED
    BY <1>1, <2>2, <2>3, <2>4, <2>5, LocalSound
<1>3. ASSUME NEW o \in PlanFailures(e), Local(e, [ex[e] EXCEPT !.pc = "report", !.outcome = o])
      PROVE  Inv'
  <2> DEFINE l == [ex[e] EXCEPT !.pc = "report", !.outcome = o]
  <2>1. o \in {"suspended", "pending", "failed"}
    BY DEF PlanFailures
  <2>2. l \in Locals /\ l.pc = "report" /\ l.at = ex[e].at /\ l.held = ex[e].held /\ l.outcome = o
    BY <1>1, <2>1 DEF Locals, PCs, Outcomes
  <2>3. Local(e, l)
    BY <1>3
  <2> HIDE DEF l
  <2>4. Ranges(e, l)
    BY <1>1, <2>2 DEF Ranges, At, Working
  <2>5. Assured(e, l)
    BY <2>1, <2>2 DEF Assured, Succeeded, Working
  <2> QED
    BY <1>1, <2>2, <2>3, <2>4, <2>5, LocalSound
<1> QED
  BY <1>2, <1>3 DEF Plan

\* The next claim: a host that nobody owns, so that nothing runs on it.
LEMMA AcquireInv ==
  ASSUME Inv, NEW e \in Executor, Acquire(e)
  PROVE  Inv'
<1>1. /\ ex[e] \in Locals /\ ex \in [Executor -> Locals] /\ Ranges(e, ex[e]) /\ Owns(e, ex[e])
      /\ Assured(e, ex[e]) /\ conf(e) = At(e, ex[e]) /\ Hosts[conf(e)] \in Seq(Host)
      /\ ex[e].held \in Nat /\ Len(Hosts[conf(e)]) \in Nat
      /\ ex[e].pc = "claim" /\ ex[e].held < Len(Hosts[conf(e)])
  BY OfExecutor DEF Acquire
<1> DEFINE n == ex[e].held + 1
           h == Hosts[conf(e)][n]
<1>2. n \in Nat /\ n \in 1 .. Len(Hosts[conf(e)]) /\ h \in Host /\ n = ex[e].held + 1
  BY <1>1
<1>3. ASSUME Local(e, Unwind(e, "pending"))
      PROVE  Inv'
  BY <1>1, <1>3, UnwindStep DEF Outcomes
<1>4. ASSUME owner[h] = "free", ~leased[h], owner' = [owner EXCEPT ![h] = e],
             ex' = [ex EXCEPT ![e].held = @ + 1],
             UNCHANGED <<apiVars, orphans, verified>>
      PROVE  Inv'
  <2>l. [ex[e] EXCEPT !.held = n] \in Locals
    BY <1>1, <1>2 DEF Locals
  <2>0. PICK l \in Locals : l = [ex[e] EXCEPT !.held = n]
    BY <2>l
  <2>1. ex' = [ex EXCEPT ![e] = l]
    BY <1>1, <1>4, <2>0
  <2>u. UNCHANGED <<spec, status, inputs, leased, orphans, verified>>
    BY <1>4 DEF apiVars
  <2>2. l.pc = "claim" /\ l.at = ex[e].at /\ l.held = n /\ l.revision = ex[e].revision
    BY <1>1, <2>0 DEF Locals
  <2> HIDE DEF n, h
  <2>3. Ranges(e, l) /\ At(e, l) = conf(e)
    BY <1>1, <1>2, <2>2 DEF Ranges, At, Working
  <2>4. Assured(e, l)
    BY <1>1, <2>2, <2>3 DEF Assured, Succeeded, Working
  <2>5. HeldIn(e, l) = HeldIn(e, ex[e]) \cup {h}
    <3>1. 1 .. n = (1 .. ex[e].held) \cup {n}
      BY <1>1, <1>2
    <3> QED
      BY <1>1, <2>2, <2>3, <3>1 DEF HeldIn, h
  <2>6. owner \in [Host -> Owners] /\ e \in Owners /\ e # "free"
    BY ConstantsAssumption DEF Inv, ClaimsTyped, Owners
  <2>7. Owns(e, l)'
    BY <1>1, <1>2, <1>4, <2>5, <2>6 DEF Owns
  <2>8. \A f \in Executor \ {e} : \A k \in Host : owner'[k] = f <=> owner[k] = f
    BY <1>2, <1>4, <2>6, ConstantsAssumption
  <2>9. ASSUME NEW k \in Host
        PROVE  Accounted(k)'
    <3>1. Accounted(k) /\ orphans[k] \in Nat
      BY DEF Inv, ClaimsTyped
    <3>2. CASE k = h
      <4>1. ~Covered(h)
        BY <1>4, ConstantsAssumption DEF Covered
      <4> QED
        BY <1>4, <2>u, <3>1, <3>2, <4>1 DEF Accounted
    <3>3. CASE k # h
      <4>1. owner'[k] = owner[k]
        BY <1>2, <1>4, <2>6, <3>3
      <4>2. ASSUME Covered(k)
            PROVE  Covered(k)'
        <5>1. CASE owner[k] = "retained"
          BY <4>1, <5>1 DEF Covered
        <5>2. CASE owner[k] \in Executor /\ Unsure(ex[owner[k]])
          <6>1. owner[k] # e
            BY <1>1, <5>2 DEF Unsure
          <6>2. ex'[owner'[k]] = ex[owner[k]]
            BY <1>1, <2>1, <4>1, <5>2, <6>1
          <6> QED
            BY <4>1, <5>2, <6>2 DEF Covered, Unsure
        <5> QED
          BY <4>2, <5>1, <5>2 DEF Covered
      <4> QED
        BY <2>u, <3>1, <4>1, <4>2 DEF Accounted
    <3> QED
      BY <3>2, <3>3
  <2>10. ApiTyped' /\ ClaimsTyped' /\ verified \subseteq verified'
    BY <1>4, <2>u, <2>6 DEF Inv, ApiTyped, ClaimsTyped
  <2>11. ReadyIsGrounded' /\ Assured(e, l)'
    BY <2>u, <2>4, <2>10, ReadyStays, AssuredStays DEF Inv
  <2> QED
    BY <2>1, <2>2, <2>3, <2>7, <2>8, <2>9, <2>10, <2>11, StepOf
<1> QED
  BY <1>3, <1>4 DEF Acquire

\* The plan is made again under the claims.
LEMMA ReplanInv ==
  ASSUME Inv, NEW e \in Executor, Replan(e)
  PROVE  Inv'
<1>1. ex[e] \in Locals /\ ex[e].pc = "claim" /\ ex[e].held = Len(Hosts[conf(e)])
  BY OfExecutor DEF Replan
<1>2. CASE ~InputsUnchanged(e)
  <2>1. Local(e, Unwind(e, "pending"))
    BY <1>2 DEF Replan
  <2> QED
    BY <1>1, <2>1, UnwindStep DEF Outcomes
<1>3. CASE InputsUnchanged(e)
  <2> DEFINE l == Goto(e, "reconciling")
  <2>1. Local(e, l)
    BY <1>3 DEF Replan
  <2>2. /\ l \in Locals /\ l.pc = "reconciling" /\ l.at = ex[e].at /\ l.held = ex[e].held
        /\ l.revision = ex[e].revision
    BY <1>1 DEF Goto, Locals, PCs
  <2> HIDE DEF l
  <2>3. Ranges(e, l) /\ Assured(e, l)
    BY <1>1, <2>2, MoveSound
  <2> QED
    BY <1>1, <2>1, <2>2, <2>3, LocalSound
<1> QED
  BY <1>2, <1>3

\* A stage starts under claims that were verified.
LEMMA VerifyStageInv ==
  ASSUME Inv, NEW e \in Executor, VerifyStage(e)
  PROVE  Inv'
<1>1. /\ ex[e] \in Locals /\ ex[e].pc = "verify" /\ Ranges(e, ex[e]) /\ conf(e) = At(e, ex[e])
      /\ ex[e].held = Len(Hosts[conf(e)])
  BY OfExecutor DEF VerifyStage, Ranges, Working
<1>2. ASSUME NEW o \in {"failed", "pending"}, Local(e, Unwind(e, o))
      PROVE  Inv'
  <2>1. o \in Outcomes /\ o # "succeeded" /\ ex[e].pc \in Working \cup {"claim"}
    BY <1>1 DEF Outcomes, Working
  <2> QED
    BY <1>2, <2>1, UnwindStep
<1>3. ASSUME Local(e, Goto(e, "running"))
      PROVE  Inv'
  <2> DEFINE l == Goto(e, "running")
  <2>1. /\ l \in Locals /\ l.pc = "running" /\ l.at = ex[e].at /\ l.held = ex[e].held
        /\ l.revision = ex[e].revision
    BY <1>1 DEF Goto, Locals, PCs
  <2>2. Local(e, l)
    BY <1>3
  <2> HIDE DEF l
  <2>3. Ranges(e, l) /\ Assured(e, l)
    BY <1>1, <2>1, MoveSound DEF Working
  <2> QED
    BY <1>1, <2>1, <2>2, <2>3, LocalSound
<1>4. CASE ~ClaimsHeld(e)
  BY <1>2, <1>4 DEF VerifyStage
<1>5. CASE ClaimsHeld(e) /\ (ex[e].stage = 2 /\ ~InputsUnchanged(e))
  BY <1>2, <1>5 DEF VerifyStage
<1>6. CASE ClaimsHeld(e) /\ ~(ex[e].stage = 2 /\ ~InputsUnchanged(e))
  BY <1>3, <1>6 DEF VerifyStage
<1> QED
  BY <1>4, <1>5, <1>6

\* A report of a phase other than Ready, or of a revision that was verified.
LEMMA ReportedSound ==
  ASSUME Inv, NEW e \in Executor, NEW p \in Phases, NEW r \in Revisions,
         status' = Reported(e, p, r), UNCHANGED <<spec, inputs, leased, verified>>,
         p = "Ready" => Vouched(conf(e), r) /\ <<conf(e), r>> \in verified
  PROVE  ApiTyped' /\ ReadyIsGrounded'
<1> DEFINE c == conf(e)
<1>1. /\ c \in Config /\ spec \in [Config -> SpecType] /\ status \in [Config -> StatusType]
      /\ inputs \in [Host -> 0 .. MaxChanges] /\ leased \in [Host -> BOOLEAN]
  BY OfExecutor DEF Inv, ApiTyped
<1>2. status' = [status EXCEPT ![c] = [phase |-> p, observed |-> spec[c].generation, revision |-> r]]
  BY DEF Reported
<1> HIDE DEF c
<1>3. spec[c].generation \in 0 .. MaxEdits
  BY <1>1 DEF SpecType
<1>4. [phase |-> p, observed |-> spec[c].generation, revision |-> r] \in StatusType
  BY <1>3 DEF StatusType
<1>5. ApiTyped'
  BY <1>1, <1>2, <1>4 DEF ApiTyped
<1>6. ASSUME NEW x \in Config, status'[x].phase = "Ready"
      PROVE  Grounded(x)'
  <2>1. CASE x # c
    <3>1. status'[x] = status[x]
      BY <1>1, <1>2, <2>1
    <3> QED
      BY <1>6, <3>1 DEF Inv, ReadyIsGrounded, Grounded
  <2>2. CASE x = c
    <3>1. status'[x].phase = p /\ status'[x].revision = r
      BY <1>1, <1>2, <2>2
    <3>2. Vouched(x, r) /\ <<x, r>> \in verified
      BY <1>6, <2>2, <3>1 DEF c
    <3>3. \A d \in Upstream(x) : <<d, RevisionOf(d, r.generations, r.members)>> \in verified
      BY <3>2 DEF Vouched
    <3> QED
      BY <3>1, <3>3 DEF Grounded
  <2> QED
    BY <2>1, <2>2
<1>7. ReadyIsGrounded'
  BY <1>6 DEF ReadyIsGrounded
<1> QED
  BY <1>5, <1>7

\* To read the Configuration before it is reported on moves the pass alone.
LEMMA ReadSound ==
  ASSUME Inv, NEW e \in Executor, NEW pc \in PCs, ReadToReport(e, pc),
         \/ ex[e].pc = "reconciling" /\ pc = "reconcilePatch"
         \/ ex[e].pc = "report" /\ pc = "reportPatch"
  PROVE  Inv'
<1>1. /\ ex[e] \in Locals /\ Ranges(e, ex[e]) /\ Assured(e, ex[e]) /\ conf(e) = At(e, ex[e])
  BY OfExecutor
<1>2. Goto(e, pc) \in Locals
  BY <1>1 DEF Goto, Locals
<1>3. PICK l \in Locals : l = Goto(e, pc)
  BY <1>2
<1>4. /\ l.pc = pc /\ l.at = ex[e].at /\ l.held = ex[e].held
      /\ l.revision = ex[e].revision /\ l.outcome = ex[e].outcome
  BY <1>1, <1>3 DEF Goto, Locals
<1>5. /\ ex' = [ex EXCEPT ![e] = l]
      /\ UNCHANGED <<spec, status, inputs, leased, owner, orphans, verified>>
      /\ verified \subseteq verified'
  BY <1>3 DEF ReadToReport
<1>6. Ranges(e, l)
  BY <1>1, <1>4 DEF Ranges, At, Working
<1>7. Assured(e, l)'
  <2>1. Assured(e, l)
    BY <1>1, <1>4 DEF Assured, Succeeded, At, Working
  <2> QED
    BY <1>5, <2>1, AssuredStays
<1>8. ApiTyped' /\ ReadyIsGrounded'
  BY <1>5, ReadyStays DEF Inv, ApiTyped
<1> QED
  BY <1>4, <1>5, <1>6, <1>7, <1>8, ClaimsKept

\* The Configuration is read for the Reconciling report.
LEMMA ReportReconcilingInv ==
  ASSUME Inv, NEW e \in Executor, ReportReconciling(e)
  PROVE  Inv'
<1>1. ex[e].pc = "reconciling" /\ ex[e].pc \in Working \cup {"claim"}
  BY DEF ReportReconciling, Working
<1>2. CASE Local(e, Unwind(e, "pending"))
  BY <1>1, <1>2, UnwindStep DEF Outcomes
<1>3. CASE ReadToReport(e, "reconcilePatch")
  BY <1>1, <1>3, ReadSound DEF PCs
<1> QED
  BY <1>2, <1>3 DEF ReportReconciling

\* The Reconciling report is not a Ready one.
LEMMA PatchReconcilingInv ==
  ASSUME Inv, NEW e \in Executor, PatchReconciling(e)
  PROVE  Inv'
<1>1. /\ ex[e] \in Locals /\ ex[e].pc = "reconcilePatch" /\ Ranges(e, ex[e])
      /\ conf(e) = At(e, ex[e]) /\ ex[e].held = Len(Hosts[conf(e)])
  BY OfExecutor DEF PatchReconciling, Ranges, Working
<1>2. CASE Local(e, Unwind(e, "uncertain"))
  BY <1>1, <1>2, UnwindStep DEF Outcomes, Working
<1>3. CASE PatchStatus(e, "Reconciling", ex[e].revision, Goto(e, "verify"))
  <2>1. Goto(e, "verify") \in Locals
    BY <1>1 DEF Goto, Locals, PCs
  <2>2. PICK l \in Locals : l = Goto(e, "verify")
    BY <2>1
  <2>3. /\ l.pc = "verify" /\ l.at = ex[e].at /\ l.held = ex[e].held
        /\ l.revision = ex[e].revision
    BY <1>1, <2>2 DEF Goto, Locals
  <2>4. Ranges(e, l) /\ Assured(e, l)
    BY <1>1, <2>3, MoveSound DEF Working
  <2>5. /\ status' = Reported(e, "Reconciling", ex[e].revision)
        /\ ex' = [ex EXCEPT ![e] = l]
        /\ UNCHANGED <<spec, inputs, leased, owner, orphans, verified>>
    BY <1>3, <2>2 DEF PatchStatus
  <2>6. ApiTyped' /\ ReadyIsGrounded'
    <3>1. ex[e].revision \in Revisions /\ "Reconciling" \in Phases
      BY <1>1 DEF Locals, Phases
    <3> QED
      BY <2>5, <3>1, ReportedSound
  <2>7. Assured(e, l)'
    BY <2>4, <2>5, AssuredStays
  <2> QED
    BY <1>1, <2>3, <2>4, <2>5, <2>6, <2>7, ClaimsKept
<1> QED
  BY <1>2, <1>3 DEF PatchReconciling

\* The last stage verifies the Configuration at the revision of its plan.
LEMMA StageSucceedsInv ==
  ASSUME Inv, NEW e \in Executor, StageSucceeds(e)
  PROVE  Inv'
<1>1. /\ ex[e] \in Locals /\ ex[e].pc = "running" /\ Ranges(e, ex[e]) /\ conf(e) = At(e, ex[e])
      /\ Assured(e, ex[e]) /\ ex[e].held = Len(Hosts[conf(e)])
  BY OfExecutor DEF StageSucceeds, Ranges, Working
<1>2. CASE ex[e].stage < 3 /\ Local(e, [ex[e] EXCEPT !.pc = "verify", !.stage = @ + 1])
  <2>1. PICK n \in 1 .. 3 : n = ex[e].stage + 1
    BY <1>1, <1>2 DEF Locals
  <2> DEFINE l == [ex[e] EXCEPT !.pc = "verify", !.stage = n]
  <2>2. Local(e, l)
    BY <1>2, <2>1
  <2>3. /\ l \in Locals /\ l.pc = "verify" /\ l.at = ex[e].at /\ l.held = ex[e].held
        /\ l.revision = ex[e].revision
    BY <1>1 DEF Locals, PCs
  <2> HIDE DEF l
  <2>4. Ranges(e, l) /\ Assured(e, l)
    BY <1>1, <2>3, MoveSound DEF Working
  <2> QED
    BY <1>1, <2>2, <2>3, <2>4, LocalSound
<1>3. CASE /\ ex' = [ex EXCEPT ![e] = Goto(e, "confirm")]
           /\ verified' = verified \cup {<<conf(e), ex[e].revision>>}
           /\ UNCHANGED <<apiVars, owner, orphans>>
  <2>1. Goto(e, "confirm") \in Locals
    BY <1>1 DEF Goto, Locals, PCs
  <2>2. PICK l \in Locals : l = Goto(e, "confirm")
    BY <2>1
  <2>3. /\ l.pc = "confirm" /\ l.at = ex[e].at /\ l.held = ex[e].held
        /\ l.revision = ex[e].revision
    BY <1>1, <2>2 DEF Goto, Locals
  <2>4. Ranges(e, l) /\ At(e, l) = conf(e)
    BY <1>1, <2>3 DEF Ranges, At, Working
  <2>5. UNCHANGED <<spec, status, inputs, leased, owner, orphans>> /\ verified \subseteq verified'
    BY <1>3 DEF apiVars
  <2>6. Assured(e, l)'
    <3>1. Vouched(At(e, l), l.revision)
      BY <1>1, <2>3, <2>4 DEF Assured, Working
    <3>2. Vouched(At(e, l), l.revision)'
      BY <2>5, <3>1 DEF Vouched
    <3>3. <<At(e, l), l.revision>> \in verified'
      BY <1>3, <2>3, <2>4
    <3> QED
      BY <3>2, <3>3 DEF Assured
  <2>7. ApiTyped' /\ ReadyIsGrounded'
    BY <2>5, ReadyStays DEF Inv, ApiTyped
  <2> QED
    BY <1>1, <1>3, <2>2, <2>3, <2>4, <2>5, <2>6, <2>7, ClaimsKept
<1> QED
  BY <1>2, <1>3 DEF StageSucceeds

\* Every failure of a stage is an outcome of the pass.
LEMMA FailuresAreOutcomes ==
  ASSUME NEW e \in Executor, NEW o \in Failures(e)
  PROVE  o \in Outcomes /\ o # "succeeded"
BY DEF Failures, Outcomes

\* A failed stage unwinds.
LEMMA StageFailsInv ==
  ASSUME Inv, NEW e \in Executor, StageFails(e)
  PROVE  Inv'
<1>1. ex[e].pc \in Working \cup {"claim"}
  BY DEF StageFails, Working
<1>2. PICK o \in Failures(e) : Local(e, Unwind(e, o))
  BY DEF StageFails
<1> QED
  BY <1>1, <1>2, FailuresAreOutcomes, UnwindStep

\* The claims and the inputs, once more, decide the outcome.
LEMMA ConfirmInv ==
  ASSUME Inv, NEW e \in Executor, Confirm(e)
  PROVE  Inv'
<1>1. ex[e].pc = "confirm" /\ ex[e].pc \in Working \cup {"claim"}
  BY DEF Confirm, Working
<1>2. PICK o \in {"failed", "succeeded", "pending"} : Local(e, Unwind(e, o))
  BY DEF Confirm
<1>3. o \in Outcomes
  BY DEF Outcomes
<1> QED
  BY <1>1, <1>2, <1>3, UnwindStep

-----------------------------------------------------------------------------
(* Leaving the claims.                                                     *)

\* The claim acquired last is given up or kept.  Who is not sure keeps it, and is
\* not sure of the ones acquired before it either.
LEMMA ReleaseOne ==
  ASSUME Inv, NEW e \in Executor, ex[e].pc = "unwind", ex[e].held > 0,
         NEW v \in {"free", "retained"}, NEW o \in Outcomes,
         o = "succeeded" => ex[e].outcome = "succeeded",
         ex[e].outcome \in {"uncertain", "terminated"} =>
           v = "retained" /\ o \in {"uncertain", "terminated"},
         owner' = [owner EXCEPT ![Hosts[conf(e)][ex[e].held]] = v],
         ex' = [ex EXCEPT ![e] = [ex[e] EXCEPT !.held = ex[e].held - 1, !.outcome = o]],
         UNCHANGED <<apiVars, orphans, verified>>
  PROVE  Inv'
<1>1. /\ ex[e] \in Locals /\ ex \in [Executor -> Locals] /\ Ranges(e, ex[e]) /\ Owns(e, ex[e])
      /\ Assured(e, ex[e]) /\ conf(e) = At(e, ex[e]) /\ conf(e) \in Config
      /\ Hosts[conf(e)] \in Seq(Host) /\ ex[e].held \in Nat /\ Len(Hosts[conf(e)]) \in Nat
  BY OfExecutor
<1>2. PICK n \in Nat : n = ex[e].held - 1
  BY <1>1
<1>3. ex[e].held \in 1 .. Len(Hosts[conf(e)]) /\ ex[e].held = n + 1
  BY <1>1, <1>2 DEF Ranges
<1>4. Hosts[conf(e)][ex[e].held] \in Host
  BY <1>1, <1>3
<1>5. PICK h \in Host : h = Hosts[conf(e)][ex[e].held]
  BY <1>4
<1>6. [ex[e] EXCEPT !.held = n, !.outcome = o] \in Locals
  BY <1>1 DEF Locals
<1>7. PICK l \in Locals : l = [ex[e] EXCEPT !.held = n, !.outcome = o]
  BY <1>6
<1>8. /\ l.pc = "unwind" /\ l.at = ex[e].at /\ l.held = n /\ l.outcome = o
      /\ l.revision = ex[e].revision /\ At(e, l) = conf(e)
  BY <1>1, <1>7 DEF Locals, At
<1>9. /\ ex' = [ex EXCEPT ![e] = l] /\ owner' = [owner EXCEPT ![h] = v]
      /\ UNCHANGED <<spec, status, inputs, leased, orphans, verified>>
      /\ verified \subseteq verified'
  BY <1>2, <1>5, <1>7 DEF apiVars
<1>10. Ranges(e, l)
  <2>1. n \in 0 .. Len(Hosts[conf(e)])
    BY <1>1, <1>3
  <2> QED
    BY <1>1, <1>8, <2>1 DEF Ranges, Working
<1>11. Assured(e, l)'
  <2>1. Assured(e, l)
    BY <1>1, <1>8 DEF Assured, Succeeded, Working
  <2> QED
    BY <1>9, <2>1, AssuredStays
<1>12. h \in HeldIn(e, ex[e]) /\ HeldIn(e, l) = HeldIn(e, ex[e]) \ {h}
  <2>1. 1 .. ex[e].held = (1 .. n) \cup {ex[e].held} /\ ex[e].held \notin 1 .. n
        /\ (1 .. ex[e].held) \subseteq 1 .. Len(Hosts[conf(e)])
    BY <1>1, <1>2, <1>3
  <2>2. \A i, j \in 1 .. Len(Hosts[conf(e)]) : Hosts[conf(e)][i] = Hosts[conf(e)][j] => i = j
    BY <1>1, ConstantsAssumption
  <2>3. HeldIn(e, ex[e]) = {Hosts[conf(e)][i] : i \in 1 .. ex[e].held}
        /\ HeldIn(e, l) = {Hosts[conf(e)][i] : i \in 1 .. n}
    BY <1>1, <1>8 DEF HeldIn
  <2>4. h \in HeldIn(e, ex[e])
    BY <1>5, <2>1, <2>3
  <2>5. h \notin HeldIn(e, l)
    BY <1>3, <1>5, <2>1, <2>2, <2>3
  <2> QED
    BY <1>5, <2>1, <2>3, <2>4, <2>5
<1>13. owner \in [Host -> Owners] /\ v \in Owners /\ v \notin Executor /\ owner[h] = e
  BY <1>1, <1>12, ConstantsAssumption DEF Inv, ClaimsTyped, Owners, Owns
<1>14. Owns(e, l)'
  BY <1>1, <1>9, <1>12, <1>13 DEF Owns
<1>15. \A f \in Executor \ {e} : \A k \in Host : owner'[k] = f <=> owner[k] = f
  BY <1>9, <1>13
<1>16. ASSUME NEW k \in Host
       PROVE  Accounted(k)'
  <2>1. Accounted(k)
    BY DEF Inv
  <2>2. CASE k = h
    <3>1. ~leased[k]
      BY <1>13, <2>1, <2>2, ConstantsAssumption DEF Accounted
    <3>2. ASSUME orphans[k] = 1
          PROVE  v = "retained"
      BY <1>13, <2>1, <2>2, <3>2, ConstantsAssumption DEF Accounted, Covered, Unsure
    <3>3. owner'[k] = v
      BY <1>9, <1>13, <2>2
    <3> QED
      BY <1>9, <2>1, <3>1, <3>2, <3>3 DEF Accounted, Covered
  <2>3. CASE k # h
    <3>1. owner'[k] = owner[k]
      BY <1>9, <1>13, <2>3
    <3>2. ASSUME Covered(k)
          PROVE  Covered(k)'
      <4>1. CASE owner[k] = "retained"
        BY <3>1, <4>1 DEF Covered
      <4>2. CASE owner[k] \in Executor /\ Unsure(ex[owner[k]])
        <5>1. Unsure(ex[owner[k]])'
          <6>1. CASE owner[k] = e
            BY <1>1, <1>8, <1>9, <3>1, <4>2, <6>1 DEF Unsure
          <6>2. CASE owner[k] # e
            BY <1>1, <1>9, <3>1, <4>2, <6>2 DEF Unsure
          <6> QED
            BY <6>1, <6>2
        <5> QED
          BY <3>1, <4>2, <5>1 DEF Covered
      <4> QED
        BY <3>2, <4>1, <4>2 DEF Covered
    <3> QED
      BY <1>9, <2>1, <3>1, <3>2 DEF Accounted
  <2> QED
    BY <2>2, <2>3
<1>17. ApiTyped' /\ ClaimsTyped'
  BY <1>9, <1>13 DEF Inv, ApiTyped, ClaimsTyped
<1>18. ReadyIsGrounded'
  BY <1>9, ReadyStays DEF Inv
<1> QED
  BY <1>9, <1>10, <1>11, <1>14, <1>15, <1>16, <1>17, <1>18, StepOf

\* Claims are given up one by one, the last first.
LEMMA ReleaseInv ==
  ASSUME Inv, NEW e \in Executor, Release(e)
  PROVE  Inv'
<1>1. ex[e] \in Locals /\ ex \in [Executor -> Locals] /\ ex[e].pc = "unwind" /\ ex[e].held > 0
  BY OfExecutor DEF Release
<1>2. PICK o \in Outcomes : o = ex[e].outcome
  BY <1>1 DEF Locals
<1>3. PICK v \in {"free", "retained"} :
        v = IF ex[e].outcome \in {"uncertain", "terminated"} THEN "retained" ELSE "free"
  OBVIOUS
<1>4. owner' = [owner EXCEPT ![Hosts[conf(e)][ex[e].held]] = v]
  BY <1>3 DEF Release
<1>5. ex' = [ex EXCEPT ![e] = [ex[e] EXCEPT !.held = ex[e].held - 1, !.outcome = o]]
  BY <1>1, <1>2 DEF Release, Locals
<1>6. UNCHANGED <<apiVars, orphans, verified>>
  BY DEF Release
<1>7. ex[e].outcome \in {"uncertain", "terminated"} =>
        v = "retained" /\ o \in {"uncertain", "terminated"}
  BY <1>2, <1>3
<1> QED
  BY <1>1, <1>2, <1>4, <1>5, <1>6, <1>7, ReleaseOne

\* A claim that could not be completed is retained.
LEMMA ReleaseFailsInv ==
  ASSUME Inv, NEW e \in Executor, ReleaseFails(e)
  PROVE  Inv'
<1>1. ex[e] \in Locals /\ ex \in [Executor -> Locals] /\ ex[e].pc = "unwind" /\ ex[e].held > 0
  BY OfExecutor DEF ReleaseFails
<1>2. ex' = [ex EXCEPT ![e] = [ex[e] EXCEPT !.held = ex[e].held - 1, !.outcome = "uncertain"]]
  BY <1>1 DEF ReleaseFails, Locals
<1>3. /\ owner' = [owner EXCEPT ![Hosts[conf(e)][ex[e].held]] = "retained"]
      /\ UNCHANGED <<apiVars, orphans, verified>> /\ "uncertain" \in Outcomes
  BY DEF ReleaseFails, Outcomes
<1> QED
  BY <1>1, <1>2, <1>3, ReleaseOne

\* The pass reports once no claim is left.
LEMMA UnwoundInv ==
  ASSUME Inv, NEW e \in Executor, Unwound(e)
  PROVE  Inv'
<1>1. /\ ex[e] \in Locals /\ ex[e].pc = "unwind" /\ ex[e].held = 0
      /\ Ranges(e, ex[e]) /\ Assured(e, ex[e])
  BY OfExecutor DEF Unwound
<1>2. CASE ex[e].outcome = "terminated"
  <2>1. Local(e, Idle)
    BY <1>2 DEF Unwound
  <2> QED
    BY <1>1, <2>1, IdleSound, LocalSound
<1>3. CASE ex[e].outcome # "terminated"
  <2> DEFINE l == Goto(e, "report")
  <2>1. Local(e, l)
    BY <1>3 DEF Unwound
  <2>2. /\ l \in Locals /\ l.pc = "report" /\ l.at = ex[e].at /\ l.held = 0
        /\ l.outcome = ex[e].outcome /\ l.revision = ex[e].revision
    BY <1>1 DEF Goto, Locals, PCs
  <2> HIDE DEF l
  <2>3. Ranges(e, l)
    BY <1>1, <2>2 DEF Ranges, At, Working
  <2>4. Assured(e, l)
    BY <1>1, <2>2 DEF Assured, Succeeded, At, Working
  <2> QED
    BY <1>1, <2>1, <2>2, <2>3, <2>4, LocalSound
<1> QED
  BY <1>2, <1>3

\* The pass goes on to its next Configuration.
LEMMA AdvanceStep ==
  ASSUME Inv, NEW e \in Executor, ex[e].pc \in {"report", "reportPatch"}, Local(e, Advance(e))
  PROVE  Inv'
<1>1. ex[e].held = 0
  BY OfExecutor DEF Ranges
<1> QED
  BY <1>1, AdvanceSound, LocalSound

\* The pass goes to report a failure.
LEMMA ReportFailure ==
  ASSUME Inv, NEW e \in Executor, NEW o \in Outcomes, o # "succeeded",
         ex[e].pc \in {"plan", "report", "reportPatch"},
         Local(e, [ex[e] EXCEPT !.pc = "report", !.outcome = o])
  PROVE  Inv'
<1>1. ex[e] \in Locals /\ Ranges(e, ex[e])
  BY OfExecutor
<1> DEFINE l == [ex[e] EXCEPT !.pc = "report", !.outcome = o]
<1>2. l \in Locals /\ l.pc = "report" /\ l.at = ex[e].at /\ l.held = ex[e].held /\ l.outcome = o
  BY <1>1 DEF Locals, PCs
<1>3. Local(e, l)
  OBVIOUS
<1> HIDE DEF l
<1>4. Ranges(e, l)
  BY <1>1, <1>2 DEF Ranges, At, Working
<1>5. Assured(e, l)
  BY <1>2 DEF Assured, Succeeded, Working
<1> QED
  BY <1>2, <1>3, <1>4, <1>5, LocalSound

\* A report that is refused is made again as a failure, or given up.
LEMMA RefusedStep ==
  ASSUME Inv, NEW e \in Executor, ex[e].pc \in {"report", "reportPatch"}, Local(e, ReportRefused(e))
  PROVE  Inv'
<1>1. CASE ex[e].outcome = "succeeded"
  <2>1. Local(e, [ex[e] EXCEPT !.pc = "report", !.outcome = "failed"])
    BY <1>1 DEF ReportRefused
  <2>2. "failed" \in Outcomes
    BY DEF Outcomes
  <2> QED
    BY <2>1, <2>2, ReportFailure
<1>2. CASE ex[e].outcome # "succeeded"
  BY <1>2, AdvanceStep DEF ReportRefused
<1> QED
  BY <1>1, <1>2

\* The Configuration is read for the final report.
LEMMA ReportInv ==
  ASSUME Inv, NEW e \in Executor, Report(e)
  PROVE  Inv'
<1>1. ex[e].pc = "report"
  BY DEF Report
<1>2. CASE Local(e, Advance(e))
  BY <1>1, <1>2, AdvanceStep
<1>3. CASE ReadToReport(e, "reportPatch")
  BY <1>1, <1>3, ReadSound DEF PCs
<1> QED
  BY <1>2, <1>3 DEF Report

\* The final report is Ready only after a confirmed execution.
LEMMA PatchReportInv ==
  ASSUME Inv, NEW e \in Executor, PatchReport(e)
  PROVE  Inv'
<1>1. /\ ex[e] \in Locals /\ ex[e].pc = "reportPatch" /\ Ranges(e, ex[e]) /\ Assured(e, ex[e])
      /\ conf(e) = At(e, ex[e]) /\ conf(e) \in Config
  BY OfExecutor DEF PatchReport
<1>2. ex[e].held = 0
  BY <1>1 DEF Ranges
<1>3. ASSUME NEW p \in Phases, NEW r \in Revisions, PatchStatus(e, p, r, Advance(e)),
             p = "Ready" => Vouched(conf(e), r) /\ <<conf(e), r>> \in verified
      PROVE  Inv'
  <2>1. PICK l \in Locals : l = Advance(e)
    BY AdvanceSound
  <2>2. /\ status' = Reported(e, p, r) /\ ex' = [ex EXCEPT ![e] = l]
        /\ UNCHANGED <<spec, inputs, leased, owner, orphans, verified>>
    BY <1>3, <2>1 DEF PatchStatus
  <2>3. Ranges(e, l) /\ Assured(e, l) /\ l.held = 0
    BY <2>1, AdvanceSound
  <2>4. Assured(e, l)'
    BY <2>2, <2>3, AssuredStays
  <2>5. ApiTyped' /\ ReadyIsGrounded'
    BY <1>3, <2>2, ReportedSound
  <2> QED
    BY <1>1, <1>2, <2>2, <2>3, <2>4, <2>5, ClaimsKept
<1>4. CASE ex[e].outcome = "succeeded" /\ PatchStatus(e, "Ready", ex[e].revision, Advance(e))
  <2>1. Vouched(conf(e), ex[e].revision) /\ <<conf(e), ex[e].revision>> \in verified
    BY <1>1, <1>4 DEF Assured, Succeeded
  <2>2. ex[e].revision \in Revisions /\ "Ready" \in Phases
    BY <1>1 DEF Locals, Phases
  <2> QED
    BY <1>3, <1>4, <2>1, <2>2
<1>5. CASE PatchStatus(e, FailurePhase(e), status[conf(e)].revision, Advance(e))
  <2>1. FailurePhase(e) \in Phases /\ FailurePhase(e) # "Ready"
    BY DEF FailurePhase, Phases
  <2>2. status[conf(e)].revision \in Revisions
    BY <1>1 DEF Inv, ApiTyped, StatusType
  <2> QED
    BY <1>3, <1>5, <2>1, <2>2
<1>6. CASE Local(e, ReportRefused(e))
  BY <1>1, <1>6, RefusedStep
<1> QED
  BY <1>4, <1>5, <1>6 DEF PatchReport

-----------------------------------------------------------------------------
(* Faults, and what others do.                                             *)

\* A pass at work is cut off: what it started may go on, under claims it will keep.
LEMMA CutOff ==
  ASSUME Inv, NEW e \in Executor, ex[e].pc = "running", NEW o \in {"uncertain", "terminated"},
         orphans' = Orphaned(e), ex' = [ex EXCEPT ![e] = Unwind(e, o)],
         UNCHANGED <<apiVars, owner, verified>>
  PROVE  Inv'
<1>1. /\ ex[e] \in Locals /\ ex \in [Executor -> Locals] /\ Ranges(e, ex[e]) /\ Owns(e, ex[e])
      /\ conf(e) = At(e, ex[e]) /\ ex[e].pc \in Working \cup {"claim"}
  BY OfExecutor DEF Working
<1>2. HeldIn(e, ex[e]) = HostSet(conf(e))
  BY <1>1 DEF HeldIn, HostSet, Ranges, Working
<1>3. o \in Outcomes /\ o # "succeeded"
  BY DEF Outcomes
<1>4. PICK l \in Locals : l = Unwind(e, o)
  BY <1>1, <1>3, UnwindSound
<1>5. /\ Ranges(e, l) /\ Assured(e, l) /\ l.at = ex[e].at /\ l.held = ex[e].held
      /\ l.pc = "unwind" /\ l.outcome = o
  BY <1>1, <1>3, <1>4, UnwindSound
<1>6. /\ ex' = [ex EXCEPT ![e] = l]
      /\ UNCHANGED <<spec, status, inputs, leased, owner, verified>> /\ verified \subseteq verified'
  BY <1>4 DEF apiVars
<1>7. Owns(e, l)'
  <2>1. HeldIn(e, l) = HeldIn(e, ex[e])
    BY <1>5 DEF HeldIn, At
  <2> QED
    BY <1>1, <1>6, <2>1 DEF Owns
<1>8. ASSUME NEW h \in Host
      PROVE  Accounted(h)' /\ orphans'[h] \in Nat
  <2>1. Accounted(h) /\ orphans[h] \in Nat
    BY DEF Inv, ClaimsTyped
  <2>2. CASE h \in HostSet(conf(e))
    <3>1. owner[h] = e
      BY <1>1, <1>2, <2>2 DEF Owns
    <3>2. ~Covered(h) /\ ~leased[h]
      BY <2>1, <3>1, ConstantsAssumption DEF Covered, Unsure, Accounted
    <3>3. orphans[h] = 0
      BY <2>1, <3>2 DEF Accounted
    <3>4. orphans'[h] = 1
      BY <2>2, <3>3 DEF Orphaned
    <3>5. ex'[e] = l /\ owner'[h] = e
      BY <1>1, <1>6, <3>1
    <3>6. Covered(h)'
      BY <1>5, <3>5 DEF Covered, Unsure
    <3> QED
      BY <1>6, <3>2, <3>4, <3>6 DEF Accounted
  <2>3. CASE h \notin HostSet(conf(e))
    <3>1. owner[h] # e
      BY <1>1, <1>2, <2>3 DEF Owns
    <3>2. orphans'[h] = orphans[h]
      BY <2>1, <2>3 DEF Orphaned
    <3>3. ASSUME Covered(h)
          PROVE  Covered(h)'
      <4>1. CASE owner[h] = "retained"
        BY <1>6, <4>1 DEF Covered
      <4>2. CASE owner[h] \in Executor /\ Unsure(ex[owner[h]])
        <5>1. ex'[owner'[h]] = ex[owner[h]] /\ owner'[h] = owner[h]
          BY <1>1, <1>6, <3>1, <4>2
        <5> QED
          BY <4>2, <5>1 DEF Covered, Unsure
      <4> QED
        BY <3>3, <4>1, <4>2 DEF Covered
    <3> QED
      BY <1>6, <2>1, <3>2, <3>3 DEF Accounted
  <2> QED
    BY <2>2, <2>3
<1>9. ApiTyped' /\ ClaimsTyped'
  <2>1. orphans' \in [Host -> Nat]
    BY <1>8 DEF Orphaned
  <2> QED
    BY <1>6, <2>1 DEF Inv, ApiTyped, ClaimsTyped
<1>10. ReadyIsGrounded' /\ Assured(e, l)'
  BY <1>5, <1>6, ReadyStays, AssuredStays DEF Inv
<1>11. \A f \in Executor \ {e} : \A h \in Host : owner'[h] = f <=> owner[h] = f
  BY <1>6
<1> QED
  BY <1>5, <1>6, <1>7, <1>8, <1>9, <1>10, <1>11, StepOf

\* A command whose end is unknown keeps its hosts.
LEMMA StageUncertainInv ==
  ASSUME Inv, NEW e \in Executor, StageUncertain(e)
  PROVE  Inv'
BY CutOff DEF StageUncertain

\* A request of the pass fails.
LEMMA ApiFaultInv ==
  ASSUME Inv, NEW e \in Executor, ApiFault(e)
  PROVE  Inv'
<1>1. CASE ex[e].pc = "plan" /\ Local(e, [ex[e] EXCEPT !.pc = "report", !.outcome = "failed"])
  BY <1>1, ReportFailure DEF Outcomes
<1>2. CASE /\ ex[e].pc \in {"claim", "reconciling", "reconcilePatch", "confirm"}
           /\ Local(e, Unwind(e, "uncertain"))
  BY <1>2, UnwindStep DEF Outcomes, Working
<1>3. CASE ex[e].pc = "verify" /\ \E o \in Failures(e) : Local(e, Unwind(e, o))
  <2>1. ex[e].pc \in Working \cup {"claim"}
    BY <1>3 DEF Working
  <2>2. PICK o \in Failures(e) : Local(e, Unwind(e, o))
    BY <1>3
  <2> QED
    BY <2>1, <2>2, FailuresAreOutcomes, UnwindStep
<1>4. CASE ex[e].pc \in {"report", "reportPatch"} /\ Local(e, ReportRefused(e))
  BY <1>4, RefusedStep
<1> QED
  BY <1>1, <1>2, <1>3, <1>4 DEF ApiFault

\* A claim whose answer was lost is retained.
LEMMA ClaimLostInv ==
  ASSUME Inv, NEW e \in Executor, ClaimLost(e)
  PROVE  Inv'
<1>1. /\ ex[e] \in Locals /\ ex \in [Executor -> Locals] /\ Owns(e, ex[e])
      /\ Hosts[conf(e)] \in Seq(Host) /\ Len(Hosts[conf(e)]) \in Nat /\ ex[e].held \in Nat
      /\ ex[e].pc = "claim" /\ ex[e].held < Len(Hosts[conf(e)])
  BY OfExecutor DEF ClaimLost
<1>2. ex[e].held + 1 \in 1 .. Len(Hosts[conf(e)])
  BY <1>1
<1>3. PICK h \in Host : h = Hosts[conf(e)][ex[e].held + 1]
  BY <1>1, <1>2
<1>4. owner[h] = "free" /\ ~leased[h] /\ owner' = [owner EXCEPT ![h] = "retained"]
  BY <1>3 DEF ClaimLost
<1>5. PICK l \in Locals : l = Unwind(e, "uncertain")
  BY UnwindSound DEF Outcomes
<1>6. Ranges(e, l) /\ Assured(e, l) /\ l.at = ex[e].at /\ l.held = ex[e].held
  BY <1>5, UnwindSound DEF Outcomes
<1>7. /\ ex' = [ex EXCEPT ![e] = l] /\ verified \subseteq verified'
      /\ UNCHANGED <<spec, status, inputs, leased, orphans, verified>>
  BY <1>5 DEF ClaimLost, apiVars
<1>8. owner \in [Host -> Owners] /\ "retained" \notin Executor /\ "free" \notin Executor
  BY ConstantsAssumption DEF Inv, ClaimsTyped
<1>9. \A f \in Executor : \A k \in Host : owner'[k] = f <=> owner[k] = f
  BY <1>4, <1>8
<1>10. Owns(e, l)'
  <2>1. HeldIn(e, l) = HeldIn(e, ex[e])
    BY <1>6 DEF HeldIn, At
  <2> QED
    BY <1>1, <1>9, <2>1 DEF Owns
<1>11. ASSUME NEW k \in Host
       PROVE  Accounted(k)'
  <2>1. Accounted(k)
    BY DEF Inv
  <2>2. CASE k = h
    <3>1. owner'[k] = "retained"
      BY <1>4, <1>8, <2>2
    <3> QED
      BY <1>4, <1>7, <2>1, <2>2, <3>1 DEF Accounted, Covered
  <2>3. CASE k # h
    <3>1. owner'[k] = owner[k]
      BY <1>4, <1>8, <2>3
    <3>2. ASSUME Covered(k)
          PROVE  Covered(k)'
      <4>1. CASE owner[k] = "retained"
        BY <3>1, <4>1 DEF Covered
      <4>2. CASE owner[k] \in Executor /\ Unsure(ex[owner[k]])
        <5>1. owner[k] # e
          BY <1>1, <4>2 DEF Unsure
        <5>2. ex'[owner'[k]] = ex[owner[k]]
          BY <1>1, <1>7, <3>1, <4>2, <5>1
        <5> QED
          BY <3>1, <4>2, <5>2 DEF Covered, Unsure
      <4> QED
        BY <3>2, <4>1, <4>2 DEF Covered
    <3> QED
      BY <1>7, <2>1, <3>1, <3>2 DEF Accounted
  <2> QED
    BY <2>2, <2>3
<1>12. ApiTyped' /\ ClaimsTyped'
  BY <1>4, <1>7, <1>8 DEF Inv, ApiTyped, ClaimsTyped, Owners
<1>13. ReadyIsGrounded' /\ Assured(e, l)'
  BY <1>6, <1>7, ReadyStays, AssuredStays DEF Inv
<1> QED
  BY <1>6, <1>7, <1>9, <1>10, <1>11, <1>12, <1>13, StepOf

\* An aborted pass gives up no host.
LEMMA TerminateInv ==
  ASSUME Inv, NEW e \in Executor, Terminate(e)
  PROVE  Inv'
<1>1. ex[e] \in Locals /\ ex \in [Executor -> Locals] /\ ex[e].held \in Nat
  BY OfExecutor
<1>2. CASE ex[e].pc = "unwind" /\ ex[e].held > 0
  <2>1. ex' = [ex EXCEPT ![e] = [ex[e] EXCEPT !.held = ex[e].held - 1, !.outcome = "terminated"]]
    BY <1>1, <1>2 DEF Terminate, Locals
  <2>2. /\ owner' = [owner EXCEPT ![Hosts[conf(e)][ex[e].held]] = "retained"]
        /\ UNCHANGED <<apiVars, orphans, verified>> /\ "terminated" \in Outcomes
    BY <1>2 DEF Terminate, Outcomes
  <2> QED
    BY <1>2, <2>1, <2>2, ReleaseOne
<1>3. CASE ex[e].pc = "running"
  <2>1. /\ orphans' = Orphaned(e) /\ ex' = [ex EXCEPT ![e] = Unwind(e, "terminated")]
        /\ UNCHANGED <<apiVars, owner, verified>>
    BY <1>3 DEF Terminate
  <2> QED
    BY <1>3, <2>1, CutOff
<1>4. CASE ex[e].pc # "running" /\ (ex[e].pc = "unwind" => ex[e].held = 0)
  <2> DEFINE l == Unwind(e, "terminated")
  <2>1. Local(e, l)
    BY <1>1, <1>4 DEF Terminate, Local
  <2>2. l \in Locals /\ Ranges(e, l) /\ Assured(e, l) /\ l.at = ex[e].at /\ l.held = ex[e].held
    BY UnwindSound DEF Outcomes
  <2> HIDE DEF l
  <2> QED
    BY <1>4, <2>1, <2>2, LocalSound
<1> QED
  BY <1>1, <1>2, <1>3, <1>4

\* A killed pass leaves its claims in force over whatever it had started.
LEMMA KillInv ==
  ASSUME Inv, NEW e \in Executor, Kill(e)
  PROVE  Inv'
<1>1. /\ ex[e] \in Locals /\ ex \in [Executor -> Locals] /\ Ranges(e, ex[e]) /\ Owns(e, ex[e])
      /\ conf(e) = At(e, ex[e])
  BY OfExecutor
<1>2. PICK l \in Locals : l = Idle
  BY IdleSound
<1>3. Ranges(e, l) /\ Assured(e, l) /\ l.held = 0
  BY <1>2, IdleSound
<1>4. /\ ex' = [ex EXCEPT ![e] = l] /\ verified \subseteq verified'
      /\ UNCHANGED <<spec, status, inputs, leased, verified>>
      /\ owner' = [h \in Host |-> IF owner[h] = e THEN "retained" ELSE owner[h]]
      /\ orphans' = IF ex[e].pc = "running" THEN Orphaned(e) ELSE orphans
  BY <1>2 DEF Kill, apiVars
<1>5. owner \in [Host -> Owners] /\ "retained" \notin Executor /\ "free" \notin Executor
  BY ConstantsAssumption DEF Inv, ClaimsTyped
<1>6. Owns(e, l)'
  <2>1. HeldIn(e, l) = {}
    BY <1>3 DEF HeldIn
  <2>2. \A h \in Host : owner'[h] # e
    BY <1>4, <1>5
  <2> QED
    BY <2>1, <2>2 DEF Owns
<1>7. \A f \in Executor \ {e} : \A h \in Host : owner'[h] = f <=> owner[h] = f
  BY <1>4, <1>5
<1>8. ASSUME NEW h \in Host
      PROVE  Accounted(h)' /\ orphans'[h] \in Nat
  <2>1. Accounted(h) /\ orphans[h] \in {0, 1}
    BY DEF Inv, Accounted
  <2>2. CASE owner[h] = e
    <3>1. owner'[h] = "retained" /\ ~leased[h]
      BY <1>4, <1>5, <2>1, <2>2 DEF Accounted
    <3>2. orphans'[h] \in {0, 1}
      <4>1. CASE ex[e].pc = "running"
        <5>1. ~Covered(h)
          BY <1>5, <2>2, <4>1 DEF Covered, Unsure
        <5>2. orphans[h] = 0
          BY <2>1, <5>1 DEF Accounted
        <5> QED
          BY <1>4, <4>1, <5>2 DEF Orphaned
      <4>2. CASE ex[e].pc # "running"
        BY <1>4, <2>1, <4>2
      <4> QED
        BY <4>1, <4>2
    <3> QED
      BY <1>4, <3>1, <3>2 DEF Accounted, Covered
  <2>3. CASE owner[h] # e
    <3>1. owner'[h] = owner[h]
      BY <1>4, <2>3
    <3>2. orphans'[h] = orphans[h]
      <4>1. CASE ex[e].pc = "running"
        <5>1. HeldIn(e, ex[e]) = HostSet(conf(e))
          BY <1>1, <4>1 DEF HeldIn, HostSet, Ranges, Working
        <5>2. h \notin HostSet(conf(e))
          BY <1>1, <2>3, <5>1 DEF Owns
        <5> QED
          BY <1>4, <2>1, <4>1, <5>2 DEF Orphaned
      <4>2. CASE ex[e].pc # "running"
        BY <1>4, <4>2
      <4> QED
        BY <4>1, <4>2
    <3>3. ASSUME Covered(h)
          PROVE  Covered(h)'
      <4>1. CASE owner[h] = "retained"
        BY <3>1, <4>1 DEF Covered
      <4>2. CASE owner[h] \in Executor /\ Unsure(ex[owner[h]])
        <5>1. ex'[owner'[h]] = ex[owner[h]]
          BY <1>1, <1>4, <2>3, <3>1, <4>2
        <5> QED
          BY <3>1, <4>2, <5>1 DEF Covered, Unsure
      <4> QED
        BY <3>3, <4>1, <4>2 DEF Covered
    <3> QED
      BY <1>4, <2>1, <3>1, <3>2, <3>3 DEF Accounted
  <2> QED
    BY <2>2, <2>3
<1>9. ApiTyped' /\ ClaimsTyped'
  <2>1. orphans \in [Host -> Nat]
    BY DEF Inv, ClaimsTyped
  <2>2. orphans' \in [Host -> Nat]
    <3>1. CASE ex[e].pc = "running"
      BY <1>4, <1>8, <3>1 DEF Orphaned
    <3>2. CASE ex[e].pc # "running"
      BY <1>4, <2>1, <3>2
    <3> QED
      BY <3>1, <3>2
  <2>3. owner' \in [Host -> Owners]
    BY <1>4, <1>5 DEF Owners
  <2> QED
    BY <1>4, <2>2, <2>3 DEF Inv, ApiTyped, ClaimsTyped
<1>10. ReadyIsGrounded' /\ Assured(e, l)'
  BY <1>3, <1>4, ReadyStays, AssuredStays DEF Inv
<1> QED
  BY <1>3, <1>4, <1>6, <1>7, <1>8, <1>9, <1>10, StepOf

\* A step of somebody else, which takes no claim away from a pass.
LEMMA OthersSound ==
  ASSUME Inv, UNCHANGED <<ex, status, verified>>, ApiTyped', ClaimsTyped',
         \A f \in Executor : \A h \in Host : owner'[h] = f <=> owner[h] = f,
         \A h \in Host : Accounted(h)'
  PROVE  Inv'
<1>1. ReadyIsGrounded'
  BY ReadyStays DEF Inv
<1>2. ASSUME NEW f \in Executor
      PROVE  (Ranges(f, ex[f]) /\ Owns(f, ex[f]) /\ Assured(f, ex[f]))'
  <2>1. Ranges(f, ex[f]) /\ Owns(f, ex[f]) /\ Assured(f, ex[f]) /\ ex'[f] = ex[f]
    BY DEF Inv
  <2>2. Ranges(f, ex[f])'
    BY <2>1 DEF Ranges, At
  <2>3. Owns(f, ex[f])'
    BY <2>1 DEF Owns, HeldIn, At
  <2>4. Assured(f, ex[f])'
    BY <2>1 DEF Assured, Vouched, Succeeded, At
  <2> QED
    BY <2>2, <2>3, <2>4
<1> QED
  BY <1>1, <1>2 DEF Inv

\* A command nobody waits for ends.
LEMMA OrphanEndsInv ==
  ASSUME Inv, NEW h \in Host, OrphanEnds(h)
  PROVE  Inv'
<1>1. /\ UNCHANGED <<spec, status, inputs, leased, owner, ex, verified>>
      /\ orphans' = [orphans EXCEPT ![h] = orphans[h] - 1] /\ orphans[h] > 0
      /\ orphans \in [Host -> Nat]
  BY DEF OrphanEnds, apiVars, Inv, ClaimsTyped
<1>2. ASSUME NEW k \in Host
      PROVE  Accounted(k)'
  <2>1. Accounted(k) /\ orphans[k] \in {0, 1}
    BY DEF Inv, Accounted
  <2>2. orphans'[k] \in {0, 1} /\ (orphans'[k] = 1 => orphans[k] = 1)
    BY <1>1, <2>1
  <2> QED
    BY <1>1, <2>1, <2>2 DEF Accounted, Covered, Unsure
<1>3. ApiTyped' /\ ClaimsTyped'
  BY <1>1 DEF Inv, ApiTyped, ClaimsTyped
<1> QED
  BY <1>1, <1>2, <1>3, OthersSound

\* An administrator frees a host without work on it.
LEMMA ResolveInv ==
  ASSUME Inv, NEW h \in Host, Resolve(h)
  PROVE  Inv'
<1>1. /\ UNCHANGED <<spec, status, inputs, leased, orphans, ex, verified>>
      /\ owner' = [owner EXCEPT ![h] = "free"] /\ orphans[h] = 0 /\ owner[h] = "retained"
      /\ owner \in [Host -> Owners] /\ "free" \in Owners
      /\ "retained" \notin Executor /\ "free" \notin Executor
  BY ConstantsAssumption DEF Resolve, apiVars, Inv, ClaimsTyped, Owners
<1>2. ASSUME NEW k \in Host
      PROVE  Accounted(k)'
  <2>1. Accounted(k)
    BY DEF Inv
  <2>2. CASE k = h
    BY <1>1, <2>2 DEF Accounted
  <2>3. CASE k # h
    <3>1. owner'[k] = owner[k]
      BY <1>1, <2>3
    <3> QED
      BY <1>1, <2>1, <3>1 DEF Accounted, Covered, Unsure
  <2> QED
    BY <2>2, <2>3
<1>3. ApiTyped' /\ ClaimsTyped'
  BY <1>1 DEF Inv, ApiTyped, ClaimsTyped
<1>4. \A f \in Executor : \A k \in Host : owner'[k] = f <=> owner[k] = f
  BY <1>1
<1> QED
  BY <1>1, <1>2, <1>3, <1>4, OthersSound

\* A change of the API objects that leases no owned host.
LEMMA ApiChangeSound ==
  ASSUME Inv, UNCHANGED <<ex, status, verified, owner, orphans>>, ApiTyped',
         \A h \in Host : leased'[h] => leased[h] \/ owner[h] = "free"
  PROVE  Inv'
<1>1. ClaimsTyped'
  BY DEF Inv, ClaimsTyped
<1>2. ASSUME NEW h \in Host
      PROVE  Accounted(h)'
  <2>1. Accounted(h)
    BY DEF Inv
  <2> QED
    BY <2>1 DEF Accounted, Covered, Unsure
<1> QED
  BY <1>1, <1>2, OthersSound

\* A spec is edited or suspended.
LEMMA EditSpecInv ==
  ASSUME Inv, NEW c \in Config, EditSpec(c)
  PROVE  Inv'
<1>1. UNCHANGED <<status, inputs, leased, owner, orphans, ex, verified>>
      /\ spec \in [Config -> SpecType] /\ MaxEdits \in Nat
  BY ConstantsAssumption DEF EditSpec, Inv, ApiTyped
<1>2. PICK s \in BOOLEAN :
        spec' = [spec EXCEPT ![c] = [generation |-> spec[c].generation + 1, suspended |-> s]]
  BY DEF EditSpec
<1>3. spec[c].generation + 1 \in 0 .. MaxEdits
  BY <1>1 DEF EditSpec, SpecType
<1>4. [generation |-> spec[c].generation + 1, suspended |-> s] \in SpecType
  BY <1>3 DEF SpecType
<1>5. ApiTyped'
  BY <1>1, <1>2, <1>4 DEF Inv, ApiTyped
<1> QED
  BY <1>1, <1>5, ApiChangeSound

\* A host or its facts change.
LEMMA EditHostInv ==
  ASSUME Inv, NEW h \in Host, EditHost(h)
  PROVE  Inv'
<1>1. /\ UNCHANGED <<spec, status, leased, owner, orphans, ex, verified>> /\ MaxChanges \in Nat
      /\ inputs \in [Host -> 0 .. MaxChanges] /\ inputs' = [inputs EXCEPT ![h] = inputs[h] + 1]
  BY ConstantsAssumption DEF EditHost, Inv, ApiTyped
<1>2. inputs[h] + 1 \in 0 .. MaxChanges
  BY <1>1 DEF EditHost
<1>3. ApiTyped'
  BY <1>1, <1>2 DEF Inv, ApiTyped
<1> QED
  BY <1>1, <1>3, ApiChangeSound

\* A provisioning run takes or returns a host.
LEMMA ProvisionInv ==
  ASSUME Inv, NEW h \in Host, Provision(h)
  PROVE  Inv'
<1>1. /\ UNCHANGED <<spec, status, owner, orphans, ex, verified>> /\ MaxChanges \in Nat
      /\ inputs \in [Host -> 0 .. MaxChanges] /\ leased \in [Host -> BOOLEAN]
      /\ owner[h] = "free" /\ inputs[h] < MaxChanges
      /\ inputs' = IF leased[h] THEN [inputs EXCEPT ![h] = inputs[h] + 1] ELSE inputs
  BY ConstantsAssumption DEF Provision, Inv, ApiTyped
<1>2. inputs[h] + 1 \in 0 .. MaxChanges
  BY <1>1
<1>3. inputs' \in [Host -> 0 .. MaxChanges]
  BY <1>1, <1>2
<1>4. leased' = [leased EXCEPT ![h] = ~leased[h]]
  BY DEF Provision
<1>5. leased' \in [Host -> BOOLEAN]
  BY <1>1, <1>4, Zenon
<1>6. \A k \in Host : leased'[k] => leased[k] \/ owner[k] = "free"
  BY <1>1, <1>4
<1>7. ApiTyped'
  BY <1>1, <1>3, <1>5 DEF Inv, ApiTyped
<1> QED
  BY <1>1, <1>6, <1>7, ApiChangeSound

-----------------------------------------------------------------------------
(* The theorems.                                                           *)

\* Every step of the system keeps the invariant.
LEMMA NextInv ==
  ASSUME Inv, [Next]_vars
  PROVE  Inv'
<1>1. ASSUME NEW e \in Executor, Pass(e)
      PROVE  Inv'
  BY <1>1, ListInv, PlanInv, AcquireInv, ReplanInv, ReportReconcilingInv,
     PatchReconcilingInv, VerifyStageInv, StageSucceedsInv, ConfirmInv, ReleaseInv, UnwoundInv,
     ReportInv, PatchReportInv DEF Pass
<1>2. ASSUME NEW e \in Executor,
             StageFails(e) \/ StageUncertain(e) \/ ReleaseFails(e) \/ ApiFault(e)
             \/ ClaimLost(e) \/ Terminate(e) \/ Kill(e)
      PROVE  Inv'
  BY <1>2, StageFailsInv, StageUncertainInv, ReleaseFailsInv, ApiFaultInv, ClaimLostInv,
     TerminateInv, KillInv
<1>3. ASSUME NEW h \in Host, OrphanEnds(h) \/ Resolve(h) \/ Provision(h) \/ EditHost(h)
      PROVE  Inv'
  BY <1>3, OrphanEndsInv, ResolveInv, ProvisionInv, EditHostInv
<1>4. ASSUME NEW c \in Config, EditSpec(c)
      PROVE  Inv'
  BY <1>4, EditSpecInv
<1>5. CASE UNCHANGED vars
  <2>1. UNCHANGED <<spec, status, inputs, leased, owner, orphans, ex, verified>>
    BY <1>5 DEF vars, apiVars
  <2>2. ApiTyped' /\ \A h \in Host : leased'[h] => leased[h] \/ owner[h] = "free"
    BY <2>1 DEF Inv, ApiTyped
  <2> QED
    BY <2>1, <2>2, ApiChangeSound
<1> QED
  BY <1>1, <1>2, <1>3, <1>4, <1>5 DEF Next

\* The invariant holds of every behaviour of the passes and of what others do.
THEOREM Invariance == Spec => []Inv
<1>1. Init => Inv
  BY InitInv
<1>2. Inv /\ [Next]_vars => Inv'
  BY NextInv
<1> QED
  BY <1>1, <1>2, PTL DEF Spec

\* Only passes have read what was written since.
StaleTyped == stale \subseteq Executor
LEMMA StaleStep ==
  ASSUME StaleTyped, [Next]_vars
  PROVE  StaleTyped'
<1>1. ASSUME NEW e \in Executor, NEW l, Local(e, l)
      PROVE  stale' = stale
  BY <1>1 DEF Local, apiVars
<1>2. ASSUME NEW e \in Executor, NEW pc, ReadToReport(e, pc)
      PROVE  stale' \subseteq stale
  BY <1>2 DEF ReadToReport
<1>3. ASSUME NEW e \in Executor, NEW p, NEW r, NEW l, PatchStatus(e, p, r, l)
      PROVE  stale' \subseteq Executor
  BY <1>3 DEF PatchStatus, Overtaken, StaleTyped
<1>4. ASSUME NEW e \in Executor, Pass(e)
      PROVE  StaleTyped'
  <2>1. CASE List(e) \/ Plan(e) \/ Replan(e) \/ VerifyStage(e) \/ Confirm(e) \/ Unwound(e)
    BY <1>1, <2>1 DEF StaleTyped, List, Plan, Replan, VerifyStage, Confirm, Unwound
  <2>2. CASE Acquire(e) \/ StageSucceeds(e) \/ Release(e)
    BY <1>1, <2>2 DEF StaleTyped, Acquire, StageSucceeds, Release, apiVars
  <2>3. CASE ReportReconciling(e) \/ Report(e)
    BY <1>1, <1>2, <2>3 DEF StaleTyped, ReportReconciling, Report
  <2>4. CASE PatchReconciling(e) \/ PatchReport(e)
    BY <1>1, <1>3, <2>4 DEF StaleTyped, PatchReconciling, PatchReport
  <2> QED
    BY <1>4, <2>1, <2>2, <2>3, <2>4 DEF Pass
<1>5. ASSUME NEW e \in Executor,
             StageFails(e) \/ StageUncertain(e) \/ ReleaseFails(e) \/ ApiFault(e)
             \/ ClaimLost(e) \/ Terminate(e) \/ Kill(e)
      PROVE  StaleTyped'
  BY <1>1, <1>5 DEF StaleTyped, StageFails, StageUncertain, ReleaseFails, ApiFault, ClaimLost,
     Terminate, Kill, apiVars
<1>6. ASSUME NEW h \in Host, OrphanEnds(h) \/ Resolve(h) \/ Provision(h) \/ EditHost(h)
      PROVE  StaleTyped'
  BY <1>6 DEF StaleTyped, OrphanEnds, Resolve, Provision, EditHost, apiVars
<1>7. ASSUME NEW c \in Config, EditSpec(c)
      PROVE  StaleTyped'
  BY <1>7 DEF StaleTyped, EditSpec, Overtaken
<1>8. CASE UNCHANGED vars
  BY <1>8 DEF StaleTyped, vars, apiVars
<1> QED
  BY <1>4, <1>5, <1>6, <1>7, <1>8 DEF Next

\* Every variable keeps its type, and a pass counts claims within the hosts of the
\* Configuration it is at, none of them outside execute().
THEOREM TypeCorrect == Spec => []TypeOK
<1>1. ASSUME Inv, StaleTyped
      PROVE  TypeOK
  <2>1. /\ spec \in [Config -> SpecType] /\ status \in [Config -> StatusType]
        /\ inputs \in [Host -> 0 .. MaxChanges] /\ leased \in [Host -> BOOLEAN]
        /\ owner \in [Host -> Owners] /\ orphans \in [Host -> Nat]
    BY <1>1 DEF Inv, ApiTyped, ClaimsTyped
  <2>2. \A c \in Config : status[c].phase \in Phases /\ status[c].observed \in 0 .. MaxEdits
    BY <2>1 DEF StatusType
  <2>3. ASSUME NEW e \in Executor
        PROVE  /\ ex[e].pc \in PCs /\ ex[e].stage \in 1 .. 3 /\ ex[e].at \in 1 .. Len(Order[e])
               /\ ex[e].held \in 0 .. Len(Hosts[conf(e)])
               /\ ex[e].pc \in {"list", "plan", "report", "reportPatch"} => ex[e].held = 0
    <3>1. ex[e] \in Locals /\ Ranges(e, ex[e]) /\ conf(e) = At(e, ex[e])
      BY <1>1, OfExecutor
    <3> QED
      BY <3>1 DEF Locals, Ranges
  <2> QED
    BY <1>1, <2>1, <2>2, <2>3 DEF TypeOK, SpecType, Owners, StaleTyped
<1>2. Init => StaleTyped
  BY DEF Init, StaleTyped
<1>3. StaleTyped /\ [Next]_vars => StaleTyped'
  BY StaleStep
<1> QED
  BY <1>1, <1>2, <1>3, Invariance, PTL DEF Spec

\* Two pieces of work are never on one host at a time, however many passes overlap and
\* however they are cut off: execute() takes every host of a Configuration before it
\* runs a command there, and reservation() frees only what is known to have ended.
THEOREM OneWorkerPerHost == Spec => []SoleWorker
<1>1. ASSUME Inv, NEW h \in Host
      PROVE  Cardinality({e \in Executor : ex[e].pc = "running" /\ h \in HostSet(conf(e))})
               + orphans[h] + (IF leased[h] THEN 1 ELSE 0) <= 1
  <2> DEFINE R == {e \in Executor : ex[e].pc = "running" /\ h \in HostSet(conf(e))}
  <2>1. Accounted(h) /\ orphans[h] \in {0, 1}
    BY <1>1 DEF Inv, Accounted
  <2>2. ASSUME NEW e \in R
        PROVE  owner[h] = e /\ ~Covered(h) /\ ~leased[h]
    <3>1. /\ Ranges(e, ex[e]) /\ Owns(e, ex[e]) /\ conf(e) = At(e, ex[e])
          /\ e \in Executor /\ ex[e].pc = "running" /\ h \in HostSet(conf(e))
      BY <1>1, <2>2, OfExecutor
    <3>2. h \in HeldIn(e, ex[e])
      BY <3>1 DEF HeldIn, HostSet, Ranges, Working
    <3>3. owner[h] = e
      BY <3>1, <3>2 DEF Owns
    <3> QED
      BY <2>1, <3>1, <3>3, ConstantsAssumption DEF Covered, Unsure, Accounted
  <2>3. CASE R = {}
    <3>1. Cardinality(R) = 0
      BY <2>3, FS_EmptySet
    <3>2. orphans[h] = 1 => ~leased[h]
      BY <2>1, ConstantsAssumption DEF Accounted, Covered
    <3> QED
      BY <2>1, <3>1, <3>2
  <2>4. CASE R # {}
    <3>1. PICK e : R = {e}
      BY <2>2, <2>4
    <3>2. Cardinality(R) = 1
      BY <3>1, FS_Singleton
    <3>3. orphans[h] = 0 /\ ~leased[h]
      BY <2>1, <2>2, <2>4 DEF Accounted
    <3> QED
      BY <3>2, <3>3
  <2> QED
    BY <2>3, <2>4
<1>2. Inv => SoleWorker
  BY <1>1 DEF SoleWorker
<1> QED
  BY <1>2, Invariance, PTL

\* A Ready report stands on a verified execution of its Configuration at the reported
\* revision and of every prerequisite at its part of it, for every graph of
\* prerequisites: plan() refuses a cycle, and prerequisite_inputs() a stale report.
THEOREM ReadyReportsStand == Spec => []ReadyIsGrounded
<1>1. Inv => ReadyIsGrounded
  BY DEF Inv
<1> QED
  BY <1>1, Invariance, PTL

-----------------------------------------------------------------------------
(* What a pass without faults keeps for an administrator.                  *)

Quiet == Faults \subseteq {"fail"} /\ OnePassEach

\* A listed spec is no newer than the stored one, and an execution that is to keep its
\* claims, or would if it wrote its report now, has had its own spec edited.
Listed(l) == \A c \in Config : l.listed[c].generation <= spec[c].generation
Edited(e, l) == l.listed[At(e, l)].generation # spec[At(e, l)].generation
Overruled(e, l) ==
  \/ l.pc = "unwind" /\ l.outcome = "uncertain"
  \/ l.pc = "reconcilePatch" /\ e \in stale
Honest(e, l) ==
  /\ Listed(l) /\ l.outcome # "terminated"
  /\ Overruled(e, l) => Edited(e, l)
Honesty == \A e \in Executor : Honest(e, ex[e])

\* A step of e that makes nobody else's copy stale leaves the others as they were.
LEMMA HonestStep ==
  ASSUME Inv, Honesty, NEW e \in Executor, NEW l, ex' = [ex EXCEPT ![e] = l], spec' = spec,
         \A f \in Executor \ {e} : f \in stale' => f \in stale,
         Listed(l), l.outcome # "terminated",
         l.pc = "unwind" /\ l.outcome = "uncertain" => Edited(e, l),
         l.pc = "reconcilePatch" /\ e \in stale' => Edited(e, l)
  PROVE  Honesty'
<1>1. ex \in [Executor -> Locals]
  BY DEF Inv
<1>2. ex'[e] = l /\ \A f \in Executor \ {e} : ex'[f] = ex[f]
  BY <1>1
<1>3. Honest(e, ex[e])'
  BY <1>2 DEF Honest, Listed, Overruled, Edited, At
<1>4. ASSUME NEW f \in Executor \ {e}
      PROVE  Honest(f, ex[f])'
  <2>1. Honest(f, ex[f]) /\ ex'[f] = ex[f]
    BY <1>2, <1>4 DEF Honesty
  <2> QED
    BY <2>1, <1>4 DEF Honest, Listed, Overruled, Edited, At
<1> QED
  BY <1>3, <1>4 DEF Honesty

\* ... as does a local step to a place where it keeps nothing for an administrator.
LEMMA HonestLocal ==
  ASSUME Inv, Honesty, NEW e \in Executor, NEW l, Local(e, l), l.listed = ex[e].listed,
         l.outcome # "terminated", l.pc # "reconcilePatch",
         l.pc = "unwind" => l.outcome # "uncertain"
  PROVE  Honesty'
<1>1. ex' = [ex EXCEPT ![e] = l] /\ spec' = spec /\ stale' = stale
  BY DEF Local, apiVars
<1>2. Listed(l)
  BY DEF Honesty, Honest, Listed
<1> QED
  BY <1>1, <1>2, HonestStep

\* Between executions a pass has listed nothing newer than what is stored.
LEMMA HonestAdvance ==
  ASSUME Inv, Honesty, NEW e \in Executor
  PROVE  /\ Listed(Advance(e)) /\ Advance(e).outcome = "none"
         /\ Advance(e).pc \in {"list", "plan"}
<1>1. ex[e] \in Locals /\ Listed(ex[e])
  BY OfExecutor DEF Honesty, Honest
<1>2. \A c \in Config : spec[c].generation \in Nat
  BY ConstantsAssumption DEF Inv, ApiTyped, SpecType
<1>3. Listed(Idle) /\ Idle.outcome = "none" /\ Idle.pc = "list"
  BY <1>2 DEF Listed, Idle, NewSpec
<1> QED
  BY <1>1, <1>3 DEF Advance, Idle, Listed

\* Without faults, and with one pass for each Configuration, a pass learns that its
\* Configuration was edited, or knows its outcome.
LEMMA HonestPass ==
  ASSUME Inv, Honesty, Quiet, NEW e \in Executor, Pass(e) \/ StageFails(e)
  PROVE  Honesty'
<1>1. /\ ex[e] \in Locals /\ ex \in [Executor -> Locals] /\ conf(e) = At(e, ex[e])
      /\ Honest(e, ex[e])
  BY OfExecutor DEF Honesty
<1>2. /\ ex[e].outcome # "terminated" /\ Listed(ex[e])
      /\ Overruled(e, ex[e]) => ~SameGeneration(e)
  BY <1>1 DEF Honest, Edited, SameGeneration
<1>3. ASSUME NEW pc, pc # "reconcilePatch", pc # "unwind", Local(e, Goto(e, pc))
      PROVE  Honesty'
  <2>1. /\ Goto(e, pc).pc = pc /\ Goto(e, pc).listed = ex[e].listed
        /\ Goto(e, pc).outcome = ex[e].outcome
    BY <1>1 DEF Goto, Locals
  <2> QED
    BY <1>2, <1>3, <2>1, HonestLocal
<1>4. ASSUME NEW o \in {"pending", "failed", "succeeded"}, Local(e, Unwind(e, o))
      PROVE  Honesty'
  <2>1. Unwind(e, o).listed = ex[e].listed /\ Unwind(e, o).outcome = o /\ Unwind(e, o).pc = "unwind"
    BY <1>1 DEF Unwind, Locals
  <2> QED
    BY <1>4, <2>1, HonestLocal
<1>5. ASSUME NEW p, NEW r, NEW l, PatchStatus(e, p, r, l), Listed(l), l.outcome # "terminated",
             l.pc # "reconcilePatch", l.pc # "unwind"
      PROVE  Honesty'
  <2>1. ASSUME NEW f \in Executor \ {e}, f \in stale'
        PROVE  f \in stale
    <3>1. conf(f) # conf(e)
      <4>1. ex[e].at \in 1 .. Len(Order[e]) /\ ex[f].at \in 1 .. Len(Order[f])
        BY <2>1, OfExecutor DEF Ranges
      <4> QED
        BY <2>1, <4>1 DEF conf, Quiet, OnePassEach
    <3> QED
      BY <1>5, <2>1, <3>1 DEF PatchStatus, Overtaken
  <2>2. ex' = [ex EXCEPT ![e] = l] /\ spec' = spec
    BY <1>5 DEF PatchStatus
  <2> QED
    BY <1>5, <2>1, <2>2, HonestStep
<1>6. ASSUME NEW pc, pc # "unwind", ReadToReport(e, pc)
      PROVE  Honesty'
  <2>1. /\ Goto(e, pc).pc = pc /\ Goto(e, pc).listed = ex[e].listed
        /\ Goto(e, pc).outcome = ex[e].outcome
    BY <1>1 DEF Goto, Locals
  <2>2. ex' = [ex EXCEPT ![e] = Goto(e, pc)] /\ spec' = spec /\ stale' = stale \ {e}
    BY <1>6 DEF ReadToReport
  <2>3. Listed(Goto(e, pc))
    BY <1>2, <2>1 DEF Listed
  <2> QED
    BY <1>2, <1>6, <2>1, <2>2, <2>3, HonestStep
<1>7. CASE Local(e, Advance(e))
  <2>1. ex' = [ex EXCEPT ![e] = Advance(e)] /\ spec' = spec /\ stale' = stale
    BY <1>7 DEF Local, apiVars
  <2>2. Listed(Advance(e)) /\ Advance(e).outcome = "none" /\ Advance(e).pc \in {"list", "plan"}
    BY HonestAdvance
  <2> QED
    BY <2>1, <2>2, HonestStep
<1>8. CASE List(e)
  <2> DEFINE l == [ex[e] EXCEPT !.pc = "plan", !.listed = spec]
  <2>1. ex' = [ex EXCEPT ![e] = l] /\ spec' = spec /\ stale' = stale
    BY <1>8 DEF List, Local, apiVars
  <2>2. l.pc = "plan" /\ l.listed = spec /\ l.outcome = ex[e].outcome
    BY <1>1 DEF Locals
  <2>3. \A c \in Config : spec[c].generation \in Nat
    BY ConstantsAssumption DEF Inv, ApiTyped, SpecType
  <2>4. Listed(l)
    BY <2>2, <2>3 DEF Listed
  <2> HIDE DEF l
  <2> QED
    BY <1>2, <2>1, <2>2, <2>4, HonestStep
<1>9. CASE Plan(e)
  <2>1. CASE /\ Plannable(conf(e), Seen(e))
             /\ Local(e, [ex[e] EXCEPT !.pc = "claim", !.revision = Revision(conf(e), Seen(e))])
    <3> DEFINE l == [ex[e] EXCEPT !.pc = "claim", !.revision = Revision(conf(e), Seen(e))]
    <3>1. l.pc = "claim" /\ l.listed = ex[e].listed /\ l.outcome = ex[e].outcome
      BY <1>1 DEF Locals
    <3>2. Local(e, l)
      BY <2>1
    <3> HIDE DEF l
    <3> QED
      BY <1>2, <3>1, <3>2, HonestLocal
  <2>2. ASSUME NEW o \in PlanFailures(e),
               Local(e, [ex[e] EXCEPT !.pc = "report", !.outcome = o])
        PROVE  Honesty'
    <3> DEFINE l == [ex[e] EXCEPT !.pc = "report", !.outcome = o]
    <3>1. l.pc = "report" /\ l.listed = ex[e].listed /\ l.outcome = o
      BY <1>1 DEF Locals
    <3>2. o # "terminated"
      BY <2>2 DEF PlanFailures
    <3>3. Local(e, l)
      BY <2>2
    <3> HIDE DEF l
    <3> QED
      BY <3>1, <3>2, <3>3, HonestLocal
  <2> QED
    BY <1>9, <2>1, <2>2, Zenon DEF Plan
<1>10. CASE Acquire(e)
  <2> DEFINE l == [ex[e] EXCEPT !.held = @ + 1]
  <2>1. CASE ex' = [ex EXCEPT ![e].held = @ + 1] /\ UNCHANGED <<apiVars, orphans, verified>>
    <3>1. ex' = [ex EXCEPT ![e] = l] /\ spec' = spec /\ stale' = stale
      BY <2>1, <1>1 DEF apiVars
    <3>2. l.pc = ex[e].pc /\ l.listed = ex[e].listed /\ l.outcome = ex[e].outcome /\ ex[e].pc = "claim"
      BY <1>1, <1>10 DEF Locals, Acquire
    <3>3. Listed(l)
      BY <1>2, <3>2 DEF Listed
    <3> HIDE DEF l
    <3> QED
      BY <1>2, <3>1, <3>2, <3>3, HonestStep
  <2> QED
    BY <1>4, <1>10, <2>1 DEF Acquire
<1>11. CASE Replan(e)
  <2>1. CASE InputsUnchanged(e)
    <3>1. Local(e, Goto(e, "reconciling"))
      BY <1>11, <2>1 DEF Replan
    <3> QED
      BY <1>3, <3>1
  <2>2. CASE ~InputsUnchanged(e)
    <3>1. Local(e, Unwind(e, "pending"))
      BY <1>11, <2>2 DEF Replan
    <3> QED
      BY <1>4, <3>1
  <2> QED
    BY <2>1, <2>2
<1>12. CASE ReportReconciling(e)
  <2>1. CASE ReadToReport(e, "reconcilePatch")
    BY <1>6, <2>1
  <2>2. CASE Local(e, Unwind(e, "pending"))
    BY <1>4, <2>2
  <2> QED
    BY <1>12, <2>1, <2>2 DEF ReportReconciling
<1>13. CASE PatchReconciling(e)
  <2>1. CASE PatchStatus(e, "Reconciling", ex[e].revision, Goto(e, "verify"))
    <3>1. /\ Goto(e, "verify").pc = "verify" /\ Goto(e, "verify").listed = ex[e].listed
          /\ Goto(e, "verify").outcome = ex[e].outcome
      BY <1>1 DEF Goto, Locals
    <3>2. Listed(Goto(e, "verify"))
      BY <1>2, <3>1 DEF Listed
    <3> QED
      BY <1>2, <1>5, <2>1, <3>1, <3>2
  <2>2. CASE e \in stale /\ Local(e, Unwind(e, "uncertain"))
    <3> DEFINE l == Unwind(e, "uncertain")
    <3>1. ex' = [ex EXCEPT ![e] = l] /\ spec' = spec /\ stale' = stale
      BY <2>2 DEF Local, apiVars
    <3>2. /\ l.listed = ex[e].listed /\ l.outcome = "uncertain" /\ l.at = ex[e].at
          /\ l.pc = "unwind"
      BY <1>1 DEF Unwind, Locals
    <3>3. Edited(e, ex[e])
      BY <1>1, <1>13, <2>2 DEF Honest, Overruled, PatchReconciling
    <3>4. Edited(e, l) /\ Listed(l)
      BY <1>2, <3>2, <3>3 DEF Edited, At, Listed
    <3> HIDE DEF l
    <3> QED
      BY <3>1, <3>2, <3>4, HonestStep
  <2> QED
    BY <1>13, <2>1, <2>2 DEF PatchReconciling
<1>14. CASE VerifyStage(e)
  <2>1. CASE Local(e, Unwind(e, "failed"))
    BY <1>4, <2>1
  <2>2. CASE Local(e, Unwind(e, "pending"))
    BY <1>4, <2>2
  <2>3. CASE Local(e, Goto(e, "running"))
    BY <1>3, <2>3
  <2> QED
    BY <1>14, <2>1, <2>2, <2>3 DEF VerifyStage
<1>15. CASE StageSucceeds(e)
  <2>1. CASE Local(e, [ex[e] EXCEPT !.pc = "verify", !.stage = @ + 1])
    <3> DEFINE l == [ex[e] EXCEPT !.pc = "verify", !.stage = @ + 1]
    <3>1. l.pc = "verify" /\ l.listed = ex[e].listed /\ l.outcome = ex[e].outcome
      BY <1>1 DEF Locals
    <3>2. Local(e, l)
      BY <2>1
    <3> HIDE DEF l
    <3> QED
      BY <1>2, <3>1, <3>2, HonestLocal
  <2>2. CASE ex' = [ex EXCEPT ![e] = Goto(e, "confirm")] /\ UNCHANGED <<apiVars, owner, orphans>>
    <3>1. /\ Goto(e, "confirm").pc = "confirm" /\ Goto(e, "confirm").listed = ex[e].listed
          /\ Goto(e, "confirm").outcome = ex[e].outcome
      BY <1>1 DEF Goto, Locals
    <3>2. spec' = spec /\ stale' = stale /\ Listed(Goto(e, "confirm"))
      BY <1>2, <2>2, <3>1 DEF apiVars, Listed
    <3> QED
      BY <1>2, <2>2, <3>1, <3>2, HonestStep
  <2> QED
    BY <1>15, <2>1, <2>2 DEF StageSucceeds
<1>16. CASE Confirm(e)
  BY <1>4, <1>16 DEF Confirm
<1>17. CASE Release(e)
  <2> DEFINE l == [ex[e] EXCEPT !.held = @ - 1]
  <2>1. ex' = [ex EXCEPT ![e] = l] /\ spec' = spec /\ stale' = stale
    BY <1>1, <1>17 DEF Release, apiVars
  <2>2. /\ l.pc = ex[e].pc /\ l.listed = ex[e].listed /\ l.outcome = ex[e].outcome
        /\ l.at = ex[e].at /\ ex[e].pc = "unwind"
    BY <1>1, <1>17 DEF Locals, Release
  <2>3. Listed(l)
    BY <1>2, <2>2 DEF Listed
  <2>4. l.outcome = "uncertain" => Edited(e, l)
    BY <1>1, <2>2 DEF Honest, Overruled, Edited, At
  <2> HIDE DEF l
  <2> QED
    BY <1>2, <2>1, <2>2, <2>3, <2>4, HonestStep
<1>18. CASE Unwound(e)
  <2>1. Local(e, Goto(e, "report"))
    BY <1>2, <1>18 DEF Unwound
  <2> QED
    BY <1>3, <2>1
<1>19. CASE Report(e)
  <2>1. CASE ReadToReport(e, "reportPatch")
    BY <1>6, <2>1
  <2> QED
    BY <1>7, <1>19, <2>1 DEF Report
<1>20. CASE PatchReport(e)
  <2>1. Listed(Advance(e)) /\ Advance(e).outcome = "none" /\ Advance(e).pc \in {"list", "plan"}
    BY HonestAdvance
  <2>2. CASE Local(e, ReportRefused(e))
    <3> DEFINE l == [ex[e] EXCEPT !.pc = "report", !.outcome = "failed"]
    <3>1. l.pc = "report" /\ l.listed = ex[e].listed /\ l.outcome = "failed"
      BY <1>1 DEF Locals
    <3>2. CASE Local(e, l)
      <4> HIDE DEF l
      <4> QED
        BY <3>1, <3>2, HonestLocal
    <3> QED
      BY <1>7, <2>2, <3>2 DEF ReportRefused
  <2> QED
    BY <1>5, <1>20, <2>1, <2>2 DEF PatchReport
<1>21. CASE StageFails(e)
  <2>1. PICK o \in Failures(e) : Local(e, Unwind(e, o))
    BY <1>21 DEF StageFails
  <2>2. o \in {"failed", "pending"}
    BY DEF Failures, Quiet
  <2> QED
    BY <1>4, <2>1, <2>2
<1> QED
  BY <1>8, <1>9, <1>10, <1>11, <1>12, <1>13, <1>14, <1>15, <1>16, <1>17, <1>18, <1>19, <1>20,
     <1>21 DEF Pass

\* ... nobody else's step makes a listing newer than what is stored, and an edit leaves
\* every pass at that Configuration with an older one.
LEMMA HonestEdit ==
  ASSUME Inv, Honesty, NEW c \in Config, EditSpec(c)
  PROVE  Honesty'
<1>1. /\ ex' = ex /\ spec \in [Config -> SpecType] /\ stale' = Overtaken(c, Executor)
      /\ spec'[c].generation = spec[c].generation + 1
      /\ \A d \in Config \ {c} : spec'[d] = spec[d]
  BY DEF EditSpec, Inv, ApiTyped
<1>2. spec[c].generation \in Nat /\ \A d \in Config : spec[d].generation <= spec'[d].generation
  BY <1>1, ConstantsAssumption DEF SpecType
<1>3. ASSUME NEW e \in Executor
      PROVE  Honest(e, ex[e])'
  <2>1. /\ ex[e] \in Locals /\ Honest(e, ex[e]) /\ At(e, ex[e]) = conf(e) /\ conf(e) \in Config
    BY OfExecutor DEF Honesty
  <2>2. \A d \in Config : /\ ex[e].listed[d].generation <= spec[d].generation
                          /\ ex[e].listed[d].generation \in Int
                          /\ spec[d].generation \in Int /\ spec'[d].generation \in Int
    <3>1. ex[e].listed \in [Config -> SpecType]
      BY <2>1 DEF Locals
    <3>2. \A d \in Config : ex[e].listed[d] \in SpecType /\ spec[d] \in SpecType
      BY <1>1, <3>1
    <3>3. \A d \in Config : /\ ex[e].listed[d].generation \in Int
                            /\ spec[d].generation \in Int
      BY <3>2, ConstantsAssumption DEF SpecType
    <3> QED
      BY <1>1, <2>1, <3>3 DEF Honest, Listed
  <2>3. Listed(ex[e])'
    BY <1>1, <1>2, <2>2 DEF Listed
  <2>4. CASE conf(e) = c
    <3>1. Edited(e, ex[e])'
      BY <1>1, <1>2, <2>1, <2>2, <2>4 DEF Edited, At
    <3> QED
      BY <1>1, <2>1, <2>3, <3>1 DEF Honest
  <2>5. CASE conf(e) # c
    <3>1. e \in stale' <=> e \in stale
      BY <1>1, <2>5 DEF Overtaken
    <3>2. Edited(e, ex[e])' <=> Edited(e, ex[e])
      BY <1>1, <2>1, <2>5 DEF Edited, At
    <3> QED
      BY <1>1, <2>1, <2>3, <3>1, <3>2 DEF Honest, Overruled
  <2> QED
    BY <2>4, <2>5
<1> QED
  BY <1>3 DEF Honesty

LEMMA HonestNext ==
  ASSUME Inv, Honesty, Quiet, [Next]_vars
  PROVE  Honesty'
<1>1. ASSUME ex' = ex, spec' = spec, stale' = stale
      PROVE  Honesty'
  BY <1>1 DEF Honesty, Honest, Listed, Overruled, Edited, At
<1>2. ASSUME NEW e \in Executor,
             \/ Pass(e) \/ StageFails(e) \/ StageUncertain(e) \/ ReleaseFails(e) \/ ApiFault(e)
             \/ ClaimLost(e) \/ Terminate(e) \/ Kill(e)
      PROVE  Pass(e) \/ StageFails(e)
  BY <1>2 DEF Quiet, StageUncertain, ReleaseFails, ApiFault, ClaimLost, Terminate, Kill
<1>3. CASE \E e \in Executor :
             \/ Pass(e) \/ StageFails(e) \/ StageUncertain(e) \/ ReleaseFails(e) \/ ApiFault(e)
             \/ ClaimLost(e) \/ Terminate(e) \/ Kill(e)
  BY <1>2, <1>3, HonestPass
<1>4. CASE \E h \in Host : OrphanEnds(h) \/ Resolve(h) \/ Provision(h) \/ EditHost(h)
  BY <1>1, <1>4 DEF OrphanEnds, Resolve, Provision, EditHost, apiVars
<1>5. CASE \E c \in Config : EditSpec(c)
  BY <1>5, HonestEdit
<1>6. CASE UNCHANGED vars
  BY <1>1, <1>6 DEF vars, apiVars
<1> QED
  BY <1>3, <1>4, <1>5, <1>6 DEF Next

\* Only a release of claims whose outcome is unknown retains a host, and only its owner
\* releases it.
LEMMA RetainingStep ==
  ASSUME Inv, Honesty, Quiet, Next, NEW e \in Executor, NEW h \in Host,
         owner[h] = e, owner'[h] = "retained"
  PROVE  ~SameGeneration(e)
<1>1. owner'[h] # owner[h] /\ owner \in [Host -> Owners]
  BY ConstantsAssumption DEF Inv, ClaimsTyped
<1>2. ASSUME NEW f \in Executor, Release(f)
      PROVE  ~SameGeneration(e)
  <2>1. /\ ex[f] \in Locals /\ Ranges(f, ex[f]) /\ Owns(f, ex[f]) /\ conf(f) = At(f, ex[f])
        /\ Honest(f, ex[f])
    BY OfExecutor DEF Honesty
  <2> DEFINE g == Hosts[conf(f)][ex[f].held]
  <2>2. h = g /\ ex[f].outcome \in {"uncertain", "terminated"} /\ ex[f].pc = "unwind"
    BY <1>1, <1>2 DEF Release
  <2>3. ex[f].held \in 1 .. ex[f].held
    BY <1>2, <2>1 DEF Release, Locals
  <2>4. h \in HeldIn(f, ex[f])
    BY <2>1, <2>2, <2>3 DEF HeldIn
  <2>5. owner[h] = f
    BY <2>1, <2>4 DEF Owns
  <2>6. Edited(f, ex[f])
    BY <2>1, <2>2 DEF Honest, Overruled
  <2> QED
    BY <2>1, <2>5, <2>6 DEF Edited, SameGeneration
<1>3. ASSUME NEW f \in Executor, Acquire(f)
      PROVE  owner'[h] = owner[h] \/ owner'[h] = f
  BY <1>1, <1>3 DEF Acquire, Local
<1>4. ASSUME NEW f \in Executor, Pass(f) \/ StageFails(f), ~Release(f), ~Acquire(f)
      PROVE  owner' = owner
  <2>1. CASE List(f) \/ Plan(f) \/ Replan(f) \/ VerifyStage(f) \/ Confirm(f) \/ Unwound(f)
    <3>1. ASSUME NEW l, Local(f, l)
          PROVE  owner' = owner
      BY <3>1 DEF Local
    <3> QED
      BY <2>1, <3>1, Zenon DEF List, Plan, Replan, VerifyStage, Confirm, Unwound
  <2>2. CASE ReportReconciling(f) \/ PatchReconciling(f) \/ Report(f) \/ PatchReport(f)
    BY <2>2 DEF ReportReconciling, PatchReconciling, Report, PatchReport, ReadToReport,
                PatchStatus, Local
  <2>3. CASE StageSucceeds(f) \/ StageFails(f)
    BY <2>3 DEF StageSucceeds, StageFails, Local
  <2> QED
    BY <1>4, <2>1, <2>2, <2>3 DEF Pass
<1>5. ASSUME NEW f \in Executor,
             \/ Pass(f) \/ StageFails(f) \/ StageUncertain(f) \/ ReleaseFails(f) \/ ApiFault(f)
             \/ ClaimLost(f) \/ Terminate(f) \/ Kill(f)
      PROVE  ~SameGeneration(e)
  <2>1. Pass(f) \/ StageFails(f)
    BY <1>5 DEF Quiet, StageUncertain, ReleaseFails, ApiFault, ClaimLost, Terminate, Kill
  <2>2. Release(f)
    BY <1>1, <1>3, <1>4, <2>1, ConstantsAssumption
  <2> QED
    BY <1>2, <2>2
<1>6. ASSUME NEW k \in Host, OrphanEnds(k) \/ Resolve(k) \/ Provision(k) \/ EditHost(k)
      PROVE  owner'[h] # "retained" \/ owner'[h] = owner[h]
  BY <1>1, <1>6 DEF OrphanEnds, Resolve, Provision, EditHost
<1>7. ASSUME NEW c \in Config, EditSpec(c)
      PROVE  owner' = owner
  BY <1>7 DEF EditSpec
<1> QED
  BY <1>1, <1>5, <1>6, <1>7 DEF Next

\* Where no request fails, nobody is interrupted and a Configuration has one pass, a
\* host is kept for an administrator only by an execution whose spec was edited under
\* it, for every number of hosts and passes and however its commands end.
THEOREM KeptForAnEdit == Spec => RetainedAfterEdit
<1>1. Init => (Quiet => Honesty)
  <2>1. SUFFICES ASSUME Init, NEW e \in Executor
                 PROVE  Honest(e, ex[e])
    BY DEF Honesty
  <2>2. ex[e] = Idle /\ spec = [c \in Config |-> NewSpec]
    BY <2>1 DEF Init
  <2> QED
    <3>1. \A c \in Config : spec[c].generation = 0 /\ Idle.listed[c].generation = 0
      BY <2>2 DEF Idle, NewSpec
    <3> QED
      BY <2>2, <3>1 DEF Honest, Listed, Overruled, Idle
<1>2. Inv /\ (Quiet => Honesty) /\ [Next]_vars => (Quiet => Honesty)'
  <2>1. Quiet' => Quiet
    BY DEF Quiet, OnePassEach
  <2> QED
    BY <2>1, HonestNext
<1>3. Inv /\ (Quiet => Honesty) /\ [Next]_vars
        => [Faults \subseteq {"fail"} /\ OnePassEach =>
              \A e \in Executor, h \in Host :
                owner[h] = e /\ owner'[h] = "retained" => ~SameGeneration(e)]_vars
  <2>1. Inv /\ (Quiet => Honesty) /\ Next
          => (Quiet => \A e \in Executor, h \in Host :
                         owner[h] = e /\ owner'[h] = "retained" => ~SameGeneration(e))
    BY RetainingStep
  <2> QED
    BY <2>1 DEF Quiet
<1> QED
  BY <1>1, <1>2, <1>3, Invariance, PTL DEF Spec, RetainedAfterEdit
=============================================================================
