----------------------- MODULE DependencyOrderProofs -----------------------
(***************************************************************************)
(* Proofs about DependencyOrder for every set of Configurations and every  *)
(* dependency graph.                                                       *)
(***************************************************************************)
EXTENDS DependencyOrder, SequenceTheorems, FiniteSetTheorems, TLAPS

\* Every prerequisite that a call of visit() no longer has to look at is in the
\* order already, or is the one whose call is active right above it.
FramesInv ==
  result = "walking" =>
    \A i \in 1 .. Len(stack) :
      \A d \in (dependencies[stack[i].name] \cap Indexed) \ stack[i].todo :
        d \in visited \/ (i < Len(stack) /\ d = stack[i + 1].name)

Inv == TypeOK /\ FramesInv /\ PrerequisitesFirst

-----------------------------------------------------------------------------

\* The walk starts with nothing visited.
LEMMA InitInv == Init => Inv
  BY NamesAssumption DEF Init, Inv, TypeOK, FramesInv, PrerequisitesFirst, NamesAssumption, Frame, Names, Elements

\* A stack that is not empty has a top frame.
LEMMA NonEmpty ==
  ASSUME NEW S, NEW s \in Seq(S), s # <<>>
  PROVE  Len(s) \in Nat /\ Len(s) > 0 /\ s[Len(s)] \in S
  BY EmptySeq

\* What remains of a stack when its top frame is taken off.
LEMMA Pop ==
  ASSUME NEW S, NEW s \in Seq(S), s # <<>>
  PROVE  /\ SubSeq(s, 1, Len(s) - 1) \in Seq(S)
         /\ Len(SubSeq(s, 1, Len(s) - 1)) = Len(s) - 1
         /\ \A i \in 1 .. Len(s) - 1 : SubSeq(s, 1, Len(s) - 1)[i] = s[i]
  <1> DEFINE n == Len(s) - 1
  <1>1. n \in Nat /\ Len(s) \in Nat
    BY NonEmpty
  <1>2. \A i \in 1 .. n : s[i] \in S
    BY <1>1
  <1> HIDE DEF n
  <1>3. SubSeq(s, 1, n) \in Seq(S) /\ Len(SubSeq(s, 1, n)) = IF 1 <= n THEN n ELSE 0
    BY <1>1, <1>2, SubSeqProperties
  <1>4. \A i \in 1 .. n : SubSeq(s, 1, n)[i] = s[i]
    BY <1>1, <1>2, SubSeqProperties
  <1>5. Len(SubSeq(s, 1, n)) = n
    BY <1>1, <1>3
  <1> QED
    BY <1>3, <1>4, <1>5 DEF n

\* A visit with frames below it keeps the invariant, when frames is the stack
\* except that its top frame need not look at n any more.
LEMMA VisitInv ==
  ASSUME Inv, result = "walking", NEW STATE n, n \in Indexed,
         NEW STATE frames, frames \in Seq(Frame),
         Len(frames) = Len(stack),
         \A i \in 1 .. Len(stack) : frames[i].name = stack[i].name,
         \A i \in 1 .. Len(stack) :
           \/ frames[i].todo = stack[i].todo
           \/ i = Len(stack) /\ frames[i].todo = stack[i].todo \ {n},
         Visit(n, frames),
         root' \in 1 .. Len(Sorted) + 1
  PROVE  Inv'
  <1>a. Len(stack) \in Nat /\ Len(frames) \in Nat
    BY DEF Inv, TypeOK
  <1>b. UNCHANGED <<dependencies, visited, ordered>>
    BY DEF Visit
  <1>c. PrerequisitesFirst'
    BY <1>b DEF Inv, PrerequisitesFirst
  <1>d. Names(frames) = visiting
    BY <1>a DEF Inv, TypeOK, Names
  <1>e. \A i, j \in 1 .. Len(frames) : i # j => frames[i].name # frames[j].name
    BY <1>a DEF Inv, TypeOK
  <1>0. ASSUME stack' = frames, visiting' = visiting, result' \in {"walking", "cycle"}
        PROVE  TypeOK'
    BY <1>0, <1>a, <1>b, <1>d, <1>e DEF Inv, TypeOK
  <1>1. CASE n \in visiting
    <2>1. stack' = frames /\ result' = "cycle" /\ visiting' = visiting
      BY <1>1 DEF Visit
    <2>2. FramesInv'
      BY <2>1 DEF FramesInv
    <2> QED
      BY <1>0, <1>c, <2>1, <2>2 DEF Inv
  <1>2. CASE n \notin visiting /\ n \in visited
    <2>1. stack' = frames /\ visiting' = visiting /\ result' = result
      BY <1>2 DEF Visit, Inv, TypeOK
    <2>2. FramesInv'
      BY <1>2, <1>a, <1>b, <2>1 DEF Inv, FramesInv
    <2> QED
      BY <1>0, <1>c, <2>1, <2>2 DEF Inv
  <1>3. CASE n \notin visiting /\ n \notin visited
    <2> DEFINE f == [name |-> n, todo |-> dependencies[n]]
               k == Len(stack)
    <2>1. stack' = Append(frames, f) /\ visiting' = visiting \cup {n} /\ result' = result
      BY <1>3 DEF Call, Visit
    <2>2. f \in Frame /\ f.name = n /\ f.todo = dependencies[n]
      BY DEF Inv, TypeOK, Frame
    <2> HIDE DEF f
    <2>3. /\ stack' \in Seq(Frame) /\ Len(stack') = k + 1 /\ stack'[k + 1] = f
          /\ \A i \in 1 .. k : stack'[i] = frames[i]
      BY <1>a, <2>1, <2>2
    <2>4. TypeOK'
      <3>1. visiting' = Names(stack')
        BY <1>a, <1>d, <2>1, <2>2, <2>3 DEF Names
      <3>2. \A i, j \in 1 .. Len(stack') : i # j => stack'[i].name # stack'[j].name
        BY <1>3, <1>a, <1>d, <1>e, <2>2, <2>3 DEF Names
      <3>3. visiting' \cap visited' = {}
        BY <1>3, <1>b, <2>1 DEF Inv, TypeOK
      <3> QED
        BY <1>b, <2>1, <2>3, <3>1, <3>2, <3>3 DEF Inv, TypeOK
    <2>5. FramesInv'
      <3>1. ASSUME NEW i \in 1 .. Len(stack'),
                   NEW d \in (dependencies[stack'[i].name] \cap Indexed) \ stack'[i].todo
            PROVE  d \in visited \/ (i < Len(stack') /\ d = stack'[i + 1].name)
        <4>1. CASE i = k + 1
          BY <2>2, <2>3, <3>1, <4>1
        <4>2. CASE i \in 1 .. k
          <5>1. stack'[i].name = stack[i].name /\ stack'[i] = frames[i]
            BY <2>3, <4>2
          <5>2. CASE d \notin stack[i].todo
            <6>1. d \in visited \/ (i < k /\ d = stack[i + 1].name)
              BY <1>b, <3>1, <4>2, <5>1, <5>2 DEF Inv, FramesInv
            <6>2. i < k => stack'[i + 1].name = stack[i + 1].name
              BY <1>a, <2>3, <4>2
            <6> QED
              BY <1>a, <2>3, <4>2, <6>1, <6>2
          <5>3. CASE d \in stack[i].todo
            BY <1>a, <2>2, <2>3, <3>1, <4>2, <5>3
          <5> QED
            BY <5>2, <5>3
        <4> QED
          BY <1>a, <2>3, <4>1, <4>2
      <3> QED
        BY <1>b, <3>1 DEF FramesInv
    <2> QED
      BY <1>c, <2>4, <2>5 DEF Inv
  <1> QED
    BY <1>1, <1>2, <1>3

\* The call that ends has seen all its prerequisites into the order.
LEMMA LeaveInv == ASSUME Inv, Leave PROVE Inv'
  <1> DEFINE k == Len(stack)
             n == stack[k].name
             m == Len(ordered)
  <1>0. stack \in Seq(Frame) /\ stack # <<>> /\ ordered \in Seq(Indexed) /\ m \in Nat
    BY DEF Inv, TypeOK, Leave
  <1>1. k \in Nat /\ k > 0 /\ stack[k] \in Frame /\ n \in Indexed /\ stack[k].todo = {}
    <2>1. k \in Nat /\ k > 0 /\ stack[k] \in Frame
      BY <1>0, NonEmpty
    <2> QED
      BY <2>1 DEF Leave, Top, Frame
  <1>2. /\ stack' = SubSeq(stack, 1, k - 1) /\ ordered' = Append(ordered, n)
        /\ visiting' = visiting \ {n} /\ visited' = visited \cup {n}
        /\ UNCHANGED <<dependencies, root, result>> /\ result = "walking"
    BY DEF Leave, Top
  <1> HIDE DEF n
  <1>3. /\ stack' \in Seq(Frame) /\ Len(stack') = k - 1
        /\ \A i \in 1 .. k - 1 : stack'[i] = stack[i]
    BY <1>0, <1>2, Pop
  <1>4. /\ ordered' \in Seq(Indexed) /\ Len(ordered') = m + 1 /\ ordered'[m + 1] = n
        /\ \A i \in 1 .. m : ordered'[i] = ordered[i]
    BY <1>0, <1>1, <1>2
  <1>5. n \in visiting /\ n \notin visited
    BY <1>1 DEF Inv, TypeOK, Names, n
  <1>6. \A d \in dependencies[n] \cap Indexed : d \in visited
    BY <1>1, <1>2 DEF Inv, FramesInv, n
  <1>7. TypeOK'
    <2>1. visiting' = Names(stack')
      <3>1. \A i \in 1 .. k : i # k => stack[i].name # n
        BY <1>1 DEF Inv, TypeOK, n
      <3> QED
        <4>1. visiting = {stack[i].name : i \in 1 .. k}
          BY DEF Inv, TypeOK, Names
        <4>2. ASSUME NEW x PROVE x \in visiting' <=> \E i \in 1 .. k - 1 : x = stack[i].name
          <5>1. \A i \in 1 .. k : i = k \/ i \in 1 .. k - 1
            BY <1>1
          <5>2. \A i \in 1 .. k - 1 : i \in 1 .. k /\ i # k
            BY <1>1
          <5>3. stack[k].name = n
            BY DEF n
          <5> HIDE DEF k
          <5> QED
            BY <1>2, <3>1, <4>1, <5>1, <5>2, <5>3
        <4>3. Names(stack') = {stack[i].name : i \in 1 .. k - 1}
          BY <1>1, <1>3 DEF Names
        <4> QED
          BY <4>2, <4>3
    <2>2. visited' = Elements(ordered')
      BY <1>0, <1>2, <1>4 DEF Inv, TypeOK, Elements
    <2>3. visiting' \cap visited' = {}
      BY <1>2 DEF Inv, TypeOK
    <2>4. \A i, j \in 1 .. Len(stack') : i # j => stack'[i].name # stack'[j].name
      BY <1>1, <1>3 DEF Inv, TypeOK
    <2> QED
      BY <1>2, <1>3, <1>4, <2>1, <2>2, <2>3, <2>4 DEF Inv, TypeOK
  <1>8. FramesInv'
    <2>1. ASSUME NEW i \in 1 .. k - 1,
                 NEW d \in (dependencies[stack[i].name] \cap Indexed) \ stack[i].todo
          PROVE  d \in visited \/ d = stack[i + 1].name
      BY <1>1, <1>2, <2>1 DEF Inv, FramesInv
    <2> QED
      BY <1>1, <1>2, <1>3, <2>1 DEF FramesInv, n
  <1>9. PrerequisitesFirst'
    <2>0. visited = {ordered[i] : i \in 1 .. m}
      BY DEF Inv, TypeOK, Elements
    <2>1. \A i, j \in 1 .. m + 1 : i # j => ordered'[i] # ordered'[j]
      BY <1>0, <1>4, <1>5, <2>0 DEF Inv, PrerequisitesFirst
    <2>2. ASSUME NEW i \in 1 .. m + 1, NEW d \in dependencies[ordered'[i]] \cap Indexed
          PROVE  \E j \in 1 .. i - 1 : ordered'[j] = d
      <3>1. CASE i <= m
        BY <1>0, <1>4, <2>2, <3>1 DEF Inv, PrerequisitesFirst
      <3>2. CASE i = m + 1
        BY <1>0, <1>4, <1>6, <2>0, <2>2, <3>2
      <3> QED
        BY <1>0, <3>1, <3>2
    <2> QED
      BY <1>2, <1>4, <2>1, <2>2 DEF PrerequisitesFirst
  <1> QED
    BY <1>7, <1>8, <1>9 DEF Inv

\* Every step of the walk keeps the invariant.
LEMMA NextInv == Inv /\ [Next]_vars => Inv'
  <1> SUFFICES ASSUME Inv, [Next]_vars PROVE Inv'
    OBVIOUS
  <1>1. CASE VisitRoot
    <2>1. Len(Sorted) \in Nat /\ root \in 1 .. Len(Sorted) /\ Sorted[root] \in Indexed
      BY <1>1, NamesAssumption DEF VisitRoot, Inv, TypeOK, NamesAssumption
    <2>2. root' \in 1 .. Len(Sorted) + 1 /\ result = "walking" /\ stack = <<>>
      BY <1>1, <2>1 DEF VisitRoot
    <2>3. <<>> \in Seq(Frame) /\ Len(<<>>) = 0 /\ 1 .. 0 = {}
      BY EmptySeq
    <2>4. /\ \A i \in 1 .. Len(stack) : stack[i].name = stack[i].name
          /\ \A i \in 1 .. Len(stack) : stack[i].todo = stack[i].todo
      OBVIOUS
    <2>5. Visit(Sorted[root], stack)
      BY <1>1, <2>2 DEF VisitRoot
    <2> QED
      BY <2>1, <2>2, <2>3, <2>4, <2>5, VisitInv
  <1>2. CASE VisitDependency
    <2>1. PICK d \in Top.todo :
            \/ d \in Indexed /\ Visit(d, Less(d)) /\ UNCHANGED root
            \/ /\ d \notin Indexed
               /\ stack' = Less(d)
               /\ UNCHANGED <<dependencies, root, visiting, visited, ordered, result>>
      BY <1>2 DEF VisitDependency
    <2>2. /\ Len(stack) \in Nat /\ Len(stack) > 0 /\ stack \in Seq(Frame) /\ result = "walking"
          /\ \A i \in 1 .. Len(stack) : stack[i] \in Frame
      BY <1>2 DEF VisitDependency, Inv, TypeOK
    <2>3. /\ Less(d) \in Seq(Frame) /\ Len(Less(d)) = Len(stack)
          /\ \A i \in 1 .. Len(stack) :
               /\ Less(d)[i].name = stack[i].name
               /\ Less(d)[i].todo = IF i = Len(stack) THEN stack[i].todo \ {d} ELSE stack[i].todo
      <3>1. Less(d) = [stack EXCEPT ![Len(stack)] = [stack[Len(stack)] EXCEPT !.todo = @ \ {d}]]
        BY DEF Less
      <3>2. /\ [stack[Len(stack)] EXCEPT !.todo = @ \ {d}] \in Frame
            /\ [stack[Len(stack)] EXCEPT !.todo = @ \ {d}].name = stack[Len(stack)].name
            /\ [stack[Len(stack)] EXCEPT !.todo = @ \ {d}].todo = stack[Len(stack)].todo \ {d}
        BY <2>2 DEF Frame
      <3>3. Len(stack) \in 1 .. Len(stack)
        BY <2>2
      <3> DEFINE f == [stack[Len(stack)] EXCEPT !.todo = @ \ {d}]
      <3> HIDE DEF f
      <3>4. /\ Less(d) \in Seq(Frame) /\ Len(Less(d)) = Len(stack)
            /\ \A i \in 1 .. Len(stack) : Less(d)[i] = IF i = Len(stack) THEN f ELSE stack[i]
        BY <2>2, <3>1, <3>2, <3>3, ExceptSeq DEF f
      <3>5. f.name = stack[Len(stack)].name /\ f.todo = stack[Len(stack)].todo \ {d}
        BY <3>2 DEF f
      <3> QED
        BY <3>4, <3>5
    <2>4. CASE d \in Indexed /\ Visit(d, Less(d)) /\ UNCHANGED root
      <3>1. root' \in 1 .. Len(Sorted) + 1
        BY <2>4 DEF Inv, TypeOK
      <3> QED
        BY <2>2, <2>3, <2>4, <3>1, VisitInv
    <2>5. CASE /\ d \notin Indexed
               /\ stack' = Less(d)
               /\ UNCHANGED <<dependencies, root, visiting, visited, ordered, result>>
      <3>1. TypeOK'
        <4>1. Names(stack') = Names(stack)
          BY <2>2, <2>3, <2>5 DEF Names
        <4> QED
          <5>1. \A i, j \in 1 .. Len(stack') : i # j => stack'[i].name # stack'[j].name
            <6>1. Len(stack') = Len(stack)
              BY <2>3, <2>5
            <6>2. \A i \in 1 .. Len(stack) : stack'[i].name = stack[i].name
              BY <2>3, <2>5
            <6>3. \A i, j \in 1 .. Len(stack) : i # j => stack[i].name # stack[j].name
              BY DEF Inv, TypeOK
            <6> QED
              BY <6>1, <6>2, <6>3
          <5>2. stack' \in Seq(Frame)
            BY <2>3, <2>5
          <5>3. visiting' = Names(stack')
            BY <2>5, <4>1 DEF Inv, TypeOK
          <5>4. visited' = Elements(ordered') /\ visiting' \cap visited' = {}
            BY <2>5 DEF Inv, TypeOK
          <5> QED
            BY <2>5, <5>1, <5>2, <5>3, <5>4 DEF Inv, TypeOK
      <3>2. FramesInv'
        <4>1. ASSUME NEW i \in 1 .. Len(stack),
                     NEW x \in (dependencies[stack[i].name] \cap Indexed) \ Less(d)[i].todo
              PROVE  x \notin stack[i].todo
          BY <2>3, <2>5, <4>1
        <4>2. ASSUME NEW i \in 1 .. Len(stack),
                     NEW x \in (dependencies[stack[i].name] \cap Indexed) \ Less(d)[i].todo
              PROVE  x \in visited \/ (i < Len(stack) /\ x = stack[i + 1].name)
          BY <2>2, <4>1, <4>2 DEF Inv, FramesInv
        <4>3. ASSUME NEW i \in 1 .. Len(stack), i < Len(stack)
              PROVE  Less(d)[i + 1].name = stack[i + 1].name
          <5>1. i + 1 \in 1 .. Len(stack)
            <6> DEFINE k == Len(stack)
            <6>1. k \in Nat /\ i \in 1 .. k /\ i < k
              BY <2>2, <4>3
            <6> HIDE DEF k
            <6>2. i + 1 \in 1 .. k
              BY <6>1
            <6> QED
              BY <6>2 DEF k
          <5> QED
            BY <2>3, <5>1
        <4> QED
          BY <2>2, <2>3, <2>5, <4>2, <4>3 DEF FramesInv
      <3> QED
        BY <2>5, <3>1, <3>2 DEF Inv, PrerequisitesFirst
    <2> QED
      BY <2>1, <2>4, <2>5
  <1>3. CASE Leave
    BY <1>3, LeaveInv
  <1>4. CASE Return
    BY <1>4 DEF Return, Inv, TypeOK, FramesInv, PrerequisitesFirst
  <1>5. CASE UNCHANGED vars
    BY <1>5 DEF vars, Inv, TypeOK, FramesInv, PrerequisitesFirst
  <1> QED
    BY <1>1, <1>2, <1>3, <1>4, <1>5 DEF Next


-----------------------------------------------------------------------------
(* Cycles.                                                                 *)

\* Every call of visit() is there because the calls below it need its name.
PathInv ==
  \A i, j \in 1 .. Len(stack) : i < j => stack[j].name \in Needed(stack[i].name)

\* A call has only its own prerequisites left to look at.
TodoInv == \A i \in 1 .. Len(stack) : stack[i].todo \subseteq dependencies[stack[i].name]

\* The outer loop has visited, or is visiting, the names that it has passed.
RootInv == \A i \in 1 .. Len(Sorted) : i < root => Sorted[i] \in visiting \cup visited

ResultInv ==
  /\ result = "cycle" => Cyclic
  /\ result = "ordered" => stack = <<>> /\ root > Len(Sorted)

WalkInv == PathInv /\ TodoInv /\ RootInv /\ ResultInv

\* What a name needs is closed, and the least such set.
LEMMA NeededFacts ==
  ASSUME NEW n \in Indexed
  PROVE  /\ Needed(n) \subseteq Indexed /\ Prerequisites(n) \subseteq Needed(n)
         /\ \A x \in Needed(n) : Prerequisites(x) \subseteq Needed(n)
         /\ \A S \in SUBSET Indexed :
              Prerequisites(n) \subseteq S /\ (\A x \in S : Prerequisites(x) \subseteq S)
                => Needed(n) \subseteq S
  <1>1. \A x : Prerequisites(x) \subseteq Indexed
    BY DEF Prerequisites
  <1>2. /\ Needed(n) \subseteq Indexed
        /\ \A S \in SUBSET Indexed :
             Prerequisites(n) \subseteq S /\ (\A x \in S : Prerequisites(x) \subseteq S)
               => Needed(n) \subseteq S
    BY DEF Needed
  <1>3. Prerequisites(n) \subseteq Needed(n)
    BY <1>1 DEF Needed
  <1>4. ASSUME NEW x \in Needed(n), NEW d \in Prerequisites(x)
        PROVE  d \in Needed(n)
    <2>1. ASSUME NEW S \in SUBSET Indexed, Prerequisites(n) \subseteq S,
                 \A y \in S : Prerequisites(y) \subseteq S
          PROVE  d \in S
      BY <1>2, <1>4, <2>1
    <2> QED
      BY <1>1, <1>4, <2>1 DEF Needed
  <1> QED
    BY <1>2, <1>3, <1>4

\* The graph stays, and with it what is needed and whether there is a cycle.
LEMMA SameGraph ==
  ASSUME UNCHANGED dependencies
  PROVE  /\ \A n : Needed(n)' = Needed(n) /\ Prerequisites(n)' = Prerequisites(n)
         /\ Cyclic' = Cyclic
  BY DEF Needed, Prerequisites, Cyclic

\* The walk has not met anything yet.
LEMMA WalkInit == Init => WalkInv
  BY NamesAssumption DEF Init, WalkInv, PathInv, TodoInv, RootInv, ResultInv

\* A visit of a name that the innermost call needs goes one step down a path; if it is
\* already on the path, the name needs itself.
LEMMA VisitWalk ==
  ASSUME Inv, WalkInv, result = "walking", NEW STATE n, n \in Indexed,
         stack # <<>> => n \in dependencies[stack[Len(stack)].name],
         NEW STATE frames, frames \in Seq(Frame), Len(frames) = Len(stack),
         \A i \in 1 .. Len(stack) :
           frames[i].name = stack[i].name /\ frames[i].todo \subseteq stack[i].todo,
         Visit(n, frames)
  PROVE  /\ PathInv' /\ TodoInv' /\ ResultInv'
         /\ visiting' \cup visited' = visiting \cup visited \cup {n}
  <1> DEFINE k == Len(stack)
  <1>0. /\ k \in Nat /\ Len(frames) \in Nat /\ stack \in Seq(Frame)
        /\ \A i \in 1 .. k : stack[i].name \in Indexed
        /\ visiting = {stack[i].name : i \in 1 .. k}
    <2>1. stack \in Seq(Frame) /\ visiting = Names(stack)
      BY DEF Inv, TypeOK
    <2>2. \A i \in 1 .. k : stack[i] \in Frame
      BY <2>1
    <2> QED
      BY <2>1, <2>2 DEF Frame, Names
  <1>a. UNCHANGED <<dependencies, visited>>
    BY DEF Visit
  <1>b. ASSUME NEW i \in 1 .. k
        PROVE  n \in Needed(stack[i].name)
    <2>1. k > 0 /\ stack # <<>> /\ k \in 1 .. k
      BY <1>0, <1>b
    <2>2. n \in Prerequisites(stack[k].name)
      BY <2>1 DEF Prerequisites
    <2>3. CASE i = k
      BY <1>0, <2>1, <2>2, <2>3, NeededFacts
    <2>4. CASE i < k
      <3>1. stack[k].name \in Needed(stack[i].name)
        BY <1>b, <2>1, <2>4 DEF WalkInv, PathInv
      <3> QED
        BY <1>0, <1>b, <2>2, <3>1, NeededFacts
    <2> QED
      BY <1>0, <1>b, <2>3, <2>4
  <1>c. \A x : Needed(x)' = Needed(x)
    BY <1>a, SameGraph
  <1>d. ASSUME stack' = frames PROVE PathInv' /\ TodoInv'
    BY <1>0, <1>a, <1>c, <1>d DEF WalkInv, PathInv, TodoInv
  <1>1. CASE n \in visiting
    <2>1. stack' = frames /\ result' = "cycle" /\ visiting' = visiting
      BY <1>1 DEF Visit
    <2>2. PICK i \in 1 .. k : n = stack[i].name
      BY <1>0, <1>1
    <2>3. Cyclic
      BY <1>b, <2>2 DEF Cyclic
    <2> QED
      BY <1>1, <1>a, <1>d, <2>1, <2>3, SameGraph DEF ResultInv
  <1>2. CASE n \notin visiting /\ n \in visited
    <2>1. stack' = frames /\ visiting' = visiting /\ result' = result
      BY <1>2 DEF Visit
    <2> QED
      BY <1>2, <1>a, <1>d, <2>1 DEF ResultInv
  <1>3. CASE n \notin visiting /\ n \notin visited
    <2> DEFINE f == [name |-> n, todo |-> dependencies[n]]
    <2>1. stack' = Append(frames, f) /\ visiting' = visiting \cup {n} /\ result' = result
      BY <1>3 DEF Call, Visit
    <2>2. f \in Frame /\ f.name = n /\ f.todo = dependencies[n]
      BY DEF Inv, TypeOK, Frame
    <2> HIDE DEF f
    <2>3. /\ Len(stack') = k + 1 /\ stack'[k + 1] = f
          /\ \A i \in 1 .. k : stack'[i] = frames[i]
      BY <1>0, <2>1, <2>2
    <2>4. TodoInv'
      BY <1>0, <1>a, <2>2, <2>3 DEF WalkInv, TodoInv
    <2>5. PathInv'
      <3>1. ASSUME NEW i \in 1 .. k + 1, NEW j \in 1 .. k + 1, i < j
            PROVE  stack'[j].name \in Needed(stack'[i].name)
        <4>1. i \in 1 .. k /\ stack'[i].name = stack[i].name
          BY <1>0, <2>3, <3>1
        <4>2. CASE j = k + 1
          BY <1>b, <2>2, <2>3, <4>1, <4>2
        <4>3. CASE j \in 1 .. k
          BY <2>3, <3>1, <4>1, <4>3 DEF WalkInv, PathInv
        <4> QED
          BY <1>0, <4>2, <4>3
      <3> QED
        BY <1>c, <2>3, <3>1 DEF PathInv
    <2> QED
      BY <1>a, <2>1, <2>4, <2>5 DEF ResultInv
  <1> QED
    BY <1>1, <1>2, <1>3

\* The top frame of a stack with one thing less to do.
LEMMA LessFrames ==
  ASSUME stack \in Seq(Frame), stack # <<>>, NEW d
  PROVE  /\ Less(d) \in Seq(Frame) /\ Len(Less(d)) = Len(stack)
         /\ \A i \in 1 .. Len(stack) :
              Less(d)[i].name = stack[i].name /\ Less(d)[i].todo \subseteq stack[i].todo
  <1> DEFINE k == Len(stack)
             f == [stack[k] EXCEPT !.todo = @ \ {d}]
  <1>1. k \in Nat /\ k \in 1 .. k /\ stack[k] \in Frame
    BY NonEmpty
  <1>2. Less(d) = [stack EXCEPT ![k] = f]
    BY DEF Less
  <1>3. f \in Frame /\ f.name = stack[k].name /\ f.todo \subseteq stack[k].todo
    BY <1>1 DEF Frame
  <1> HIDE DEF f
  <1>4. /\ Less(d) \in Seq(Frame) /\ Len(Less(d)) = k
        /\ \A i \in 1 .. k : Less(d)[i] = IF i = k THEN f ELSE stack[i]
    BY <1>1, <1>2, <1>3, ExceptSeq
  <1> QED
    BY <1>3, <1>4

\* Every step of the walk keeps to the graph.
LEMMA WalkStep == Inv /\ WalkInv /\ [Next]_vars => WalkInv'
  <1> SUFFICES ASSUME Inv, WalkInv, [Next]_vars PROVE WalkInv'
    OBVIOUS
  <1>0. /\ stack \in Seq(Frame) /\ Len(stack) \in Nat /\ Len(Sorted) \in Nat /\ root \in Nat
        /\ \A i \in 1 .. Len(Sorted) : Sorted[i] \in Indexed
    BY NamesAssumption DEF Inv, TypeOK
  <1>1. CASE VisitRoot
    <2>1. /\ root \in 1 .. Len(Sorted) /\ Sorted[root] \in Indexed /\ root' = root + 1
          /\ result = "walking" /\ stack = <<>> /\ Visit(Sorted[root], stack)
      BY <1>0, <1>1 DEF VisitRoot, Inv, TypeOK
    <2>2. /\ PathInv' /\ TodoInv' /\ ResultInv'
          /\ visiting' \cup visited' = visiting \cup visited \cup {Sorted[root]}
      BY <1>0, <2>1, VisitWalk
    <2>3. RootInv'
      BY <1>0, <2>1, <2>2 DEF WalkInv, RootInv
    <2> QED
      BY <2>2, <2>3 DEF WalkInv
  <1>2. CASE VisitDependency
    <2>1. PICK d \in Top.todo :
            \/ d \in Indexed /\ Visit(d, Less(d)) /\ UNCHANGED root
            \/ /\ d \notin Indexed
               /\ stack' = Less(d)
               /\ UNCHANGED <<dependencies, root, visiting, visited, ordered, result>>
      BY <1>2 DEF VisitDependency
    <2>2. result = "walking" /\ stack # <<>> /\ Len(stack) \in 1 .. Len(stack)
      BY <1>0, <1>2 DEF VisitDependency
    <2>3. d \in dependencies[stack[Len(stack)].name]
      BY <2>2 DEF WalkInv, TodoInv, Top
    <2>4. /\ Less(d) \in Seq(Frame) /\ Len(Less(d)) = Len(stack)
          /\ \A i \in 1 .. Len(stack) :
               Less(d)[i].name = stack[i].name /\ Less(d)[i].todo \subseteq stack[i].todo
      BY <1>0, <2>2, LessFrames
    <2>5. CASE d \in Indexed /\ Visit(d, Less(d)) /\ UNCHANGED root
      <3>1. /\ PathInv' /\ TodoInv' /\ ResultInv'
            /\ visiting' \cup visited' = visiting \cup visited \cup {d}
        BY <2>2, <2>3, <2>4, <2>5, VisitWalk
      <3>2. RootInv'
        BY <2>5, <3>1 DEF WalkInv, RootInv
      <3> QED
        BY <3>1, <3>2 DEF WalkInv
    <2>6. CASE /\ d \notin Indexed
               /\ stack' = Less(d)
               /\ UNCHANGED <<dependencies, root, visiting, visited, ordered, result>>
      <3>1. PathInv' /\ TodoInv'
        BY <2>4, <2>6, SameGraph DEF WalkInv, PathInv, TodoInv
      <3>2. RootInv' /\ ResultInv'
        BY <2>2, <2>6 DEF WalkInv, RootInv, ResultInv
      <3> QED
        BY <3>1, <3>2 DEF WalkInv
    <2> QED
      BY <2>1, <2>5, <2>6
  <1>3. CASE Leave
    <2>1. /\ stack # <<>> /\ stack' = SubSeq(stack, 1, Len(stack) - 1) /\ result = "walking"
          /\ visiting' = visiting \ {Top.name} /\ visited' = visited \cup {Top.name}
          /\ UNCHANGED <<dependencies, root, result>>
      BY <1>3 DEF Leave
    <2>2. /\ Len(stack') = Len(stack) - 1
          /\ \A i \in 1 .. Len(stack) - 1 : stack'[i] = stack[i]
      BY <1>0, <2>1, Pop
    <2>3. PathInv' /\ TodoInv'
      BY <1>0, <2>1, <2>2, SameGraph DEF WalkInv, PathInv, TodoInv
    <2>4. RootInv' /\ ResultInv'
      BY <2>1 DEF WalkInv, RootInv, ResultInv
    <2> QED
      BY <2>3, <2>4 DEF WalkInv
  <1>4. CASE Return
    <2>1. /\ stack = <<>> /\ root > Len(Sorted) /\ result' = "ordered"
          /\ UNCHANGED <<dependencies, root, stack, visiting, visited>>
      BY <1>4 DEF Return
    <2> QED
      BY <2>1, SameGraph DEF WalkInv, PathInv, TodoInv, RootInv, ResultInv
  <1>5. CASE UNCHANGED vars
    <2>1. UNCHANGED <<dependencies, root, stack, visiting, visited, result>>
      BY <1>5 DEF vars
    <2> QED
      BY <2>1, SameGraph DEF WalkInv, PathInv, TodoInv, RootInv, ResultInv
  <1> QED
    BY <1>1, <1>2, <1>3, <1>4, <1>5 DEF Next

\* When the walk has returned an order, every Configuration is in it.
LEMMA AllOrdered ==
  ASSUME Inv, WalkInv, result = "ordered"
  PROVE  Elements(ordered) = Indexed
  <1>1. visiting = {} /\ visited = Elements(ordered) /\ visited \subseteq Indexed
    BY DEF WalkInv, ResultInv, Inv, TypeOK, Names, Elements
  <1>2. \A i \in 1 .. Len(Sorted) : Sorted[i] \in visited
    BY <1>1, NamesAssumption DEF WalkInv, ResultInv, RootInv, Inv, TypeOK
  <1> QED
    BY <1>1, <1>2 DEF Indexed

\* Where prerequisites come first nothing needs itself: the names before one in the
\* order are closed and hold its prerequisites.
LEMMA OrderedIsAcyclic ==
  ASSUME Inv, WalkInv, result = "ordered"
  PROVE  ~Cyclic
  <1>1. ASSUME NEW n \in Indexed
        PROVE  n \notin Needed(n)
    <2>1. /\ Len(ordered) \in Nat /\ ordered \in Seq(Indexed)
          /\ Indexed = {ordered[i] : i \in 1 .. Len(ordered)}
      BY AllOrdered DEF Inv, TypeOK, Elements
    <2>2. PICK k \in 1 .. Len(ordered) : ordered[k] = n
      BY <2>1
    <2> DEFINE S == {ordered[i] : i \in 1 .. k - 1}
    <2>3. S \in SUBSET Indexed /\ n \notin S
      <3>1. \A i \in 1 .. k - 1 : i \in 1 .. Len(ordered) /\ i # k
        BY <2>1, <2>2
      <3>2. S \in SUBSET Indexed
        BY <2>1, <3>1
      <3>3. \A i \in 1 .. k - 1 : ordered[i] # ordered[k]
        BY <2>2, <3>1 DEF Inv, PrerequisitesFirst
      <3> QED
        BY <2>2, <3>2, <3>3
    <2>4. ASSUME NEW i \in 1 .. k
          PROVE  Prerequisites(ordered[i]) \subseteq S
      <3>1. i \in 1 .. Len(ordered)
        BY <2>1, <2>2, <2>4
      <3>2. \A d \in Prerequisites(ordered[i]) : \E j \in 1 .. i - 1 : ordered[j] = d
        BY <3>1 DEF Inv, PrerequisitesFirst, Prerequisites
      <3>3. \A j \in 1 .. i - 1 : j \in 1 .. k - 1
        BY <2>1, <2>2, <2>4
      <3> QED
        BY <3>2, <3>3
    <2>5. Prerequisites(n) \subseteq S
      <3>1. k \in 1 .. k
        BY <2>1, <2>2
      <3> HIDE DEF S
      <3> QED
        BY <2>2, <2>4, <3>1
    <2>6. \A x \in S : Prerequisites(x) \subseteq S
      <3>1. \A i \in 1 .. k - 1 : i \in 1 .. k
        BY <2>1, <2>2
      <3> QED
        BY <2>4, <3>1
    <2> HIDE DEF S
    <2> QED
      BY <2>3, <2>5, <2>6, NeededFacts
  <1> QED
    BY <1>1 DEF Cyclic

-----------------------------------------------------------------------------

\* The bookkeeping of dependency_order() agrees with its call stack at every
\* moment: visiting is the active path and visited what has been ordered.
THEOREM TypeCorrect == Spec => []TypeOK
  BY InitInv, NextInv, PTL DEF Spec, Inv

\* Whatever the graph, dependency_order() never puts a Configuration before one
\* that it depends on, nor any Configuration twice.
THEOREM OrderIsTopological == Spec => []PrerequisitesFirst
  BY InitInv, NextInv, PTL DEF Spec, Inv

\* dependency_order() reports a cycle exactly when the graph of the Configurations has
\* one, whatever their number and wherever the walk starts ("Detect cycles before any work").
THEOREM CyclesReported == Spec => []CyclesDetected
  <1>1. Inv /\ WalkInv => CyclesDetected
    BY OrderedIsAcyclic DEF CyclesDetected, WalkInv, ResultInv
  <1> QED
    BY <1>1, InitInv, NextInv, WalkInit, WalkStep, PTL DEF Spec

\* When the walk is over main has an order of all its Configurations, each of them once.
EveryoneInOrder ==
  result # "walking" =>
    /\ Elements(MainOrder) = Indexed /\ Len(MainOrder) = Len(Sorted)
    /\ \A i, j \in 1 .. Len(MainOrder) : i # j => MainOrder[i] # MainOrder[j]

\* A sequence without a repetition is as long as it has elements.
LEMMA LengthIsCount ==
  ASSUME NEW S, NEW s \in Seq(S), \A i, j \in 1 .. Len(s) : i # j => s[i] # s[j]
  PROVE  Len(s) = Cardinality(Elements(s))
  <1> DEFINE f == [i \in 1 .. Len(s) |-> s[i]]
  <1>1. f \in Bijection(1 .. Len(s), Elements(s))
    BY DEF Bijection, Injection, Surjection, IsInjective, Elements
  <1>2. ExistsBijection(1 .. Len(s), Elements(s)) /\ Len(s) \in Nat
    BY <1>1 DEF ExistsBijection
  <1> QED
    BY <1>2, FS_CountingElements

\* main() examines every Configuration of its capture group exactly once when the walk has
\* ended, in dependency order or, after a cycle, by name ("unrelated setups can continue").
THEOREM NobodyLeftOut == Spec => []EveryoneInOrder
  <1>1. ASSUME Inv, WalkInv, result = "ordered"
        PROVE  EveryoneInOrder
    <2>1. MainOrder = ordered /\ ordered \in Seq(Indexed) /\ Elements(ordered) = Indexed
      BY <1>1, AllOrdered DEF MainOrder, Inv, TypeOK
    <2>2. \A i, j \in 1 .. Len(ordered) : i # j => ordered[i] # ordered[j]
      BY <1>1 DEF Inv, PrerequisitesFirst
    <2>3. Sorted \in Seq(Indexed) /\ Indexed = Elements(Sorted)
          /\ \A i, j \in 1 .. Len(Sorted) : i # j => Sorted[i] # Sorted[j]
      BY NamesAssumption DEF Indexed, Elements
    <2>4. Len(ordered) = Len(Sorted)
      BY <2>1, <2>2, <2>3, LengthIsCount
    <2> QED
      BY <2>1, <2>2, <2>4 DEF EveryoneInOrder
  <1>2. ASSUME result = "cycle"
        PROVE  EveryoneInOrder
    BY <1>2, NamesAssumption DEF EveryoneInOrder, MainOrder, Elements, Indexed
  <1>3. Inv /\ WalkInv => EveryoneInOrder
    BY <1>1, <1>2 DEF Inv, TypeOK, EveryoneInOrder
  <1> QED
    BY <1>3, InitInv, NextInv, WalkInit, WalkStep, PTL DEF Spec
=============================================================================
