--------------------------- MODULE DependencyOrder ---------------------------
(***************************************************************************)
(* dependency_order() of operators/configurations.py: the depth-first walk *)
(* that puts the Configurations of one capture group in an order with      *)
(* prerequisites first, or reports a cycle, and the order main uses then.  *)
(* The recursion of visit() is an explicit stack; each frame keeps the     *)
(* prerequisites still to be looked at.  The order of a declaration is     *)
(* left open: any remaining prerequisite may be next.                      *)
(***************************************************************************)
EXTENDS Integers, Sequences, FiniteSets

CONSTANTS
  Sorted,   \* the names of the capture group's Configurations, sorted
  Missing   \* names that no Configuration of this capture group has

Indexed == {Sorted[i] : i \in 1 .. Len(Sorted)}

ASSUME NamesAssumption ==
  /\ Sorted \in Seq(Indexed)
  /\ \A i, j \in 1 .. Len(Sorted) : i # j => Sorted[i] # Sorted[j]
  /\ Missing \cap Indexed = {}

VARIABLES
  dependencies,  \* dependencies[n]: the names in spec.dependsOn of n
  root,          \* position in Sorted of the next visit() from outside
  stack,         \* active calls of visit(), innermost last
  visiting, visited,
  ordered,
  result         \* "walking", "ordered" or "cycle"

vars == <<dependencies, root, stack, visiting, visited, ordered, result>>

Init ==
  /\ dependencies \in [Indexed -> SUBSET (Indexed \cup Missing)]
  /\ root = 1 /\ stack = <<>>
  /\ visiting = {} /\ visited = {}
  /\ ordered = <<>> /\ result = "walking"

Call(n, frames) == Append(frames, [name |-> n, todo |-> dependencies[n]])

-----------------------------------------------------------------------------
\* Mutant of Visit: a name reached twice is taken for a cycle.
VisitTwiceIsCycle(n, frames) ==
  /\ \/ /\ n \in visiting \cup visited
        /\ result' = "cycle"
        /\ stack' = frames
        /\ UNCHANGED visiting
     \/ /\ n \notin visiting \cup visited
        /\ stack' = Call(n, frames)
        /\ visiting' = visiting \cup {n}
        /\ UNCHANGED result
  /\ UNCHANGED <<dependencies, visited, ordered>>

\* visit(n), called with the given frames below it.
Visit(n, frames) ==
  /\ \/ /\ n \in visiting
        /\ result' = "cycle"
        /\ stack' = frames
        /\ UNCHANGED visiting
     \/ /\ n \notin visiting /\ n \in visited
        /\ stack' = frames
        /\ UNCHANGED <<visiting, result>>
     \/ /\ n \notin visiting /\ n \notin visited
        /\ stack' = Call(n, frames)
        /\ visiting' = visiting \cup {n}
        /\ UNCHANGED result
  /\ UNCHANGED <<dependencies, visited, ordered>>

VisitRoot ==
  /\ result = "walking" /\ stack = <<>> /\ root <= Len(Sorted)
  /\ root' = root + 1
  /\ Visit(Sorted[root], <<>>)

\* Looks at one more prerequisite; one that is not indexed is skipped.
Top == stack[Len(stack)]
Less(d) == [stack EXCEPT ![Len(stack)].todo = @ \ {d}]

VisitDependency ==
  /\ result = "walking" /\ stack # <<>>
  /\ \E d \in Top.todo :
       \/ d \in Indexed /\ Visit(d, Less(d)) /\ UNCHANGED root
       \/ /\ d \notin Indexed
          /\ stack' = Less(d)
          /\ UNCHANGED <<dependencies, root, visiting, visited, ordered, result>>

\* Mutants of Leave: a name is put in front of its prerequisites; a name is never taken off the active path.
LeaveReversed ==
  /\ result = "walking" /\ stack # <<>> /\ Top.todo = {}
  /\ visiting' = visiting \ {Top.name}
  /\ visited' = visited \cup {Top.name}
  /\ ordered' = <<Top.name>> \o ordered
  /\ stack' = SubSeq(stack, 1, Len(stack) - 1)
  /\ UNCHANGED <<dependencies, root, result>>
LeaveStillVisiting ==
  /\ result = "walking" /\ stack # <<>> /\ Top.todo = {}
  /\ visited' = visited \cup {Top.name}
  /\ ordered' = Append(ordered, Top.name)
  /\ stack' = SubSeq(stack, 1, Len(stack) - 1)
  /\ UNCHANGED <<dependencies, root, visiting, result>>

Leave ==
  /\ result = "walking" /\ stack # <<>> /\ Top.todo = {}
  /\ visiting' = visiting \ {Top.name}
  /\ visited' = visited \cup {Top.name}
  /\ ordered' = Append(ordered, Top.name)
  /\ stack' = SubSeq(stack, 1, Len(stack) - 1)
  /\ UNCHANGED <<dependencies, root, result>>

\* Mutant of Return: the last name is not visited.
ReturnEarly ==
  /\ result = "walking" /\ stack = <<>> /\ root >= Len(Sorted)
  /\ result' = "ordered"
  /\ UNCHANGED <<dependencies, root, stack, visiting, visited, ordered>>

Return ==
  /\ result = "walking" /\ stack = <<>> /\ root > Len(Sorted)
  /\ result' = "ordered"
  /\ UNCHANGED <<dependencies, root, stack, visiting, visited, ordered>>

\* What main iterates over: after a cycle, every Configuration by its name.
MainOrder == IF result = "cycle" THEN Sorted ELSE ordered

Next == VisitRoot \/ VisitDependency \/ Leave \/ Return
Spec == Init /\ [][Next]_vars
\* One thread that nothing interrupts.
FairSpec == Spec /\ WF_vars(Next)

-----------------------------------------------------------------------------
\* What n needs, directly or not: the least set that holds the prerequisites of n
\* and those of its own members.  A cycle goes through a name that needs itself.
Prerequisites(n) == dependencies[n] \cap Indexed
Needed(n) ==
  {d \in Indexed : \A S \in SUBSET Indexed :
     Prerequisites(n) \subseteq S /\ (\A x \in S : Prerequisites(x) \subseteq S) => d \in S}
Cyclic == \E n \in Indexed : n \in Needed(n)

\* Every variable has its type; visiting is the active path, without a repetition,
\* and what is ordered is what is visited.
Frame == [name : Indexed, todo : SUBSET (Indexed \cup Missing)]
Names(frames) == {frames[i].name : i \in 1 .. Len(frames)}
Elements(names) == {names[i] : i \in 1 .. Len(names)}
TypeOK ==
  /\ dependencies \in [Indexed -> SUBSET (Indexed \cup Missing)]
  /\ root \in 1 .. Len(Sorted) + 1 /\ result \in {"walking", "ordered", "cycle"}
  /\ stack \in Seq(Frame) /\ ordered \in Seq(Indexed)
  /\ visiting = Names(stack) /\ visited = Elements(ordered)
  /\ visiting \cap visited = {}
  /\ \A i, j \in 1 .. Len(stack) : i # j => stack[i].name # stack[j].name

\* At every moment of the walk a Configuration is in the order once, and only
\* after all of its prerequisites: a pass that follows it never plans a
\* Configuration before one that it waits for.
PrerequisitesFirst ==
  /\ \A i, j \in 1 .. Len(ordered) : i # j => ordered[i] # ordered[j]
  /\ \A i \in 1 .. Len(ordered) : \A d \in dependencies[ordered[i]] \cap Indexed :
       \E j \in 1 .. i - 1 : ordered[j] = d

\* "Detect cycles before any work": the walk reports a cycle exactly when there
\* is one, whatever names are missing and wherever the walk starts.
CyclesDetected ==
  /\ result = "cycle" => Cyclic
  /\ result = "ordered" => ~Cyclic

\* On every graph the walk ends, and main examines every Configuration of its
\* capture group exactly once, with or without a cycle: "unrelated setups can
\* continue".
EveryoneExamined ==
  <>[](/\ result # "walking"
       /\ Len(MainOrder) = Len(Sorted)
       /\ Elements(MainOrder) = Indexed)
=============================================================================
