-------------------------- MODULE DependencyCycles --------------------------
(***************************************************************************)
(* The cycle detection of the dependency graph (domain/dependency.py):     *)
(* Tarjan's algorithm with an explicit work stack, over the start and the  *)
(* completion dependencies together.  One action is one turn of a loop of  *)
(* _strongly_connected_components.                                         *)
(***************************************************************************)
EXTENDS PlannerInput, Sequences, SequencesExt, FiniteSetsExt

VARIABLES
    index,      \* task -> when it was discovered, 0 for not yet
    lowlink,    \* task -> the lowest index it is known to reach
    stack,      \* discovered tasks whose component is not complete
    work,       \* the tasks being explored, with their successors left to examine
    components  \* the components found

cycleVars == <<index, lowlink, stack, work, components>>

CycleEdges == input.blocksStart \cup input.blocksCompletion

CycleNodes == UNION {{e[1], e[2]} : e \in CycleEdges}

Adjacent(t) == {s \in CycleNodes : <<t, s>> \in CycleEdges}

Discovered == {t \in Tasks : index[t] # 0}

NextIndex == Cardinality(Discovered) + 1

Top == Last(work)

TarjanInit ==
    /\ index = [t \in Tasks |-> 0]
    /\ lowlink = [t \in Tasks |-> 0]
    /\ stack = <<>>
    /\ work = <<>>
    /\ components = {}

\* `pending` is the work stack the discovered task is put on.
Discover(t, pending) ==
    /\ index' = [index EXCEPT ![t] = NextIndex]
    /\ lowlink' = [lowlink EXCEPT ![t] = NextIndex]
    /\ stack' = Append(stack, t)
    /\ work' = Append(pending, [node |-> t, left |-> Adjacent(t)])
    /\ UNCHANGED components

Root ==
    /\ work = <<>>
    /\ CycleNodes \ Discovered # {}
    /\ Discover(Min(CycleNodes \ Discovered), <<>>)

\* Mutant of Learned: the component of the successor may be complete already.
LearnedFromAny(t, s) == [lowlink EXCEPT ![t] = Min({@, index[s]})]

\* What a task learns from a successor that is still on the stack.
Learned(t, s) ==
    IF Contains(stack, s) THEN [lowlink EXCEPT ![t] = Min({@, index[s]})] ELSE lowlink

\* The next successor of the top task: explore it, or learn from it.
Examine ==
    /\ work # <<>>
    /\ Top.left # {}
    /\ LET s    == Min(Top.left)
           rest == [Top EXCEPT !.left = @ \ {s}]
       IN  IF s \notin Discovered
           THEN Discover(s, Append(Front(work), rest))
           ELSE /\ work' = Append(Front(work), rest)
                /\ lowlink' = Learned(Top.node, s)
                /\ UNCHANGED <<index, stack, components>>

\* All successors of the top task are examined: if it reaches nothing older,
\* the stack down to it is a component; its parent learns what it reaches.
Retreat ==
    /\ work # <<>>
    /\ Top.left = {}
    /\ LET n      == Top.node
           at     == CHOOSE i \in DOMAIN stack : stack[i] = n
           parent == Last(Front(work)).node
       IN  /\ IF lowlink[n] = index[n]
              THEN /\ components' = components \cup
                          {{stack[i] : i \in at .. Len(stack)}}
                   /\ stack' = SubSeq(stack, 1, at - 1)
              ELSE UNCHANGED <<components, stack>>
           /\ lowlink' = IF Len(work) > 1
                         THEN [lowlink EXCEPT ![parent] = Min({@, lowlink[n]})]
                         ELSE lowlink
    /\ work' = Front(work)
    /\ UNCHANGED index

TarjanNext == Root \/ Examine \/ Retreat

TarjanDone == work = <<>> /\ CycleNodes \subseteq Discovered

\* The components that are cycles.
Cycles == {c \in components : Cardinality(c) > 1 \/ \E t \in c : <<t, t>> \in CycleEdges}

-----------------------------------------------------------------------------
\* The sets of tasks that no edge leaves.  What a task reaches is the least of
\* those it is in: the tasks that are in all of them.
ClosedSets == {X \in SUBSET Tasks : \A e \in CycleEdges : e[1] \in X => e[2] \in X}

(***************************************************************************)
(* The cycles reported are exactly the sets of tasks that reach one        *)
(* another: no cycle is missed, split, merged with a neighbour or reported *)
(* for tasks that merely lead to one (DependencyGraph.cycles).             *)
(***************************************************************************)
CyclesAreExact ==
    TarjanDone =>
        LET closed == ClosedSets
            reaches(s, t) == \A X \in closed : s \in X => t \in X
            mutual(t) == {s \in Tasks : reaches(t, s) /\ reaches(s, t)}
        IN  Cycles = {mutual(t) : t \in {u \in Tasks :
                          \/ Cardinality(mutual(u)) > 1
                          \/ <<u, u>> \in CycleEdges}}
=============================================================================
