----------------------------- MODULE GraphProofs -----------------------------
(***************************************************************************)
(* Theorems about the analysis of the dependency graph, for any number of  *)
(* tasks and any dependencies: the search for cycles (TarjanInv), and the  *)
(* latest finish of the tasks (TimingInv).  Both are carried over to the   *)
(* calls of the planner, where the graph is analysed once a call.          *)
(***************************************************************************)
EXTENDS PlannerProofs
-----------------------------------------------------------------------------
\* The dependencies are between tasks.
EdgesAreOfTasks == CycleEdges \subseteq Tasks \X Tasks

\* A set of tasks that no edge leaves.
IsClosed(X) == \A e \in CycleEdges : e[1] \in X => e[2] \in X

\* What is reached from s is in every closed set that s is in.
Leads(s, t) == \A X \in SUBSET Tasks : s \in X /\ IsClosed(X) => t \in X

\* Leading to is reflexive and transitive, follows the edges, and stays in
\* closed sets.
LEMMA LeadsOn ==
    ASSUME EdgesAreOfTasks
    PROVE  /\ \A s : Leads(s, s)
           /\ \A s, t, u : Leads(s, t) /\ Leads(t, u) => Leads(s, u)
           /\ \A s : \A t \in Adjacent(s) : Leads(s, t) /\ t \in Tasks /\ s \in Tasks
           /\ \A X \in SUBSET Tasks : (\A x \in X : Adjacent(x) \subseteq X) =>
                 \A s \in X : \A t : Leads(s, t) => t \in X
<1>1. \A s : Leads(s, s)
  BY DEF Leads
<1>2. \A s, t, u : Leads(s, t) /\ Leads(t, u) => Leads(s, u)
  BY DEF Leads
<1>3. \A s : \A t \in Adjacent(s) : Leads(s, t) /\ t \in Tasks /\ s \in Tasks
  <2> SUFFICES ASSUME NEW s, NEW t \in Adjacent(s)
               PROVE  Leads(s, t) /\ t \in Tasks /\ s \in Tasks
    OBVIOUS
  <2>1. <<s, t>> \in CycleEdges
    BY DEF Adjacent
  <2>2. t \in Tasks /\ s \in Tasks
    BY <2>1 DEF EdgesAreOfTasks
  <2>3. <<s, t>>[1] = s /\ <<s, t>>[2] = t
    OBVIOUS
  <2> QED BY <2>1, <2>2, <2>3 DEF Leads, IsClosed
<1>4. ASSUME NEW X \in SUBSET Tasks, \A x \in X : Adjacent(x) \subseteq X
      PROVE  \A s \in X : \A t : Leads(s, t) => t \in X
  <2>1. ASSUME NEW e \in CycleEdges, e[1] \in X PROVE e[2] \in X
    <3>1. e = <<e[1], e[2]>>
      BY DEF EdgesAreOfTasks
    <3>2. e[2] \in CycleNodes
      BY DEF CycleNodes
    <3>3. e[2] \in Adjacent(e[1])
      BY <3>1, <3>2 DEF Adjacent
    <3> QED BY <1>4, <2>1, <3>3
  <2> QED BY <2>1 DEF Leads, IsClosed
<1> QED BY <1>1, <1>2, <1>3, <1>4
-----------------------------------------------------------------------------
\* The tasks on the stack.
OnStack == ToSet(stack)

\* The tasks of the components that are complete.
Completed == UNION components

\* The edges of a task that are examined.
Explored(x) ==
    {y \in Adjacent(x) : \A k \in DOMAIN work : work[k].node = x => y \notin work[k].left}

\* The number of the tasks discovered is the last index given.
IndicesAreFresh ==
    /\ index \in [Tasks -> Nat]
    /\ Discovered \subseteq CycleNodes
    /\ \A t \in Discovered : index[t] <= Cardinality(Discovered)
    /\ \A s, t \in Discovered : index[s] = index[t] => s = t

\* What is discovered is on the stack, in the order of discovery, or in a
\* component that is complete.
StackIsSorted ==
    /\ stack \in Seq(Tasks)
    /\ \A i, k \in DOMAIN stack : i < k => index[stack[i]] < index[stack[k]]
    /\ Discovered = OnStack \cup Completed
    /\ OnStack \cap Completed = {}

\* The tasks being explored are on the stack, in the order of discovery.
WorkIsSorted ==
    /\ work \in Seq([node : Tasks, left : SUBSET Tasks])
    /\ \A i \in DOMAIN work :
          work[i].node \in OnStack /\ work[i].left \subseteq Adjacent(work[i].node)
    /\ \A i, k \in DOMAIN work : i < k => index[work[i].node] < index[work[k].node]

\* A task being explored leads to all that are discovered after it and on the
\* stack; each of these leads to one that is being explored and not younger.
PathsAreKnown ==
    /\ \A i \in DOMAIN work : \A s \in OnStack :
          index[work[i].node] <= index[s] => Leads(work[i].node, s)
    /\ \A s \in OnStack : \E i \in DOMAIN work :
          index[work[i].node] <= index[s] /\ Leads(s, work[i].node)

\* A lowlink is the index of a task on the stack that is reached.
LowlinksAreReached ==
    /\ lowlink \in [Tasks -> Nat]
    /\ \A t \in Tasks : lowlink[t] <= index[t]
    /\ \A t \in OnStack : \E s \in OnStack : index[s] = lowlink[t] /\ Leads(t, s)

\* The tasks that are discovered while the i-th is the last being explored.
InSegment(x, i) ==
    /\ index[work[i].node] <= index[x]
    /\ i = Len(work) \/ index[x] < index[work[i + 1].node]

\* No edge examined leads lower than the lowlink of the task it is found under.
LowlinksAreLow ==
    \A i \in DOMAIN work : \A x \in OnStack : InSegment(x, i) =>
        \A y \in Explored(x) :
            y \in Discovered /\ (y \in OnStack => lowlink[work[i].node] <= index[y])

\* Complete components are left by no edge but to one another, and consist of
\* just the tasks that lead to one another.
ComponentsAreExact ==
    /\ \A x \in Completed : Adjacent(x) \subseteq Completed
    /\ \A c \in components :
          /\ c # {}
          /\ \A s, t \in c : Leads(s, t)
          /\ \A s \in c : \A t \in Tasks : Leads(s, t) /\ Leads(t, s) => t \in c

TarjanInv ==
    /\ IndicesAreFresh
    /\ StackIsSorted
    /\ WorkIsSorted
    /\ PathsAreKnown
    /\ LowlinksAreReached
    /\ LowlinksAreLow
    /\ ComponentsAreExact

\* The search begins with nothing discovered.
LEMMA SearchBegins == TarjanInit => TarjanInv
<1> SUFFICES ASSUME TarjanInit PROVE TarjanInv
  OBVIOUS
<1>1. /\ index = [t \in Tasks |-> 0] /\ lowlink = [t \in Tasks |-> 0]
      /\ stack = <<>> /\ work = <<>> /\ components = {}
  BY DEF TarjanInit
<1>2. Discovered = {} /\ OnStack = {} /\ Completed = {} /\ DOMAIN work = {} /\ DOMAIN stack = {}
  BY <1>1 DEF Discovered, OnStack, Completed, ToSet
<1>3. IndicesAreFresh
  BY <1>1, <1>2 DEF IndicesAreFresh
<1>4. StackIsSorted
  BY <1>1, <1>2 DEF StackIsSorted
<1>5. WorkIsSorted
  BY <1>1, <1>2 DEF WorkIsSorted
<1>6. PathsAreKnown /\ LowlinksAreReached /\ LowlinksAreLow
  BY <1>1, <1>2 DEF PathsAreKnown, LowlinksAreReached, LowlinksAreLow
<1>7. ComponentsAreExact
  BY <1>1, <1>2 DEF ComponentsAreExact
<1> QED BY <1>3, <1>4, <1>5, <1>6, <1>7 DEF TarjanInv

\* The graph is that of its edges.
LEMMA GraphIsOfEdges ==
    ASSUME CycleEdges' = CycleEdges
    PROVE  /\ \A x : Adjacent(x)' = Adjacent(x)
           /\ \A s, t : Leads(s, t)' = Leads(s, t)
           /\ CycleNodes' = CycleNodes
<1>1. CycleNodes' = CycleNodes
  BY DEF CycleNodes
<1>2. \A x : Adjacent(x)' = Adjacent(x)
  BY <1>1 DEF Adjacent
<1>3. \A s, t : Leads(s, t)' = Leads(s, t)
  BY DEF Leads, IsClosed
<1> QED BY <1>1, <1>2, <1>3

\* The graph does not change as long as the input does not.
LEMMA GraphStays ==
    ASSUME UNCHANGED input
    PROVE  /\ \A x : Adjacent(x)' = Adjacent(x)
           /\ \A s, t : Leads(s, t)' = Leads(s, t)
           /\ CycleNodes' = CycleNodes
<1>1. CycleEdges' = CycleEdges
  BY DEF CycleEdges
<1> QED BY <1>1, GraphIsOfEdges

\* What is discovered is finite and consists of tasks.
LEMMA DiscoveredIsFinite ==
    ASSUME EdgesAreOfTasks
    PROVE  /\ CycleNodes \subseteq Tasks
           /\ IsFiniteSet(Discovered) /\ Cardinality(Discovered) \in Nat
           /\ Discovered \subseteq Tasks
<1>1. CycleNodes \subseteq Tasks
  BY DEF CycleNodes, EdgesAreOfTasks
<1>2. Discovered \subseteq Tasks
  BY DEF Discovered
<1> QED BY <1>1, <1>2, FS_Subset, FS_CardinalityType, InputAssumption DEF InputAssumption

\* A task is discovered: at the root, or from the task on top of the work stack.
LEMMA DiscoverKeeps ==
    ASSUME TarjanInv, EdgesAreOfTasks, UNCHANGED input,
           NEW t \in CycleNodes \ Discovered,
           NEW opened \in Seq([node : Tasks, left : SUBSET Tasks]), Len(opened) = Len(work),
           \A i \in DOMAIN work :
              /\ opened[i].node = work[i].node
              /\ opened[i].left \subseteq work[i].left
              /\ work[i].left \subseteq opened[i].left \cup {t}
              /\ i # Len(work) => opened[i].left = work[i].left,
           work # <<>> => t \in Adjacent(Top.node),
           Discover(t, opened)
    PROVE  TarjanInv'
<1> DEFINE K == Cardinality(Discovered)
           n == Len(work)
<1>0. /\ IndicesAreFresh /\ StackIsSorted /\ WorkIsSorted /\ PathsAreKnown
      /\ LowlinksAreReached /\ LowlinksAreLow /\ ComponentsAreExact
  BY DEF TarjanInv
<1>1. /\ CycleNodes \subseteq Tasks /\ IsFiniteSet(Discovered) /\ K \in Nat
      /\ Discovered \subseteq Tasks /\ t \in Tasks /\ t \notin Discovered
  BY DiscoveredIsFinite
<1>2. /\ index' = [index EXCEPT ![t] = K + 1]
      /\ lowlink' = [lowlink EXCEPT ![t] = K + 1]
      /\ stack' = Append(stack, t)
      /\ work' = Append(opened, [node |-> t, left |-> Adjacent(t)])
      /\ components' = components
  BY DEF Discover, NextIndex
<1>3. /\ \A x : Adjacent(x)' = Adjacent(x)
      /\ \A x, y : Leads(x, y)' = Leads(x, y)
      /\ CycleNodes' = CycleNodes
  BY GraphStays
<1>4. /\ index' \in [Tasks -> Nat] /\ index'[t] = K + 1
      /\ \A x \in Tasks : x # t => index'[x] = index[x]
      /\ index \in [Tasks -> Nat]
  BY <1>0, <1>1, <1>2 DEF IndicesAreFresh
<1>5. /\ lowlink' \in [Tasks -> Nat] /\ lowlink'[t] = K + 1
      /\ \A x \in Tasks : x # t => lowlink'[x] = lowlink[x]
      /\ lowlink \in [Tasks -> Nat]
  BY <1>0, <1>1, <1>2 DEF LowlinksAreReached
<1>6. Discovered' = Discovered \cup {t}
  BY <1>1, <1>4 DEF Discovered
<1>7. Cardinality(Discovered') = K + 1
  BY <1>1, <1>6, FS_AddElement
<1>8. \A x \in Discovered : index'[x] = index[x] /\ index[x] <= K /\ index[x] \in Nat /\ x # t
  BY <1>0, <1>1, <1>4 DEF IndicesAreFresh
<1>9. IndicesAreFresh'
  <2>1. Discovered' \subseteq CycleNodes'
    BY <1>0, <1>3, <1>6 DEF IndicesAreFresh
  <2>2. \A x \in Discovered' : index'[x] <= Cardinality(Discovered')
    BY <1>1, <1>4, <1>6, <1>7, <1>8
  <2>3. \A x, y \in Discovered' : index'[x] = index'[y] => x = y
    BY <1>0, <1>1, <1>4, <1>6, <1>8 DEF IndicesAreFresh
  <2> QED BY <1>4, <2>1, <2>2, <2>3 DEF IndicesAreFresh
<1>10. /\ stack \in Seq(Tasks) /\ stack' \in Seq(Tasks)
       /\ Len(stack') = Len(stack) + 1 /\ Len(stack) \in Nat
       /\ \A i \in DOMAIN stack : stack'[i] = stack[i] /\ i \in DOMAIN stack'
       /\ stack'[Len(stack) + 1] = t
       /\ \A i \in DOMAIN stack' : i \in DOMAIN stack \/ i = Len(stack) + 1
       /\ \A i \in DOMAIN stack : i <= Len(stack)
  BY <1>0, <1>1, <1>2 DEF StackIsSorted
<1>11. OnStack' = OnStack \cup {t}
  <2>1. OnStack' \subseteq OnStack \cup {t}
    BY <1>10 DEF OnStack, ToSet
  <2>2. OnStack \subseteq OnStack'
    BY <1>10 DEF OnStack, ToSet
  <2>3. t \in OnStack'
    BY <1>10 DEF OnStack, ToSet
  <2> QED BY <2>1, <2>2, <2>3
<1>12. Completed' = Completed
  BY <1>2 DEF Completed
<1>13. OnStack \subseteq Discovered /\ OnStack \subseteq Tasks /\ Completed \subseteq Discovered
  BY <1>0, <1>1 DEF StackIsSorted
<1>14. StackIsSorted'
  <2>1. ASSUME NEW i \in DOMAIN stack', NEW k \in DOMAIN stack', i < k
        PROVE  index'[stack'[i]] < index'[stack'[k]]
    <3>1. i \in DOMAIN stack
      BY <1>10, <2>1
    <3>2. stack[i] \in Discovered
      BY <1>13, <3>1 DEF OnStack, ToSet
    <3>3. CASE k \in DOMAIN stack
      <4>1. stack[k] \in Discovered /\ index[stack[i]] < index[stack[k]]
        BY <1>0, <1>13, <2>1, <3>1, <3>3 DEF StackIsSorted, OnStack, ToSet
      <4> QED BY <1>8, <1>10, <3>1, <3>2, <3>3, <4>1
    <3>4. CASE k = Len(stack) + 1
      <4>1. index'[stack'[k]] = K + 1
        BY <1>4, <1>10, <3>4
      <4> QED BY <1>1, <1>8, <1>10, <3>1, <3>2, <4>1
    <3> QED BY <1>10, <3>3, <3>4
  <2>2. Discovered' = OnStack' \cup Completed' /\ OnStack' \cap Completed' = {}
    BY <1>0, <1>1, <1>6, <1>11, <1>12, <1>13 DEF StackIsSorted
  <2> QED BY <1>10, <2>1, <2>2 DEF StackIsSorted
<1>15. /\ work \in Seq([node : Tasks, left : SUBSET Tasks]) /\ n \in Nat
       /\ DOMAIN work = 1 .. n
       /\ work' \in Seq([node : Tasks, left : SUBSET Tasks])
       /\ Len(work') = n + 1 /\ DOMAIN work' = 1 .. n + 1
       /\ \A i \in 1 .. n : work'[i] = opened[i]
       /\ work'[n + 1] = [node |-> t, left |-> Adjacent(t)]
  <2>1. Adjacent(t) \subseteq Tasks
    BY <1>1 DEF Adjacent
  <2>2. [node |-> t, left |-> Adjacent(t)] \in [node : Tasks, left : SUBSET Tasks]
    BY <1>1, <2>1
  <2> QED BY <1>0, <1>2, <2>2 DEF WorkIsSorted
<1>16. /\ \A i \in 1 .. n : /\ work'[i].node = work[i].node /\ work[i].node \in OnStack
                            /\ work[i].node \in Discovered
                            /\ index'[work[i].node] = index[work[i].node]
                            /\ index[work[i].node] <= K /\ index[work[i].node] \in Nat
       /\ work'[n + 1].node = t
  BY <1>0, <1>8, <1>13, <1>15 DEF WorkIsSorted
<1>17. WorkIsSorted'
  <2>1. ASSUME NEW i \in DOMAIN work'
        PROVE  work'[i].node \in OnStack' /\ work'[i].left \subseteq Adjacent(work'[i].node)
    <3>1. CASE i \in 1 .. n
      <4>1. work'[i].left \subseteq work[i].left /\ work[i].left \subseteq Adjacent(work[i].node)
        BY <1>0, <1>15, <3>1 DEF WorkIsSorted
      <4> QED BY <1>11, <1>16, <3>1, <4>1
    <3>2. CASE i = n + 1
      BY <1>11, <1>15, <3>2
    <3> QED BY <1>15, <3>1, <3>2
  <2>2. ASSUME NEW i \in DOMAIN work', NEW k \in DOMAIN work', i < k
        PROVE  index'[work'[i].node] < index'[work'[k].node]
    <3>1. i \in 1 .. n /\ (k \in 1 .. n \/ k = n + 1)
      BY <1>15, <2>2
    <3>2. CASE k \in 1 .. n
      <4>1. index[work[i].node] < index[work[k].node]
        BY <1>0, <1>15, <2>2, <3>1, <3>2 DEF WorkIsSorted
      <4> QED BY <1>16, <3>1, <3>2, <4>1
    <3>3. CASE k = n + 1
      <4>1. index'[work'[k].node] = K + 1
        BY <1>4, <1>16, <3>3
      <4>2. /\ index'[work'[i].node] = index[work[i].node]
            /\ index[work[i].node] <= K /\ index[work[i].node] \in Nat
        BY <1>16, <3>1
      <4> HIDE DEF K
      <4> QED BY <1>1, <4>1, <4>2
    <3> QED BY <3>1, <3>2, <3>3
  <2> QED BY <1>3, <1>15, <2>1, <2>2 DEF WorkIsSorted
<1>18. \A i \in 1 .. n : Leads(work[i].node, t)
  <2> SUFFICES ASSUME NEW i \in 1 .. n PROVE Leads(work[i].node, t)
    OBVIOUS
  <2>1. work # <<>> /\ n \in 1 .. n /\ Top.node = work[n].node
    BY <1>15 DEF Top, Last
  <2>2. Leads(work[n].node, t)
    BY <2>1, LeadsOn
  <2>3. i = n \/ index[work[i].node] < index[work[n].node]
    <3>1. i \in DOMAIN work /\ n \in DOMAIN work /\ (i = n \/ i < n)
      BY <1>15, <2>1
    <3> QED BY <1>0, <3>1 DEF WorkIsSorted
  <2>4. index[work[i].node] <= index[work[n].node]
    BY <1>16, <2>1, <2>3
  <2>5. Leads(work[i].node, work[n].node)
    BY <1>0, <1>15, <1>16, <2>1, <2>4 DEF PathsAreKnown
  <2> QED BY <2>2, <2>5, LeadsOn
<1>19. PathsAreKnown'
  <2>1. ASSUME NEW i \in DOMAIN work', NEW s \in OnStack', index'[work'[i].node] <= index'[s]
        PROVE  Leads(work'[i].node, s)
    <3>1. CASE s = t /\ i = n + 1
      BY <1>15, <3>1, LeadsOn
    <3>2. CASE s = t /\ i \in 1 .. n
      BY <1>16, <1>18, <3>2
    <3>3. CASE s \in OnStack /\ i \in 1 .. n
      <4>1. index[work[i].node] <= index[s]
        BY <1>8, <1>13, <1>16, <2>1, <3>3
      <4> QED BY <1>0, <1>15, <1>16, <3>3, <4>1 DEF PathsAreKnown
    <3>4. CASE s \in OnStack /\ i = n + 1
      BY <1>1, <1>4, <1>8, <1>13, <1>15, <2>1, <3>4
    <3> QED BY <1>11, <1>15, <3>1, <3>2, <3>3, <3>4
  <2>2. ASSUME NEW s \in OnStack'
        PROVE  \E i \in DOMAIN work' : index'[work'[i].node] <= index'[s] /\ Leads(s, work'[i].node)
    <3>1. CASE s = t
      <4>1. n + 1 \in DOMAIN work' /\ work'[n + 1].node = t /\ index'[t] <= index'[t]
        BY <1>1, <1>4, <1>15
      <4> QED BY <3>1, <4>1, LeadsOn
    <3>2. CASE s \in OnStack
      <4>1. PICK i \in DOMAIN work : index[work[i].node] <= index[s] /\ Leads(s, work[i].node)
        BY <1>0, <3>2 DEF PathsAreKnown
      <4>2. i \in DOMAIN work' /\ work'[i].node = work[i].node
        BY <1>15, <1>16
      <4>3. index'[work'[i].node] <= index'[s]
        BY <1>8, <1>13, <1>15, <1>16, <3>2, <4>1, <4>2
      <4> QED BY <4>1, <4>2, <4>3
    <3> QED BY <1>11, <3>1, <3>2
  <2> QED BY <1>3, <2>1, <2>2 DEF PathsAreKnown
<1>20. LowlinksAreReached'
  <2>1. \A x \in Tasks : lowlink'[x] <= index'[x]
    <3>1. \A x \in Tasks : lowlink[x] <= index[x]
      BY <1>0 DEF LowlinksAreReached
    <3>2. lowlink'[t] <= index'[t]
      BY <1>1, <1>4, <1>5
    <3> QED BY <1>4, <1>5, <3>1, <3>2
  <2>2. ASSUME NEW x \in OnStack'
        PROVE  \E s \in OnStack' : index'[s] = lowlink'[x] /\ Leads(x, s)
    <3>1. CASE x = t
      BY <1>4, <1>5, <1>11, <3>1, LeadsOn
    <3>2. CASE x \in OnStack
      <4>1. PICK s \in OnStack : index[s] = lowlink[x] /\ Leads(x, s)
        BY <1>0, <3>2 DEF LowlinksAreReached
      <4>2. index'[s] = index[s] /\ lowlink'[x] = lowlink[x] /\ s \in OnStack'
        BY <1>5, <1>8, <1>11, <1>13, <3>2
      <4> QED BY <4>1, <4>2
    <3> QED BY <1>11, <3>1, <3>2
  <2> QED BY <1>3, <1>5, <2>1, <2>2 DEF LowlinksAreReached
<1>21. ASSUME NEW x \in Tasks, x # t, NEW y \in Explored(x)'
       PROVE  y \in Explored(x) \/ (n # 0 /\ x = work[n].node /\ y = t)
  <2>1. y \in Adjacent(x) /\ \A k \in DOMAIN work' : work'[k].node = x => y \notin work'[k].left
    BY <1>3, <1>21 DEF Explored
  <2>2. CASE \E k \in DOMAIN work : work[k].node = x /\ y \in work[k].left
    <3>1. PICK k \in DOMAIN work : work[k].node = x /\ y \in work[k].left
      BY <2>2
    <3>2. y \notin opened[k].left
      <4>1. k \in DOMAIN work' /\ work'[k] = opened[k] /\ work'[k].node = x
        BY <1>15, <1>16, <3>1
      <4> QED BY <2>1, <4>1
    <3>3. /\ work[k].left \subseteq opened[k].left \cup {t}
          /\ k # n => opened[k].left = work[k].left
      BY <3>1
    <3>4. k = n /\ y = t
      BY <3>1, <3>2, <3>3
    <3> QED BY <1>15, <3>1, <3>4
  <2>3. CASE ~(\E k \in DOMAIN work : work[k].node = x /\ y \in work[k].left)
    BY <2>1, <2>3 DEF Explored
  <2> QED BY <2>2, <2>3
<1>22. LowlinksAreLow'
  <2> SUFFICES ASSUME NEW i \in DOMAIN work', NEW x \in OnStack', InSegment(x, i)',
                      NEW y \in Explored(x)'
               PROVE  y \in Discovered' /\ (y \in OnStack' => lowlink'[work'[i].node] <= index'[y])
    BY DEF LowlinksAreLow
  <2>1. /\ index'[work'[i].node] <= index'[x]
        /\ i = n + 1 \/ index'[x] < index'[work'[i + 1].node]
    BY <1>15 DEF InSegment
  <2>2. CASE x = t
    <3>1. y \in Adjacent(t) /\ y \notin work'[n + 1].left
      BY <1>3, <1>15, <1>16, <2>2 DEF Explored
    <3> QED BY <1>15, <3>1
  <2>3. CASE x \in OnStack
    <3>1. x \in Tasks /\ x # t /\ index'[x] = index[x] /\ index[x] <= K /\ index[x] \in Nat
      BY <1>8, <1>13, <2>3
    <3>2. i \in 1 .. n
      BY <1>1, <1>4, <1>15, <1>16, <2>1, <3>1
    <3>3. InSegment(x, i)
      <4>1. index[work[i].node] <= index[x]
        BY <1>16, <2>1, <3>1, <3>2
      <4>2. i = n \/ index[x] < index[work[i + 1].node]
        <5>1. CASE i = n
          BY <5>1
        <5>2. CASE i # n
          <6>1. i + 1 \in 1 .. n /\ i # n + 1
            BY <1>15, <3>2, <5>2
          <6> QED BY <1>16, <2>1, <3>1, <6>1
        <5> QED BY <5>1, <5>2
      <4> QED BY <4>1, <4>2 DEF InSegment
    <3>4. /\ work'[i].node = work[i].node /\ work[i].node \in Tasks
          /\ lowlink'[work[i].node] = lowlink[work[i].node]
          /\ lowlink[work[i].node] \in Nat
      BY <1>5, <1>8, <1>13, <1>16, <3>2
    <3>5. CASE y \in Explored(x)
      <4>1. y \in Discovered /\ (y \in OnStack => lowlink[work[i].node] <= index[y])
        BY <1>0, <1>15, <2>3, <3>2, <3>3, <3>5 DEF LowlinksAreLow
      <4>2. y # t /\ index'[y] = index[y]
        BY <1>8, <4>1
      <4> QED BY <1>6, <1>11, <3>4, <4>1, <4>2
    <3>6. CASE y = t
      <4>1. lowlink[work[i].node] <= index[work[i].node] /\ index[work[i].node] <= K
        BY <1>0, <1>16, <3>2, <3>4 DEF LowlinksAreReached
      <4>2. lowlink[work[i].node] <= K + 1
        BY <1>1, <1>16, <3>2, <3>4, <4>1
      <4> QED BY <1>4, <1>6, <3>4, <3>6, <4>2
    <3> QED BY <1>21, <3>1, <3>5, <3>6
  <2> QED BY <1>11, <2>2, <2>3
<1>23. ComponentsAreExact'
  BY <1>0, <1>2, <1>3, <1>12 DEF ComponentsAreExact
<1> QED BY <1>9, <1>14, <1>17, <1>19, <1>20, <1>22, <1>23 DEF TarjanInv
-----------------------------------------------------------------------------
\* A sequence without its last element, and with another one instead.
LEMMA FrontOf ==
    ASSUME NEW S, NEW s \in Seq(S), s # <<>>
    PROVE  /\ Len(s) \in Nat \ {0} /\ DOMAIN s = 1 .. Len(s)
           /\ Last(s) = s[Len(s)] /\ Last(s) \in S
           /\ Front(s) \in Seq(S) /\ Len(Front(s)) = Len(s) - 1
           /\ \A i \in 1 .. Len(s) - 1 : Front(s)[i] = s[i]
           /\ \A e \in S : /\ Append(Front(s), e) \in Seq(S)
                           /\ Len(Append(Front(s), e)) = Len(s)
                           /\ \A i \in 1 .. Len(s) - 1 : Append(Front(s), e)[i] = s[i]
                           /\ Append(Front(s), e)[Len(s)] = e
<1>1. Len(s) \in Nat \ {0} /\ DOMAIN s = 1 .. Len(s)
  OBVIOUS
<1>2. Last(s) = s[Len(s)] /\ Last(s) \in S
  BY <1>1 DEF Last
<1>3. /\ Front(s) \in Seq(S) /\ Len(Front(s)) = Len(s) - 1
      /\ \A i \in 1 .. Len(s) - 1 : Front(s)[i] = s[i]
  BY <1>1 DEF Front
<1>4. ASSUME NEW e \in S
      PROVE  /\ Append(Front(s), e) \in Seq(S)
             /\ Len(Append(Front(s), e)) = Len(s)
             /\ \A i \in 1 .. Len(s) - 1 : Append(Front(s), e)[i] = s[i]
             /\ Append(Front(s), e)[Len(s)] = e
  <2>1. PICK f \in Seq(S) : f = Front(s)
    BY <1>3
  <2>2. Len(f) = Len(s) - 1 /\ \A i \in 1 .. Len(s) - 1 : f[i] = s[i]
    BY <1>3, <2>1
  <2>3. /\ Append(f, e) \in Seq(S)
        /\ Len(Append(f, e)) = Len(f) + 1
        /\ \A i \in 1 .. Len(f) : Append(f, e)[i] = f[i]
        /\ Append(f, e)[Len(f) + 1] = e
    OBVIOUS
  <2>4. Len(f) + 1 = Len(s)
    BY <1>1, <2>2
  <2> QED BY <2>1, <2>2, <2>3, <2>4
<1> QED BY <1>1, <1>2, <1>3, <1>4

\* The search is begun at the first task that is not discovered.
LEMMA RootKeeps ==
    ASSUME TarjanInv, EdgesAreOfTasks, UNCHANGED input, Root
    PROVE  TarjanInv'
<1> DEFINE S == CycleNodes \ Discovered
<1>1. work = <<>> /\ S # {} /\ Discover(Min(S), <<>>)
  BY DEF Root
<1>2. Min(S) \in S
  <2>1. CycleNodes \subseteq Tasks
    BY DiscoveredIsFinite
  <2>2. S \subseteq Tasks
    BY <2>1
  <2> HIDE DEF S
  <2>3. IsFiniteSet(Tasks) /\ \A x \in Tasks : x \in Int
    BY InputAssumption DEF InputAssumption
  <2>4. IsFiniteSet(S)
    BY <2>2, <2>3, FS_Subset
  <2>5. \A x \in S : x \in Int
    BY <2>2, <2>3
  <2> QED BY <1>1, <2>4, <2>5, LeastOfFinite
<1> HIDE DEF S
<1>3. PICK t \in S : t = Min(S)
  BY <1>2
<1>4. Discover(t, <<>>)
  BY <1>1, <1>3
<1>5. <<>> \in Seq([node : Tasks, left : SUBSET Tasks]) /\ Len(<<>>) = Len(work) /\ DOMAIN work = {}
  BY <1>1
<1> QED BY <1>1, <1>4, <1>5, DiscoverKeeps DEF S

\* The next edge of the task on top is examined.
LEMMA ExamineKeeps ==
    ASSUME TarjanInv, EdgesAreOfTasks, UNCHANGED input, Examine
    PROVE  TarjanInv'
<1> DEFINE W == [node : Tasks, left : SUBSET Tasks]
           n == Len(work)
           rest(s) == [Top EXCEPT !.left = @ \ {s}]
<1>0. /\ IndicesAreFresh /\ StackIsSorted /\ WorkIsSorted /\ PathsAreKnown
      /\ LowlinksAreReached /\ LowlinksAreLow /\ ComponentsAreExact
  BY DEF TarjanInv
<1>1. work # <<>> /\ Top.left # {} /\ work \in Seq(W)
  BY <1>0 DEF Examine, WorkIsSorted
<1>2. /\ n \in Nat \ {0} /\ DOMAIN work = 1 .. n /\ Top = work[n] /\ Top \in W
  <2> HIDE DEF W
  <2> QED BY <1>1, FrontOf DEF Top
<1>3. n \in 1 .. n
  BY <1>2
<1>4. n \in Nat
  BY <1>2
<1>5. \A e \in W : /\ Append(Front(work), e) \in Seq(W)
                     /\ Len(Append(Front(work), e)) = n
                     /\ \A i \in 1 .. n - 1 : Append(Front(work), e)[i] = work[i]
                     /\ Append(Front(work), e)[n] = e
  <2> HIDE DEF W
  <2> QED BY <1>1, FrontOf DEF Top
<1>6. PICK s \in Top.left : s = Min(Top.left)
  <2> DEFINE S == Top.left
  <2>1. S # {} /\ S \subseteq Tasks
    BY <1>1, <1>2
  <2> HIDE DEF S
  <2>2. IsFiniteSet(Tasks) /\ \A x \in Tasks : x \in Int
    BY InputAssumption DEF InputAssumption
  <2>3. IsFiniteSet(S)
    BY <2>1, <2>2, FS_Subset
  <2>4. \A x \in S : x \in Int
    BY <2>1, <2>2
  <2>5. Min(S) \in S
    BY <2>1, <2>3, <2>4, LeastOfFinite
  <2> QED BY <2>5 DEF S
<1>7. /\ rest(s) \in W /\ rest(s).node = Top.node /\ rest(s).left = Top.left \ {s}
      /\ s \in Tasks
  BY <1>2
<1>8. IF s \notin Discovered
      THEN Discover(s, Append(Front(work), rest(s)))
      ELSE /\ work' = Append(Front(work), rest(s))
           /\ lowlink' = Learned(Top.node, s)
           /\ UNCHANGED <<index, stack, components>>
  BY <1>6 DEF Examine
<1> HIDE DEF rest, W
<1>9. PICK next \in Seq(W) : next = Append(Front(work), rest(s))
  BY <1>7, <1>5
<1>10. /\ Len(next) = n /\ \A i \in 1 .. n - 1 : next[i] = work[i]
       /\ next[n].node = work[n].node /\ next[n].left = work[n].left \ {s}
  <2>1. /\ Len(next) = n /\ \A i \in 1 .. n - 1 : next[i] = work[i]
        /\ next[n] = rest(s)
    BY <1>7, <1>9, <1>5
  <2> QED BY <1>2, <1>7, <2>1
<1>11. s \in Adjacent(Top.node)
  BY <1>0, <1>2, <1>6, <1>3 DEF WorkIsSorted
<1>12. \A i \in 1 .. n : /\ next[i].node = work[i].node
                         /\ next[i].left \subseteq work[i].left
                         /\ work[i].left \subseteq next[i].left \cup {s}
                         /\ i # n => next[i].left = work[i].left
  <2> TAKE i \in 1 .. n
  <2>1. i = n \/ i \in 1 .. n - 1
    BY <1>4
  <2> QED BY <1>10, <2>1
<1>13. CASE s \notin Discovered
  <2>1. Discover(s, next)
    BY <1>8, <1>9, <1>13
  <2>2. s \in CycleNodes \ Discovered
    BY <1>11, <1>13 DEF Adjacent
  <2>3. next \in Seq([node : Tasks, left : SUBSET Tasks])
    BY DEF W
  <2>4. Len(next) = Len(work)
    BY <1>10
  <2>5. \A i \in DOMAIN work :
           /\ next[i].node = work[i].node
           /\ next[i].left \subseteq work[i].left
           /\ work[i].left \subseteq next[i].left \cup {s}
           /\ i # Len(work) => next[i].left = work[i].left
    BY <1>2, <1>12
  <2> HIDE DEF n
  <2> QED BY <1>11, <2>1, <2>2, <2>3, <2>4, <2>5, DiscoverKeeps
<1>14. CASE s \in Discovered
  <2> DEFINE top == work[n].node
  <2>1. /\ work' = next /\ index' = index /\ stack' = stack /\ components' = components
        /\ lowlink' = Learned(top, s)
    BY <1>2, <1>8, <1>9, <1>14
  <2>2. /\ \A x : Adjacent(x)' = Adjacent(x)
        /\ \A x, y : Leads(x, y)' = Leads(x, y)
        /\ CycleNodes' = CycleNodes
    BY GraphStays
  <2>3. Discovered' = Discovered /\ OnStack' = OnStack /\ Completed' = Completed
    BY <2>1 DEF Discovered, OnStack, Completed
  <2>4. DOMAIN work' = 1 .. n /\ \A i \in 1 .. n : work'[i].node = work[i].node
    BY <1>9, <1>10, <1>12, <1>4, <2>1
  <2>5. /\ OnStack \subseteq Tasks /\ OnStack \subseteq Discovered
        /\ index \in [Tasks -> Nat] /\ lowlink \in [Tasks -> Nat]
        /\ \A i \in 1 .. n : work[i].node \in OnStack
        /\ top \in OnStack /\ top \in Tasks
    <3>1. OnStack \subseteq Tasks /\ OnStack \subseteq Discovered
      BY <1>0, DiscoveredIsFinite DEF StackIsSorted
    <3>2. \A i \in 1 .. n : work[i].node \in OnStack
      BY <1>0, <1>2 DEF WorkIsSorted
    <3> QED BY <1>0, <1>3, <3>1, <3>2 DEF IndicesAreFresh, LowlinksAreReached
  <2>6. /\ lowlink' \in [Tasks -> Nat]
        /\ \A x \in Tasks : lowlink'[x] <= lowlink[x]
        /\ \A x \in Tasks : lowlink'[x] = lowlink[x]
                            \/ (x = top /\ s \in OnStack /\ lowlink'[x] = index[s])
        /\ s \in OnStack => lowlink'[top] <= index[s]
    <3>1. Contains(stack, s) <=> s \in OnStack
      BY <1>0 DEF Contains, OnStack, ToSet, StackIsSorted
    <3>2. CASE s \in OnStack
      <4>1. lowlink' = [lowlink EXCEPT ![top] = Min({lowlink[top], index[s]})]
        BY <2>1, <3>1, <3>2 DEF Learned
      <4>2. index[s] \in Nat /\ lowlink[top] \in Nat
        BY <1>7, <2>5
      <4>3. /\ Min({lowlink[top], index[s]}) \in {lowlink[top], index[s]}
            /\ Min({lowlink[top], index[s]}) <= lowlink[top]
            /\ Min({lowlink[top], index[s]}) <= index[s]
        <5>1. PICK a \in Int : a = lowlink[top]
          BY <4>2
        <5>2. PICK b \in Int : b = index[s]
          BY <4>2
        <5>3. Min({a, b}) \in {a, b} /\ Min({a, b}) <= a /\ Min({a, b}) <= b
          BY MinOfTwo
        <5>4. Min({a, b}) = Min({lowlink[top], index[s]}) /\ {a, b} = {lowlink[top], index[s]}
          BY <5>1, <5>2
        <5> QED BY <5>1, <5>2, <5>3, <5>4
      <4> HIDE DEF top
      <4>4. /\ lowlink'[top] = Min({lowlink[top], index[s]})
            /\ \A x \in Tasks : x # top => lowlink'[x] = lowlink[x]
            /\ lowlink' \in [Tasks -> Nat]
        BY <2>5, <4>1, <4>2, <4>3
      <4>5. /\ lowlink'[top] \in {lowlink[top], index[s]}
            /\ lowlink'[top] <= lowlink[top] /\ lowlink'[top] <= index[s]
        BY <4>3, <4>4
      <4>6. \A x \in Tasks : lowlink[x] \in Nat
        BY <2>5
      <4>7. \A x \in Tasks : lowlink'[x] <= lowlink[x]
        <5> TAKE x \in Tasks
        <5>1. CASE x = top
          BY <4>5, <5>1
        <5>2. CASE x # top
          BY <4>4, <4>6, <5>2
        <5> QED BY <5>1, <5>2
      <4>8. \A x \in Tasks : lowlink'[x] = lowlink[x]
                            \/ (x = top /\ s \in OnStack /\ lowlink'[x] = index[s])
        BY <3>2, <4>4, <4>5
      <4> QED BY <4>4, <4>5, <4>7, <4>8
    <3>3. CASE s \notin OnStack
      <4>1. lowlink' = lowlink
        BY <2>1, <3>1, <3>3 DEF Learned
      <4> QED BY <2>5, <3>3, <4>1
    <3> QED BY <3>2, <3>3
  <2> HIDE DEF top
  <2>7. IndicesAreFresh' /\ StackIsSorted' /\ ComponentsAreExact'
    <3>1. IndicesAreFresh'
      BY <1>0, <2>1, <2>2, <2>3 DEF IndicesAreFresh
    <3>2. StackIsSorted'
      BY <1>0, <2>1, <2>3 DEF StackIsSorted
    <3>3. ComponentsAreExact'
      BY <1>0, <2>1, <2>2, <2>3 DEF ComponentsAreExact
    <3> QED BY <3>1, <3>2, <3>3
  <2>8. WorkIsSorted'
    <3>1. work' \in Seq(W)
      BY <1>9, <2>1
    <3>2. \A i \in 1 .. n : /\ work'[i].node \in OnStack
                            /\ work'[i].left \subseteq Adjacent(work'[i].node)
      <4> TAKE i \in 1 .. n
      <4>1. work'[i].node = work[i].node /\ work'[i].left \subseteq work[i].left
        BY <1>12, <2>1
      <4>2. work[i].node \in OnStack /\ work[i].left \subseteq Adjacent(work[i].node)
        BY <1>0, <1>2 DEF WorkIsSorted
      <4> QED BY <4>1, <4>2
    <3>3. \A i, k \in 1 .. n : i < k => index[work'[i].node] < index[work'[k].node]
      BY <1>0, <1>2, <2>4 DEF WorkIsSorted
    <3> QED BY <2>1, <2>2, <2>3, <2>4, <3>1, <3>2, <3>3 DEF WorkIsSorted, W
  <2>9. PathsAreKnown'
    BY <1>0, <1>2, <2>1, <2>2, <2>3, <2>4 DEF PathsAreKnown
  <2>10. LowlinksAreReached'
    <3>1. \A x \in Tasks : lowlink'[x] <= index'[x]
      <4>1. \A x \in Tasks : lowlink[x] <= index[x]
        BY <1>0 DEF LowlinksAreReached
      <4> QED BY <2>1, <2>5, <2>6, <4>1
    <3>2. ASSUME NEW x \in OnStack
          PROVE  \E y \in OnStack : index[y] = lowlink'[x] /\ Leads(x, y)
      <4>1. CASE lowlink'[x] = lowlink[x]
        BY <1>0, <4>1 DEF LowlinksAreReached
      <4>2. CASE x = top /\ s \in OnStack /\ lowlink'[x] = index[s]
        <5>1. Leads(x, s)
          BY <1>2, <1>11, <4>2, LeadsOn DEF top
        <5> QED BY <4>2, <5>1
      <4> QED BY <2>5, <2>6, <4>1, <4>2
    <3> QED BY <2>1, <2>2, <2>3, <2>6, <3>1, <3>2 DEF LowlinksAreReached
  <2>11. ASSUME NEW x, NEW y \in Explored(x)'
         PROVE  y \in Explored(x) \/ (x = top /\ y = s)
    <3>1. y \in Adjacent(x) /\ \A k \in DOMAIN work' : work'[k].node = x => y \notin work'[k].left
      BY <2>2, <2>11 DEF Explored
    <3>2. CASE \E k \in DOMAIN work : work[k].node = x /\ y \in work[k].left
      <4>1. PICK k \in 1 .. n : work[k].node = x /\ y \in work[k].left
        BY <1>2, <3>2
      <4>2. y \notin next[k].left
        BY <2>1, <2>4, <3>1, <4>1
      <4>3. /\ work[k].left \subseteq next[k].left \cup {s}
            /\ k # n => next[k].left = work[k].left
        BY <1>12
      <4>4. k = n /\ y = s
        BY <4>1, <4>2, <4>3
      <4> QED BY <4>1, <4>4 DEF top
    <3>3. CASE ~(\E k \in DOMAIN work : work[k].node = x /\ y \in work[k].left)
      BY <3>1, <3>3 DEF Explored
    <3> QED BY <3>2, <3>3
  <2>12. LowlinksAreLow'
    <3> SUFFICES ASSUME NEW i \in DOMAIN work', NEW x \in OnStack', InSegment(x, i)',
                        NEW y \in Explored(x)'
                 PROVE  y \in Discovered' /\ (y \in OnStack' => lowlink'[work'[i].node] <= index'[y])
      BY DEF LowlinksAreLow
    <3>1. i \in 1 .. n /\ x \in OnStack
      BY <2>3, <2>4
    <3>2. InSegment(x, i)
      <4>1. Len(work') = n
        BY <1>10, <2>1
      <4>2. /\ index[work[i].node] <= index[x]
            /\ i = n \/ index[x] < index[work'[i + 1].node]
        BY <2>1, <2>4, <3>1, <4>1 DEF InSegment
      <4>3. i = n \/ i + 1 \in 1 .. n
        BY <1>2, <3>1
      <4> QED BY <2>4, <4>2, <4>3 DEF InSegment
    <3>3. /\ work'[i].node = work[i].node /\ work[i].node \in Tasks
          /\ lowlink'[work[i].node] <= lowlink[work[i].node]
          /\ lowlink'[work[i].node] \in Nat /\ lowlink[work[i].node] \in Nat
      BY <2>4, <2>5, <2>6, <3>1
    <3>4. CASE y \in Explored(x)
      <4>1. y \in Discovered /\ (y \in OnStack => lowlink[work[i].node] <= index[y])
        BY <1>0, <1>2, <3>1, <3>2, <3>4 DEF LowlinksAreLow
      <4>2. y \in OnStack => index[y] \in Nat
        BY <2>5
      <4> QED BY <2>1, <2>3, <3>3, <4>1, <4>2
    <3>5. CASE x = top /\ y = s
      <4>1. i = n
        <5>1. i = n \/ (i < n /\ i + 1 \in 1 .. n)
          BY <1>2, <3>1
        <5>2. ASSUME i < n, i + 1 \in 1 .. n PROVE FALSE
          <6>1. index[x] < index[work[i + 1].node]
            BY <3>2, <5>2 DEF InSegment
          <6>2. i + 1 = n \/ i + 1 < n
            BY <1>2, <5>2
          <6>3. i + 1 = n \/ index[work[i + 1].node] < index[work[n].node]
            BY <1>0, <1>2, <5>2, <6>2 DEF WorkIsSorted
          <6>4. index[work[i + 1].node] \in Nat /\ index[work[n].node] \in Nat
            BY <1>2, <2>5, <5>2
          <6> QED BY <3>5, <6>1, <6>3, <6>4 DEF top
        <5> QED BY <5>1, <5>2
      <4>2. work'[i].node = top
        BY <3>3, <4>1 DEF top
      <4> QED BY <1>14, <2>1, <2>3, <2>6, <3>5, <4>2
    <3> QED BY <2>11, <3>4, <3>5
  <2> QED BY <2>7, <2>8, <2>9, <2>10, <2>12 DEF TarjanInv
<1> QED BY <1>13, <1>14
-----------------------------------------------------------------------------
\* All edges of the task on top, and of what is on the stack above it, are
\* examined: none of them leads lower than the lowlink of the task on top.
LEMMA NothingLower ==
    ASSUME TarjanInv, work # <<>>, Top.left = {},
           NEW x \in OnStack, index[Top.node] <= index[x], NEW y \in Adjacent(x)
    PROVE  y \in Discovered /\ (y \in OnStack => lowlink[Top.node] <= index[y])
<1> DEFINE n == Len(work)
<1>0. /\ WorkIsSorted /\ LowlinksAreLow /\ IndicesAreFresh /\ StackIsSorted
  BY DEF TarjanInv
<1>1. n \in Nat \ {0} /\ DOMAIN work = 1 .. n /\ Top = work[n]
  <2> DEFINE W == [node : Tasks, left : SUBSET Tasks]
  <2>1. work \in Seq(W)
    BY <1>0 DEF WorkIsSorted
  <2> HIDE DEF W
  <2> QED BY <2>1, FrontOf DEF Top
<1>2. n \in 1 .. n /\ n \in Nat
  BY <1>1
<1>3. InSegment(x, n)
  BY <1>1 DEF InSegment
<1>4. y \in Explored(x)
  <2> SUFFICES ASSUME NEW k \in DOMAIN work, work[k].node = x PROVE y \notin work[k].left
    BY DEF Explored
  <2>1. k \in 1 .. n /\ (k = n \/ k < n)
    BY <1>1, <1>2
  <2>2. CASE k < n
    <3>1. index[work[k].node] < index[work[n].node]
      BY <1>0, <1>1, <1>2, <2>1, <2>2 DEF WorkIsSorted
    <3>2. work[k].node \in Tasks /\ work[n].node \in Tasks
      BY <1>0, <1>1, <1>2, <2>1 DEF WorkIsSorted, StackIsSorted, OnStack, ToSet
    <3>3. index[work[k].node] \in Nat /\ index[work[n].node] \in Nat
      BY <1>0, <3>2 DEF IndicesAreFresh
    <3> QED BY <1>1, <3>1, <3>3
  <2>3. CASE k = n
    BY <1>1, <2>3
  <2> QED BY <2>1, <2>2, <2>3
<1> QED BY <1>0, <1>1, <1>2, <1>3, <1>4 DEF LowlinksAreLow

\* The top of the stack, from a task on it, holds what is not discovered
\* before the task.
LEMMA StackIsCut ==
    ASSUME TarjanInv, NEW u \in OnStack,
           NEW at, at = CHOOSE i \in DOMAIN stack : stack[i] = u
    PROVE  /\ {stack[i] : i \in at .. Len(stack)} = {x \in OnStack : index[u] <= index[x]}
           /\ SubSeq(stack, 1, at - 1) \in Seq(Tasks)
           /\ ToSet(SubSeq(stack, 1, at - 1)) = {x \in OnStack : index[x] < index[u]}
           /\ \A i, k \in DOMAIN SubSeq(stack, 1, at - 1) : i < k =>
                 index[SubSeq(stack, 1, at - 1)[i]] < index[SubSeq(stack, 1, at - 1)[k]]
<1> DEFINE m == Len(stack)
           cut == SubSeq(stack, 1, at - 1)
<1>0. StackIsSorted /\ IndicesAreFresh
  BY DEF TarjanInv
<1>1. stack \in Seq(Tasks) /\ m \in Nat /\ DOMAIN stack = 1 .. m
  BY <1>0 DEF StackIsSorted
<1>2. at \in 1 .. m /\ stack[at] = u
  BY <1>1 DEF OnStack, ToSet
<1>3. \A i \in 1 .. m : stack[i] \in Tasks /\ stack[i] \in OnStack /\ index[stack[i]] \in Nat
  BY <1>0, <1>1 DEF IndicesAreFresh, OnStack, ToSet
<1>4. \A i \in 1 .. m : i < at => index[stack[i]] < index[u]
  BY <1>0, <1>1, <1>2 DEF StackIsSorted
<1>5. \A i \in 1 .. m : at < i => index[u] < index[stack[i]]
  BY <1>0, <1>1, <1>2 DEF StackIsSorted
<1>6. index[u] \in Nat
  BY <1>2, <1>3
<1>7. \A i \in 1 .. m : (i < at /\ index[stack[i]] < index[u])
                        \/ (at <= i /\ index[u] <= index[stack[i]])
  <2> TAKE i \in 1 .. m
  <2>1. i \in Int /\ at \in Int
    BY <1>2
  <2>2. i < at \/ at < i \/ i = at
    BY <2>1
  <2> QED BY <1>2, <1>3, <1>4, <1>5, <1>6, <2>1, <2>2
<1>8. {stack[i] : i \in at .. m} = {x \in OnStack : index[u] <= index[x]}
  <2>1. ASSUME NEW i \in at .. m PROVE stack[i] \in {x \in OnStack : index[u] <= index[x]}
    <3>1. i \in 1 .. m /\ ~(i < at)
      BY <1>1, <1>2
    <3> QED BY <1>3, <1>7, <3>1
  <2>2. ASSUME NEW x \in OnStack, index[u] <= index[x] PROVE \E i \in at .. m : x = stack[i]
    <3>1. PICK i \in 1 .. m : x = stack[i]
      BY <1>1 DEF OnStack, ToSet
    <3>2. at <= i
      BY <1>3, <1>6, <1>7, <2>2, <3>1
    <3>3. i \in at .. m
      BY <1>1, <1>2, <3>2
    <3> QED BY <3>1, <3>3
  <2>3. {stack[i] : i \in at .. m} \subseteq {x \in OnStack : index[u] <= index[x]}
    BY <2>1
  <2>4. {x \in OnStack : index[u] <= index[x]} \subseteq {stack[i] : i \in at .. m}
    BY <2>2
  <2> QED BY <2>3, <2>4
<1>9. cut \in Seq(Tasks) /\ Len(cut) = at - 1 /\ DOMAIN cut = 1 .. at - 1
  BY <1>1, <1>2
<1>10. \A i \in 1 .. at - 1 : cut[i] = stack[i] /\ i \in 1 .. m /\ i < at
  BY <1>1, <1>2
<1> HIDE DEF cut
<1>11. ToSet(cut) = {x \in OnStack : index[x] < index[u]}
  <2>1. ASSUME NEW x \in ToSet(cut) PROVE x \in OnStack /\ index[x] < index[u]
    <3>1. PICK i \in 1 .. at - 1 : x = cut[i]
      BY <1>9 DEF ToSet
    <3> QED BY <1>3, <1>4, <1>10, <3>1
  <2>2. ASSUME NEW x \in OnStack, index[x] < index[u] PROVE x \in ToSet(cut)
    <3>1. PICK i \in 1 .. m : x = stack[i]
      BY <1>1 DEF OnStack, ToSet
    <3>2. i < at
      BY <1>3, <1>6, <1>7, <2>2, <3>1
    <3>3. i \in 1 .. at - 1
      BY <1>1, <1>2, <3>2
    <3> QED BY <1>9, <1>10, <3>1, <3>3 DEF ToSet
  <2> QED BY <2>1, <2>2
<1>12. \A i, k \in DOMAIN cut : i < k => index[cut[i]] < index[cut[k]]
  BY <1>0, <1>1, <1>9, <1>10 DEF StackIsSorted
<1> QED BY <1>8, <1>9, <1>11, <1>12 DEF cut

\* The task on top is left: with a component, or for its parent.
LEMMA RetreatKeeps ==
    ASSUME TarjanInv, EdgesAreOfTasks, UNCHANGED input, Retreat
    PROVE  TarjanInv'
<1> DEFINE W == [node : Tasks, left : SUBSET Tasks]
           n == Len(work)
           u == Top.node
           p == Last(Front(work)).node
<1>0. /\ IndicesAreFresh /\ StackIsSorted /\ WorkIsSorted /\ PathsAreKnown
      /\ LowlinksAreReached /\ LowlinksAreLow /\ ComponentsAreExact
  BY DEF TarjanInv
<1>1. /\ work # <<>> /\ Top.left = {} /\ work \in Seq(W)
      /\ work' = Front(work) /\ index' = index
      /\ lowlink' = IF n > 1 THEN [lowlink EXCEPT ![p] = Min({lowlink[p], lowlink[u]})] ELSE lowlink
  BY <1>0 DEF Retreat, WorkIsSorted
<1>2. /\ n \in Nat \ {0} /\ DOMAIN work = 1 .. n /\ Top = work[n]
      /\ work' \in Seq(W) /\ Len(work') = n - 1
      /\ \A i \in 1 .. n - 1 : work'[i] = work[i]
  <2> HIDE DEF W
  <2> QED BY <1>1, FrontOf DEF Top
<1>3. n \in Nat /\ n # 0 /\ n \in 1 .. n /\ u = work[n].node
  BY <1>2
<1>4. DOMAIN work' = 1 .. n - 1 /\ \A i \in 1 .. n - 1 : i \in 1 .. n /\ i < n
  BY <1>2, <1>3
<1>5. n > 1 => n - 1 \in 1 .. n - 1 /\ p = work[n - 1].node
  <2> SUFFICES ASSUME n > 1 PROVE n - 1 \in 1 .. n - 1 /\ p = work[n - 1].node
    OBVIOUS
  <2>1. n - 1 \in 1 .. n - 1
    BY <1>3
  <2>2. p = work'[n - 1].node
    BY <1>1, <1>2 DEF Last
  <2> QED BY <1>2, <2>1, <2>2
<1>6. /\ OnStack \subseteq Tasks /\ OnStack \subseteq Discovered
      /\ index \in [Tasks -> Nat] /\ lowlink \in [Tasks -> Nat]
      /\ \A i \in 1 .. n : work[i].node \in OnStack
      /\ \A x \in Tasks : index[x] \in Nat /\ lowlink[x] \in Nat /\ lowlink[x] <= index[x]
      /\ u \in OnStack
  <2>1. OnStack \subseteq Tasks /\ OnStack \subseteq Discovered
    BY <1>0, DiscoveredIsFinite DEF StackIsSorted
  <2>2. index \in [Tasks -> Nat] /\ lowlink \in [Tasks -> Nat]
    BY <1>0 DEF IndicesAreFresh, LowlinksAreReached
  <2>3. \A i \in 1 .. n : work[i].node \in OnStack
    BY <1>0, <1>2 DEF WorkIsSorted
  <2>4. \A x \in Tasks : lowlink[x] <= index[x]
    BY <1>0 DEF LowlinksAreReached
  <2> QED BY <1>3, <2>1, <2>2, <2>3, <2>4
<1> HIDE DEF u, p, W
<1>7. /\ \A x : Adjacent(x)' = Adjacent(x)
      /\ \A x, y : Leads(x, y)' = Leads(x, y)
      /\ CycleNodes' = CycleNodes
  BY GraphStays
<1>8. Discovered' = Discovered
  BY <1>1 DEF Discovered
<1>9. IndicesAreFresh'
  BY <1>0, <1>1, <1>7, <1>8 DEF IndicesAreFresh
<1>10. \A i \in 1 .. n - 1 : index[work[i].node] < index[u]
  BY <1>0, <1>2, <1>3, <1>4 DEF WorkIsSorted
<1>11. ASSUME NEW x, NEW y \in Explored(x)' PROVE y \in Explored(x)
  <2>1. y \in Adjacent(x) /\ \A k \in 1 .. n - 1 : work[k].node = x => y \notin work[k].left
    BY <1>2, <1>4, <1>7, <1>11 DEF Explored
  <2>2. ASSUME NEW k \in 1 .. n, work[k].node = x PROVE y \notin work[k].left
    <3>1. k = n \/ k \in 1 .. n - 1
      BY <1>3
    <3> QED BY <1>1, <1>2, <2>1, <2>2, <3>1
  <2> QED BY <1>2, <2>1, <2>2 DEF Explored
<1>12. n > 1 => p \in OnStack /\ index[p] < index[u] /\ p \in Tasks
  BY <1>4, <1>5, <1>6, <1>10
<1>13. \A x \in OnStack : \A y \in Adjacent(x) : index[u] <= index[x] =>
          y \in Discovered /\ (y \in OnStack => lowlink[u] <= index[y])
  BY <1>1, NothingLower DEF u
<1>14. CASE lowlink[u] = index[u]
  <2> DEFINE C == {x \in OnStack : index[u] <= index[x]}
  <2>1. /\ components' = components \cup {C} /\ stack' \in Seq(Tasks)
        /\ ToSet(stack') = {x \in OnStack : index[x] < index[u]}
        /\ \A i, k \in DOMAIN stack' : i < k => index[stack'[i]] < index[stack'[k]]
    <3> DEFINE at == CHOOSE i \in DOMAIN stack : stack[i] = u
    <3>1. /\ components' = components \cup {{stack[i] : i \in at .. Len(stack)}}
          /\ stack' = SubSeq(stack, 1, at - 1)
      BY <1>14 DEF Retreat, u
    <3>2. PICK a : a = at
      OBVIOUS
    <3> HIDE DEF at
    <3>3. a = CHOOSE i \in DOMAIN stack : stack[i] = u
      BY <3>2 DEF at
    <3> QED BY <1>6, <3>1, <3>2, <3>3, StackIsCut
  <2>2. OnStack' = {x \in OnStack : index[x] < index[u]}
    BY <2>1 DEF OnStack
  <2>3. Completed' = Completed \cup C
    BY <2>1 DEF Completed
  <2>4. /\ \A x \in OnStack : x \in C \/ x \in OnStack'
        /\ \A x \in OnStack' : x \in OnStack /\ x \notin C /\ index[x] < index[u]
        /\ C \subseteq OnStack /\ u \in C
    <3>1. \A x \in OnStack : index[u] \in Nat /\ index[x] \in Nat
      BY <1>6
    <3>2. u \in C
      BY <1>6, <3>1
    <3> QED BY <2>2, <3>1, <3>2
  <2> HIDE DEF C
  <2>5. StackIsSorted'
    <3>1. Discovered' = OnStack' \cup Completed' /\ OnStack' \cap Completed' = {}
      BY <1>0, <1>8, <2>3, <2>4 DEF StackIsSorted
    <3> QED BY <1>1, <2>1, <3>1 DEF StackIsSorted
  <2>6. \A i \in 1 .. n - 1 : work[i].node \in OnStack'
    BY <1>4, <1>6, <1>10, <2>2
  <2>7. WorkIsSorted'
    <3>1. \A i \in 1 .. n - 1 : /\ work'[i].node \in OnStack'
                                /\ work'[i].left \subseteq Adjacent(work'[i].node)
      BY <1>0, <1>2, <1>4, <2>6 DEF WorkIsSorted
    <3>2. \A i, k \in 1 .. n - 1 : i < k => index[work'[i].node] < index[work'[k].node]
      BY <1>0, <1>2, <1>4 DEF WorkIsSorted
    <3> QED BY <1>1, <1>2, <1>4, <1>7, <3>1, <3>2 DEF WorkIsSorted, W
  <2>8. PathsAreKnown'
    <3>1. \A i \in 1 .. n - 1 : \A s \in OnStack' :
             index[work'[i].node] <= index[s] => Leads(work'[i].node, s)
      BY <1>0, <1>2, <1>4, <2>4 DEF PathsAreKnown
    <3>2. ASSUME NEW s \in OnStack'
          PROVE  \E i \in 1 .. n - 1 : index[work'[i].node] <= index[s] /\ Leads(s, work'[i].node)
      <4>1. s \in OnStack /\ index[s] < index[u] /\ s \in Tasks
        BY <1>6, <2>4
      <4>2. PICK i \in 1 .. n : index[work[i].node] <= index[s] /\ Leads(s, work[i].node)
        BY <1>0, <1>2, <4>1 DEF PathsAreKnown
      <4>3. i # n
        BY <1>3, <1>6, <4>1, <4>2
      <4>4. i \in 1 .. n - 1
        BY <1>3, <4>3
      <4> QED BY <1>2, <4>2, <4>4
    <3> QED BY <1>1, <1>4, <1>7, <3>1, <3>2 DEF PathsAreKnown
  <2>9. lowlink' = lowlink
    <3>1. CASE n > 1
      <4>1. PICK a \in Int : a = lowlink[p]
        BY <1>6, <1>12, <3>1
      <4>2. PICK b \in Int : b = lowlink[u]
        BY <1>6
      <4>3. a < b
        <5>1. lowlink[p] <= index[p] /\ lowlink[p] \in Nat /\ index[p] \in Nat /\ index[u] \in Nat
          BY <1>6, <1>12, <3>1
        <5> QED BY <1>12, <1>14, <3>1, <4>1, <4>2, <5>1
      <4>4. Min({a, b}) = a
        <5>1. PICK c : c = Min({a, b})
          OBVIOUS
        <5>2. c \in {a, b} /\ c <= a
          BY <5>1, MinOfTwo
        <5> QED BY <4>3, <5>1, <5>2
      <4>5. lowlink' = [lowlink EXCEPT ![p] = lowlink[p]]
        BY <1>1, <3>1, <4>1, <4>2, <4>4
      <4> QED BY <1>6, <4>5
    <3>2. CASE ~(n > 1)
      BY <1>1, <3>2
    <3> QED BY <3>1, <3>2
  <2>10. LowlinksAreReached'
    <3>1. ASSUME NEW t \in OnStack'
          PROVE  \E s \in OnStack' : index[s] = lowlink[t] /\ Leads(t, s)
      <4>1. t \in OnStack /\ index[t] < index[u] /\ t \in Tasks
        BY <1>6, <2>4
      <4>2. PICK s \in OnStack : index[s] = lowlink[t] /\ Leads(t, s)
        BY <1>0, <4>1 DEF LowlinksAreReached
      <4>3. index[s] < index[u]
        <5>1. lowlink[t] <= index[t] /\ lowlink[t] \in Nat /\ index[t] \in Nat /\ index[u] \in Nat
          BY <1>6, <4>1
        <5> QED BY <4>1, <4>2, <5>1
      <4> QED BY <2>2, <4>2, <4>3
    <3> QED BY <1>1, <1>6, <1>7, <2>9, <3>1 DEF LowlinksAreReached
  <2>11. LowlinksAreLow'
    <3> SUFFICES ASSUME NEW i \in 1 .. n - 1, NEW x \in OnStack', InSegment(x, i)',
                        NEW y \in Explored(x)'
                 PROVE  y \in Discovered' /\ (y \in OnStack' => lowlink'[work'[i].node] <= index'[y])
      BY <1>4 DEF LowlinksAreLow
    <3>1. x \in OnStack /\ index[x] < index[u] /\ i \in 1 .. n /\ work'[i] = work[i]
      BY <1>2, <1>4, <2>4
    <3>2. InSegment(x, i)
      <4>1. /\ index[work[i].node] <= index[x]
            /\ i = n - 1 \/ index[x] < index[work'[i + 1].node]
        BY <1>1, <1>2, <3>1 DEF InSegment
      <4>2. CASE i = n - 1
        <5>1. i + 1 = n
          BY <1>3, <4>2
        <5> QED BY <1>3, <3>1, <4>1, <5>1 DEF InSegment
      <4>3. CASE i # n - 1
        <5>1. i + 1 \in 1 .. n - 1
          BY <1>3, <4>3
        <5> QED BY <1>2, <4>1, <4>3, <5>1 DEF InSegment
      <4> QED BY <4>2, <4>3
    <3>3. y \in Discovered /\ (y \in OnStack => lowlink[work[i].node] <= index[y])
      BY <1>0, <1>2, <1>11, <3>1, <3>2 DEF LowlinksAreLow
    <3> QED BY <1>1, <1>8, <2>4, <2>9, <3>1, <3>3
  <2>12. \A x \in Completed \cup C : Adjacent(x) \subseteq Completed \cup C
    <3>1. \A x \in Completed : Adjacent(x) \subseteq Completed
      BY <1>0 DEF ComponentsAreExact
    <3>2. ASSUME NEW x \in C, NEW y \in Adjacent(x) PROVE y \in Completed \cup C
      <4>1. x \in OnStack /\ index[u] <= index[x]
        BY DEF C
      <4>2. y \in Discovered /\ (y \in OnStack => index[u] <= index[y])
        BY <1>13, <1>14, <4>1
      <4>3. y \in OnStack \cup Completed
        BY <1>0, <4>2 DEF StackIsSorted
      <4> QED BY <4>2, <4>3 DEF C
    <3> QED BY <3>1, <3>2
  <2>13. \A s \in C : Leads(s, u) /\ Leads(u, s)
    <3> SUFFICES ASSUME NEW s \in C PROVE Leads(s, u) /\ Leads(u, s)
      OBVIOUS
    <3>1. s \in OnStack /\ index[u] <= index[s]
      BY DEF C
    <3>2. Leads(u, s)
      BY <1>0, <1>2, <1>3, <3>1 DEF PathsAreKnown
    <3>3. PICK i \in 1 .. n : Leads(s, work[i].node)
      BY <1>0, <1>2, <3>1 DEF PathsAreKnown
    <3>4. index[work[i].node] <= index[u]
      <4>1. i = n \/ i \in 1 .. n - 1
        BY <1>3
      <4>2. index[work[i].node] \in Nat /\ index[u] \in Nat
        BY <1>6
      <4> QED BY <1>3, <1>10, <4>1, <4>2
    <3>5. Leads(work[i].node, u)
      BY <1>0, <1>2, <1>6, <3>4 DEF PathsAreKnown
    <3> QED BY <3>2, <3>3, <3>5, LeadsOn
  <2>14. /\ C # {}
         /\ \A s, t \in C : Leads(s, t)
         /\ \A s \in C : \A t \in Tasks : Leads(s, t) /\ Leads(t, s) => t \in C
    <3>1. \A s, t \in C : Leads(s, t)
      BY <2>13, LeadsOn
    <3>2. ASSUME NEW s \in C, NEW t \in Tasks, Leads(s, t), Leads(t, s) PROVE t \in C
      <4>1. Completed \subseteq Tasks /\ Completed \cup C \subseteq Tasks
        BY <1>0, <1>6, <2>4, DiscoveredIsFinite DEF StackIsSorted
      <4>2. t \in Completed \cup C
        BY <2>12, <3>2, <4>1, LeadsOn
      <4>3. t \in Completed => s \in Completed
        BY <1>0, <3>2, <4>1, LeadsOn DEF ComponentsAreExact
      <4>4. s \notin Completed
        BY <1>0, <2>4 DEF StackIsSorted
      <4> QED BY <4>2, <4>3, <4>4
    <3> QED BY <2>4, <3>1, <3>2
  <2>15. ComponentsAreExact'
    <3>1. \A c \in components' :
             /\ c # {}
             /\ \A s, t \in c : Leads(s, t)
             /\ \A s \in c : \A t \in Tasks : Leads(s, t) /\ Leads(t, s) => t \in c
      BY <1>0, <2>1, <2>14 DEF ComponentsAreExact
    <3> QED BY <1>7, <2>3, <2>12, <3>1 DEF ComponentsAreExact
  <2> QED BY <1>9, <2>5, <2>7, <2>8, <2>10, <2>11, <2>15 DEF TarjanInv
<1>15. CASE lowlink[u] # index[u]
  <2>1. stack' = stack /\ components' = components
    BY <1>15 DEF Retreat, u
  <2>2. OnStack' = OnStack /\ Completed' = Completed
    BY <2>1 DEF OnStack, Completed
  <2>3. index[u] \in Nat /\ lowlink[u] \in Nat /\ lowlink[u] < index[u]
    BY <1>6, <1>15
  <2>4. PICK s \in OnStack : index[s] = lowlink[u] /\ Leads(u, s)
    BY <1>0, <1>6 DEF LowlinksAreReached
  <2>5. PICK k \in 1 .. n : index[work[k].node] <= index[s] /\ Leads(s, work[k].node)
    BY <1>0, <1>2, <2>4 DEF PathsAreKnown
  <2>6. k \in 1 .. n - 1 /\ n > 1
    <3>1. k # n
      BY <1>3, <2>3, <2>4, <2>5
    <3> QED BY <1>3, <3>1
  <2>7. /\ p \in OnStack /\ p \in Tasks /\ index[p] < index[u] /\ p = work[n - 1].node
        /\ n - 1 \in 1 .. n - 1
    BY <1>5, <1>12, <2>6
  <2>8. /\ lowlink' \in [Tasks -> Nat]
        /\ \A x \in Tasks : lowlink'[x] <= lowlink[x]
        /\ \A x \in Tasks : lowlink'[x] = lowlink[x] \/ (x = p /\ lowlink'[x] = lowlink[u])
        /\ lowlink'[p] <= lowlink[u]
    <3>1. PICK a \in Int : a = lowlink[p]
      BY <1>6, <2>7
    <3>2. PICK b \in Int : b = lowlink[u]
      BY <2>3
    <3>3. Min({a, b}) \in {a, b} /\ Min({a, b}) <= a /\ Min({a, b}) <= b
      BY MinOfTwo
    <3>4. PICK m \in Nat : m = Min({a, b})
      BY <1>6, <2>3, <2>7, <3>1, <3>2, <3>3
    <3>5. lowlink' = [lowlink EXCEPT ![p] = m]
      BY <1>1, <2>6, <3>1, <3>2, <3>4
    <3>6. lowlink' \in [Tasks -> Nat] /\ lowlink'[p] = m
          /\ \A x \in Tasks : x # p => lowlink'[x] = lowlink[x]
      BY <1>6, <2>7, <3>5
    <3>7. m <= lowlink[p] /\ m <= lowlink[u] /\ (m = lowlink[p] \/ m = lowlink[u])
      BY <3>1, <3>2, <3>3, <3>4
    <3>8. \A x \in Tasks : lowlink'[x] <= lowlink[x]
      <4> TAKE x \in Tasks
      <4>1. lowlink[x] \in Nat
        BY <1>6
      <4> QED BY <3>6, <3>7, <4>1
    <3>9. \A x \in Tasks : lowlink'[x] = lowlink[x] \/ (x = p /\ lowlink'[x] = lowlink[u])
      BY <3>6, <3>7
    <3> QED BY <3>6, <3>7, <3>8, <3>9
  <2>9. StackIsSorted'
    BY <1>0, <1>1, <1>8, <2>1, <2>2 DEF StackIsSorted
  <2>10. WorkIsSorted'
    <3>1. \A i \in 1 .. n - 1 : /\ work'[i].node \in OnStack
                                /\ work'[i].left \subseteq Adjacent(work'[i].node)
      BY <1>0, <1>2, <1>4 DEF WorkIsSorted
    <3>2. \A i, j \in 1 .. n - 1 : i < j => index[work'[i].node] < index[work'[j].node]
      BY <1>0, <1>2, <1>4 DEF WorkIsSorted
    <3> QED BY <1>1, <1>2, <1>4, <1>7, <2>2, <3>1, <3>2 DEF WorkIsSorted, W
  <2>11. PathsAreKnown'
    <3>1. \A i \in 1 .. n - 1 : \A t \in OnStack :
             index[work'[i].node] <= index[t] => Leads(work'[i].node, t)
      BY <1>0, <1>2, <1>4 DEF PathsAreKnown
    <3>2. ASSUME NEW t \in OnStack
          PROVE  \E i \in 1 .. n - 1 : index[work'[i].node] <= index[t] /\ Leads(t, work'[i].node)
      <4>1. PICK i \in 1 .. n : index[work[i].node] <= index[t] /\ Leads(t, work[i].node)
        BY <1>0, <1>2 DEF PathsAreKnown
      <4>2. CASE i \in 1 .. n - 1
        BY <1>2, <4>1, <4>2
      <4>3. CASE i = n
        <5>1. Leads(t, work[k].node)
          BY <1>3, <2>4, <2>5, <4>1, <4>3, LeadsOn
        <5>2. index[work[k].node] <= index[t]
          <6>1. index[work[k].node] \in Nat /\ index[t] \in Nat /\ index[s] \in Nat
            BY <1>6
          <6> QED BY <1>3, <2>3, <2>4, <2>5, <4>1, <4>3, <6>1
        <5> QED BY <1>2, <2>6, <5>1, <5>2
      <4>4. i = n \/ i \in 1 .. n - 1
        BY <1>3
      <4> QED BY <4>2, <4>3, <4>4
    <3> QED BY <1>1, <1>4, <1>7, <2>2, <3>1, <3>2 DEF PathsAreKnown
  <2>12. LowlinksAreReached'
    <3>1. \A x \in Tasks : lowlink'[x] <= index[x]
      <4>1. \A x \in Tasks : lowlink'[x] \in Nat
        BY <2>8
      <4> QED BY <1>6, <2>8, <4>1
    <3>2. ASSUME NEW t \in OnStack
          PROVE  \E y \in OnStack : index[y] = lowlink'[t] /\ Leads(t, y)
      <4>1. CASE lowlink'[t] = lowlink[t]
        BY <1>0, <4>1 DEF LowlinksAreReached
      <4>2. CASE t = p /\ lowlink'[t] = lowlink[u]
        <5>1. index[p] <= index[u]
          BY <1>6, <2>3, <2>7
        <5>2. Leads(p, u)
          <6>1. n - 1 \in 1 .. n
            BY <1>4, <2>7
          <6>2. \A i \in 1 .. n : index[work[i].node] <= index[u] => Leads(work[i].node, u)
            BY <1>0, <1>2, <1>6 DEF PathsAreKnown
          <6> QED BY <2>7, <5>1, <6>1, <6>2
        <5> QED BY <2>4, <4>2, <5>2, LeadsOn
      <4> QED BY <1>6, <2>8, <4>1, <4>2
    <3> QED BY <1>1, <1>7, <2>2, <2>8, <3>1, <3>2 DEF LowlinksAreReached
  <2>13. LowlinksAreLow'
    <3> SUFFICES ASSUME NEW i \in 1 .. n - 1, NEW x \in OnStack, InSegment(x, i)',
                        NEW y \in Explored(x)'
                 PROVE  y \in Discovered /\ (y \in OnStack => lowlink'[work[i].node] <= index[y])
      BY <1>1, <1>2, <1>4, <1>8, <2>2 DEF LowlinksAreLow
    <3>1. i \in 1 .. n /\ work'[i] = work[i] /\ work[i].node \in Tasks
      BY <1>2, <1>4, <1>6
    <3>2. /\ index[work[i].node] <= index[x]
          /\ i = n - 1 \/ index[x] < index[work'[i + 1].node]
      BY <1>1, <1>2, <3>1 DEF InSegment
    <3>3. y \in Explored(x) /\ y \in Adjacent(x)
      BY <1>11 DEF Explored
    <3>4. /\ lowlink'[work[i].node] <= lowlink[work[i].node]
          /\ lowlink'[work[i].node] \in Nat /\ lowlink[work[i].node] \in Nat
          /\ \A z \in OnStack : index[z] \in Nat
      BY <1>6, <2>8, <3>1
    <3>5. CASE InSegment(x, i)
      <4>1. y \in Discovered /\ (y \in OnStack => lowlink[work[i].node] <= index[y])
        BY <1>0, <1>2, <3>1, <3>3, <3>5 DEF LowlinksAreLow
      <4> QED BY <3>4, <4>1
    <3>6. CASE ~InSegment(x, i)
      <4>1. i = n - 1
        <5> SUFFICES ASSUME i # n - 1 PROVE FALSE
          OBVIOUS
        <5>1. i + 1 \in 1 .. n - 1
          BY <1>3
        <5> QED BY <1>2, <3>2, <3>6, <5>1 DEF InSegment
      <4>2. i + 1 = n
        BY <1>3, <4>1
      <4>3. index[u] <= index[x]
        <5>1. ~(index[x] < index[work[n].node])
          BY <3>2, <3>6, <4>2 DEF InSegment
        <5> QED BY <1>3, <1>6, <5>1
      <4>4. y \in Discovered /\ (y \in OnStack => lowlink[u] <= index[y])
        BY <1>13, <3>3, <4>3
      <4>5. lowlink'[work[i].node] <= lowlink[u]
        BY <2>7, <2>8, <4>1
      <4> QED BY <2>3, <3>4, <4>4, <4>5
    <3> QED BY <3>5, <3>6
  <2>14. ComponentsAreExact'
    BY <1>0, <1>7, <2>1, <2>2 DEF ComponentsAreExact
  <2> QED BY <1>9, <2>9, <2>10, <2>11, <2>12, <2>13, <2>14 DEF TarjanInv
<1> QED BY <1>14, <1>15
-----------------------------------------------------------------------------
\* The search stays as it is, as long as its variables and the edges do.
LEMMA SearchRests ==
    ASSUME TarjanInv, CycleEdges' = CycleEdges, UNCHANGED cycleVars
    PROVE  TarjanInv'
<1>1. /\ index' = index /\ lowlink' = lowlink /\ stack' = stack /\ work' = work
      /\ components' = components
  BY DEF cycleVars
<1>2. /\ \A x : Adjacent(x)' = Adjacent(x)
      /\ \A x, y : Leads(x, y)' = Leads(x, y)
      /\ CycleNodes' = CycleNodes
  BY GraphIsOfEdges
<1>3. Discovered' = Discovered /\ OnStack' = OnStack /\ Completed' = Completed
  BY <1>1 DEF Discovered, OnStack, Completed
<1>4. \A x, i : InSegment(x, i)' = InSegment(x, i)
  BY <1>1 DEF InSegment
<1>5. \A x : Explored(x)' = Explored(x)
  BY <1>1, <1>2 DEF Explored
<1>6. IndicesAreFresh' /\ StackIsSorted' /\ WorkIsSorted'
  BY <1>1, <1>2, <1>3 DEF TarjanInv, IndicesAreFresh, StackIsSorted, WorkIsSorted
<1>7. PathsAreKnown' /\ LowlinksAreReached'
  BY <1>1, <1>2, <1>3 DEF TarjanInv, PathsAreKnown, LowlinksAreReached
<1>8. LowlinksAreLow'
  BY <1>1, <1>3, <1>4, <1>5 DEF TarjanInv, LowlinksAreLow
<1>9. ComponentsAreExact'
  BY <1>1, <1>2, <1>3 DEF TarjanInv, ComponentsAreExact
<1> QED BY <1>6, <1>7, <1>8, <1>9 DEF TarjanInv

\* Every turn of the loops of the search keeps the invariant.
LEMMA TarjanStep ==
    ASSUME TarjanInv, EdgesAreOfTasks, UNCHANGED input, TarjanNext \/ UNCHANGED cycleVars
    PROVE  TarjanInv'
<1>1. CASE Root
  BY <1>1, RootKeeps
<1>2. CASE Examine
  BY <1>2, ExamineKeeps
<1>3. CASE Retreat
  BY <1>3, RetreatKeeps
<1>4. CASE UNCHANGED cycleVars
  <2>1. CycleEdges' = CycleEdges
    BY DEF CycleEdges
  <2> QED BY <1>4, <2>1, SearchRests
<1> QED BY <1>1, <1>2, <1>3, <1>4 DEF TarjanNext

\* When the search is over, the components that are cycles are exactly the
\* sets of tasks that lead to one another.
LEMMA CyclesFromInv ==
    ASSUME TarjanInv, EdgesAreOfTasks
    PROVE  CyclesAreExact
<1> DEFINE M(t) == {s \in Tasks : Leads(t, s) /\ Leads(s, t)}
           Loops == {u \in Tasks : Cardinality(M(u)) > 1 \/ <<u, u>> \in CycleEdges}
           Reaches(s, t) == \A X \in ClosedSets : s \in X => t \in X
           Mutual(t) == {s \in Tasks : Reaches(t, s) /\ Reaches(s, t)}
<1>1. \A s, t : (\A X \in ClosedSets : s \in X => t \in X) <=> Leads(s, t)
  BY DEF ClosedSets, Leads, IsClosed
<1>2. SUFFICES ASSUME TarjanDone PROVE Cycles = {M(t) : t \in Loops}
  <2> SUFFICES ASSUME TarjanDone
               PROVE  Cycles = {Mutual(t) : t \in {u \in Tasks : \/ Cardinality(Mutual(u)) > 1
                                                                \/ <<u, u>> \in CycleEdges}}
    BY DEF CyclesAreExact
  <2>1. \A s, t : Reaches(s, t) <=> Leads(s, t)
    BY <1>1
  <2> HIDE DEF Reaches
  <2>2. \A t : Mutual(t) = M(t)
    BY <2>1
  <2> HIDE DEF Mutual, M
  <2> QED BY <2>2
<1>3. Completed = CycleNodes /\ Completed \subseteq Tasks
  <2>1. work = <<>> /\ DOMAIN work = {} /\ CycleNodes \subseteq Discovered
    BY <1>2 DEF TarjanDone
  <2>2. OnStack = {}
    BY <2>1 DEF TarjanInv, PathsAreKnown
  <2>3. Discovered = Completed /\ Discovered \subseteq CycleNodes
    BY <2>2 DEF TarjanInv, StackIsSorted, IndicesAreFresh
  <2> QED BY <2>1, <2>3, DiscoveredIsFinite
<1>4. ASSUME NEW c \in components, NEW t \in c
      PROVE  t \in Tasks /\ M(t) = c
  <2>1. c \subseteq Tasks
    BY <1>3 DEF Completed
  <2>2. c \subseteq M(t)
    BY <2>1 DEF TarjanInv, ComponentsAreExact
  <2>3. M(t) \subseteq c
    BY DEF TarjanInv, ComponentsAreExact
  <2> QED BY <2>1, <2>2, <2>3
<1>5. ASSUME NEW t \in Tasks, t \notin CycleNodes
      PROVE  t \notin Loops
  <2>1. \A e \in CycleEdges : e[1] # t
    BY <1>5 DEF CycleNodes
  <2>2. IsClosed({t})
    BY <2>1 DEF IsClosed
  <2>3. \A s : Leads(t, s) => s = t
    BY <2>2 DEF Leads
  <2>4. M(t) = {t}
    BY <2>3, LeadsOn
  <2>5. Cardinality(M(t)) = 1
    BY <2>4, FS_Singleton
  <2>6. <<t, t>> \notin CycleEdges
    <3>1. <<t, t>>[1] = t
      OBVIOUS
    <3> QED BY <2>1, <3>1
  <2> QED BY <2>5, <2>6
<1>6. ASSUME NEW c \in Cycles PROVE \E t \in Loops : c = M(t)
  <2>1. c \in components
    BY DEF Cycles
  <2>2. PICK t \in c : Cardinality(c) > 1 \/ <<t, t>> \in CycleEdges
    <3>1. c # {}
      BY <2>1 DEF TarjanInv, ComponentsAreExact
    <3> QED BY <3>1 DEF Cycles
  <2>3. t \in Tasks /\ M(t) = c
    BY <1>4, <2>1
  <2> QED BY <2>2, <2>3
<1>7. ASSUME NEW t \in Loops PROVE M(t) \in Cycles
  <2>1. t \in Completed
    BY <1>3, <1>5
  <2>2. PICK c \in components : t \in c
    BY <2>1 DEF Completed
  <2>3. M(t) = c
    BY <1>4, <2>2
  <2>4. Cardinality(c) > 1 \/ <<t, t>> \in CycleEdges
    BY <2>3
  <2> QED BY <2>2, <2>3, <2>4 DEF Cycles
<1> HIDE DEF M, Loops
<1>8. Cycles \subseteq {M(t) : t \in Loops}
  BY <1>6
<1>9. {M(t) : t \in Loops} \subseteq Cycles
  BY <1>7
<1> QED BY <1>8, <1>9
-----------------------------------------------------------------------------
\* A sum over an interval does not change when the interval is shifted.
LEMMA SumIsShifted ==
    ASSUME NEW n \in Nat, NEW v, NEW w, \A i \in 1 .. n : v[i] \in Int /\ w[i + 1] = v[i]
    PROVE  SumFunctionOnSet(w, 2 .. n + 1) = SumFunctionOnSet(v, 1 .. n)
<1>1. IsFiniteSet(2 .. n + 1) /\ IsFiniteSet(1 .. n)
  BY FS_Interval
<1>2. PICK F : IsSum(F, w, 2 .. n + 1) /\ SumFunctionOnSet(w, 2 .. n + 1) = F[2 .. n + 1]
  BY <1>1, FunctionSums
<1>3. PICK G : IsSum(G, v, 1 .. n) /\ SumFunctionOnSet(v, 1 .. n) = G[1 .. n]
  BY <1>1, FunctionSums
<1>4. \A i \in 2 .. n + 1 : w[i] \in Int
  <2> TAKE i \in 2 .. n + 1
  <2>1. i - 1 \in 1 .. n /\ (i - 1) + 1 = i
    OBVIOUS
  <2> QED BY <2>1
<1> DEFINE T == {k \in Nat : k <= n => F[2 .. k + 1] = G[1 .. k]}
<1>5. 0 \in T
  <2>1. 2 .. 0 + 1 = {} /\ 1 .. 0 = {}
    OBVIOUS
  <2>2. F[{}] = 0 /\ G[{}] = 0
    BY <1>2, <1>3 DEF IsSum
  <2> QED BY <2>1, <2>2
<1>6. ASSUME NEW k \in Nat, k \in T PROVE k + 1 \in T
  <2> SUFFICES ASSUME k + 1 <= n PROVE F[2 .. k + 2] = G[1 .. k + 1]
    OBVIOUS
  <2>1. k + 1 \in 1 .. n
    OBVIOUS
  <2>2. F[2 .. k + 2] = w[k + 2] + F[(2 .. k + 2) \ {k + 2}]
    <3>1. PICK A : A = 2 .. n + 1
      OBVIOUS
    <3>2. PICK C \in SUBSET A : C = 2 .. k + 2
      BY <3>1
    <3>3. PICK x \in C : x = k + 2
      BY <3>2
    <3>4. IsFiniteSet(A) /\ IsSum(F, w, A) /\ \A y \in A : w[y] \in Int
      BY <1>1, <1>2, <1>4, <3>1
    <3>5. F[C] = w[x] + F[C \ {x}]
      BY <3>4, SumTakesOut
    <3> QED BY <3>2, <3>3, <3>5
  <2>3. G[1 .. k + 1] = v[k + 1] + G[(1 .. k + 1) \ {k + 1}]
    <3>1. PICK A : A = 1 .. n
      OBVIOUS
    <3>2. PICK C \in SUBSET A : C = 1 .. k + 1
      BY <3>1
    <3>3. PICK x \in C : x = k + 1
      BY <3>2
    <3>4. IsFiniteSet(A) /\ IsSum(G, v, A) /\ \A y \in A : v[y] \in Int
      BY <1>1, <1>3, <3>1
    <3>5. G[C] = v[x] + G[C \ {x}]
      BY <3>4, SumTakesOut
    <3> QED BY <3>2, <3>3, <3>5
  <2>4. (2 .. k + 2) \ {k + 2} = 2 .. k + 1 /\ (1 .. k + 1) \ {k + 1} = 1 .. k
    OBVIOUS
  <2>5. w[k + 2] = v[k + 1]
    <3>1. w[(k + 1) + 1] = v[k + 1]
      BY <2>1
    <3>2. (k + 1) + 1 = k + 2
      OBVIOUS
    <3> QED BY <3>1, <3>2
  <2>6. F[2 .. k + 1] = G[1 .. k]
    BY <1>6
  <2> HIDE DEF T
  <2> QED BY <2>2, <2>3, <2>4, <2>5, <2>6
<1>7. n \in T
  <2> HIDE DEF T
  <2>1. Nat \subseteq T
    BY <1>5, <1>6, NaturalInduction
  <2> QED BY <2>1
<1> QED BY <1>2, <1>3, <1>7

\* A sum over an interval is its first term and the sum of the rest.
LEMMA SumWithoutFirst ==
    ASSUME NEW n \in Nat \ {0}, NEW v, \A i \in 1 .. n : v[i] \in Int
    PROVE  /\ SumFunctionOnSet(v, 1 .. n) = v[1] + SumFunctionOnSet(v, 2 .. n)
           /\ SumFunctionOnSet(v, 2 .. n) \in Int
<1>1. IsFiniteSet(1 .. n) /\ IsFiniteSet(2 .. n)
  BY FS_Interval
<1>2. PICK F : IsSum(F, v, 1 .. n) /\ SumFunctionOnSet(v, 1 .. n) = F[1 .. n]
  BY <1>1, FunctionSums
<1>3. PICK G : IsSum(G, v, 2 .. n) /\ SumFunctionOnSet(v, 2 .. n) = G[2 .. n]
  BY <1>1, FunctionSums
<1>4. 2 .. n \subseteq 1 .. n /\ (1 .. n) \ {1} = 2 .. n
  OBVIOUS
<1>5. PICK A : A = 1 .. n
  OBVIOUS
<1>6. PICK B \in SUBSET A : B = 2 .. n
  BY <1>4, <1>5
<1>7. /\ IsFiniteSet(A) /\ IsSum(F, v, A) /\ \A x \in A : v[x] \in Int
      /\ IsFiniteSet(B) /\ IsSum(G, v, B)
      /\ 1 \in A
  BY <1>1, <1>2, <1>3, <1>5, <1>6
<1>8. F[2 .. n] = G[2 .. n] /\ F[2 .. n] \in Int
  <2>1. \A x \in B : v[x] = v[x] /\ v[x] \in Int
    BY <1>7
  <2>2. F[B] = G[B] /\ F[B] \in Int
    BY <1>7, <2>1, SumsAgree
  <2> QED BY <1>6, <2>2
<1>9. F[1 .. n] = v[1] + F[(1 .. n) \ {1}]
  <2>1. F[A] = v[1] + F[A \ {1}]
    <3>1. PICK C \in SUBSET A : C = A
      OBVIOUS
    <3>2. PICK x \in C : x = 1
      BY <1>7, <3>1
    <3>3. F[C] = v[x] + F[C \ {x}]
      BY <1>7, <3>1, SumTakesOut
    <3> QED BY <3>1, <3>2, <3>3
  <2> QED BY <1>5, <2>1
<1> QED BY <1>2, <1>3, <1>4, <1>8, <1>9

\* A chain with one more task before it takes the time of its former first.
LEMMA ChainGrows ==
    ASSUME input.safety \in [Tasks -> Int], NEW t \in Tasks, NEW d \in Seq(Tasks), d # <<>>
    PROVE  /\ AfterFirst(<<t>> \o d) = input.safety[d[1]] + AfterFirst(d)
           /\ AfterFirst(d) \in Int
<1> DEFINE n == Len(d)
           c == <<t>> \o d
           v == [i \in DOMAIN d |-> input.safety[d[i]]]
           w == [i \in DOMAIN c |-> input.safety[c[i]]]
<1>1. /\ n \in Nat \ {0} /\ DOMAIN d = 1 .. n /\ \A i \in 1 .. n : d[i] \in Tasks
      /\ Len(c) = n + 1 /\ DOMAIN c = 1 .. n + 1 /\ \A i \in 1 .. n : c[i + 1] = d[i]
  OBVIOUS
<1>2. n \in Nat /\ 1 \in 1 .. n /\ \A i \in 1 .. n : i + 1 \in 1 .. n + 1
  BY <1>1
<1>3. \A i \in 1 .. n : v[i] = input.safety[d[i]] /\ v[i] \in Int /\ w[i + 1] = v[i]
  BY <1>1, <1>2
<1>4. AfterFirst(c) = SumFunctionOnSet(w, 2 .. n + 1) /\ AfterFirst(d) = SumFunctionOnSet(v, 2 .. n)
  BY <1>1 DEF AfterFirst
<1> HIDE DEF v, w, c, n
<1>5. AfterFirst(c) = SumFunctionOnSet(v, 1 .. n)
  BY <1>2, <1>3, <1>4, SumIsShifted
<1>6. /\ SumFunctionOnSet(v, 1 .. n) = v[1] + SumFunctionOnSet(v, 2 .. n)
      /\ SumFunctionOnSet(v, 2 .. n) \in Int
  <2>1. PICK u : u = v
    OBVIOUS
  <2>2. \A i \in 1 .. n : u[i] \in Int
    BY <1>3, <2>1
  <2>3. n \in Nat \ {0}
    BY <1>1
  <2>4. /\ SumFunctionOnSet(u, 1 .. n) = u[1] + SumFunctionOnSet(u, 2 .. n)
        /\ SumFunctionOnSet(u, 2 .. n) \in Int
    BY <2>2, <2>3, SumWithoutFirst
  <2> QED BY <2>1, <2>4
<1>7. v[1] = input.safety[d[1]]
  BY <1>2, <1>3
<1> QED BY <1>4, <1>5, <1>6, <1>7 DEF c

\* After the first of one task comes nothing.
LEMMA ChainOfOne == \A t : AfterFirst(<<t>>) = 0 /\ Last(<<t>>) = t
<1> SUFFICES ASSUME NEW t PROVE AfterFirst(<<t>>) = 0 /\ Last(<<t>>) = t
  OBVIOUS
<1>1. Len(<<t>>) = 1 /\ 2 .. 1 = {} /\ <<t>>[1] = t
  OBVIOUS
<1> DEFINE w == [i \in DOMAIN <<t>> |-> input.safety[<<t>>[i]]]
<1>2. AfterFirst(<<t>>) = SumFunctionOnSet(w, {})
  BY <1>1 DEF AfterFirst
<1> HIDE DEF w
<1>3. PICK F : IsSum(F, w, {}) /\ SumFunctionOnSet(w, {}) = F[{}]
  BY FunctionSums, FS_EmptySet
<1> QED BY <1>1, <1>2, <1>3 DEF IsSum, Last

\* No more tasks than there are follow one another without one coming twice.
LEMMA NoMoreThanAll ==
    ASSUME NEW c \in Seq(Tasks), \A i, j \in DOMAIN c : c[i] = c[j] => i = j
    PROVE  Len(c) <= Cardinality(Tasks)
<1>1. Len(c) \in Nat /\ DOMAIN c = 1 .. Len(c)
  OBVIOUS
<1>2. c \in Injection(1 .. Len(c), Tasks)
  BY <1>1 DEF Injection, IsInjective
<1>3. IsFiniteSet(Tasks)
  BY InputAssumption DEF InputAssumption
<1>4. Cardinality(1 .. Len(c)) <= Cardinality(Tasks)
  BY <1>2, <1>3, FS_Injection
<1>5. Cardinality(1 .. Len(c)) = Len(c)
  BY <1>1, FS_Interval
<1> QED BY <1>4, <1>5

\* What a chain is.
LEMMA ChainsAre ==
    ASSUME NEW t, NEW c
    PROVE  c \in ChainsFrom(t) <=>
              /\ c \in Seq(Tasks) /\ c # <<>> /\ c[1] = t
              /\ Len(c) <= Cardinality(Tasks) + 1
              /\ \A i \in 1 .. Len(c) - 1 : c[i + 1] \in ActiveSuccessors(c[i])
<1> DEFINE N == Cardinality(Tasks) + 1
<1>1. N \in Nat
  BY InputAssumption, FS_CardinalityType DEF InputAssumption
<1>2. c \in BoundedSeq(Tasks, N) <=> c \in Seq(Tasks) /\ Len(c) <= N
  <2> HIDE DEF N
  <2>1. BoundedSeq(Tasks, N) = UNION {[1 .. m -> Tasks] : m \in 0 .. N}
    BY DEF BoundedSeq, SeqOf
  <2>2. ASSUME NEW m \in 0 .. N, c \in [1 .. m -> Tasks] PROVE c \in Seq(Tasks) /\ Len(c) <= N
    <3>1. m \in Nat
      BY <1>1
    <3>2. c \in Seq(Tasks) /\ Len(c) = m
      BY <2>2, <3>1
    <3> QED BY <1>1, <3>2
  <2>3. ASSUME c \in Seq(Tasks), Len(c) <= N PROVE \E m \in 0 .. N : c \in [1 .. m -> Tasks]
    <3>1. Len(c) \in 0 .. N /\ c \in [1 .. Len(c) -> Tasks]
      BY <1>1, <2>3
    <3> QED BY <3>1
  <2> QED BY <2>1, <2>2, <2>3
<1> QED BY <1>2 DEF ChainsFrom
-----------------------------------------------------------------------------
\* A successor of a task that leads to no cycle leads to none, and its chains
\* with the task before them are chains of the task.
LEMMA SuccessorLeads ==
    ASSUME NEW t \in Tasks, LeadsToNoCycle(t), NEW s \in ActiveSuccessors(t)
    PROVE  /\ LeadsToNoCycle(s)
           /\ \A d \in ChainsFrom(s) : <<t>> \o d \in ChainsFrom(t)
<1> DEFINE N == Cardinality(Tasks)
<1>0. N \in Nat
  BY InputAssumption, FS_CardinalityType DEF InputAssumption
<1>1. ASSUME NEW d \in ChainsFrom(s), Len(d) <= N
      PROVE  <<t>> \o d \in ChainsFrom(t)
  <2> DEFINE c == <<t>> \o d
  <2>1. /\ d \in Seq(Tasks) /\ d # <<>> /\ d[1] = s
        /\ \A i \in 1 .. Len(d) - 1 : d[i + 1] \in ActiveSuccessors(d[i])
    BY ChainsAre
  <2>2. /\ c \in Seq(Tasks) /\ c # <<>> /\ c[1] = t /\ Len(c) = Len(d) + 1
        /\ \A i \in 1 .. Len(d) : c[i + 1] = d[i]
    BY <2>1
  <2>3. Len(d) \in Nat \ {0}
    BY <2>1
  <2>4. Len(d) \in Nat /\ Len(d) # 0
    BY <2>3
  <2> HIDE DEF c, N
  <2>5. ASSUME NEW i \in 1 .. Len(c) - 1 PROVE c[i + 1] \in ActiveSuccessors(c[i])
    <3>1. i \in 1 .. Len(d) /\ (i = 1 \/ (i - 1 \in 1 .. Len(d) - 1 /\ (i - 1) + 1 = i /\ i - 1 \in 1 .. Len(d)))
      BY <2>2, <2>4
    <3>2. CASE i = 1
      BY <2>1, <2>2, <3>1, <3>2
    <3>3. CASE i - 1 \in 1 .. Len(d) - 1 /\ (i - 1) + 1 = i /\ i - 1 \in 1 .. Len(d)
      <4>1. d[i] \in ActiveSuccessors(d[i - 1])
        BY <2>1, <3>3
      <4>2. c[i] = d[i - 1] /\ c[i + 1] = d[i]
        BY <2>2, <3>1, <3>3
      <4> QED BY <4>1, <4>2
    <3> QED BY <3>1, <3>2, <3>3
  <2>6. Len(c) <= N + 1
    BY <1>0, <1>1, <2>2, <2>4
  <2>7. c \in ChainsFrom(t)
    BY <2>2, <2>5, <2>6, ChainsAre DEF N
  <2> QED BY <2>7 DEF c
<1>2. ASSUME NEW d \in ChainsFrom(s), Len(d) <= N
      PROVE  /\ \A i, j \in DOMAIN d : d[i] = d[j] => i = j
             /\ Len(d) + 1 <= N
  <2> DEFINE c == <<t>> \o d
  <2>1. d \in Seq(Tasks)
    BY ChainsAre
  <2>2. /\ c \in Seq(Tasks) /\ Len(c) = Len(d) + 1 /\ DOMAIN c = 1 .. Len(d) + 1
        /\ DOMAIN d = 1 .. Len(d) /\ Len(d) \in Nat
        /\ \A i \in 1 .. Len(d) : c[i + 1] = d[i] /\ i + 1 \in 1 .. Len(d) + 1
    BY <2>1
  <2>3. \A i, j \in DOMAIN c : c[i] = c[j] => i = j
    BY <1>1, <1>2 DEF LeadsToNoCycle
  <2> HIDE DEF c, N
  <2>4. Len(c) <= N
    BY <2>2, <2>3, NoMoreThanAll DEF N
  <2>5. ASSUME NEW i \in DOMAIN d, NEW j \in DOMAIN d, d[i] = d[j] PROVE i = j
    <3>1. c[i + 1] = c[j + 1] /\ i + 1 \in DOMAIN c /\ j + 1 \in DOMAIN c
      BY <2>2, <2>5
    <3>2. i + 1 = j + 1
      BY <2>3, <3>1
    <3> QED BY <2>2, <3>2
  <2> QED BY <2>2, <2>4, <2>5
<1>3. ASSUME NEW d \in ChainsFrom(s) PROVE Len(d) <= N
  <2> SUFFICES ASSUME ~(Len(d) <= N) PROVE FALSE
    OBVIOUS
  <2>1. /\ d \in Seq(Tasks) /\ d # <<>> /\ d[1] = s /\ Len(d) <= N + 1
        /\ \A i \in 1 .. Len(d) - 1 : d[i + 1] \in ActiveSuccessors(d[i])
    BY ChainsAre
  <2>2. Len(d) = N + 1
    BY <1>0, <2>1
  <2>3. N # 0
    <3>1. IsFiniteSet(Tasks) /\ Tasks # {}
      BY InputAssumption DEF InputAssumption
    <3> QED BY <3>1, FS_EmptySet
  <2> DEFINE e == Front(d)
  <2>4. /\ e \in Seq(Tasks) /\ Len(e) = N /\ \A i \in 1 .. N : e[i] = d[i]
    <3> HIDE DEF N
    <3>1. Front(d) \in Seq(Tasks) /\ Len(Front(d)) = Len(d) - 1
          /\ \A i \in 1 .. Len(d) - 1 : Front(d)[i] = d[i]
      BY <2>1, FrontOf
    <3>2. Len(d) - 1 = N
      BY <1>0, <2>2
    <3> QED BY <3>1, <3>2
  <2> HIDE DEF e, N
  <2>5. e # <<>> /\ e[1] = s
    BY <1>0, <2>1, <2>3, <2>4
  <2>6. \A i \in 1 .. Len(e) - 1 : e[i + 1] \in ActiveSuccessors(e[i])
    <3> TAKE i \in 1 .. Len(e) - 1
    <3>1. i \in 1 .. Len(d) - 1 /\ i \in 1 .. N /\ i + 1 \in 1 .. N
      BY <1>0, <2>2, <2>4
    <3> QED BY <2>1, <2>4, <3>1
  <2>7. Len(e) <= N + 1
    BY <1>0, <2>4
  <2>8. e \in ChainsFrom(s)
    BY <2>4, <2>5, <2>6, <2>7, ChainsAre DEF N
  <2>9. Len(e) + 1 <= N
    BY <1>0, <1>2, <2>4, <2>8
  <2> QED BY <1>0, <2>4, <2>9
<1>4. LeadsToNoCycle(s)
  BY <1>2, <1>3 DEF LeadsToNoCycle
<1> QED BY <1>1, <1>3, <1>4

\* A chain is a single task, or starts with the task before a chain of one
\* of its successors.
LEMMA ChainSplits ==
    ASSUME NEW t, NEW c \in ChainsFrom(t)
    PROVE  c = <<t>> \/ \E s \in ActiveSuccessors(t) : \E d \in ChainsFrom(s) : c = <<t>> \o d
<1>1. /\ c \in Seq(Tasks) /\ c # <<>> /\ c[1] = t
      /\ Len(c) <= Cardinality(Tasks) + 1
      /\ \A i \in 1 .. Len(c) - 1 : c[i + 1] \in ActiveSuccessors(c[i])
  BY ChainsAre
<1>2. Cardinality(Tasks) \in Nat
  BY InputAssumption, FS_CardinalityType DEF InputAssumption
<1>3. CASE Len(c) = 1
  BY <1>1, <1>3
<1>4. CASE Len(c) # 1
  <2> DEFINE d == Tail(c)
  <2>1. Len(c) \in Nat /\ Len(c) > 1
    <3>1. Len(c) \in Nat /\ Len(c) # 0
      BY <1>1
    <3>2. PICK n : n = Len(c)
      OBVIOUS
    <3>3. n \in Nat /\ n # 0 /\ n # 1
      BY <1>4, <3>1, <3>2
    <3>4. n > 1
      BY <3>3
    <3> QED BY <3>1, <3>2, <3>4
  <2>2. /\ d \in Seq(Tasks) /\ Len(d) = Len(c) - 1 /\ \A i \in 1 .. Len(c) - 1 : d[i] = c[i + 1]
    BY <1>1
  <2>3. c = <<t>> \o d
    <3>1. Len(<<t>> \o d) = Len(c)
      BY <2>1, <2>2
    <3>2. \A i \in 1 .. Len(c) : (<<t>> \o d)[i] = c[i]
      BY <1>1, <2>1, <2>2
    <3>3. <<t>> \o d \in Seq(Tasks)
      BY <1>1, <2>2
    <3>4. PICK f \in Seq(Tasks) : f = <<t>> \o d
      BY <3>3
    <3> HIDE DEF d
    <3>5. Len(f) = Len(c) /\ \A i \in 1 .. Len(c) : f[i] = c[i]
      BY <3>1, <3>2, <3>4
    <3>6. f = c
      BY <1>1, <3>5
    <3> QED BY <3>4, <3>6
  <2> HIDE DEF d
  <2>4. d # <<>> /\ d[1] \in ActiveSuccessors(t)
    <3>1. 1 \in 1 .. Len(c) - 1 /\ Len(d) # 0
      BY <2>1, <2>2
    <3>2. c[1 + 1] \in ActiveSuccessors(c[1]) /\ d[1] = c[1 + 1]
      BY <1>1, <2>2, <3>1
    <3> QED BY <1>1, <3>1, <3>2
  <2>5. \A i \in 1 .. Len(d) - 1 : d[i + 1] \in ActiveSuccessors(d[i])
    <3> TAKE i \in 1 .. Len(d) - 1
    <3>1. i \in 1 .. Len(c) - 1 /\ i + 1 \in 1 .. Len(c) - 1
      BY <2>1, <2>2
    <3> QED BY <1>1, <2>2, <3>1
  <2>6. Len(d) <= Cardinality(Tasks) + 1
    BY <1>1, <1>2, <2>1, <2>2
  <2>7. d \in ChainsFrom(d[1])
    BY <2>2, <2>4, <2>5, <2>6, ChainsAre
  <2> QED BY <2>3, <2>4, <2>7
<1> QED BY <1>3, <1>4
-----------------------------------------------------------------------------
\* The latest finish of t is the least of what the chains of work from t allow.
ExactFor(t) ==
    /\ \E c \in ChainsFrom(t) : latestFinish[t] = OwnLimit(Last(c)) - AfterFirst(c)
    /\ \A c \in ChainsFrom(t) : latestFinish[t] <= OwnLimit(Last(c)) - AfterFirst(c)

\* The tasks being resolved wait one for the other, and are not resolved.
TimingInv ==
    /\ Resolved \subseteq Tasks /\ latestFinish \in [Resolved -> Int]
    /\ path \in Seq(Tasks)
    /\ \A i, k \in DOMAIN path : path[i] = path[k] => i = k
    /\ Resolved \cap ToSet(path) = {}
    /\ \A i \in 1 .. Len(path) - 1 : path[i + 1] \in ActiveSuccessors(path[i])
    /\ \A t \in Resolved : LeadsToNoCycle(t) => ExactFor(t)

\* Nothing is resolved at first.
LEMMA NothingResolved == TimingInit => TimingInv
<1> SUFFICES ASSUME TimingInit PROVE TimingInv
  OBVIOUS
<1>1. latestFinish = <<>> /\ path = <<>>
  BY DEF TimingInit
<1>2. Resolved = {} /\ DOMAIN path = {} /\ ToSet(path) = {}
  BY <1>1 DEF Resolved, ToSet
<1>3. latestFinish \in [Resolved -> Int] /\ path \in Seq(Tasks) /\ Len(path) = 0
  BY <1>1, <1>2
<1> QED BY <1>2, <1>3 DEF TimingInv

\* The fields of the input that the timing reads.
TimingReads ==
    <<input.finished, input.blocksStart, input.milestone, input.limit, input.buffer,
      input.deadline, input.safety>>

\* The limits and the chains depend on these fields alone.
LEMMA TimingViewStays ==
    ASSUME UNCHANGED TimingReads
    PROVE  /\ \A t : /\ ActiveSuccessors(t)' = ActiveSuccessors(t)
                     /\ OwnLimit(t)' = OwnLimit(t)
                     /\ ChainsFrom(t)' = ChainsFrom(t)
                     /\ LeadsToNoCycle(t)' = LeadsToNoCycle(t)
           /\ \A c : AfterFirst(c)' = AfterFirst(c)
<1>1. /\ input'.finished = input.finished /\ input'.blocksStart = input.blocksStart
      /\ input'.milestone = input.milestone /\ input'.limit = input.limit
      /\ input'.buffer = input.buffer /\ input'.deadline = input.deadline
      /\ input'.safety = input.safety
  BY DEF TimingReads
<1>2. \A t : ActiveSuccessors(t)' = ActiveSuccessors(t)
  BY <1>1 DEF ActiveSuccessors, StartSuccessors, Active
<1>3. \A t : OwnLimit(t)' = OwnLimit(t)
  BY <1>1 DEF OwnLimit, Limit
<1>4. \A t : ChainsFrom(t)' = ChainsFrom(t)
  BY <1>2 DEF ChainsFrom
<1>5. \A t : LeadsToNoCycle(t)' = LeadsToNoCycle(t)
  BY <1>4 DEF LeadsToNoCycle
<1>6. \A c : AfterFirst(c)' = AfterFirst(c)
  BY <1>1 DEF AfterFirst
<1> QED BY <1>2, <1>3, <1>4, <1>5, <1>6

\* As long as the fields stay, the timing stays as it is.
LEMMA TimingStays ==
    ASSUME TimingInv, UNCHANGED TimingReads, UNCHANGED timingVars
    PROVE  TimingInv'
<1>1. latestFinish' = latestFinish /\ path' = path /\ Resolved' = Resolved
  BY DEF timingVars, Resolved
<1>2. \A t : ExactFor(t)' = ExactFor(t)
  BY <1>1, TimingViewStays DEF ExactFor
<1> QED BY <1>1, <1>2, TimingViewStays DEF TimingInv

\* The limit of a task is an instant.
LEMMA OwnLimitIsTyped ==
    ASSUME WellFormed(input), NEW t \in Tasks
    PROVE  OwnLimit(t) \in Int
<1> DEFINE m == input.milestone[t]
           more == IF m = NoMilestone \/ Limit(m) = Never THEN {} ELSE {Limit(m) - input.buffer[m]}
           S == {Horizon, input.deadline[t]} \cup more
<1>1. m = NoMilestone \/ m \in Milestones
  BY DEF WellFormed
<1>2. /\ input.deadline[t] \in Int /\ Horizon \in Int
      /\ \A k \in Milestones : input.limit[k] \in Int /\ input.buffer[k] \in Int
  BY TimingAssumption DEF WellFormed, TimingAssumption
<1>3. \A x \in more : x \in Int
  BY <1>1, <1>2 DEF Limit
<1>4. IsFiniteSet(more)
  <2>1. more = {} \/ \E x : more = {x}
    OBVIOUS
  <2> HIDE DEF more
  <2> QED BY <2>1, FS_EmptySet, FS_Singleton
<1>5. OwnLimit(t) = Min(S)
  BY DEF OwnLimit
<1> HIDE DEF more
<1>6. IsFiniteSet({Horizon}) /\ IsFiniteSet({input.deadline[t]})
  BY FS_Singleton
<1>7. IsFiniteSet({Horizon} \cup {input.deadline[t]})
  BY <1>6, FS_Union
<1>8. IsFiniteSet(({Horizon} \cup {input.deadline[t]}) \cup more)
  BY <1>4, <1>7, FS_Union
<1>9. S = ({Horizon} \cup {input.deadline[t]}) \cup more
  OBVIOUS
<1>10. S # {} /\ \A x \in S : x \in Int
  BY <1>2, <1>3
<1> HIDE DEF S
<1>11. Min(S) \in S
  BY <1>8, <1>9, <1>10, LeastOfFinite
<1> QED BY <1>5, <1>10, <1>11

\* A task is called that is not resolved and not being resolved.
LEMMA TaskIsCalled ==
    ASSUME TimingInv, UNCHANGED TimingReads, Call
    PROVE  TimingInv'
<1> DEFINE S == IF path = <<>> THEN Tasks \ Resolved ELSE ToResolve(Last(path))
           n == Len(path)
<1>1. S # {} /\ path' = Append(path, Min(S)) /\ latestFinish' = latestFinish
  BY DEF Call
<1>2. S \subseteq Tasks
  BY DEF ToResolve, ActiveSuccessors, StartSuccessors
<1>3. PICK t \in S : t = Min(S)
  <2> HIDE DEF S
  <2>1. IsFiniteSet(Tasks) /\ \A x \in Tasks : x \in Int
    BY InputAssumption DEF InputAssumption
  <2>2. IsFiniteSet(S)
    BY <1>2, <2>1, FS_Subset
  <2>3. \A x \in S : x \in Int
    BY <1>2, <2>1
  <2> QED BY <1>1, <2>2, <2>3, LeastOfFinite
<1>4. path \in Seq(Tasks) /\ n \in Nat /\ DOMAIN path = 1 .. n
  BY DEF TimingInv
<1>5. t \in Tasks /\ t \notin Resolved /\ t \notin ToSet(path)
  BY <1>2, <1>4 DEF ToResolve, ToSet
<1>6. n # 0 => t \in ActiveSuccessors(path[n])
  BY <1>4 DEF ToResolve, Last
<1> HIDE DEF S
<1>7. path' = Append(path, t)
  BY <1>1, <1>3
<1>8. /\ path' \in Seq(Tasks) /\ DOMAIN path' = 1 .. n + 1 /\ Len(path') = n + 1
      /\ path'[n + 1] = t /\ \A i \in 1 .. n : path'[i] = path[i]
  BY <1>4, <1>5, <1>7
<1>9. \A i \in 1 .. n + 1 : i = n + 1 \/ i \in 1 .. n
  BY <1>4
<1>10. \A i \in 1 .. n : path[i] # t
  BY <1>4, <1>5 DEF ToSet
<1>11. \A i, k \in DOMAIN path' : path'[i] = path'[k] => i = k
  BY <1>4, <1>8, <1>9, <1>10 DEF TimingInv
<1>12. Resolved' = Resolved /\ \A u : ExactFor(u)' = ExactFor(u)
  BY <1>1, TimingViewStays DEF Resolved, ExactFor
<1>13. Resolved' \cap ToSet(path') = {}
  <2>1. ToSet(path') \subseteq ToSet(path) \cup {t}
    BY <1>4, <1>8, <1>9 DEF ToSet
  <2> QED BY <1>5, <1>12, <2>1 DEF TimingInv
<1>14. \A i \in 1 .. Len(path') - 1 : path'[i + 1] \in ActiveSuccessors(path'[i])
  <2> SUFFICES ASSUME NEW i \in 1 .. n PROVE path'[i + 1] \in ActiveSuccessors(path'[i])
    BY <1>4, <1>8
  <2>1. i = n \/ (i \in 1 .. n - 1 /\ i + 1 \in 1 .. n)
    <3>1. n \in Nat
      BY <1>4
    <3> HIDE DEF n
    <3> QED BY <3>1
  <2>2. CASE i = n
    <3>1. n # 0
      BY <1>4
    <3> QED BY <1>6, <1>8, <2>2, <3>1
  <2>3. CASE i \in 1 .. n - 1 /\ i + 1 \in 1 .. n
    BY <1>8, <2>3 DEF TimingInv
  <2> QED BY <2>1, <2>2, <2>3
<1> QED BY <1>1, <1>8, <1>11, <1>12, <1>13, <1>14, TimingViewStays DEF TimingInv
-----------------------------------------------------------------------------
\* A task that leads to no cycle returns when all that waits for it is resolved:
\* what is still being resolved is not among it.
LEMMA AllAreResolved ==
    ASSUME TimingInv, path # <<>>, NEW t \in Tasks, t = Last(path), ToResolve(t) = {},
           LeadsToNoCycle(t)
    PROVE  ActiveSuccessors(t) \subseteq Resolved
<1> SUFFICES ASSUME NEW s \in ActiveSuccessors(t), s \notin Resolved PROVE FALSE
  OBVIOUS
<1> DEFINE n == Len(path)
<1>1. path \in Seq(Tasks) /\ n \in Nat /\ DOMAIN path = 1 .. n
  BY DEF TimingInv
<1>2. n \in Nat /\ n # 0 /\ t = path[n]
  BY <1>1 DEF Last
<1>3. PICK k \in 1 .. n : path[k] = s
  BY <1>1 DEF ToResolve, ToSet
<1> HIDE DEF n
<1>4. n <= Cardinality(Tasks) /\ Cardinality(Tasks) \in Nat
  <2>1. Cardinality(Tasks) \in Nat
    BY InputAssumption, FS_CardinalityType DEF InputAssumption
  <2> QED BY <1>1, <2>1, NoMoreThanAll DEF TimingInv, n
<1> DEFINE m == n - k + 2
           c == [i \in 1 .. m |-> IF i = 1 THEN t ELSE path[k + i - 2]]
<1>5. m \in Nat /\ 2 <= m /\ m <= Cardinality(Tasks) + 1
  BY <1>2, <1>3, <1>4
<1>6. \A i \in 1 .. m : i = 1 \/ (k + i - 2 \in 1 .. n /\ i # 1)
  BY <1>2, <1>3
<1>7. \A i \in 1 .. m : c[i] \in Tasks
  BY <1>1, <1>6
<1>8. c \in Seq(Tasks) /\ Len(c) = m /\ DOMAIN c = 1 .. m
  BY <1>5, <1>7
<1>9. c[1] = t /\ c[m] = t /\ c # <<>> /\ 1 \in 1 .. m /\ m \in 1 .. m /\ m # 1
  <2>1. m \in 1 .. m /\ 1 \in 1 .. m /\ m # 1
    BY <1>5
  <2>2. k + m - 2 = n
    BY <1>2, <1>3
  <2>3. c[m] = path[n] /\ c[1] = t
    BY <2>1, <2>2
  <2> QED BY <1>2, <1>8, <2>1, <2>3
<1>10. ASSUME NEW i \in 1 .. m - 1 PROVE c[i + 1] \in ActiveSuccessors(c[i])
  <2>1. i \in 1 .. m /\ i + 1 \in 1 .. m /\ i + 1 # 1 /\ k + (i + 1) - 2 = k + i - 1
    BY <1>3, <1>5
  <2>2. c[i + 1] = path[k + i - 1]
    BY <2>1
  <2>3. CASE i = 1
    <3>1. k + i - 1 = k
      BY <1>3, <2>3
    <3> QED BY <1>3, <2>1, <2>2, <2>3, <3>1
  <2>4. CASE i # 1
    <3>1. c[i] = path[k + i - 2]
      BY <2>1, <2>4
    <3>2. k + i - 2 \in 1 .. n - 1 /\ (k + i - 2) + 1 = k + i - 1
      BY <1>2, <1>3, <1>5, <2>4
    <3> HIDE DEF c, m
    <3>3. path[(k + i - 2) + 1] \in ActiveSuccessors(path[k + i - 2])
      BY <3>2 DEF TimingInv, n
    <3> QED BY <2>2, <3>1, <3>2, <3>3
  <2> QED BY <2>3, <2>4
<1> HIDE DEF c, m
<1>11. c \in ChainsFrom(t)
  BY <1>5, <1>8, <1>9, <1>10, ChainsAre
<1>12. 1 = m
  BY <1>8, <1>9, <1>11 DEF LeadsToNoCycle
<1> QED BY <1>9, <1>12

\* When everything that waits for it is resolved exactly, so is the task.
LEMMA LeastIsExact ==
    ASSUME WellFormed(input), NEW t \in Tasks, LeadsToNoCycle(t),
           ActiveSuccessors(t) \subseteq Resolved,
           \A s \in ActiveSuccessors(t) : ExactFor(s) /\ latestFinish[s] \in Int,
           NEW v \in Int,
           v = OwnLimit(t) \/ \E s \in ActiveSuccessors(t) : v = latestFinish[s] - input.safety[s],
           v <= OwnLimit(t),
           \A s \in ActiveSuccessors(t) : v <= latestFinish[s] - input.safety[s]
    PROVE  /\ \E c \in ChainsFrom(t) : v = OwnLimit(Last(c)) - AfterFirst(c)
           /\ \A c \in ChainsFrom(t) : v <= OwnLimit(Last(c)) - AfterFirst(c)
<1>1. input.safety \in [Tasks -> Int]
  BY DEF WellFormed
<1>2. <<t>> \in ChainsFrom(t)
  <2>1. Cardinality(Tasks) \in Nat
    BY InputAssumption, FS_CardinalityType DEF InputAssumption
  <2>2. /\ <<t>> \in Seq(Tasks) /\ <<t>> # <<>> /\ <<t>>[1] = t /\ Len(<<t>>) = 1
        /\ 1 <= Cardinality(Tasks) + 1 /\ 1 .. 1 - 1 = {}
    BY <2>1
  <2> QED BY <2>2, ChainsAre
<1>3. ASSUME NEW s \in ActiveSuccessors(t), NEW d \in ChainsFrom(s)
      PROVE  /\ <<t>> \o d \in ChainsFrom(t)
             /\ OwnLimit(Last(<<t>> \o d)) - AfterFirst(<<t>> \o d)
                   = (OwnLimit(Last(d)) - AfterFirst(d)) - input.safety[s]
             /\ OwnLimit(Last(d)) \in Int /\ AfterFirst(d) \in Int /\ input.safety[s] \in Int
  <2>1. d \in Seq(Tasks) /\ d # <<>> /\ d[1] = s /\ s \in Tasks
    BY ChainsAre DEF ActiveSuccessors, StartSuccessors
  <2>2. AfterFirst(<<t>> \o d) = input.safety[s] + AfterFirst(d) /\ AfterFirst(d) \in Int
    BY <1>1, <2>1, ChainGrows
  <2>3. Last(<<t>> \o d) = Last(d) /\ Last(d) \in Tasks
    <3>1. Len(d) \in Nat /\ Len(d) # 0 /\ Len(<<t>> \o d) = Len(d) + 1
      BY <2>1
    <3>2. Len(d) \in 1 .. Len(d)
      BY <3>1
    <3>3. (<<t>> \o d)[Len(d) + 1] = d[Len(d)] /\ d[Len(d)] \in Tasks
      BY <2>1, <3>2
    <3> QED BY <3>1, <3>3 DEF Last
  <2>4. OwnLimit(Last(d)) \in Int /\ input.safety[s] \in Int
    BY <1>1, <2>1, <2>3, OwnLimitIsTyped
  <2>5. <<t>> \o d \in ChainsFrom(t)
    BY SuccessorLeads
  <2> QED BY <2>2, <2>3, <2>4, <2>5
<1>4. OwnLimit(t) \in Int
  BY OwnLimitIsTyped
<1>5. OwnLimit(Last(<<t>>)) - AfterFirst(<<t>>) = OwnLimit(t)
  BY <1>4, ChainOfOne
<1>6. \E c \in ChainsFrom(t) : v = OwnLimit(Last(c)) - AfterFirst(c)
  <2>1. CASE v = OwnLimit(t)
    BY <1>2, <1>5, <2>1
  <2>2. CASE \E s \in ActiveSuccessors(t) : v = latestFinish[s] - input.safety[s]
    <3>1. PICK s \in ActiveSuccessors(t) : v = latestFinish[s] - input.safety[s]
      BY <2>2
    <3>2. PICK d \in ChainsFrom(s) : latestFinish[s] = OwnLimit(Last(d)) - AfterFirst(d)
      BY DEF ExactFor
    <3>3. v = OwnLimit(Last(<<t>> \o d)) - AfterFirst(<<t>> \o d)
      BY <1>3, <3>1, <3>2
    <3> QED BY <1>3, <3>3
  <2> QED BY <2>1, <2>2
<1>7. ASSUME NEW c \in ChainsFrom(t) PROVE v <= OwnLimit(Last(c)) - AfterFirst(c)
  <2>1. CASE c = <<t>>
    BY <1>5, <2>1
  <2>2. CASE \E s \in ActiveSuccessors(t) : \E d \in ChainsFrom(s) : c = <<t>> \o d
    <3>1. PICK s \in ActiveSuccessors(t) : \E d \in ChainsFrom(s) : c = <<t>> \o d
      BY <2>2
    <3>2. PICK d \in ChainsFrom(s) : c = <<t>> \o d
      BY <3>1
    <3>3. latestFinish[s] <= OwnLimit(Last(d)) - AfterFirst(d) /\ latestFinish[s] \in Int
      BY DEF ExactFor
    <3>4. OwnLimit(Last(c)) - AfterFirst(c) = (OwnLimit(Last(d)) - AfterFirst(d)) - input.safety[s]
      BY <1>3, <3>2
    <3>5. OwnLimit(Last(d)) \in Int /\ AfterFirst(d) \in Int /\ input.safety[s] \in Int
      BY <1>3
    <3>6. v <= latestFinish[s] - input.safety[s]
      OBVIOUS
    <3>7. latestFinish[s] - input.safety[s] <= (OwnLimit(Last(d)) - AfterFirst(d)) - input.safety[s]
      BY <3>3, <3>5
    <3> QED BY <3>3, <3>4, <3>5, <3>6, <3>7
  <2> QED BY <2>1, <2>2, ChainSplits
<1> QED BY <1>6, <1>7

\* A task returns, and is resolved.
LEMMA TaskReturns ==
    ASSUME TimingInv, WellFormed(input), UNCHANGED TimingReads, Return
    PROVE  TimingInv'
<1> DEFINE t == Last(path)
           n == Len(path)
           V == {OwnLimit(t)} \cup {StartLimit(s) : s \in ActiveSuccessors(t)}
<1>1. /\ path # <<>> /\ ToResolve(t) = {} /\ path' = Front(path)
      /\ latestFinish' = [u \in Resolved \cup {t} |-> IF u = t THEN Min(V) ELSE latestFinish[u]]
  BY DEF Return
<1>2. /\ path \in Seq(Tasks) /\ Resolved \subseteq Tasks /\ latestFinish \in [Resolved -> Int]
      /\ \A i, k \in DOMAIN path : path[i] = path[k] => i = k
      /\ Resolved \cap ToSet(path) = {}
  BY DEF TimingInv
<1>3. /\ n \in Nat \ {0} /\ DOMAIN path = 1 .. n /\ t = path[n] /\ t \in Tasks
      /\ path' \in Seq(Tasks) /\ Len(path') = n - 1
      /\ \A i \in 1 .. n - 1 : path'[i] = path[i]
  BY <1>1, <1>2, FrontOf
<1>4. n \in Nat /\ n # 0 /\ n \in 1 .. n
  BY <1>3
<1> HIDE DEF n
<1>5. t \notin Resolved
  BY <1>2, <1>3, <1>4 DEF ToSet
<1>6. /\ OwnLimit(t) \in Int
      /\ \A s \in ActiveSuccessors(t) : StartLimit(s) \in Int /\ s \in Tasks
  <2>1. OwnLimit(t) \in Int
    BY <1>3, OwnLimitIsTyped
  <2>2. \A s \in ActiveSuccessors(t) : s \in Tasks
    BY DEF ActiveSuccessors, StartSuccessors
  <2>3. \A s \in Tasks : input.safety[s] \in Int
    BY DEF WellFormed
  <2>4. Horizon \in Int /\ \A s \in Resolved : latestFinish[s] \in Int
    BY <1>2, TimingAssumption DEF TimingAssumption
  <2> QED BY <2>1, <2>2, <2>3, <2>4 DEF StartLimit
<1>7. Min(V) \in V /\ Min(V) \in Int /\ \A x \in V : Min(V) <= x
  <2> DEFINE A == ActiveSuccessors(t)
             f == [s \in A |-> StartLimit(s)]
  <2>1. IsFiniteSet(Tasks) /\ A \subseteq Tasks
    BY InputAssumption DEF InputAssumption, ActiveSuccessors, StartSuccessors
  <2> HIDE DEF A
  <2>2. IsFiniteSet(A) /\ A \subseteq DOMAIN f
    BY <2>1, FS_Subset
  <2> HIDE DEF f
  <2>3. IsFiniteSet({f[s] : s \in A})
    BY <2>2, ImageIsFinite
  <2>4. {StartLimit(s) : s \in A} = {f[s] : s \in A}
    BY DEF f
  <2>5. IsFiniteSet({OwnLimit(t)})
    BY FS_Singleton
  <2>6. IsFiniteSet(V)
    BY <2>3, <2>4, <2>5, FS_Union DEF A
  <2>7. V # {} /\ \A x \in V : x \in Int
    BY <1>6
  <2> HIDE DEF V
  <2>8. Min(V) \in V /\ \A x \in V : Min(V) <= x
    BY <2>6, <2>7, LeastOfFinite
  <2> QED BY <2>7, <2>8
<1>8. PICK v \in Int : v = Min(V)
  BY <1>7
<1>9. /\ v = OwnLimit(t) \/ \E s \in ActiveSuccessors(t) : v = StartLimit(s)
      /\ v <= OwnLimit(t)
      /\ \A s \in ActiveSuccessors(t) : v <= StartLimit(s)
  BY <1>7, <1>8
<1> HIDE DEF t, V
<1>10. /\ Resolved' = Resolved \cup {t} /\ latestFinish' \in [Resolved' -> Int]
       /\ latestFinish'[t] = v /\ \A u \in Resolved : latestFinish'[u] = latestFinish[u]
  <2>1. latestFinish' = [u \in Resolved \cup {t} |-> IF u = t THEN v ELSE latestFinish[u]]
    BY <1>1, <1>8
  <2>2. Resolved' = Resolved \cup {t}
    BY <2>1 DEF Resolved
  <2>3. \A u \in Resolved \cup {t} : (IF u = t THEN v ELSE latestFinish[u]) \in Int
    BY <1>2
  <2> QED BY <1>5, <2>1, <2>2, <2>3
<1>11. DOMAIN path' = 1 .. n - 1 /\ \A i \in 1 .. n - 1 : i \in 1 .. n /\ i # n
  BY <1>3, <1>4
<1>12. \A i, k \in DOMAIN path' : path'[i] = path'[k] => i = k
  BY <1>2, <1>3, <1>11
<1>13. Resolved' \cap ToSet(path') = {}
  <2>1. ToSet(path') \subseteq ToSet(path)
    BY <1>3, <1>11 DEF ToSet
  <2>2. t \notin ToSet(path')
    BY <1>2, <1>3, <1>4, <1>11 DEF ToSet
  <2> QED BY <1>2, <1>10, <2>1, <2>2
<1>14. \A i \in 1 .. Len(path') - 1 : path'[i + 1] \in ActiveSuccessors(path'[i])
  <2> TAKE i \in 1 .. Len(path') - 1
  <2>1. Len(path') = n - 1
    BY <1>3
  <2>2. i \in 1 .. n - 1 /\ i + 1 \in 1 .. n - 1
    BY <1>4, <2>1
  <2>3. path[i + 1] \in ActiveSuccessors(path[i])
    BY <2>2 DEF TimingInv, n
  <2> QED BY <1>3, <2>2, <2>3
<1>15. ASSUME NEW u \in Resolved', LeadsToNoCycle(u) PROVE ExactFor(u)'
  <2>1. CASE u \in Resolved
    <3>1. ExactFor(u)
      BY <1>15, <2>1 DEF TimingInv
    <3> QED BY <1>10, <2>1, <3>1, TimingViewStays DEF ExactFor
  <2>2. CASE u = t
    <3>1. ActiveSuccessors(t) \subseteq Resolved
      BY <1>1, <1>3, <1>15, <2>2, AllAreResolved DEF t
    <3>2. \A s \in ActiveSuccessors(t) : ExactFor(s) /\ latestFinish[s] \in Int
      <4> TAKE s \in ActiveSuccessors(t)
      <4>1. LeadsToNoCycle(s)
        BY <1>3, <1>15, <2>2, SuccessorLeads
      <4> QED BY <1>2, <3>1, <4>1 DEF TimingInv
    <3>3. \A s \in ActiveSuccessors(t) : StartLimit(s) = latestFinish[s] - input.safety[s]
      BY <3>1 DEF StartLimit
    <3>4. v = OwnLimit(t) \/ \E s \in ActiveSuccessors(t) : v = latestFinish[s] - input.safety[s]
      BY <1>9, <3>3
    <3>5. \A s \in ActiveSuccessors(t) : v <= latestFinish[s] - input.safety[s]
      BY <1>9, <3>3
    <3>6. /\ \E c \in ChainsFrom(t) : v = OwnLimit(Last(c)) - AfterFirst(c)
          /\ \A c \in ChainsFrom(t) : v <= OwnLimit(Last(c)) - AfterFirst(c)
      BY <1>3, <1>9, <1>15, <2>2, <3>1, <3>2, <3>4, <3>5, LeastIsExact
    <3> QED BY <1>10, <2>2, <3>6, TimingViewStays DEF ExactFor
  <2> QED BY <1>10, <2>1, <2>2
<1>16. Resolved' \subseteq Tasks
  BY <1>2, <1>3, <1>10
<1> QED BY <1>3, <1>10, <1>12, <1>13, <1>14, <1>15, <1>16, TimingViewStays DEF TimingInv

\* When all are resolved, the latest finish of each is the least value that
\* its chains allow.
LEMMA LatestFinishFromInv ==
    ASSUME TimingInv, WellFormed(input)
    PROVE  LatestFinishFollowsStarts
<1> SUFFICES ASSUME TimingDone, NEW t \in Tasks, LeadsToNoCycle(t)
             PROVE  latestFinish[t] = Min({OwnLimit(Last(c)) - AfterFirst(c) : c \in ChainsFrom(t)})
  BY DEF LatestFinishFollowsStarts
<1> DEFINE V == {OwnLimit(Last(c)) - AfterFirst(c) : c \in ChainsFrom(t)}
<1>1. t \in Resolved
  BY DEF TimingDone
<1>2. ExactFor(t) /\ latestFinish[t] \in Int
  BY <1>1 DEF TimingInv
<1>3. latestFinish[t] \in V /\ \A x \in V : latestFinish[t] <= x
  BY <1>2 DEF ExactFor
<1>4. \A x \in V : x \in Int
  <2> SUFFICES ASSUME NEW c \in ChainsFrom(t) PROVE OwnLimit(Last(c)) - AfterFirst(c) \in Int
    OBVIOUS
  <2>1. c \in Seq(Tasks) /\ c # <<>>
    BY ChainsAre
  <2>2. Last(c) \in Tasks
    BY <2>1, FrontOf
  <2>3. input.safety \in [Tasks -> Int]
    BY DEF WellFormed
  <2>4. AfterFirst(c) \in Int
    BY <2>1, <2>3, ChainGrows
  <2> QED BY <2>2, <2>4, OwnLimitIsTyped
<1> HIDE DEF V
<1>5. Min(V) = CHOOSE x \in V : \A y \in V : x <= y
  BY DEF Min
<1>6. \A x \in V : (\A y \in V : x <= y) => x = latestFinish[t]
  BY <1>2, <1>3, <1>4
<1>7. Min(V) = latestFinish[t]
  BY <1>3, <1>5, <1>6
<1> QED BY <1>7 DEF V
-----------------------------------------------------------------------------
\* The graph analysis, and what the passes take from it, during the calls.
GraphInv ==
    /\ TarjanInv
    /\ TimingInv
    /\ promoted \subseteq Active
    /\ DOMAIN plans \subseteq Passes

\* The dependencies of a well-formed input are between its tasks.
LEMMA ProperEdges == InputIsProper => EdgesAreOfTasks
BY DEF InputIsProper, WellFormed, EdgesAreOfTasks, CycleEdges

\* At first nothing is analysed.
LEMMA GraphBegins == ReplanInit => GraphInv
<1> SUFFICES ASSUME ReplanInit PROVE GraphInv
  OBVIOUS
<1>1. TarjanInit /\ TimingInit /\ promoted = {} /\ plans = <<>>
  BY DEF ReplanInit, PlannerInit
<1>2. TarjanInv /\ TimingInv
  BY <1>1, SearchBegins, NothingResolved
<1>3. DOMAIN <<>> = {}
  OBVIOUS
<1> QED BY <1>1, <1>2, <1>3 DEF GraphInv

\* A run of the passes starts with the analysis of the run before it.
LEMMA GraphIsKept ==
    ASSUME InputIsProper, GraphInv, NEW s, NEW A, NEW B, Run(s, A, B)
    PROVE  GraphInv'
<1>1. /\ input' = [input EXCEPT !.protected = A, !.preallocated = B]
      /\ promoted' = {} /\ plans' = <<>> /\ UNCHANGED <<cycleVars, timingVars>>
  BY DEF Run
<1>2. \A f \in InputFields \ {"protected", "preallocated"} : input'[f] = input[f]
  <2>1. DOMAIN input = InputFields
    BY DEF InputIsProper, WellFormed
  <2> QED BY <1>1, <2>1, RunInput
<1>3. /\ input'.finished = input.finished /\ input'.blocksStart = input.blocksStart
      /\ input'.blocksCompletion = input.blocksCompletion
      /\ input'.milestone = input.milestone /\ input'.limit = input.limit
      /\ input'.buffer = input.buffer /\ input'.deadline = input.deadline
      /\ input'.safety = input.safety
  BY <1>2 DEF InputFields
<1>4. UNCHANGED TimingReads
  BY <1>3 DEF TimingReads
<1>5. CycleEdges' = CycleEdges
  BY <1>3 DEF CycleEdges
<1>6. TarjanInv' /\ TimingInv'
  BY <1>1, <1>4, <1>5, SearchRests, TimingStays DEF GraphInv
<1>7. DOMAIN plans' = {}
  BY <1>1
<1> QED BY <1>1, <1>6, <1>7 DEF GraphInv

\* Every step of the passes keeps what is known of the graph.
LEMMA GraphStep ==
    ASSUME InputIsProper, GraphInv, PlannerNext \/ UNCHANGED vars
    PROVE  GraphInv'
<1>1. UNCHANGED input
  BY DEF PlannerNext, BuildSlots, SlotsBuilt, FindCycles, CyclesFound, ComputeTiming,
         StartProvisional, Schedule, Promote, StartBase, StartSafety, Deliver, vars
<1>2. TarjanNext \/ UNCHANGED cycleVars
  BY DEF PlannerNext, BuildSlots, SlotsBuilt, FindCycles, CyclesFound, ComputeTiming,
         StartProvisional, Schedule, Promote, StartBase, StartSafety, Deliver, vars
<1>3. Call \/ Return \/ UNCHANGED timingVars
  BY DEF PlannerNext, BuildSlots, SlotsBuilt, FindCycles, CyclesFound, ComputeTiming, TimingNext,
         StartProvisional, Schedule, Promote, StartBase, StartSafety, Deliver, vars
<1>4. promoted' = promoted \/ promoted' = ToPromote
  BY DEF PlannerNext, BuildSlots, SlotsBuilt, FindCycles, CyclesFound, ComputeTiming,
         StartProvisional, Schedule, Promote, StartBase, StartSafety, Deliver, vars
<1>5. plans' = plans \/ \E pass \in Passes : Record(pass)
  BY DEF PlannerNext, BuildSlots, SlotsBuilt, FindCycles, CyclesFound, ComputeTiming,
         StartProvisional, Schedule, Promote, StartBase, StartSafety, Deliver, vars, Passes
<1>6. TarjanInv'
  BY <1>1, <1>2, ProperEdges, TarjanStep DEF GraphInv
<1>7. TimingInv'
  <2>1. UNCHANGED TimingReads
    BY <1>1 DEF TimingReads
  <2>2. WellFormed(input)
    BY DEF InputIsProper
  <2> QED BY <1>3, <2>1, <2>2, TaskIsCalled, TaskReturns, TimingStays DEF GraphInv
<1>8. promoted' \subseteq Active'
  <2>1. Active' = Active
    BY <1>1 DEF Active
  <2>2. ToPromote \subseteq Active
    BY DEF ToPromote
  <2> QED BY <1>4, <2>1, <2>2 DEF GraphInv
<1>9. DOMAIN plans' \subseteq Passes
  <2>1. ASSUME NEW pass \in Passes, Record(pass) PROVE DOMAIN plans' \subseteq Passes
    <3>1. DOMAIN plans' = DOMAIN plans \cup {pass}
      BY <2>1 DEF Record
    <3> QED BY <3>1 DEF GraphInv
  <2> QED BY <1>5, <2>1 DEF GraphInv
<1> QED BY <1>6, <1>7, <1>8, <1>9 DEF GraphInv

\* A revised call analyses the graph anew.
LEMMA GraphIsReset == CallAgain => GraphInv'
<1> SUFFICES ASSUME CallAgain PROVE GraphInv'
  OBVIOUS
<1>1. TarjanInit' /\ TimingInit' /\ promoted' = {} /\ plans' = <<>>
  BY DEF CallAgain, TarjanInit, TimingInit
<1>2. (TarjanInit => TarjanInv)'
  BY SearchBegins, PTL
<1>3. (TimingInit => TimingInv)'
  BY NothingResolved, PTL
<1>4. DOMAIN plans' = {}
  BY <1>1
<1> QED BY <1>1, <1>2, <1>3, <1>4 DEF GraphInv

\* Every step of a call, and every new call, keeps what is known of the graph.
LEMMA GraphKeeps == CallInv /\ GraphInv /\ [ReplanNext]_replanVars => GraphInv'
<1> SUFFICES ASSUME CallInv, GraphInv, [ReplanNext]_replanVars PROVE GraphInv'
  OBVIOUS
<1>1. InputIsProper
  BY DEF CallInv
<1>2. CASE Validate
  <2>1. UNCHANGED vars \/ \E s, A, B : Run(s, A, B)
    BY <1>2 DEF Validate
  <2> QED BY <1>1, <2>1, GraphStep, GraphIsKept
<1>3. CASE MakePasses
  BY <1>1, <1>3, GraphStep DEF MakePasses
<1>4. CASE RunFresh
  <2>1. Run("after", {}, {})
    BY <1>4 DEF RunFresh
  <2> QED BY <1>1, <2>1, GraphIsKept
<1>5. CASE SelectPasses
  <2>1. UNCHANGED vars \/ Run("kept", {}, ProtectedPrior)
    BY <1>5 DEF SelectPasses
  <2> QED BY <1>1, <2>1, GraphStep, GraphIsKept
<1>6. CASE DeliverPlan
  <2>1. UNCHANGED vars
    BY <1>6 DEF DeliverPlan
  <2> QED BY <1>1, <2>1, GraphStep
<1>7. CASE CallAgain
  BY <1>7, GraphIsReset
<1>8. CASE UNCHANGED replanVars
  <2>1. UNCHANGED vars
    BY <1>8 DEF replanVars
  <2> QED BY <1>1, <2>1, GraphStep
<1> QED BY <1>2, <1>3, <1>4, <1>5, <1>6, <1>7, <1>8 DEF ReplanNext, Proceed

\* The graph is analysed right in every call, whatever was planned before
\* (DependencyGraph.cycles, backward_timing).
THEOREM GraphInvariance == ReplanSpec => [](CallInv /\ GraphInv)
<1>1. ReplanInit => CallInv /\ GraphInv
  BY CallInit, GraphBegins
<1>2. CallInv /\ GraphInv /\ [ReplanNext]_replanVars => (CallInv /\ GraphInv)'
  BY CallStep, GraphKeeps
<1> QED BY <1>1, <1>2, PTL DEF ReplanSpec

\* The cycles reported are exactly the sets of tasks that reach one another, for any
\* dependencies (_strongly_connected_components).
THEOREM CyclesAreFound == ReplanSpec => []CyclesAreExact
<1>1. CallInv /\ GraphInv => CyclesAreExact
  BY ProperEdges, CyclesFromInv DEF CallInv, GraphInv
<1> QED BY <1>1, GraphInvariance, PTL

\* The latest finish of every task that leads to no cycle is exact, for any durations
\* and limits (backward_timing).
THEOREM LatestFinishIsRight == ReplanSpec => []LatestFinishFollowsStarts
<1>1. CallInv /\ GraphInv => LatestFinishFollowsStarts
  BY LatestFinishFromInv DEF CallInv, GraphInv, InputIsProper
<1> QED BY <1>1, GraphInvariance, PTL

\* The planner's variables have their types.
LEMMA PlannerIsTyped == CallInv /\ GraphInv => PlannerTypeOK
<1> SUFFICES ASSUME CallInv, GraphInv PROVE PlannerTypeOK
  OBVIOUS
<1>1. /\ IndicesAreFresh /\ StackIsSorted /\ WorkIsSorted /\ LowlinksAreReached /\ TimingInv
      /\ InputIsProper /\ PlannerInv
  BY DEF CallInv, GraphInv, TarjanInv
<1>2. phase \in Phases /\ promoted \subseteq Active /\ DOMAIN plans \subseteq Passes
  BY DEF CallInv, PlannerInv, GraphInv
<1>3. ScheduleTypeOK
  BY <1>1, PassIsTyped DEF PlannerInv
<1>4. latestFinish \in [Resolved -> Int] /\ Resolved \cap ToSet(path) = {}
  BY <1>1 DEF TimingInv
<1>5. index \in [Tasks -> 0 .. Cardinality(Tasks)]
  <2>1. IsFiniteSet(Tasks) /\ Discovered \subseteq Tasks
    BY InputAssumption DEF InputAssumption, Discovered
  <2>2. /\ Cardinality(Discovered) <= Cardinality(Tasks)
        /\ Cardinality(Discovered) \in Nat /\ Cardinality(Tasks) \in Nat
    BY <2>1, FS_Subset, FS_CardinalityType
  <2>3. ASSUME NEW t \in Tasks PROVE index[t] \in 0 .. Cardinality(Tasks)
    <3>1. index[t] \in Nat
      BY <1>1 DEF IndicesAreFresh
    <3>2. t \in Discovered \/ index[t] = 0
      BY DEF Discovered
    <3>3. t \in Discovered => index[t] <= Cardinality(Discovered)
      BY <1>1 DEF IndicesAreFresh
    <3> QED BY <2>2, <3>1, <3>2, <3>3
  <2> QED BY <1>1, <2>3 DEF IndicesAreFresh
<1>6. \A t \in Tasks : lowlink[t] <= index[t]
  BY <1>1 DEF LowlinksAreReached
<1>7. lowlink \in [Tasks -> 0 .. Cardinality(Tasks)]
  <2>1. Cardinality(Tasks) \in Nat
    BY InputAssumption, FS_CardinalityType DEF InputAssumption
  <2>2. ASSUME NEW t \in Tasks PROVE lowlink[t] \in 0 .. Cardinality(Tasks)
    <3>1. lowlink[t] \in Nat /\ index[t] \in 0 .. Cardinality(Tasks)
      BY <1>1, <1>5 DEF LowlinksAreReached
    <3> QED BY <1>6, <2>1, <3>1
  <2> QED BY <1>1, <2>2 DEF LowlinksAreReached
<1>8. ToSet(stack) \subseteq Discovered /\ components \subseteq SUBSET Discovered
  BY <1>1 DEF StackIsSorted, OnStack, Completed
<1>9. {w.node : w \in ToSet(work)} \subseteq ToSet(stack)
  BY <1>1 DEF WorkIsSorted, OnStack, ToSet
<1> QED BY <1>2, <1>3, <1>4, <1>5, <1>6, <1>7, <1>8, <1>9 DEF PlannerTypeOK

\* The variables of the planner have their types in every call.
THEOREM PlannerIsTypeCorrect == ReplanSpec => []PlannerTypeOK
BY GraphInvariance, PlannerIsTyped, PTL
=============================================================================
