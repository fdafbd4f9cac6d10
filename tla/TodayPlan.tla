------------------------------ MODULE TodayPlan ------------------------------
(***************************************************************************)
(* The view of today that is derived from the base pass (today.py).        *)
(***************************************************************************)
EXTENDS Planner

CONSTANT MustDoLimit    \* 3

ASSUME TodayAssumption == MustDoLimit \in Nat

AllocatedToday(t) ==
    {a \in plans["base"].allocations : a.job = t /\ LocalDay(a.start) = LocalDay(input.now)}

MinutesToday(t) == Minutes(AllocatedToday(t))

\* The active tasks that get all the time they still need today.
DoneToday ==
    {t \in Active : MinutesToday(t) > 0 /\ MinutesToday(t) >= input.remainingBase[t]}

PartlyToday ==
    {t \in Active : MinutesToday(t) > 0 /\ MinutesToday(t) < input.remainingBase[t]}

NotToday == {t \in Active : MinutesToday(t) <= 0}

\* When the base pass starts a task.  An allocation kept from the earlier
\* plan carries another object for the same task, and is not recognised.
StartKey(t) ==
    Min({Never} \cup {a.start : a \in {b \in plans["base"].allocations : b.job = t /\ ~Kept(b)}})

\* Mutant of StartsBefore: in the order of the identifiers.
ComesBefore(s, t) == s < t

StartsBefore(s, t) == StartKey(s) < StartKey(t) \/ (StartKey(s) = StartKey(t) /\ s < t)

MustDo ==
    [i \in 1 .. Min({MustDoLimit, Cardinality(DoneToday)}) |->
        CHOOSE t \in DoneToday : Cardinality({s \in DoneToday : StartsBefore(s, t)}) = i - 1]

Today == [mustDo |-> MustDo, nextQueue |-> PartlyToday, excluded |-> NotToday]
=============================================================================
