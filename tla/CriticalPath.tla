---------------------------- MODULE CriticalPath ----------------------------
(***************************************************************************)
(* The backward timing of the tasks (graph/critical_path.py): the latest   *)
(* finish of every task, computed by a depth-first search with a memo over *)
(* the start dependencies, and the latest start derived from it.           *)
(***************************************************************************)
EXTENDS PlannerInput, Sequences, SequencesExt, FiniteSetsExt

CONSTANT
    Horizon         \* horizon_end_utc

ASSUME TimingAssumption == Horizon \in Int

VARIABLES
    latestFinish,   \* the memo: a function on the tasks resolved so far
    path            \* the tasks being resolved, each called by the one before

timingVars == <<latestFinish, path>>

TimingInit ==
    /\ latestFinish = <<>>
    /\ path = <<>>

Resolved == DOMAIN latestFinish

\* The limits of a task itself: the horizon, its deadline, and its
\* milestone's deadline less the buffer reserved before it.
OwnLimit(t) ==
    LET m == input.milestone[t]
    IN  Min({Horizon, input.deadline[t]} \cup
            (IF m = NoMilestone \/ Limit(m) = Never THEN {}
             ELSE {Limit(m) - input.buffer[m]}))

\* Mutant of StartLimit: the duration of the successor is forgotten.
StartLimitAtFinish(s) == IF s \in Resolved THEN latestFinish[s] ELSE Horizon

\* When a successor must start; one that is being resolved is on a cycle
\* with its predecessor and counts as finishing at the horizon.
StartLimit(s) ==
    (IF s \in Resolved THEN latestFinish[s] ELSE Horizon) - input.safety[s]

\* The successors a task still has to resolve.
ToResolve(t) == (ActiveSuccessors(t) \ Resolved) \ ToSet(path)

Call ==
    LET next == IF path = <<>> THEN Tasks \ Resolved ELSE ToResolve(Last(path))
    IN  /\ next # {}
        /\ path' = Append(path, Min(next))
        /\ UNCHANGED latestFinish

Return ==
    /\ path # <<>>
    /\ LET t == Last(path)
       IN  /\ ToResolve(t) = {}
           /\ latestFinish' =
                  [u \in Resolved \cup {t} |->
                      IF u = t
                      THEN Min({OwnLimit(t)} \cup {StartLimit(s) : s \in ActiveSuccessors(t)})
                      ELSE latestFinish[u]]
    /\ path' = Front(path)

TimingNext == Call \/ Return

TimingDone == path = <<>> /\ Tasks \subseteq Resolved

MustStartBy(t) == latestFinish[t] - input.safety[t]

UnlockCount(t) == IF t \in Active THEN Cardinality(ActiveSuccessors(t)) ELSE 0
-----------------------------------------------------------------------------
\* The chains of tasks, each waiting for the one before, that start with t;
\* all but the first are active.
ChainsFrom(t) ==
    {c \in BoundedSeq(Tasks, Cardinality(Tasks) + 1) :
        /\ c # <<>>
        /\ c[1] = t
        /\ \A i \in 1 .. Len(c) - 1 : c[i + 1] \in ActiveSuccessors(c[i])}

\* No chain from t comes back to a task it has visited.
LeadsToNoCycle(t) == \A c \in ChainsFrom(t) : \A i, j \in DOMAIN c : c[i] = c[j] => i = j

\* The time the rest of a chain takes.
AfterFirst(c) == SumFunctionOnSet([i \in DOMAIN c |-> input.safety[c[i]]], 2 .. Len(c))

(***************************************************************************)
(* Over the start dependencies the latest finish of a task is exact:       *)
(* finishing then, every chain of work that waits for it to start can      *)
(* still be done within the last task's limits, and finishing any later    *)
(* breaks a limit (backward_timing).  Completion dependencies are not      *)
(* followed, as the planner specification (6.4) says they should be.       *)
(* Tasks that lead to a cycle have no such instant and are left out.       *)
(***************************************************************************)
LatestFinishFollowsStarts ==
    TimingDone =>
        \A t \in Tasks : LeadsToNoCycle(t) =>
            latestFinish[t] = Min({OwnLimit(Last(c)) - AfterFirst(c) : c \in ChainsFrom(t)})
=============================================================================
