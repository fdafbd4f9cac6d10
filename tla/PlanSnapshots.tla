--------------------------- MODULE PlanSnapshots ---------------------------
(***************************************************************************)
(* The plan history of one workspace: PlanningService.create_plan, called  *)
(* by concurrent requests and jobs, each in a READ COMMITTED session.      *)
(*                                                                         *)
(* A call reads the canonical rows, then the current plan as the baseline  *)
(* to replan from, runs the planner, reads the current plan again to       *)
(* supersede it, and commits.  Between any two of these, other calls       *)
(* commit and the canonical rows change.  A partial unique index allows    *)
(* one current row.                                                        *)
(***************************************************************************)
EXTENDS Naturals

CONSTANTS
    Callers,            \* create_plan calls in progress at the same time
    Plans,              \* ids of plan snapshots
    MaxEdits,           \* bound of the model: changes of canonical rows
    None

ASSUME PlanAssumption == None \notin Plans
ASSUME EditAssumption == MaxEdits \in Nat

VARIABLES
    canonical,          \* state of tasks, milestones, calendar...: a counter
    plan,               \* rows of plan_snapshots
    caller              \* what each call has read so far

vars == <<canonical, plan, caller>>

NoPlan == [exists |-> FALSE, current |-> FALSE, input |-> 0]

NoCall == [stage |-> "idle", input |-> 0, baseline |-> None, previous |-> None]

Init ==
    /\ canonical = 0
    /\ plan = [p \in Plans |-> NoPlan]
    /\ caller = [c \in Callers |-> NoCall]

---------------------------------------------------------------------------
\* Tasks, milestones, dependencies or events change.
Edit ==
    /\ canonical < MaxEdits
    /\ canonical' = canonical + 1
    /\ UNCHANGED <<plan, caller>>

CurrentPlans == {p \in Plans : plan[p].current}

\* latest_valid_plan: the newest current row, or None.
LatestValid(p) == IF CurrentPlans = {} THEN p = None ELSE p \in CurrentPlans

Advance(c, row) == caller' = [caller EXCEPT ![c] = row]

\* _build_planner_input: the canonical rows (one statement stands for all).
ReadRows(c) ==
    /\ caller[c].stage = "idle"
    /\ Advance(c, [NoCall EXCEPT !.stage = "reading", !.input = canonical])
    /\ UNCHANGED <<canonical, plan>>

\* ... and the plan to replan from.
ReadBaseline(c) ==
    /\ caller[c].stage = "reading"
    /\ \E p \in Plans \cup {None} :
          LatestValid(p) /\ Advance(c, [caller[c] EXCEPT !.stage = "planning",
                                                         !.baseline = p])
    /\ UNCHANGED <<canonical, plan>>

\* normalize_and_validate refuses the input: nothing is written.
Reject(c) ==
    /\ caller[c].stage = "planning"
    /\ Advance(c, NoCall)
    /\ UNCHANGED <<canonical, plan>>

\* The planner has run; the current plan is read again, to be superseded.
ReadCurrent(c) ==
    /\ caller[c].stage = "planning"
    /\ \E p \in Plans \cup {None} :
          LatestValid(p) /\ Advance(c, [caller[c] EXCEPT !.stage = "committing",
                                                         !.previous = p])
    /\ UNCHANGED <<canonical, plan>>

\* Mutant of IndexAllows: without the partial unique index.
IndexMissing(new, rows) == rows[new].exists

\* uq_plan_snapshots_one_current_per_workspace.
IndexAllows(new, rows) == \A p \in Plans \ {new} : ~rows[p].current

Superseded(rows, previous) ==
    [p \in Plans |-> IF p = previous THEN [rows[p] EXCEPT !.current = FALSE]
                                     ELSE rows[p]]

\* One transaction: is_current of the plan that was read is cleared, the new
\* snapshot inserted, if the index allows it.
Commit(c, new) ==
    /\ caller[c].stage = "committing"
    /\ ~plan[new].exists
    /\ plan' = [Superseded(plan, caller[c].previous) EXCEPT
                   ![new] = [exists |-> TRUE, current |-> TRUE,
                             input |-> caller[c].input]]
    /\ IndexAllows(new, plan')
    /\ Advance(c, NoCall)
    /\ UNCHANGED canonical

\* An IntegrityError, a lost connection or a crash rolls the call back.
Abort(c) ==
    /\ caller[c].stage # "idle"
    /\ Advance(c, NoCall)
    /\ UNCHANGED <<canonical, plan>>

CreatePlan(c) ==
    \/ ReadRows(c) \/ ReadBaseline(c) \/ Reject(c) \/ ReadCurrent(c) \/ Abort(c)
    \/ \E new \in Plans : Commit(c, new)

Next == Edit \/ \E c \in Callers : CreatePlan(c)

Spec == Init /\ [][Next]_vars

---------------------------------------------------------------------------
AnyPlan == \E p \in Plans : plan[p].exists

\* However many calls race, fail or are interrupted, a workspace with plans has
\* exactly one current one: a call supersedes the plan it read as current, not the
\* one that is current by then (_create_plan).
OneCurrentPlan ==
    AnyPlan => \E p \in Plans : CurrentPlans = {p}
============================================================================
