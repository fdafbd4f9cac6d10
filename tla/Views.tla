------------------------------- MODULE Views --------------------------------
(***************************************************************************)
(* The read models of the browser (views/queries.py), while plans are      *)
(* created and canonical rows change.  A request runs its statements one   *)
(* after the other in a READ COMMITTED session of its own: each sees what  *)
(* is committed by then.  Between two lists no row is held on to, so that  *)
(* a task that two lists of one response show is loaded twice.             *)
(***************************************************************************)
EXTENDS PlanSnapshots, Sequences

CONSTANTS Readers       \* browsers, with one request at a time each

VARIABLES
    request,            \* reader -> its request: statements to run, what was read
    shown               \* reader -> the newest it has been shown by its last answer

viewVars == <<vars, request, shown>>

\* Mutant of TodayReads: the tasks are read before the plan that lists them.
TodayReadsTasksFirst == <<"workspace", "tasks", "plan", "events", "tasks", "tasks", "tasks">>

\* The statements of each view read the current plan, or rows of some table.
\* today_view has _ordered_tasks for the core outcome, must_do, queue and not_today.
TodayReads == <<"workspace", "plan", "events", "tasks", "tasks", "tasks", "tasks">>

InboxReads == <<"candidates">>

\* _project_rows, which projects_view and project_detail_view share.
ProjectRowsReads == <<"workstreams", "milestones", "tasks", "plan">>

ProjectDetailReads == Append(ProjectRowsReads, "dependencies")

CalendarReads == <<"events", "connections", "plan", "tasks">>

ReviewReads == <<"workspace", "plan", "sessions", "proposals">>

Statements == [today    |-> TodayReads,
               inbox    |-> InboxReads,
               projects |-> ProjectRowsReads,
               detail   |-> ProjectDetailReads,
               calendar |-> CalendarReads,
               review   |-> ReviewReads]

NoRequest == [view |-> "none"]

\* What has been read: the current plan with the plans that existed then, the
\* oldest and the newest state of rows, and the oldest of tasks.
NothingRead == [plan |-> None, known |-> {}, oldest |-> MaxEdits, newest |-> 0,
                tasks |-> MaxEdits]

NothingShown == [planned |-> FALSE, plan |-> None, known |-> {}, rows |-> 0]

ViewsInit ==
    /\ Init
    /\ request = [r \in Readers |-> NoRequest]
    /\ shown = [r \in Readers |-> NothingShown]

BeginView(r, view) ==
    /\ request[r] = NoRequest
    /\ request' = [request EXCEPT ![r] = [view |-> view, todo |-> Statements[view],
                                          read |-> NothingRead]]
    /\ UNCHANGED <<vars, shown>>

Existing == {p \in Plans : plan[p].exists}

\* Mutant of ShownPlans: the filter on is_current is missing.
ShownPlansOfAnyAge == Existing

ShownPlans == CurrentPlans

RowsRead(read, table) ==
    [read EXCEPT !.oldest = IF canonical < @ THEN canonical ELSE @,
                 !.newest = IF canonical > @ THEN canonical ELSE @,
                 !.tasks  = IF table = "tasks" /\ canonical < @ THEN canonical ELSE @]

ToRead(r) == Head(request[r].todo)

Proceed(r, read, todo) ==
    request' = [request EXCEPT ![r] = [view |-> @.view, todo |-> todo, read |-> read]]

\* Without a plan, today_view has no tasks to read.
ReadPlan(r) ==
    /\ request[r] # NoRequest
    /\ request[r].todo # <<>>
    /\ ToRead(r) = "plan"
    /\ \E p \in IF ShownPlans = {} THEN {None} ELSE ShownPlans :
          Proceed(r, [request[r].read EXCEPT !.plan = p, !.known = Existing],
                  IF request[r].view = "today" /\ p = None THEN <<"events">>
                                                           ELSE Tail(request[r].todo))
    /\ UNCHANGED <<vars, shown>>

ReadTable(r) ==
    /\ request[r] # NoRequest
    /\ request[r].todo # <<>>
    /\ ToRead(r) # "plan"
    /\ Proceed(r, RowsRead(request[r].read, ToRead(r)), Tail(request[r].todo))
    /\ UNCHANGED <<vars, shown>>

HasRead(r) == request[r] # NoRequest /\ request[r].todo = <<>>

\* Every view but the inbox looks for a plan.
IsPlanned(r) == request[r].view # "inbox"

Respond(r) ==
    /\ HasRead(r)
    /\ LET read == request[r].read
       IN  shown' = [shown EXCEPT ![r] = [planned |-> IsPlanned(r), plan |-> read.plan,
                                          known |-> read.known, rows |-> read.newest]]
    /\ request' = [request EXCEPT ![r] = NoRequest]
    /\ UNCHANGED vars

\* An unknown workstream, or an error.
RespondWithError(r) ==
    /\ request[r] # NoRequest
    /\ request' = [request EXCEPT ![r] = NoRequest]
    /\ UNCHANGED <<vars, shown>>

ViewsNext ==
    \/ Next /\ UNCHANGED <<request, shown>>
    \/ \E r \in Readers :
          \/ \E view \in DOMAIN Statements : BeginView(r, view)
          \/ ReadPlan(r) \/ ReadTable(r) \/ Respond(r) \/ RespondWithError(r)

ViewsSpec == ViewsInit /\ [][ViewsNext]_viewVars
-----------------------------------------------------------------------------
(***************************************************************************)
(* Today and the calendar never show a task as it was before the plan they *)
(* are drawn from was made: the version a browser sends back with a change *)
(* is at least as new as what the planner has seen (today_view,            *)
(* calendar_view; the project views read tasks first and promise no such   *)
(* thing).                                                                 *)
(***************************************************************************)
TasksFollowTheirPlan ==
    \A r \in Readers :
        HasRead(r) /\ request[r].view \in {"today", "calendar"} =>
            LET read == request[r].read
            IN  read.plan # None => read.tasks >= plan[read.plan].input

(***************************************************************************)
(* From one answer to the next a browser never goes back: no view shows a  *)
(* plan or rows older than what the view before has shown, and none is     *)
(* without a plan when the one before had it, however plans are replaced   *)
(* meanwhile (the views read the one row with is_current).                 *)
(***************************************************************************)
ViewsNeverGoBack ==
    \A r \in Readers :
        HasRead(r) =>
            LET read == request[r].read
            IN  /\ read.oldest >= shown[r].rows
                /\ IsPlanned(r) /\ shown[r].planned =>
                      \/ read.plan = shown[r].plan
                      \/ read.plan \notin shown[r].known \cup {None}
=============================================================================
