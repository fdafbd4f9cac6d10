---------------------------- MODULE TaskRecords ----------------------------
(***************************************************************************)
(* The rows of the tasks table and everything that writes them while a     *)
(* proposal may be bound to one of their versions: PATCH /tasks, the task  *)
(* transition command, and the work sessions of the analytics service.     *)
(*                                                                         *)
(* Handlers run concurrently under READ COMMITTED.  A client reads a task, *)
(* then sends a command that carries the version it saw; the transition    *)
(* handler reads the row once more, without a lock, before it writes.  A   *)
(* versioned write is UPDATE ... WHERE version = expected, atomic with its *)
(* audit event.  A work session loads the row, computes from what it read  *)
(* and writes by primary key; the ORM emits only the columns that differ   *)
(* from the loaded ones.                                                   *)
(***************************************************************************)
EXTENDS Naturals, TaskStateMachine

CONSTANTS
    Tasks,
    Titles,
    Handlers,           \* requests being served at the same time
    InitialStatuses,    \* statuses tasks start with
    MaxCommits,         \* bound of the model: committed writes per task
    None

ASSUME BoundAssumption == MaxCommits \in Nat
ASSUME StatusAssumption == InitialStatuses \subseteq Statuses
ASSUME TitleAssumption == None \notin Titles /\ Titles \cap Statuses = {}
ASSUME TaskAssumption == None \notin Tasks

VARIABLES
    task,               \* committed row of each task
    session,            \* status of the work session of each task
    audit,              \* per task: number of audit events and the last one
    commits,            \* history: committed writes of each task
    handler             \* what each request handler is doing

taskVars == <<task, session, audit, commits, handler>>

Rows == [version : 1..(MaxCommits + 1), title : Titles, status : Statuses,
         base : 0..1, safety : 0..1, reason : BOOLEAN]

\* before and after of an event: a title or a status, None when left out.
AuditTails == [count : 0..MaxCommits, before : Titles \cup Statuses \cup {None},
               after : Titles \cup Statuses \cup {None}]

SessionStatuses == {"none", "RUNNING", "PARTIAL", "COMPLETED", "BLOCKED"}

\* A versioned command: the client's version and, as history, how many writes
\* had been committed when the client read it.
Versioned == {"command", "transition"}

Idle == [op |-> "idle"]
Jobs ==
    {Idle}
    \cup [op : {"command"}, task : Tasks, expected : 1..(MaxCommits + 1),
          basis : 0..MaxCommits]
    \cup [op : {"transition"}, task : Tasks, expected : 1..(MaxCommits + 1),
          basis : 0..MaxCommits, seen : Rows]
    \cup [op : {"session"}, task : Tasks, seen : Rows]

TaskTypeOK ==
    /\ task \in [Tasks -> Rows]
    /\ session \in [Tasks -> SessionStatuses]
    /\ audit \in [Tasks -> AuditTails]
    /\ commits \in [Tasks -> 0..MaxCommits]
    /\ handler \in [Handlers -> Jobs]

NewRow(status, title) ==
    LET work == IF status \in Terminal THEN 0 ELSE 1
    IN  [version |-> 1, title |-> title, status |-> status, base |-> work,
         safety |-> work, reason |-> status = "waiting"]

TaskInit ==
    /\ \E status \in [Tasks -> InitialStatuses], title \in [Tasks -> Titles] :
          task = [t \in Tasks |-> NewRow(status[t], title[t])]
    /\ session = [t \in Tasks |-> "none"]
    /\ audit = [t \in Tasks |-> [count |-> 0, before |-> None, after |-> None]]
    /\ commits = [t \in Tasks |-> 0]
    /\ handler = [h \in Handlers |-> Idle]

---------------------------------------------------------------------------
(* Writing a task.                                                         *)

WriteTask(t, row) ==
    /\ commits[t] < MaxCommits
    /\ RowAllowed(row)
    /\ task' = [task EXCEPT ![t] = row]
    /\ commits' = [commits EXCEPT ![t] = @ + 1]

AppendAudit(t, before, after) ==
    audit' = [audit EXCEPT ![t] = [count |-> @.count + 1, before |-> before,
                                   after |-> after]]

Finish(h) == handler' = [handler EXCEPT ![h] = Idle]

\* Mutant of WriteVersioned: the version is left out of the WHERE clause.
WriteUnconditionally(t, expected, row) ==
    WriteTask(t, [row EXCEPT !.version = task[t].version + 1])

\* update_with_version: no row matches unless the version is still the
\* expected one, and the matching row's version goes up by one.
WriteVersioned(t, expected, row) ==
    /\ task[t].version = expected
    /\ WriteTask(t, [row EXCEPT !.version = task[t].version + 1])

\* The unit of work of a loaded object: columns whose value is not the loaded
\* one are written, the others keep what the table has by now.
WriteDirty(t, seen, new) ==
    WriteTask(t, [f \in DOMAIN new |-> IF new[f] # seen[f] THEN new[f]
                                                           ELSE task[t][f]])

---------------------------------------------------------------------------
(* Handlers.                                                               *)

\* A client has read the task and submits a command on what it saw.
Submit(h, t) ==
    /\ handler[h] = Idle
    /\ handler' = [handler EXCEPT ![h] =
          [op |-> "command", task |-> t, expected |-> task[t].version,
           basis |-> commits[t]]]
    /\ UNCHANGED <<task, session, audit, commits>>

\* PATCH /tasks/{id}.  The row read before the update and the row the update
\* returns are one object of the session, so by the time the audit event is
\* built its "before" is the new title; a request without a title changes the
\* version alone.
Patch(h, title) ==
    /\ handler[h].op = "command"
    /\ LET t == handler[h].task
           new == IF title = None THEN task[t].title ELSE title
       IN  /\ WriteVersioned(t, handler[h].expected, [task[t] EXCEPT !.title = new])
           /\ AppendAudit(t, new, title)
    /\ Finish(h)
    /\ UNCHANGED session

\* transition_task, first statement: the snapshot, read without a lock.
LoadSnapshot(h) ==
    /\ handler[h].op = "command"
    /\ handler' = [handler EXCEPT ![h] =
          [op |-> "transition", task |-> @.task, expected |-> @.expected,
           basis |-> @.basis, seen |-> task[@.task]]]
    /\ UNCHANGED <<task, session, audit, commits>>

\* transition_task, the rest: the state machine judges the snapshot, the four
\* columns it computed are written if the version is the expected one.
Transition(h, target) ==
    /\ handler[h].op = "transition"
    /\ LET t == handler[h].task
           seen == handler[h].seen
           new == Transitioned(seen, target)
       IN  /\ CanTransition(seen, target)
           /\ WriteVersioned(t, handler[h].expected,
                 [task[t] EXCEPT !.status = new.status, !.reason = new.reason,
                                 !.base = new.base, !.safety = new.safety])
           /\ AppendAudit(t, seen.status, new.status)
    /\ Finish(h)
    /\ UNCHANGED session

\* Not found, stale version, forbidden transition, violated CHECK, a lost
\* connection: the transaction is rolled back and nothing is written.
Abandon(h) ==
    /\ handler[h] # Idle
    /\ Finish(h)
    /\ UNCHANGED <<task, session, audit, commits>>

VersionedCommand(h) ==
    \/ \E t \in Tasks : Submit(h, t)
    \/ \E title \in Titles \cup {None} : Patch(h, title)
    \/ LoadSnapshot(h)
    \/ \E target \in Statuses : Transition(h, target)
    \/ Abandon(h)

---------------------------------------------------------------------------
(* Work sessions (analytics): no version is asked for, no event appended.  *)

StartSession(t) ==
    /\ session[t] = "none"
    /\ session' = [session EXCEPT ![t] = "RUNNING"]
    /\ UNCHANGED <<task, audit, commits, handler>>

BlockSession(t) ==
    /\ session[t] # "none"
    /\ session' = [session EXCEPT ![t] = "BLOCKED"]
    /\ UNCHANGED <<task, audit, commits, handler>>

\* complete and partial_complete load the record and its task first.
LoadSession(h, t) ==
    /\ handler[h] = Idle
    /\ session[t] # "none"
    /\ handler' = [handler EXCEPT ![h] =
          [op |-> "session", task |-> t, seen |-> task[t]]]
    /\ UNCHANGED <<task, session, audit, commits>>

CompleteSession(h) ==
    /\ handler[h].op = "session"
    /\ LET t == handler[h].task
           seen == handler[h].seen
       IN  /\ WriteDirty(t, seen, [seen EXCEPT !.base = 0, !.safety = 0,
                                       !.status = "done", !.version = @ + 1])
           /\ session' = [session EXCEPT ![t] = "COMPLETED"]
    /\ Finish(h)
    /\ UNCHANGED audit

PartialSession(h, remaining) ==
    /\ handler[h].op = "session"
    /\ LET t == handler[h].task
           seen == handler[h].seen
       IN  /\ WriteDirty(t, seen, [seen EXCEPT !.base = remaining,
                                       !.version = @ + 1])
           /\ session' = [session EXCEPT ![t] = "PARTIAL"]
    /\ Finish(h)
    /\ UNCHANGED audit

WorkSession(h) ==
    \/ \E t \in Tasks : LoadSession(h, t)
    \/ CompleteSession(h)
    \/ \E remaining \in 0..1 : PartialSession(h, remaining)

---------------------------------------------------------------------------
\* The writers that take part in optimistic concurrency control.
VersionedNext == \E h \in Handlers : VersionedCommand(h)

\* All writers.
TaskNext ==
    \/ VersionedNext
    \/ \E h \in Handlers : WorkSession(h)
    \/ \E t \in Tasks : StartSession(t) \/ BlockSession(t)

VersionedSpec == TaskInit /\ [][VersionedNext]_taskVars
TaskSpec == TaskInit /\ [][TaskNext]_taskVars

---------------------------------------------------------------------------
\* A version names one committed state of the task: it counts its writes.
VersionCountsCommits == \A t \in Tasks : task[t].version = commits[t] + 1

\* Every accepted change of a task has its audit event.
EveryWriteAudited == \A t \in Tasks : audit[t].count = commits[t]

Committed(h) == handler[h] # Idle /\ handler'[h] = Idle /\ commits' # commits

\* A versioned command that is accepted was decided on the latest committed
\* state of its task: nothing was committed since its client read it.
NoLostUpdate ==
    [][\A h \in Handlers : handler[h].op \in Versioned /\ Committed(h) =>
          handler[h].basis = commits[handler[h].task]]_taskVars

\* Whatever the interleaving of unlocked snapshots and writes, the status of a
\* task moves along the transition table.
StatusFollowsTable ==
    [][\A t \in Tasks : task'[t].status # task[t].status =>
          task'[t].status \in Allowed[task[t].status]]_taskVars

\* The audit event of a transition records the status the task really had.
TransitionAuditIsTrue ==
    [][\A h \in Handlers : handler[h].op = "transition" /\ Committed(h) =>
          LET t == handler[h].task
          IN  audit'[t].before = task[t].status /\ audit'[t].after = task'[t].status]_taskVars

============================================================================
