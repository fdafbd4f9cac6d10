-------------------------- MODULE ApprovalsProofs --------------------------
(***************************************************************************)
(* Theorems about the versioned writers of TaskRecords, for any tasks,     *)
(* titles and number of concurrent requests: optimistic concurrency is     *)
(* enough although the transition command judges an unlocked snapshot.     *)
(*                                                                         *)
(* Below, about the proposals that are decided while those write:          *)
(* proposals are decided once, and executed as shown, for any number of    *)
(* proposals, tasks, deciders and concurrent writers of the tasks.         *)
(***************************************************************************)
EXTENDS Approvals, TLAPS

\* What a request in progress knows: the version it expects is the one its
\* client read; a snapshot is not older than that, and as long as the version
\* of the task is still that of the snapshot, so is the whole row.
KnowledgeIsSound ==
    \A h \in Handlers :
        /\ handler[h].op \in {"idle", "command", "transition"}
        /\ handler[h].op \in Versioned =>
              /\ handler[h].expected = handler[h].basis + 1
              /\ handler[h].expected <= task[handler[h].task].version
        /\ handler[h].op = "transition" =>
              LET seen == handler[h].seen
                  row == task[handler[h].task]
              IN  /\ handler[h].expected <= seen.version
                  /\ seen.version <= row.version
                  /\ seen.version = row.version => seen = row

\* Audit events are appended with writes only.
AuditsAreOfWrites == \A t \in Tasks : audit[t].count <= commits[t]

TInv ==
    /\ TaskTypeOK
    /\ VersionCountsCommits
    /\ AuditsAreOfWrites
    /\ KnowledgeIsSound

---------------------------------------------------------------------------
\* What the handler of a request is, by its kind.
LEMMA JobFields ==
    ASSUME TaskTypeOK, NEW h \in Handlers
    PROVE  /\ handler[h] = Idle => handler[h].op = "idle"
           /\ handler[h].op \in Versioned =>
                 /\ handler[h].task \in Tasks
                 /\ handler[h].expected \in 1..(MaxCommits + 1)
                 /\ handler[h].basis \in 0..MaxCommits
           /\ handler[h].op = "transition" => handler[h].seen \in Rows
  <1> DEFINE job == handler[h]
             Fields == /\ job.task \in Tasks
                       /\ job.expected \in 1..(MaxCommits + 1)
                       /\ job.basis \in 0..MaxCommits
  <1>1. job \in Jobs
    BY DEF TaskTypeOK
  <1>2. CASE job = Idle
    BY <1>2 DEF Idle, Versioned
  <1>3. CASE job \in [op : {"command"}, task : Tasks,
                      expected : 1..(MaxCommits + 1), basis : 0..MaxCommits]
    <2>1. job.op = "command" /\ Fields
      BY <1>3
    <2>2. job # Idle
      BY <2>1 DEF Idle
    <2> QED
      BY <2>1, <2>2
  <1>4. CASE job \in [op : {"transition"}, task : Tasks,
                      expected : 1..(MaxCommits + 1), basis : 0..MaxCommits, seen : Rows]
    <2>1. job.op = "transition" /\ Fields /\ job.seen \in Rows
      BY <1>4
    <2>2. job # Idle
      BY <2>1 DEF Idle
    <2> QED
      BY <2>1, <2>2
  <1>5. CASE job \in [op : {"session"}, task : Tasks, seen : Rows]
    <2>1. job.op = "session"
      BY <1>5
    <2> QED
      BY <2>1 DEF Versioned, Idle
  <1> QED
    BY <1>1, <1>2, <1>3, <1>4, <1>5 DEF Jobs

\* The transition function keeps rows well-formed and follows the table.
LEMMA TransitionedRow ==
    ASSUME NEW row \in Rows, NEW target \in Statuses
    PROVE  /\ Transitioned(row, target) \in Rows
           /\ Transitioned(row, target).status = target
  <1> DEFINE reason == target = "waiting" \/ (row.reason /\ row.status # "waiting")
             base == IF target = "cancelled" THEN 0 ELSE row.base
             safety == IF target = "cancelled" THEN 0 ELSE row.safety
  <1>1. reason \in BOOLEAN
    OBVIOUS
  <1>2. base \in 0..1 /\ safety \in 0..1
    BY DEF Rows
  <1>3. Transitioned(row, target) =
           [row EXCEPT !.status = target, !.reason = reason, !.base = base,
                       !.safety = safety]
    BY DEF Transitioned
  <1> HIDE DEF reason, base, safety
  <1> QED
    BY <1>1, <1>2, <1>3 DEF Rows

\* The table only leads to statuses.
LEMMA AllowedStatuses == \A s \in Statuses : Allowed[s] \subseteq Statuses
  BY DEF Allowed, Statuses

\* Initially tasks are at version 1 and nobody is served.
LEMMA InitTInv == TaskInit => TInv
  <1> SUFFICES ASSUME TaskInit PROVE TInv
    OBVIOUS
  <1> USE BoundAssumption
  <1>1. PICK status \in [Tasks -> InitialStatuses], title \in [Tasks -> Titles] :
           task = [t \in Tasks |-> NewRow(status[t], title[t])]
    BY DEF TaskInit
  <1>2. \A t \in Tasks : status[t] \in Statuses /\ title[t] \in Titles
    BY StatusAssumption
  <1>3. \A s \in Statuses, n \in Titles : NewRow(s, n) \in Rows /\ NewRow(s, n).version = 1
    BY DEF NewRow, Rows
  <1>4. task \in [Tasks -> Rows] /\ \A t \in Tasks : task[t].version = 1
    BY <1>1, <1>2, <1>3
  <1>5. audit \in [Tasks -> AuditTails] /\ commits \in [Tasks -> 0..MaxCommits]
    BY DEF TaskInit, AuditTails
  <1>6. handler \in [Handlers -> Jobs] /\ session \in [Tasks -> SessionStatuses]
    BY DEF TaskInit, Jobs, SessionStatuses
  <1>7. TaskTypeOK
    BY <1>4, <1>5, <1>6 DEF TaskTypeOK
  <1>8. VersionCountsCommits /\ AuditsAreOfWrites
    BY <1>4 DEF TaskInit, VersionCountsCommits, AuditsAreOfWrites
  <1>9. KnowledgeIsSound
    BY DEF TaskInit, Idle, KnowledgeIsSound, Versioned
  <1> QED
    BY <1>7, <1>8, <1>9 DEF TInv

\* A request that ends without a write.
LEMMA AbandonTInv ==
    ASSUME TInv, NEW h \in Handlers, Abandon(h)
    PROVE  TInv'
  <1> USE DEF TInv, Abandon, Finish
  <1>1. TaskTypeOK'
    BY DEF TaskTypeOK, Jobs
  <1>2. VersionCountsCommits' /\ AuditsAreOfWrites'
    BY DEF VersionCountsCommits, AuditsAreOfWrites
  <1>3. KnowledgeIsSound'
    BY DEF KnowledgeIsSound, TaskTypeOK, Idle, Versioned
  <1> QED
    BY <1>1, <1>2, <1>3

\* A client submits a command on the version it just read.
LEMMA SubmitTInv ==
    ASSUME TInv, NEW h \in Handlers, NEW t \in Tasks, Submit(h, t)
    PROVE  TInv'
  <1> USE DEF TInv, Submit
  <1> DEFINE job == [op |-> "command", task |-> t, expected |-> task[t].version,
                     basis |-> commits[t]]
  <1>1. job \in Jobs
    BY DEF TaskTypeOK, Rows, Jobs
  <1>2. TaskTypeOK'
    BY <1>1 DEF TaskTypeOK
  <1>3. VersionCountsCommits' /\ AuditsAreOfWrites'
    BY DEF VersionCountsCommits, AuditsAreOfWrites
  <1>4. /\ job.op = "command"
        /\ job.expected = job.basis + 1
        /\ job.expected <= task[job.task].version
    BY DEF VersionCountsCommits, TaskTypeOK, Rows
  <1>5. KnowledgeIsSound'
    BY <1>4 DEF KnowledgeIsSound, TaskTypeOK, Versioned
  <1> QED
    BY <1>2, <1>3, <1>5

\* The transition command reads its snapshot.
LEMMA LoadTInv ==
    ASSUME TInv, NEW h \in Handlers, LoadSnapshot(h)
    PROVE  TInv'
  <1> USE DEF TInv, LoadSnapshot
  <1> DEFINE old == handler[h]
             job == [op |-> "transition", task |-> old.task, expected |-> old.expected,
                     basis |-> old.basis, seen |-> task[old.task]]
  <1>1. old.op \in Versioned
    BY DEF Versioned
  <1>2. /\ old.task \in Tasks
        /\ old.expected \in 1..(MaxCommits + 1)
        /\ old.basis \in 0..MaxCommits
    BY <1>1, JobFields
  <1>3. task[old.task] \in Rows
    BY <1>2 DEF TaskTypeOK
  <1>4. job \in Jobs
    BY <1>2, <1>3 DEF Jobs
  <1>5. TaskTypeOK'
    BY <1>4 DEF TaskTypeOK
  <1>6. VersionCountsCommits' /\ AuditsAreOfWrites'
    BY DEF VersionCountsCommits, AuditsAreOfWrites
  <1>7. old.expected = old.basis + 1 /\ old.expected <= task[old.task].version
    BY <1>1 DEF KnowledgeIsSound
  <1>8. /\ job.op = "transition"
        /\ job.expected = job.basis + 1
        /\ job.expected <= job.seen.version
        /\ job.seen = task[job.task]
        /\ job.seen.version <= task[job.task].version
    BY <1>2, <1>7 DEF TaskTypeOK, Rows
  <1>9. KnowledgeIsSound'
    BY <1>8 DEF KnowledgeIsSound, TaskTypeOK, Versioned
  <1> QED
    BY <1>5, <1>6, <1>9

\* An accepted versioned write: the version goes up by one, the row keeps its
\* type, and no other request learns anything false from it.
LEMMA WriteTInv ==
    ASSUME TInv, NEW h \in Handlers, NEW t \in Tasks, NEW expected, NEW row \in Rows,
           NEW before \in Titles \cup Statuses \cup {None},
           NEW after \in Titles \cup Statuses \cup {None},
           WriteVersioned(t, expected, row), AppendAudit(t, before, after),
           Finish(h), UNCHANGED session
    PROVE  TInv'
  <1> USE BoundAssumption DEF TInv, WriteVersioned, WriteTask, AppendAudit, Finish
  <1> DEFINE new == [row EXCEPT !.version = task[t].version + 1]
  <1>1. /\ commits[t] \in 0..MaxCommits /\ commits[t] < MaxCommits
        /\ task[t].version = commits[t] + 1
    BY DEF TaskTypeOK, VersionCountsCommits
  <1>2. new \in Rows /\ new.version = task[t].version + 1
    BY <1>1 DEF Rows
  <1>3. task' = [task EXCEPT ![t] = new]
    OBVIOUS
  <1> HIDE DEF new
  <1>4. /\ task' \in [Tasks -> Rows]
        /\ commits' \in [Tasks -> 0..MaxCommits]
        /\ session' \in [Tasks -> SessionStatuses]
        /\ handler' \in [Handlers -> Jobs]
    BY <1>1, <1>2, <1>3 DEF TaskTypeOK, Jobs
  <1>5. audit[t].count \in 0..MaxCommits /\ audit[t].count < MaxCommits
    BY <1>1 DEF AuditsAreOfWrites, TaskTypeOK, AuditTails
  <1>6. audit' \in [Tasks -> AuditTails]
    BY <1>5 DEF TaskTypeOK, AuditTails
  <1>7. TaskTypeOK'
    BY <1>4, <1>6 DEF TaskTypeOK
  <1>8. VersionCountsCommits' /\ AuditsAreOfWrites'
    <2>1. VersionCountsCommits'
      BY <1>1, <1>2, <1>3 DEF TaskTypeOK, VersionCountsCommits
    <2>2. \A s \in Tasks : audit[s].count \in Nat /\ commits[s] \in Nat
      BY DEF TaskTypeOK, AuditTails
    <2>3. /\ audit'[t].count = audit[t].count + 1 /\ commits'[t] = commits[t] + 1
          /\ \A s \in Tasks \ {t} : audit'[s] = audit[s] /\ commits'[s] = commits[s]
      BY DEF TaskTypeOK
    <2>4. AuditsAreOfWrites'
      BY <2>2, <2>3 DEF AuditsAreOfWrites
    <2> QED
      BY <2>1, <2>4
  <1>9. \A s \in Tasks : /\ task[s].version <= task'[s].version
                         /\ task'[s].version = task[s].version => task'[s] = task[s]
    BY <1>1, <1>2, <1>3 DEF TaskTypeOK, Rows
  <1>10. KnowledgeIsSound'
    <2> SUFFICES ASSUME NEW g \in Handlers
                 PROVE  KnowledgeIsSound!(g)'
      BY DEF KnowledgeIsSound
    <2>1. CASE g = h
      BY <2>1 DEF TaskTypeOK, Idle, Versioned
    <2>2. CASE g # h
      <3>1. handler'[g] = handler[g]
        BY <2>2 DEF TaskTypeOK
      <3>2. KnowledgeIsSound!(g)
        BY DEF KnowledgeIsSound
      <3>3. ASSUME handler[g].op \in Versioned
            PROVE  handler[g].expected <= task'[handler[g].task].version
        BY <1>9, <3>2, <3>3, JobFields DEF TaskTypeOK, Rows
      <3> QED
        BY <1>7, <1>9, <3>1, <3>2, <3>3, JobFields DEF TaskTypeOK, Rows, Versioned
    <2> QED
      BY <2>1, <2>2
  <1> QED
    BY <1>7, <1>8, <1>10

\* PATCH writes a title it was given, or the one there is.
LEMMA PatchTInv ==
    ASSUME TInv, NEW h \in Handlers, NEW title \in Titles \cup {None}, Patch(h, title)
    PROVE  TInv'
  <1> DEFINE t == handler[h].task
             new == IF title = None THEN task[t].title ELSE title
  <1>1. t \in Tasks
    BY JobFields DEF Patch, TInv, Versioned
  <1>2. task[t] \in Rows /\ new \in Titles
    BY <1>1 DEF TInv, TaskTypeOK, Rows
  <1>3. [task[t] EXCEPT !.title = new] \in Rows
    BY <1>2 DEF Rows
  <1> QED
    BY <1>1, <1>2, <1>3, WriteTInv DEF Patch

\* What the transition command writes is decided by the row it replaces, even
\* though it was computed from a snapshot taken earlier.
LEMMA SnapshotIsCurrent ==
    ASSUME TInv, NEW h \in Handlers, NEW target \in Statuses, Transition(h, target)
    PROVE  /\ handler[h].task \in Tasks
           /\ handler[h].seen \in Rows
           /\ handler[h].seen = task[handler[h].task]
  <1>1. /\ handler[h].task \in Tasks
        /\ handler[h].expected \in 1..(MaxCommits + 1)
        /\ handler[h].seen \in Rows
    BY JobFields DEF Transition, TInv, Versioned
  <1>2. /\ handler[h].expected <= handler[h].seen.version
        /\ handler[h].seen.version <= task[handler[h].task].version
        /\ handler[h].seen.version = task[handler[h].task].version =>
              handler[h].seen = task[handler[h].task]
    BY DEF Transition, TInv, KnowledgeIsSound
  <1>3. task[handler[h].task].version = handler[h].expected
    BY DEF Transition, WriteVersioned
  <1>4. handler[h].seen.version \in Nat
    BY <1>1 DEF Rows
  <1> QED
    BY <1>1, <1>2, <1>3, <1>4

\* The transition command writes what it computed.
LEMMA TransitionTInv ==
    ASSUME TInv, NEW h \in Handlers, NEW target \in Statuses, Transition(h, target)
    PROVE  TInv'
  <1> DEFINE t == handler[h].task
             seen == handler[h].seen
             new == Transitioned(seen, target)
             row == [task[t] EXCEPT !.status = new.status, !.reason = new.reason,
                                    !.base = new.base, !.safety = new.safety]
  <1>1. t \in Tasks /\ seen \in Rows /\ task[t] \in Rows
    BY SnapshotIsCurrent DEF TInv, TaskTypeOK
  <1>2. new \in Rows
    BY <1>1, TransitionedRow
  <1>3. row \in Rows
    BY <1>1, <1>2 DEF Rows
  <1>4. seen.status \in Statuses /\ new.status \in Statuses
    BY <1>1, <1>2 DEF Rows
  <1>5. /\ WriteVersioned(t, handler[h].expected, row)
        /\ AppendAudit(t, seen.status, new.status)
        /\ Finish(h) /\ UNCHANGED session
    BY DEF Transition
  <1> QED
    BY <1>1, <1>3, <1>4, <1>5, WriteTInv

\* Every step of the versioned writers preserves the invariant.
LEMMA VersionedTInv == TInv /\ [VersionedNext]_taskVars => TInv'
  <1> SUFFICES ASSUME TInv, [VersionedNext]_taskVars PROVE TInv'
    OBVIOUS
  <1>1. CASE VersionedNext
    BY <1>1, SubmitTInv, PatchTInv, LoadTInv, TransitionTInv, AbandonTInv
    DEF VersionedNext, VersionedCommand
  <1>2. CASE UNCHANGED taskVars
    BY <1>2 DEF taskVars, TInv, TaskTypeOK, VersionCountsCommits, AuditsAreOfWrites,
                KnowledgeIsSound
  <1> QED
    BY <1>1, <1>2

---------------------------------------------------------------------------
\* The versioned writers keep TInv.
THEOREM VersionedInvariance == VersionedSpec => []TInv
  <1>1. TaskInit => TInv
    BY InitTInv
  <1>2. TInv /\ [VersionedNext]_taskVars => TInv'
    BY VersionedTInv
  <1> QED
    BY <1>1, <1>2, PTL DEF VersionedSpec

\* Rows, snapshots and requests keep their types.
THEOREM TaskTypeCorrect == VersionedSpec => []TaskTypeOK
  <1>1. TInv => TaskTypeOK
    BY DEF TInv
  <1> QED
    BY <1>1, VersionedInvariance, PTL

\* update_with_version makes a version the name of one committed state.
THEOREM VersionsCount == VersionedSpec => []VersionCountsCommits
  <1>1. TInv => VersionCountsCommits
    BY DEF TInv
  <1> QED
    BY <1>1, VersionedInvariance, PTL

\* A versioned write and its audit event are one step.
LEMMA AuditStep == TInv /\ EveryWriteAudited /\ [VersionedNext]_taskVars => EveryWriteAudited'
  <1> SUFFICES ASSUME TInv, EveryWriteAudited, [VersionedNext]_taskVars, NEW t \in Tasks
               PROVE  audit'[t].count = commits'[t]
    BY DEF EveryWriteAudited
  <1>1. audit \in [Tasks -> AuditTails] /\ commits \in [Tasks -> 0..MaxCommits]
    BY DEF TInv, TaskTypeOK
  <1>2. ASSUME NEW s, NEW row, NEW before, NEW after, WriteTask(s, row), AppendAudit(s, before, after)
        PROVE  audit'[t].count = commits'[t]
    BY <1>1, <1>2 DEF WriteTask, AppendAudit, EveryWriteAudited
  <1>3. CASE UNCHANGED <<audit, commits>>
    BY <1>3 DEF EveryWriteAudited
  <1> QED
    BY <1>2, <1>3 DEF VersionedNext, VersionedCommand, Submit, Patch, LoadSnapshot, Transition,
                      Abandon, WriteVersioned, taskVars

\* PATCH and the transition command commit every write with its audit event.
THEOREM WritesAreAudited == VersionedSpec => []EveryWriteAudited
  <1>1. TaskInit => EveryWriteAudited
    BY DEF TaskInit, EveryWriteAudited
  <1> QED
    BY <1>1, AuditStep, VersionedInvariance, PTL DEF VersionedSpec

---------------------------------------------------------------------------
\* A request that ends with a commit is the one that took the step.
LEMMA CommittedStep ==
    ASSUME TInv, [VersionedNext]_taskVars, NEW h \in Handlers,
           handler[h].op \in Versioned, Committed(h)
    PROVE  \/ \E title \in Titles \cup {None} : Patch(h, title)
           \/ \E target \in Statuses : Transition(h, target)
  <1>1. VersionedNext
    BY DEF taskVars, Committed
  <1>2. PICK g \in Handlers : VersionedCommand(g)
    BY <1>1 DEF VersionedNext
  <1>3. g = h
    <2>1. SUFFICES ASSUME g # h PROVE handler'[h] = handler[h]
      BY DEF Committed
    <2> QED
      BY <1>2, <2>1 DEF VersionedCommand, Submit, Patch, LoadSnapshot, Transition,
                        Abandon, Finish, TInv, TaskTypeOK
  <1> QED
    BY <1>2, <1>3 DEF VersionedCommand, Submit, LoadSnapshot, Abandon, Committed

\* Nothing is committed between the read a command is based on and its write.
LEMMA NoLostUpdateStep ==
    ASSUME TInv, [VersionedNext]_taskVars, NEW h \in Handlers,
           handler[h].op \in Versioned, Committed(h)
    PROVE  handler[h].basis = commits[handler[h].task]
  <1> DEFINE t == handler[h].task
  <1>1. t \in Tasks /\ handler[h].basis \in 0..MaxCommits
    BY JobFields DEF TInv
  <1>2. task[t].version = handler[h].expected
    BY CommittedStep DEF Patch, Transition, WriteVersioned
  <1>3. handler[h].expected = handler[h].basis + 1
    BY DEF TInv, KnowledgeIsSound
  <1>4. task[t].version = commits[t] + 1 /\ commits[t] \in Nat
    BY <1>1, BoundAssumption DEF TInv, VersionCountsCommits, TaskTypeOK
  <1> QED
    BY <1>1, <1>2, <1>3, <1>4

\* SCN-014 for any number of clients: a stale command never overwrites.
THEOREM VersionedNoLostUpdate == VersionedSpec => NoLostUpdate
  <1>1. TInv /\ [VersionedNext]_taskVars =>
          [\A h \in Handlers : handler[h].op \in Versioned /\ Committed(h) =>
              handler[h].basis = commits[handler[h].task]]_taskVars
    BY NoLostUpdateStep
  <1> QED
    BY <1>1, VersionedInvariance, PTL DEF VersionedSpec, NoLostUpdate

\* A transition commits the status it computed on the status it replaces.
LEMMA TransitionEffect ==
    ASSUME TInv, NEW h \in Handlers, NEW target \in Statuses, Transition(h, target)
    PROVE  LET t == handler[h].task
           IN  /\ t \in Tasks
               /\ target \in Allowed[task[t].status]
               /\ task'[t].status = target
               /\ \A s \in Tasks \ {t} : task'[s] = task[s]
               /\ audit'[t].before = task[t].status
               /\ audit'[t].after = target
  <1> DEFINE t == handler[h].task
             seen == handler[h].seen
             new == Transitioned(seen, target)
             row == [task[t] EXCEPT !.status = new.status, !.reason = new.reason,
                                    !.base = new.base, !.safety = new.safety]
  <1>1. t \in Tasks /\ seen \in Rows /\ seen = task[t]
    BY SnapshotIsCurrent
  <1>2. target \in Allowed[task[t].status]
    BY <1>1 DEF Transition, CanTransition
  <1>3. new.status = target
    BY <1>1, TransitionedRow
  <1>4. task' = [task EXCEPT ![t] = [row EXCEPT !.version = task[t].version + 1]]
    BY DEF Transition, WriteVersioned, WriteTask
  <1>5. task'[t].status = target
    BY <1>1, <1>3, <1>4 DEF TInv, TaskTypeOK, Rows
  <1>6. \A s \in Tasks \ {t} : task'[s] = task[s]
    BY <1>4 DEF TInv, TaskTypeOK
  <1>7. audit'[t].before = seen.status /\ audit'[t].after = new.status
    BY <1>1 DEF Transition, AppendAudit, TInv, TaskTypeOK
  <1> QED
    BY <1>1, <1>2, <1>3, <1>5, <1>6, <1>7

\* PATCH leaves every status alone.
LEMMA PatchKeepsStatus ==
    ASSUME TInv, NEW h \in Handlers, NEW title \in Titles \cup {None}, Patch(h, title)
    PROVE  \A t \in Tasks : task'[t].status = task[t].status
  BY DEF Patch, WriteVersioned, WriteTask, TInv, TaskTypeOK, Rows

\* Each step moves a status along the table or leaves it.
LEMMA StatusStep ==
    ASSUME TInv, [VersionedNext]_taskVars, NEW t \in Tasks,
           task'[t].status # task[t].status
    PROVE  task'[t].status \in Allowed[task[t].status]
  <1>1. PICK g \in Handlers : VersionedCommand(g)
    BY DEF taskVars, VersionedNext
  <1>2. CASE \E title \in Titles \cup {None} : Patch(g, title)
    BY <1>2, PatchKeepsStatus
  <1>3. CASE \E target \in Statuses : Transition(g, target)
    BY <1>3, TransitionEffect
  <1>4. CASE UNCHANGED task
    BY <1>4
  <1> QED
    BY <1>1, <1>2, <1>3, <1>4 DEF VersionedCommand, Submit, LoadSnapshot, Abandon

\* Whatever the requests, the versioned writers never bypass the state machine,
\* although transition_task judges a row it read without a lock.
THEOREM StatusesFollowTable == VersionedSpec => StatusFollowsTable
  <1>1. TInv /\ [VersionedNext]_taskVars =>
          [\A t \in Tasks : task'[t].status # task[t].status =>
              task'[t].status \in Allowed[task[t].status]]_taskVars
    BY StatusStep
  <1> QED
    BY <1>1, VersionedInvariance, PTL DEF VersionedSpec, StatusFollowsTable

\* The audit event of a transition tells the status it replaced.
LEMMA TransitionAuditStep ==
    ASSUME TInv, [VersionedNext]_taskVars, NEW h \in Handlers,
           handler[h].op = "transition", Committed(h)
    PROVE  LET t == handler[h].task
           IN  audit'[t].before = task[t].status /\ audit'[t].after = task'[t].status
  <1>1. handler[h].op \in Versioned
    BY DEF Versioned
  <1>2. PICK target \in Statuses : Transition(h, target)
    BY <1>1, CommittedStep DEF Patch
  <1> QED
    BY <1>2, TransitionEffect

\* transition_task never audits a status the task did not have, although its
\* "before" comes from the unlocked snapshot.
THEOREM TransitionsAuditedTruly == VersionedSpec => TransitionAuditIsTrue
  <1>1. TInv /\ [VersionedNext]_taskVars =>
          [\A h \in Handlers : handler[h].op = "transition" /\ Committed(h) =>
              LET t == handler[h].task
              IN  audit'[t].before = task[t].status
                  /\ audit'[t].after = task'[t].status]_taskVars
    BY TransitionAuditStep
  <1> QED
    BY <1>1, VersionedInvariance, PTL DEF VersionedSpec, TransitionAuditIsTrue
-----------------------------------------------------------------------------
DecisionRows ==
    [action : {"APPROVE_TASK_CHANGE", "REJECT_PROPOSAL"}, version : 1..3]

ApprovalsTyped ==
    /\ proposal \in [Proposals -> ProposalRows]
    /\ approvals \in [Proposals -> Seq(DecisionRows)]
    /\ proposalAudit \in [Proposals -> Nat]
    /\ lock \in [Proposals -> Deciders \cup {None}]
    /\ decision \in [Deciders -> Decisions]

\* Who decides holds the lock of the proposal, and what was read under it is
\* still what the row says.
HoldsTruth(d) ==
    decision[d] # Undecided =>
        LET p == decision[d].proposal
        IN  /\ lock[p] = d
            /\ decision[d].seen = proposal[p]
            /\ decision[d].expected <= proposal[p].version
            /\ proposal[p].status # "none"

LocksAreTrue == \A d \in Deciders : HoldsTruth(d)

VersionOf(status) ==
    CASE status \in {"none", "pending"} -> 1
      [] status = "undone" -> 3
      [] OTHER -> 2

\* The version of a proposal tells how far its resolution has come.
VersionsTellStatus == \A p \in Proposals : proposal[p].version = VersionOf(proposal[p].status)

\* A proposal on a task shows the title its task had at the version it names.
ShowsTruth(row, tasks) ==
    row.status # "none" /\ row.digest = "targets" =>
        /\ row.task \in Tasks /\ row.old \in Titles /\ row.new \in Titles
        /\ row.targetVersion <= tasks[row.task].version
        /\ row.targetVersion = tasks[row.task].version => tasks[row.task].title = row.old

ProposalsShowTruth == \A p \in Proposals : ShowsTruth(proposal[p], task)

DInv ==
    /\ ApprovalsTyped
    /\ LocksAreTrue
    /\ VersionsTellStatus
    /\ OneDecision

AInv == TInv /\ DInv /\ ProposalsShowTruth

\* AInv holds before the first proposal.
LEMMA ApprovalsInitially == Init => AInv
<1> SUFFICES ASSUME Init PROVE AInv
  OBVIOUS
<1>1. TInv
  BY InitTInv DEF Init
<1>2. Unused \in ProposalRows
  BY BoundAssumption DEF Unused, ProposalRows, ProposalStatuses, Digests
<1>3. ApprovalsTyped
  BY <1>2 DEF Init, ApprovalsTyped, Decisions
<1>4. LocksAreTrue
  BY DEF Init, LocksAreTrue, HoldsTruth
<1>5. VersionsTellStatus /\ OneDecision
  BY DEF Init, Unused, VersionsTellStatus, VersionOf, OneDecision
<1>6. ProposalsShowTruth
  BY DEF Init, Unused, ProposalsShowTruth, ShowsTruth
<1> QED BY <1>1, <1>3, <1>4, <1>5, <1>6 DEF AInv, DInv

\* What a decider that is at work has read.
LEMMA DeciderFields ==
    ASSUME DInv, NEW d \in Deciders, decision[d] # Undecided
    PROVE  LET p == decision[d].proposal
           IN  /\ p \in Proposals /\ lock[p] = d
               /\ decision[d].op \in {"approve", "reject", "undo"}
               /\ decision[d].seen = proposal[p] /\ proposal[p] \in ProposalRows
               /\ decision[d].expected \in 1..3 /\ decision[d].expected <= proposal[p].version
               /\ proposal[p].status # "none"
<1>1. decision[d] \in [op : {"approve", "reject", "undo"}, proposal : Proposals,
                       expected : 1..3, seen : ProposalRows]
  BY DEF DInv, ApprovalsTyped, Decisions
<1>2. HoldsTruth(d)
  BY DEF DInv, LocksAreTrue
<1> QED BY <1>1, <1>2 DEF HoldsTruth, DInv, ApprovalsTyped

-----------------------------------------------------------------------------
(* What the deciders do to the proposals.                                  *)

\* A decision ends without a write.
LEMMA CloseKeepsDInv ==
    ASSUME DInv, NEW d \in Deciders, decision[d] # Undecided, NEW outcome, Close(d, outcome),
           UNCHANGED <<proposal, approvals, proposalAudit>>
    PROVE  DInv'
<1> DEFINE p == decision[d].proposal
<1>1. p \in Proposals /\ lock[p] = d
  BY DeciderFields
<1>2. lock' = [lock EXCEPT ![p] = None] /\ decision' = [decision EXCEPT ![d] = Undecided]
  BY DEF Close
<1> HIDE DEF p
<1>3. ApprovalsTyped'
  BY <1>1, <1>2 DEF DInv, ApprovalsTyped, Decisions
<1>4. ASSUME NEW e \in Deciders PROVE HoldsTruth(e)'
  <2>1. CASE e = d
    BY <1>2, <2>1 DEF HoldsTruth, DInv, ApprovalsTyped
  <2>2. CASE e # d /\ decision[e] # Undecided
    <3>1. decision'[e] = decision[e] /\ HoldsTruth(e) /\ decision[e].proposal \in Proposals
      BY <1>2, <2>2, DeciderFields DEF DInv, ApprovalsTyped, LocksAreTrue
    <3>2. lock'[decision[e].proposal] = e
      BY <1>1, <1>2, <2>2, <3>1 DEF HoldsTruth, DInv, ApprovalsTyped
    <3> QED BY <2>2, <3>1, <3>2 DEF HoldsTruth
  <2>3. CASE e # d /\ decision[e] = Undecided
    BY <1>2, <2>3 DEF HoldsTruth, DInv, ApprovalsTyped
  <2> QED BY <2>1, <2>2, <2>3
<1>5. VersionsTellStatus' /\ OneDecision'
  BY DEF DInv, VersionsTellStatus, OneDecision
<1> QED BY <1>3, <1>4, <1>5 DEF DInv, LocksAreTrue

\* A decision begins: the proposal was free, and is read under its lock.
LEMMA OpenKeepsDInv ==
    ASSUME DInv, NEW d \in Deciders, NEW p \in Proposals,
           NEW op \in {"approve", "reject", "undo"}, NEW expected \in 1..3,
           Open(d, p, op, expected)
    PROVE  DInv'
<1> DEFINE new == [op |-> op, proposal |-> p, expected |-> expected, seen |-> proposal[p]]
<1>1. /\ lock[p] = None /\ lock' = [lock EXCEPT ![p] = d]
      /\ decision' = [decision EXCEPT ![d] = new] /\ UNCHANGED <<proposal, approvals, proposalAudit>>
      /\ proposal[p].status # "none" /\ expected <= proposal[p].version
  BY DEF Open
<1>2. new \in Decisions /\ new.proposal = p /\ new.seen = proposal[p] /\ new.expected = expected
  BY DEF DInv, ApprovalsTyped, Decisions
<1> HIDE DEF new
<1>3. ApprovalsTyped'
  BY <1>1, <1>2 DEF DInv, ApprovalsTyped
<1>4. ASSUME NEW e \in Deciders PROVE HoldsTruth(e)'
  <2>1. CASE e = d
    BY <1>1, <1>2, <2>1 DEF HoldsTruth, DInv, ApprovalsTyped
  <2>2. CASE e # d /\ decision[e] # Undecided
    <3>1. decision'[e] = decision[e] /\ HoldsTruth(e) /\ decision[e].proposal \in Proposals
      BY <1>1, <2>2, DeciderFields DEF DInv, ApprovalsTyped, LocksAreTrue
    <3>2. lock'[decision[e].proposal] = e
      BY <1>1, <2>2, <3>1, DeciderAssumption DEF HoldsTruth, DInv, ApprovalsTyped
    <3> QED BY <1>1, <2>2, <3>1, <3>2 DEF HoldsTruth
  <2>3. CASE e # d /\ decision[e] = Undecided
    BY <1>1, <2>3 DEF HoldsTruth, DInv, ApprovalsTyped
  <2> QED BY <2>1, <2>2, <2>3
<1>5. VersionsTellStatus' /\ OneDecision'
  BY <1>1 DEF DInv, VersionsTellStatus, OneDecision
<1> QED BY <1>3, <1>4, <1>5 DEF DInv, LocksAreTrue

\* The approval rows and audit events that belong to a status.
DecidedAs(status) ==
    CASE status \in {"executed", "undone"} -> <<[action |-> "APPROVE_TASK_CHANGE", version |-> 1]>>
      [] status = "rejected" -> <<[action |-> "REJECT_PROPOSAL", version |-> 1]>>
      [] OTHER -> <<>>

EventsOf(status) == IF status \in {"none", "pending"} THEN 0 ELSE 1

\* A proposal is resolved, with the approval rows and the audit events that belong
\* to its new status, and its lock is given back.
LEMMA ResolveKeepsDInv ==
    ASSUME DInv, NEW d \in Deciders, decision[d] # Undecided,
           NEW status \in {"executed", "rejected", "superseded", "undone"},
           NEW outcome, Resolve(d, status), Close(d, outcome),
           VersionOf(status) = proposal[decision[d].proposal].version + 1,
           approvals' = [approvals EXCEPT ![decision[d].proposal] = DecidedAs(status)],
           proposalAudit' = [proposalAudit EXCEPT ![decision[d].proposal] = 1]
    PROVE  /\ DInv'
           /\ proposal' \in [Proposals -> ProposalRows]
           /\ \A q \in Proposals :
                 proposal'[q] = IF q = decision[d].proposal
                                THEN [proposal[q] EXCEPT !.status = status,
                                                         !.version = VersionOf(status)]
                                ELSE proposal[q]
<1> DEFINE p == decision[d].proposal
<1>1. p \in Proposals /\ lock[p] = d /\ decision[d].seen = proposal[p] /\ proposal[p] \in ProposalRows
  BY DeciderFields
<1>2. /\ lock' = [lock EXCEPT ![p] = None] /\ decision' = [decision EXCEPT ![d] = Undecided]
      /\ approvals' = [approvals EXCEPT ![p] = DecidedAs(status)]
      /\ proposalAudit' = [proposalAudit EXCEPT ![p] = 1]
  BY DEF Close
<1>3. /\ proposal' = [proposal EXCEPT ![p].status = status,
                                     ![p].version = proposal[p].version + 1]
      /\ VersionOf(status) = proposal[p].version + 1
  BY <1>1 DEF Resolve
<1> HIDE DEF p
<1>4. VersionOf(status) \in 1..3 /\ status \in ProposalStatuses
  BY DEF VersionOf, ProposalStatuses
<1>5. /\ [proposal[p] EXCEPT !.status = status, !.version = VersionOf(status)] \in ProposalRows
      /\ [proposal[p] EXCEPT !.status = status, !.version = VersionOf(status)].status = status
      /\ [proposal[p] EXCEPT !.status = status, !.version = VersionOf(status)].version = VersionOf(status)
  BY <1>1, <1>4 DEF ProposalRows
<1>6. /\ proposal'[p] = [proposal[p] EXCEPT !.status = status, !.version = VersionOf(status)]
      /\ \A q \in Proposals \ {p} : proposal'[q] = proposal[q]
  BY <1>1, <1>3 DEF DInv, ApprovalsTyped
<1>7. proposal' \in [Proposals -> ProposalRows]
  <2>1. DOMAIN proposal' = Proposals /\ proposal' = [q \in DOMAIN proposal' |-> proposal'[q]]
    BY <1>3 DEF DInv, ApprovalsTyped
  <2>2. proposal'[p] \in ProposalRows
    BY <1>5, <1>6
  <2>3. \A q \in Proposals \ {p} : proposal'[q] \in ProposalRows
    BY <1>6 DEF DInv, ApprovalsTyped
  <2> QED BY <2>1, <2>2, <2>3
<1>8. DecidedAs(status) \in Seq(DecisionRows)
  <2>1. /\ [action |-> "APPROVE_TASK_CHANGE", version |-> 1] \in DecisionRows
        /\ [action |-> "REJECT_PROPOSAL", version |-> 1] \in DecisionRows
    BY DEF DecisionRows
  <2>2. <<>> \in Seq(DecisionRows) /\ \A r \in DecisionRows : <<r>> \in Seq(DecisionRows)
    OBVIOUS
  <2> QED BY <2>1, <2>2 DEF DecidedAs
<1>9. ApprovalsTyped'
  <2>1. approvals' \in [Proposals -> Seq(DecisionRows)] /\ proposalAudit' \in [Proposals -> Nat]
    <3>1. approvals \in [Proposals -> Seq(DecisionRows)] /\ proposalAudit \in [Proposals -> Nat]
      BY DEF DInv, ApprovalsTyped
    <3>2. \A S, x : x \in S /\ approvals \in [Proposals -> S] =>
                      [approvals EXCEPT ![p] = x] \in [Proposals -> S]
      OBVIOUS
    <3>3. approvals' \in [Proposals -> Seq(DecisionRows)]
      BY <1>2, <1>8, <3>1, <3>2, Zenon
    <3> QED BY <1>2, <3>1, <3>3
  <2>2. /\ lock' \in [Proposals -> Deciders \cup {None}]
        /\ decision' \in [Deciders -> Decisions]
    BY <1>2 DEF DInv, ApprovalsTyped, Decisions
  <2> QED BY <1>7, <2>1, <2>2 DEF ApprovalsTyped
<1>10. ASSUME NEW e \in Deciders PROVE HoldsTruth(e)'
  <2>1. CASE e = d
    BY <1>2, <2>1 DEF HoldsTruth, DInv, ApprovalsTyped
  <2>2. CASE e # d /\ decision[e] # Undecided
    <3>1. decision'[e] = decision[e] /\ HoldsTruth(e) /\ decision[e].proposal \in Proposals
      BY <1>2, <2>2, DeciderFields DEF DInv, ApprovalsTyped, LocksAreTrue
    <3>2. decision[e].proposal # p
      BY <1>1, <2>2, <3>1 DEF HoldsTruth
    <3>3. lock'[decision[e].proposal] = e /\ proposal'[decision[e].proposal] = proposal[decision[e].proposal]
      BY <1>2, <1>6, <2>2, <3>1, <3>2 DEF HoldsTruth, DInv, ApprovalsTyped
    <3> QED BY <2>2, <3>1, <3>3 DEF HoldsTruth
  <2>3. CASE e # d /\ decision[e] = Undecided
    BY <1>2, <2>3 DEF HoldsTruth, DInv, ApprovalsTyped
  <2> QED BY <2>1, <2>2, <2>3
<1>11. VersionsTellStatus'
  BY <1>5, <1>6 DEF DInv, VersionsTellStatus
<1>12. OneDecision'
  <2>1. \A q \in Proposals : /\ approvals[q] = DecidedAs(proposal[q].status)
                             /\ proposalAudit[q] = EventsOf(proposal[q].status)
    BY DEF DInv, OneDecision, DecidedAs, EventsOf
  <2>2. /\ approvals'[p] = DecidedAs(status) /\ proposalAudit'[p] = 1
        /\ \A q \in Proposals \ {p} :
              approvals'[q] = approvals[q] /\ proposalAudit'[q] = proposalAudit[q]
    BY <1>1, <1>2 DEF DInv, ApprovalsTyped
  <2>3. EventsOf(status) = 1
    BY DEF EventsOf
  <2>4. \A q \in Proposals : /\ approvals'[q] = DecidedAs(proposal'[q].status)
                             /\ proposalAudit'[q] = EventsOf(proposal'[q].status)
    BY <1>5, <1>6, <2>1, <2>2, <2>3
  <2> QED BY <2>4 DEF OneDecision, DecidedAs, EventsOf
<1> QED BY <1>6, <1>7, <1>9, <1>10, <1>11, <1>12 DEF DInv, LocksAreTrue, p

\* What a decision is allowed on: a pending proposal at its first version, with the
\* payload it showed.
LEMMA DecidesOnPending ==
    ASSUME DInv, NEW d \in Deciders, NEW op \in {"approve", "reject"}, Decides(d, op)
    PROVE  LET p == decision[d].proposal
           IN  /\ decision[d] # Undecided /\ p \in Proposals
               /\ decision[d].seen = proposal[p]
               /\ proposal[p].status = "pending" /\ proposal[p].version = 1
               /\ decision[d].expected = 1 /\ proposal[p].digest = "targets"
               /\ approvals[p] = <<>> /\ proposalAudit[p] = 0
<1> DEFINE p == decision[d].proposal
<1>1. decision[d] # Undecided
  BY DEF Decides, Undecided
<1>2. /\ p \in Proposals /\ decision[d].seen = proposal[p] /\ proposal[p] \in ProposalRows
      /\ decision[d].expected \in 1..3
  BY <1>1, DeciderFields
<1>3. proposal[p].status = "pending" /\ proposal[p].version = decision[d].expected
      /\ proposal[p].digest = "targets"
  BY <1>2 DEF Decides, Conflict, HashMatches
<1>4. proposal[p].version = 1
  BY <1>2, <1>3 DEF DInv, VersionsTellStatus, VersionOf
<1>5. approvals[p] = <<>> /\ proposalAudit[p] = 0
  BY <1>2, <1>3 DEF DInv, OneDecision
<1> QED BY <1>1, <1>2, <1>3, <1>4, <1>5

-----------------------------------------------------------------------------
(* What writes do to the tasks.                                            *)

\* A row is left alone or gets the next version.
RowsGrow == \A t \in Tasks : task'[t] = task[t] \/ task'[t].version = task[t].version + 1

\* What a proposal shows stays true, since no version is used for two rows.
LEMMA TruthLasts ==
    ASSUME TInv, RowsGrow
    PROVE  \A row \in ProposalRows : ShowsTruth(row, task) => ShowsTruth(row, task')
<1> SUFFICES ASSUME NEW row \in ProposalRows, ShowsTruth(row, task),
                    row.status # "none", row.digest = "targets"
             PROVE  /\ row.task \in Tasks /\ row.old \in Titles /\ row.new \in Titles
                    /\ row.targetVersion <= task'[row.task].version
                    /\ row.targetVersion = task'[row.task].version =>
                          task'[row.task].title = row.old
  BY DEF ShowsTruth
<1>1. /\ row.task \in Tasks /\ row.old \in Titles /\ row.new \in Titles
      /\ row.targetVersion <= task[row.task].version
      /\ row.targetVersion = task[row.task].version => task[row.task].title = row.old
  BY DEF ShowsTruth
<1>2. row.targetVersion \in Nat /\ task[row.task].version \in Nat
  BY <1>1, BoundAssumption DEF ProposalRows, TInv, TaskTypeOK, Rows
<1>3. CASE task'[row.task] = task[row.task]
  BY <1>1, <1>3
<1>4. CASE task'[row.task].version = task[row.task].version + 1
  BY <1>1, <1>2, <1>4
<1> QED BY <1>1, <1>3, <1>4 DEF RowsGrow

\* The versioned writers give a row they change the next version.
LEMMA VersionedRowsGrow == TInv /\ [VersionedNext]_taskVars => RowsGrow
<1> SUFFICES ASSUME TInv, [VersionedNext]_taskVars PROVE RowsGrow
  OBVIOUS
<1>1. task \in [Tasks -> Rows]
  BY DEF TInv, TaskTypeOK
<1>2. ASSUME NEW h \in Handlers, NEW title \in Titles \cup {None}, Patch(h, title)
      PROVE  RowsGrow
  BY <1>1, <1>2 DEF Patch, WriteVersioned, WriteTask, RowsGrow, Rows
<1>3. ASSUME NEW h \in Handlers, NEW target \in Statuses, Transition(h, target)
      PROVE  RowsGrow
  BY <1>1, <1>3 DEF Transition, WriteVersioned, WriteTask, RowsGrow, Rows
<1>4. CASE UNCHANGED task
  BY <1>4 DEF RowsGrow
<1> QED BY <1>2, <1>3, <1>4
        DEF VersionedNext, VersionedCommand, Submit, LoadSnapshot, Abandon, taskVars

\* So do the deciders, in the transaction that resolves the proposal.
LEMMA RetitleKeepsTInv ==
    ASSUME TInv, NEW t \in Tasks, NEW title \in Titles, Retitle(t, title),
           UNCHANGED <<session, handler>>,
           \/ UNCHANGED audit
           \/ \E before, after \in Titles : AppendAudit(t, before, after)
    PROVE  TInv' /\ RowsGrow /\ task'[t].title = title
<1> DEFINE new == [task[t] EXCEPT !.title = title, !.version = @ + 1]
<1>1. /\ commits[t] \in 0..MaxCommits /\ commits[t] < MaxCommits
      /\ task[t].version = commits[t] + 1 /\ task[t] \in Rows
  BY DEF Retitle, WriteTask, TInv, TaskTypeOK, VersionCountsCommits
<1>2. task' = [task EXCEPT ![t] = new] /\ commits' = [commits EXCEPT ![t] = @ + 1]
  BY DEF Retitle, WriteTask
<1>3. new \in Rows /\ new.version = task[t].version + 1 /\ new.title = title
  <2> DEFINE next == task[t].version + 1
  <2>1. next \in 1..(MaxCommits + 1)
    BY <1>1, BoundAssumption
  <2>2. new = [task[t] EXCEPT !.title = title, !.version = next]
    OBVIOUS
  <2> HIDE DEF next
  <2>3. new \in Rows /\ new.version = next /\ new.title = title
    BY <1>1, <2>1, <2>2 DEF Rows
  <2> QED BY <2>3 DEF next
<1> HIDE DEF new
<1>4. /\ task' \in [Tasks -> Rows] /\ task'[t] = new
      /\ \A s \in Tasks \ {t} : task'[s] = task[s]
  BY <1>2, <1>3 DEF TInv, TaskTypeOK
<1>5. /\ commits' \in [Tasks -> 0..MaxCommits] /\ commits'[t] = commits[t] + 1
      /\ \A s \in Tasks \ {t} : commits'[s] = commits[s]
  BY <1>1, <1>2, BoundAssumption DEF TInv, TaskTypeOK
<1>6. audit' \in [Tasks -> AuditTails] /\ AuditsAreOfWrites'
  <2>1. /\ audit \in [Tasks -> AuditTails] /\ AuditsAreOfWrites
        /\ \A s \in Tasks : audit[s].count \in Nat /\ commits[s] \in Nat
    BY BoundAssumption DEF TInv, TaskTypeOK, AuditTails
  <2>2. CASE UNCHANGED audit
    BY <1>5, <2>1, <2>2 DEF AuditsAreOfWrites
  <2>3. ASSUME NEW before \in Titles, NEW after \in Titles, AppendAudit(t, before, after)
        PROVE  audit' \in [Tasks -> AuditTails] /\ AuditsAreOfWrites'
    <3> DEFINE tail == [count |-> audit[t].count + 1, before |-> before, after |-> after]
    <3>1. audit[t].count <= commits[t]
      BY <2>1 DEF AuditsAreOfWrites
    <3>2. tail \in AuditTails /\ tail.count = audit[t].count + 1
      BY <1>1, <2>1, <3>1, BoundAssumption DEF AuditTails
    <3>3. audit' = [audit EXCEPT ![t] = tail]
      BY <2>3 DEF AppendAudit
    <3> HIDE DEF tail
    <3>4. /\ audit' \in [Tasks -> AuditTails] /\ audit'[t] = tail
          /\ \A s \in Tasks \ {t} : audit'[s] = audit[s]
      BY <2>1, <3>2, <3>3
    <3> QED BY <1>5, <2>1, <3>1, <3>2, <3>4 DEF AuditsAreOfWrites
  <2> QED BY <2>2, <2>3
<1>7. TaskTypeOK'
  BY <1>4, <1>5, <1>6 DEF TInv, TaskTypeOK
<1>8. VersionCountsCommits'
  BY <1>1, <1>3, <1>4, <1>5 DEF TInv, VersionCountsCommits
<1>9. RowsGrow
  BY <1>3, <1>4 DEF RowsGrow
<1>10. KnowledgeIsSound'
  <2> SUFFICES ASSUME NEW g \in Handlers PROVE KnowledgeIsSound!(g)'
    BY DEF KnowledgeIsSound
  <2>1. KnowledgeIsSound!(g) /\ handler'[g] = handler[g]
    BY DEF TInv, KnowledgeIsSound
  <2>2. \A s \in Tasks : /\ task[s].version \in Nat /\ task'[s].version \in Nat
                         /\ task[s].version <= task'[s].version
                         /\ task'[s].version = task[s].version => task'[s] = task[s]
    BY <1>4, <1>9, BoundAssumption DEF TInv, TaskTypeOK, Rows, RowsGrow
  <2>3. handler[g].op \in Versioned =>
           /\ handler[g].task \in Tasks /\ handler[g].expected \in Nat
           /\ handler[g].op = "transition" => handler[g].seen.version \in Nat
    BY JobFields, BoundAssumption DEF TInv, Rows
  <2> QED BY <2>1, <2>2, <2>3 DEF Versioned
<1> QED BY <1>3, <1>4, <1>6, <1>7, <1>8, <1>9, <1>10 DEF TInv

-----------------------------------------------------------------------------
(* Every step keeps AInv.                                                  *)

\* What the proposals show is still true after a step that gives changed tasks new
\* versions, if their new rows showed the truth before it.
LEMMA StepKeepsAInv ==
    ASSUME AInv, DInv', TInv', RowsGrow, \A p \in Proposals : ShowsTruth(proposal'[p], task)
    PROVE  AInv'
<1>1. \A p \in Proposals : proposal'[p] \in ProposalRows
  BY DEF DInv, ApprovalsTyped
<1>2. \A p \in Proposals : ShowsTruth(proposal'[p], task')
  BY <1>1, TruthLasts DEF AInv
<1> QED BY <1>2 DEF AInv, ProposalsShowTruth

LEMMA ProposalsKeepAInv ==
    ASSUME AInv, DInv', UNCHANGED taskVars,
           \A p \in Proposals : ShowsTruth(proposal'[p], task)
    PROVE  AInv'
<1>1. TInv'
  BY DEF AInv, TInv, taskVars, TaskTypeOK, VersionCountsCommits, AuditsAreOfWrites, KnowledgeIsSound
<1>2. RowsGrow
  BY DEF taskVars, RowsGrow
<1> QED BY <1>1, <1>2, StepKeepsAInv

\* A resolved proposal shows what it showed.
LEMMA ResolvedShowsTruth ==
    ASSUME AInv, NEW p \in Proposals, proposal[p].status # "none",
           NEW status \in ProposalStatuses,
           \A q \in Proposals :
              proposal'[q] = IF q = p THEN [proposal[q] EXCEPT !.status = status,
                                                              !.version = VersionOf(status)]
                                      ELSE proposal[q]
    PROVE  \A q \in Proposals : ShowsTruth(proposal'[q], task)
<1> TAKE q \in Proposals
<1>1. proposal[q] \in ProposalRows /\ ShowsTruth(proposal[q], task)
  BY DEF AInv, ProposalsShowTruth, DInv, ApprovalsTyped
<1>2. CASE q = p
  <2> DEFINE old == proposal[p]
             version == VersionOf(status)
  <2>1. proposal'[q] = [old EXCEPT !.status = status, !.version = version]
    BY <1>2
  <2>2. old \in ProposalRows /\ ShowsTruth(old, task) /\ old.status # "none"
    BY <1>1, <1>2
  <2> HIDE DEF old, version
  <2>3. /\ proposal'[q].digest = old.digest /\ proposal'[q].task = old.task
        /\ proposal'[q].old = old.old /\ proposal'[q].new = old.new
        /\ proposal'[q].targetVersion = old.targetVersion
    BY <2>1, <2>2 DEF ProposalRows
  <2> QED BY <2>2, <2>3 DEF ShowsTruth
<1>3. CASE q # p
  BY <1>1, <1>3
<1> QED BY <1>2, <1>3

\* Supersede and Reject write the proposal only.
LEMMA RefusalKeepsAInv ==
    ASSUME AInv, NEW d \in Deciders, Supersede(d) \/ Reject(d)
    PROVE  AInv'
<1> DEFINE p == decision[d].proposal
<1>1. CASE Supersede(d)
  <2>1. /\ decision[d] # Undecided /\ p \in Proposals /\ decision[d].seen = proposal[p]
        /\ proposal[p].status = "pending" /\ proposal[p].version = 1
        /\ approvals[p] = <<>> /\ proposalAudit[p] = 0
    BY <1>1, DecidesOnPending DEF Supersede, AInv
  <2>2. /\ approvals' = [approvals EXCEPT ![p] = DecidedAs("superseded")]
        /\ proposalAudit' = [proposalAudit EXCEPT ![p] = 1]
    <3>1. approvals' = approvals /\ proposalAudit' = [proposalAudit EXCEPT ![p] = @ + 1]
      BY <1>1 DEF Supersede, AuditProposal
    <3>2. approvals = [approvals EXCEPT ![p] = <<>>]
      BY <2>1 DEF AInv, DInv, ApprovalsTyped
    <3> QED BY <2>1, <3>1, <3>2 DEF DecidedAs
  <2>3. VersionOf("superseded") = proposal[p].version + 1
    BY <2>1 DEF VersionOf
  <2>4. Resolve(d, "superseded") /\ Close(d, "SUPERSEDED") /\ UNCHANGED taskVars
    BY <1>1 DEF Supersede
  <2>5. /\ DInv'
        /\ \A q \in Proposals :
              proposal'[q] = IF q = p THEN [proposal[q] EXCEPT !.status = "superseded",
                                                              !.version = VersionOf("superseded")]
                                      ELSE proposal[q]
    BY <2>1, <2>2, <2>3, <2>4, ResolveKeepsDInv DEF AInv
  <2>6. \A q \in Proposals : ShowsTruth(proposal'[q], task)
    BY <2>1, <2>5, ResolvedShowsTruth DEF ProposalStatuses
  <2> QED BY <2>4, <2>5, <2>6, ProposalsKeepAInv
<1>2. CASE Reject(d)
  <2>1. /\ decision[d] # Undecided /\ p \in Proposals /\ decision[d].seen = proposal[p]
        /\ proposal[p].status = "pending" /\ proposal[p].version = 1 /\ decision[d].expected = 1
        /\ approvals[p] = <<>> /\ proposalAudit[p] = 0
    BY <1>2, DecidesOnPending DEF Reject, AInv
  <2>2. /\ approvals' = [approvals EXCEPT ![p] = DecidedAs("rejected")]
        /\ proposalAudit' = [proposalAudit EXCEPT ![p] = 1]
    <3>1. /\ approvals' = [approvals EXCEPT ![p] = Append(@, [action |-> "REJECT_PROPOSAL",
                                                             version |-> decision[d].expected])]
          /\ proposalAudit' = [proposalAudit EXCEPT ![p] = @ + 1]
      BY <1>2 DEF Reject, RecordDecision, AuditProposal
    <3>2. \A r : Append(<<>>, r) = <<r>>
      OBVIOUS
    <3> QED BY <2>1, <3>1, <3>2 DEF DecidedAs
  <2>3. VersionOf("rejected") = proposal[p].version + 1
    BY <2>1 DEF VersionOf
  <2>4. Resolve(d, "rejected") /\ Close(d, "REJECTED") /\ UNCHANGED taskVars
    BY <1>2 DEF Reject
  <2>5. /\ DInv'
        /\ \A q \in Proposals :
              proposal'[q] = IF q = p THEN [proposal[q] EXCEPT !.status = "rejected",
                                                              !.version = VersionOf("rejected")]
                                      ELSE proposal[q]
    BY <2>1, <2>2, <2>3, <2>4, ResolveKeepsDInv DEF AInv
  <2>6. \A q \in Proposals : ShowsTruth(proposal'[q], task)
    BY <2>1, <2>5, ResolvedShowsTruth DEF ProposalStatuses
  <2> QED BY <2>4, <2>5, <2>6, ProposalsKeepAInv
<1> QED BY <1>1, <1>2

\* Approve: the task takes the title that was shown.
LEMMA ApproveEffect ==
    ASSUME AInv, NEW d \in Deciders, Approve(d)
    PROVE  LET p == decision[d].proposal
               t == proposal[p].task
           IN  /\ AInv' /\ p \in Proposals /\ t \in Tasks
               /\ \A q \in Proposals \ {p} : proposal'[q] = proposal[q]
               /\ task[t].title = proposal[p].old /\ task[t].version = proposal[p].targetVersion
               /\ task'[t].title = proposal[p].new
<1> DEFINE p == decision[d].proposal
           t == proposal[p].task
<1>1. /\ decision[d] # Undecided /\ p \in Proposals /\ decision[d].seen = proposal[p]
      /\ proposal[p].status = "pending" /\ proposal[p].version = 1 /\ decision[d].expected = 1
      /\ proposal[p].digest = "targets" /\ approvals[p] = <<>> /\ proposalAudit[p] = 0
  BY DecidesOnPending DEF Approve, AInv
<1>2. /\ t \in Tasks /\ proposal[p].old \in Titles /\ proposal[p].new \in Titles
      /\ task[t].version = proposal[p].targetVersion /\ task[t].title = proposal[p].old
  BY <1>1 DEF Approve, TargetChanged, AInv, ProposalsShowTruth, ShowsTruth
<1>3. /\ Retitle(t, proposal[p].new) /\ AppendAudit(t, task[t].title, proposal[p].new)
      /\ UNCHANGED <<session, handler>>
      /\ Resolve(d, "executed") /\ Close(d, "EXECUTED")
  BY <1>1 DEF Approve
<1>4. TInv' /\ RowsGrow /\ task'[t].title = proposal[p].new
  BY <1>2, <1>3, RetitleKeepsTInv DEF AInv
<1>5. /\ approvals' = [approvals EXCEPT ![p] = DecidedAs("executed")]
      /\ proposalAudit' = [proposalAudit EXCEPT ![p] = 1]
  <2>1. /\ approvals' = [approvals EXCEPT ![p] = Append(@, [action |-> "APPROVE_TASK_CHANGE",
                                                           version |-> decision[d].expected])]
        /\ proposalAudit' = [proposalAudit EXCEPT ![p] = @ + 1]
    BY DEF Approve, RecordDecision, AuditProposal
  <2>2. \A r : Append(<<>>, r) = <<r>>
    OBVIOUS
  <2> QED BY <1>1, <2>1, <2>2 DEF DecidedAs
<1>6. VersionOf("executed") = proposal[p].version + 1
  BY <1>1 DEF VersionOf
<1>7. /\ DInv' /\ proposal' \in [Proposals -> ProposalRows]
      /\ \A q \in Proposals :
            proposal'[q] = IF q = p THEN [proposal[q] EXCEPT !.status = "executed",
                                                            !.version = VersionOf("executed")]
                                    ELSE proposal[q]
  BY <1>1, <1>3, <1>5, <1>6, ResolveKeepsDInv DEF AInv
<1>8. AInv'
  <2>1. \A q \in Proposals : ShowsTruth(proposal'[q], task)
    BY <1>1, <1>7, ResolvedShowsTruth DEF ProposalStatuses
  <2> QED BY <1>4, <1>7, <2>1, StepKeepsAInv
<1> QED BY <1>1, <1>2, <1>4, <1>7, <1>8

\* Undo: a title of the proposal is put back, as one more version.
LEMMA UndoKeepsAInv ==
    ASSUME AInv, NEW d \in Deciders, Undo(d)
    PROVE  AInv'
<1> DEFINE p == decision[d].proposal
           t == proposal[p].task
<1>1. decision[d] # Undecided
  BY DEF Undo, Undecided
<1>2. /\ p \in Proposals /\ decision[d].seen = proposal[p]
      /\ proposal[p].status = "executed" /\ proposal[p].digest = "targets"
  BY <1>1, DeciderFields DEF Undo, Undoable, HashMatches, AInv
<1>3. t \in Tasks /\ proposal[p].old \in Titles
  BY <1>2 DEF AInv, ProposalsShowTruth, ShowsTruth
<1>4. /\ Retitle(t, proposal[p].old) /\ UNCHANGED <<session, audit, handler>>
      /\ Resolve(d, "undone") /\ Close(d, "UNDONE") /\ UNCHANGED <<approvals, proposalAudit>>
  BY <1>2 DEF Undo
<1>5. TInv' /\ RowsGrow
  BY <1>3, <1>4, RetitleKeepsTInv DEF AInv
<1>6. /\ approvals[p] = DecidedAs("undone") /\ proposalAudit[p] = 1
      /\ VersionOf("undone") = proposal[p].version + 1
  BY <1>2 DEF AInv, DInv, OneDecision, DecidedAs, VersionsTellStatus, VersionOf
<1>7. /\ approvals' = [approvals EXCEPT ![p] = DecidedAs("undone")]
      /\ proposalAudit' = [proposalAudit EXCEPT ![p] = 1]
  BY <1>4, <1>6 DEF AInv, DInv, ApprovalsTyped
<1>8. /\ DInv' /\ proposal' \in [Proposals -> ProposalRows]
      /\ \A q \in Proposals :
            proposal'[q] = IF q = p THEN [proposal[q] EXCEPT !.status = "undone",
                                                            !.version = VersionOf("undone")]
                                    ELSE proposal[q]
  BY <1>1, <1>4, <1>6, <1>7, ResolveKeepsDInv DEF AInv
<1>9. \A q \in Proposals : ShowsTruth(proposal'[q], task)
  BY <1>2, <1>8, ResolvedShowsTruth DEF ProposalStatuses
<1> QED BY <1>5, <1>8, <1>9, StepKeepsAInv

\* A proposal is made: nobody decides on it yet.
LEMMA NewProposalKeepsAInv ==
    ASSUME AInv, NEW p \in Proposals, proposal[p].status = "none", NEW row \in ProposalRows,
           row.status = "pending", row.version = 1, ShowsTruth(row, task),
           proposal' = [proposal EXCEPT ![p] = row],
           UNCHANGED <<taskVars, approvals, proposalAudit, lock, decision>>
    PROVE  AInv'
<1>1. /\ proposal' \in [Proposals -> ProposalRows] /\ proposal'[p] = row
      /\ \A q \in Proposals \ {p} : proposal'[q] = proposal[q]
  BY DEF AInv, DInv, ApprovalsTyped
<1>2. ApprovalsTyped'
  BY <1>1 DEF AInv, DInv, ApprovalsTyped
<1>3. ASSUME NEW e \in Deciders PROVE HoldsTruth(e)'
  <2>1. CASE decision[e] # Undecided
    <3>1. HoldsTruth(e) /\ decision[e].proposal \in Proposals
      BY <2>1, DeciderFields DEF AInv, DInv, LocksAreTrue
    <3>2. decision[e].proposal # p
      BY <2>1, <3>1 DEF HoldsTruth
    <3> QED BY <1>1, <2>1, <3>1, <3>2 DEF HoldsTruth
  <2>2. CASE decision[e] = Undecided
    BY <2>2 DEF HoldsTruth
  <2> QED BY <2>1, <2>2
<1>4. VersionsTellStatus'
  BY <1>1 DEF AInv, DInv, VersionsTellStatus, VersionOf
<1>5. OneDecision'
  <2> SUFFICES ASSUME NEW q \in Proposals
               PROVE  /\ approvals[q] = DecidedAs(proposal'[q].status)
                      /\ proposalAudit[q] = EventsOf(proposal'[q].status)
    BY DEF OneDecision, DecidedAs, EventsOf
  <2>1. /\ approvals[q] = DecidedAs(proposal[q].status)
        /\ proposalAudit[q] = EventsOf(proposal[q].status)
    BY DEF AInv, DInv, OneDecision, DecidedAs, EventsOf
  <2>2. DecidedAs("none") = DecidedAs("pending") /\ EventsOf("none") = EventsOf("pending")
    BY DEF DecidedAs, EventsOf
  <2> QED BY <1>1, <2>1, <2>2
<1>6. \A q \in Proposals : ShowsTruth(proposal'[q], task)
  BY <1>1 DEF AInv, ProposalsShowTruth
<1>7. DInv'
  BY <1>2, <1>3, <1>4, <1>5 DEF DInv, LocksAreTrue
<1> QED BY <1>6, <1>7, ProposalsKeepAInv

LEMMA ProposeKeepsAInv ==
    ASSUME AInv, NEW p \in Proposals, NEW t \in Tasks, NEW new \in Titles, Propose(p, t, new)
    PROVE  AInv'
<1> DEFINE row == [status |-> "pending", version |-> 1, digest |-> "targets", task |-> t,
                   targetVersion |-> task[t].version, old |-> task[t].title, new |-> new]
<1>1. task[t].version \in 1..(MaxCommits + 1) /\ task[t].title \in Titles
  BY DEF AInv, TInv, TaskTypeOK, Rows
<1>2. row \in ProposalRows
  BY <1>1 DEF ProposalRows, ProposalStatuses, Digests
<1>3. ShowsTruth(row, task)
  BY <1>1, BoundAssumption DEF ShowsTruth
<1>4. /\ proposal[p].status = "none" /\ proposal' = [proposal EXCEPT ![p] = row]
      /\ UNCHANGED <<taskVars, approvals, proposalAudit, lock, decision>>
  BY DEF Propose
<1>5. row.status = "pending" /\ row.version = 1
  OBVIOUS
<1> HIDE DEF row
<1> QED BY <1>2, <1>3, <1>4, <1>5, NewProposalKeepsAInv

LEMMA ProposeDeadlineKeepsAInv ==
    ASSUME AInv, NEW p \in Proposals, ProposeDeadline(p)
    PROVE  AInv'
<1> DEFINE row == [Unused EXCEPT !.status = "pending", !.digest = "deadline"]
<1>1. /\ row \in ProposalRows /\ row.status = "pending" /\ row.version = 1
      /\ row.digest = "deadline"
  <2>1. Unused \in ProposalRows /\ Unused.version = 1
    BY BoundAssumption DEF Unused, ProposalRows, ProposalStatuses, Digests
  <2> QED BY <2>1 DEF ProposalRows, ProposalStatuses, Digests
<1>2. /\ proposal[p].status = "none" /\ proposal' = [proposal EXCEPT ![p] = row]
      /\ UNCHANGED <<taskVars, approvals, proposalAudit, lock, decision>>
  BY DEF ProposeDeadline
<1> HIDE DEF row
<1>3. ShowsTruth(row, task)
  BY <1>1 DEF ShowsTruth
<1> QED BY <1>1, <1>2, <1>3, NewProposalKeepsAInv

\* What deciders do without touching a proposal.
LEMMA ReadingKeepsAInv ==
    ASSUME AInv, DInv', UNCHANGED <<taskVars, proposal>>
    PROVE  AInv'
BY ProposalsKeepAInv DEF AInv, ProposalsShowTruth

LEMMA DecideKeepsAInv ==
    ASSUME AInv, NEW d \in Deciders, Decide(d)
    PROVE  AInv'
<1>1. ASSUME NEW p \in Proposals, NEW op \in {"approve", "reject", "undo"}, NEW e \in 1..3,
             Open(d, p, op, e)
      PROVE  AInv'
  <2>1. UNCHANGED <<taskVars, proposal>>
    BY <1>1 DEF Open
  <2> QED BY <1>1, <2>1, OpenKeepsDInv, ReadingKeepsAInv DEF AInv
<1>2. CASE Refuse(d) \/ UndoRefused(d) \/ Rollback(d)
  <2>1. decision[d] # Undecided
    BY <1>2 DEF Refuse, UndoRefused, Rollback, Undecided
  <2>2. PICK outcome : Close(d, outcome)
    BY <1>2 DEF Refuse, UndoRefused, Rollback
  <2>3. UNCHANGED <<taskVars, proposal, approvals, proposalAudit>>
    BY <1>2 DEF Refuse, UndoRefused, Rollback
  <2>4. DInv'
    BY <2>1, <2>2, <2>3, CloseKeepsDInv DEF AInv
  <2> QED BY <2>3, <2>4, ReadingKeepsAInv
<1>3. CASE Supersede(d) \/ Reject(d)
  BY <1>3, RefusalKeepsAInv
<1>4. CASE Approve(d)
  BY <1>4, ApproveEffect
<1>5. CASE Undo(d)
  BY <1>5, UndoKeepsAInv
<1> QED BY <1>1, <1>2, <1>3, <1>4, <1>5 DEF Decide

LEMMA StepKeepsInv == AInv /\ [Next]_vars => AInv'
<1> SUFFICES ASSUME AInv, [Next]_vars PROVE AInv'
  OBVIOUS
<1>1. CASE ApprovalNext
  BY <1>1, DecideKeepsAInv, ProposeKeepsAInv, ProposeDeadlineKeepsAInv DEF ApprovalNext
<1>2. CASE [VersionedNext]_taskVars /\ UNCHANGED decisionVars
  <2>1. TInv' /\ RowsGrow
    BY <1>2, VersionedTInv, VersionedRowsGrow DEF AInv
  <2>2. DInv'
    BY <1>2 DEF AInv, DInv, decisionVars, ApprovalsTyped, LocksAreTrue, HoldsTruth,
                VersionsTellStatus, OneDecision
  <2>3. \A p \in Proposals : ShowsTruth(proposal'[p], task)
    BY <1>2 DEF AInv, ProposalsShowTruth, decisionVars
  <2> QED BY <2>1, <2>2, <2>3, StepKeepsAInv
<1>3. CASE UNCHANGED vars
  BY <1>2, <1>3 DEF vars
<1> QED BY <1>1, <1>2, <1>3 DEF Next

-----------------------------------------------------------------------------
\* AInv is an invariant of proposals, deciders and the writers of the tasks.
THEOREM ApprovalsInvariance == Spec => []AInv
<1> QED BY ApprovalsInitially, StepKeepsInv, PTL DEF Spec

\* A proposal is approved at most once, and never both approved and rejected
\* (ApprovalService: the row is locked before its status is judged).
THEOREM DecidedOnceForAll == Spec => []OneDecision
<1>1. AInv => OneDecision
  BY DEF AInv, DInv
<1> QED BY <1>1, ApprovalsInvariance, PTL

\* Only Approve executes a proposal.
LEMMA OnlyApproveExecutes ==
    ASSUME AInv, [Next]_vars, NEW p \in Proposals, Executes(p)
    PROVE  \E d \in Deciders : Approve(d) /\ decision[d].proposal = p
<1>1. proposal' # proposal
  BY DEF Executes
<1>2. CASE \E t \in Proposals, s \in Tasks, new \in Titles : Propose(t, s, new)
  BY <1>2 DEF Executes, Propose, AInv, DInv, ApprovalsTyped
<1>3. CASE \E q \in Proposals : ProposeDeadline(q)
  <2>1. PICK q \in Proposals : ProposeDeadline(q)
    BY <1>3
  <2>2. [Unused EXCEPT !.status = "pending", !.digest = "deadline"].status = "pending"
    BY DEF Unused
  <2> QED BY <2>1, <2>2 DEF Executes, ProposeDeadline, AInv, DInv, ApprovalsTyped
<1>4. ASSUME NEW d \in Deciders, NEW status, status # "executed", decision[d] # Undecided,
             Resolve(d, status)
      PROVE  FALSE
  BY <1>4, DeciderFields DEF Resolve, Executes, AInv, DInv, ApprovalsTyped, ProposalRows
<1>5. ASSUME NEW d \in Deciders, Approve(d)
      PROVE  decision[d].proposal = p
  BY <1>5, ApproveEffect DEF Executes
<1>6. ASSUME NEW d \in Deciders, Decide(d)
      PROVE  Approve(d)
  <2>1. ~(Supersede(d) \/ Reject(d) \/ Undo(d))
    <3>1. Supersede(d) \/ Reject(d) \/ Undo(d) => decision[d] # Undecided
      BY DEF Supersede, Reject, Undo, Decides, Undecided
    <3> QED BY <1>4, <3>1 DEF Supersede, Reject, Undo
  <2> QED BY <1>1, <1>6, <2>1 DEF Decide, Open, Refuse, UndoRefused, Rollback
<1> QED BY <1>1, <1>2, <1>3, <1>5, <1>6 DEF Next, ApprovalNext, vars, decisionVars

\* An approved change is applied to the task as the proposal showed it: the version
\* compared under the task's row lock also vouches for the title (service.py, approve).
THEOREM ExecutionsAreAsShown == Spec => ExecutedAsShown
<1>1. AInv /\ [Next]_vars =>
         [\A p \in Proposals : Executes(p) =>
             LET t == proposal[p].task
             IN  /\ task[t].title = proposal[p].old
                 /\ task[t].version = proposal[p].targetVersion
                 /\ task'[t].title = proposal[p].new]_vars
  BY OnlyApproveExecutes, ApproveEffect
<1> QED BY <1>1, ApprovalsInvariance, PTL DEF Spec, ExecutedAsShown
=============================================================================
