------------------------------ MODULE Outbox ------------------------------
(***************************************************************************)
(* The transactional outbox: rows of outbox_events and external_executions,*)
(* the polling workers that claim one pending row at a time under          *)
(* FOR UPDATE SKIP LOCKED, and the provider they call while the row lock   *)
(* is held.                                                                *)
(*                                                                         *)
(* A worker's transaction (claim, attempts + 1, provider call, result)     *)
(* commits once, at the end.  Claim takes the row lock, the three Answer   *)
(* actions write and commit, and a crash in between rolls everything back, *)
(* although the request already left for the provider.  The provider is    *)
(* external: it may act on a request at any time after it was sent, once   *)
(* or repeatedly, or never; it recognises the idempotency key, so acting   *)
(* again on a key has no further effect.                                   *)
(***************************************************************************)
EXTENDS Naturals, FiniteSets

CONSTANTS
    Commands,           \* idempotency keys; one outbox row each
    Workers,            \* processes running poll()
    Equipped,           \* workers whose executor is not None
    CreatedAt,          \* [Commands -> Nat]: created_at of each row
    BatchSize,          \* WORKER_BATCH_SIZE
    Answering,          \* keys the provider does not answer by timeouts for ever
    MaxAttempts,        \* bound of the model: attempts saturate here
    None                \* a NULL column / no command

ASSUME BatchAssumption == BatchSize \in Nat \ {0}
ASSUME AttemptsAssumption == MaxAttempts \in Nat \ {0}
ASSUME CreatedAtAssumption == CreatedAt \in [Commands -> Nat]
ASSUME WorkersAssumption == Equipped \subseteq Workers
ASSUME AnsweringAssumption == Answering \subseteq Commands
ASSUME NoneAssumption == None \notin Commands

VARIABLES
    record,             \* outbox_events: [status, attempts] per key
    execution,          \* external_executions: [result, externalId, verified]
    worker,             \* [pc, left, claim] of every polling process
    inflight,           \* keys of requests on their way to, or in, the provider
    applied             \* keys whose event exists at the provider

vars == <<record, execution, worker, inflight, applied>>

Statuses == {"absent", "pending", "succeeded", "failed"}
Results == {"absent", "Pending", "Succeeded", "Failed"}

Records == [status : Statuses, attempts : 0..MaxAttempts]
Executions == [result : Results, externalId : Commands \cup {None},
               verified : BOOLEAN]
WorkerStates == [pc : {"sleeping", "looping", "calling", "stopped", "down"},
                 left : 0..BatchSize, claim : Commands \cup {None}]

\* The provider identifies the event it creates for a key by an id; with one
\* event per key the key itself serves as that id.
ExternalId(c) == c

TypeOK ==
    /\ record \in [Commands -> Records]
    /\ execution \in [Commands -> Executions]
    /\ worker \in [Workers -> WorkerStates]
    /\ inflight \subseteq Commands
    /\ applied \subseteq Commands

AbsentExecution == [result |-> "absent", externalId |-> None, verified |-> FALSE]
PendingExecution == [result |-> "Pending", externalId |-> None, verified |-> FALSE]
FailedExecution == [result |-> "Failed", externalId |-> None, verified |-> FALSE]
SucceededExecution(c) ==
    [result |-> "Succeeded", externalId |-> ExternalId(c), verified |-> TRUE]

Sleeping == [pc |-> "sleeping", left |-> 0, claim |-> None]

Init ==
    /\ record = [c \in Commands |-> [status |-> "absent", attempts |-> 0]]
    /\ execution = [c \in Commands |-> AbsentExecution]
    /\ worker = [w \in Workers |-> Sleeping]
    /\ inflight = {}
    /\ applied = {}

---------------------------------------------------------------------------
(* The API side: enqueue_external_command inside a unit of work.           *)

\* Both rows are inserted by one transaction.  A second enqueue of a key hits
\* the unique constraint and rolls back, which changes nothing.
Enqueue(c) ==
    /\ record[c].status = "absent"
    /\ record' = [record EXCEPT ![c] = [status |-> "pending", attempts |-> 0]]
    /\ execution' = [execution EXCEPT ![c] = PendingExecution]
    /\ UNCHANGED <<worker, inflight, applied>>

---------------------------------------------------------------------------
(* The worker side: poll and run_once.                                     *)

\* The row lock of a key is held by the worker whose transaction claimed it.
Locked(c) == \E w \in Workers : worker[w].claim = c

\* Mutant of Claimable: the select without FOR UPDATE SKIP LOCKED.
ClaimableUnlocked(c) == record[c].status = "pending"

\* Mutant of Claimable: only rows that were never tried.
ClaimableOnce(c) == record[c].status = "pending" /\ record[c].attempts = 0 /\ ~Locked(c)

Claimable(c) == record[c].status = "pending" /\ ~Locked(c)

\* ORDER BY created_at LIMIT 1 FOR UPDATE SKIP LOCKED.
OldestClaimable(c) ==
    /\ Claimable(c)
    /\ \A d \in Commands : Claimable(d) => CreatedAt[c] <= CreatedAt[d]

CountAttempt(c) ==
    IF record[c].attempts < MaxAttempts THEN record[c].attempts + 1
                                        ELSE record[c].attempts

\* The columns written by the commit that ends an iteration for key c.
Commit(c, status, exec) ==
    /\ record' = [record EXCEPT ![c] = [status |-> status,
                                        attempts |-> CountAttempt(c)]]
    /\ execution' = [execution EXCEPT ![c] = exec]

\* Mutant of MarkFailed: only the queue row is marked.
MarkFailedRecordOnly(c) == Commit(c, "failed", execution[c])

MarkFailed(c) == Commit(c, "failed", FailedExecution)

\* The commit releases the lock; the loop goes on with one iteration fewer.
NextIteration(w) ==
    worker' = [worker EXCEPT ![w] = [pc |-> "looping", left |-> @.left - 1,
                                     claim |-> None]]

BeginBatch(w) ==
    /\ worker[w].pc = "sleeping"
    /\ worker' = [worker EXCEPT ![w] = [pc |-> "looping", left |-> BatchSize,
                                        claim |-> None]]
    /\ UNCHANGED <<record, execution, inflight, applied>>

\* The range is exhausted, or pending_batch returned no row.
EndBatch(w) ==
    /\ worker[w].pc = "looping"
    /\ worker[w].left = 0 \/ (\A c \in Commands : ~Claimable(c))
    /\ worker' = [worker EXCEPT ![w] = Sleeping]
    /\ UNCHANGED <<record, execution, inflight, applied>>

\* executor.execute is called with the lock held and nothing committed.
Claim(w, c) ==
    /\ w \in Equipped
    /\ worker[w].pc = "looping"
    /\ worker[w].left > 0
    /\ OldestClaimable(c)
    /\ worker' = [worker EXCEPT ![w] = [pc |-> "calling", left |-> @.left,
                                        claim |-> c]]
    /\ inflight' = inflight \cup {c}
    /\ UNCHANGED <<record, execution, applied>>

\* executor is None: claimed, marked failed and committed, without a call.
FailClosed(w, c) ==
    /\ w \notin Equipped
    /\ worker[w].pc = "looping"
    /\ worker[w].left > 0
    /\ OldestClaimable(c)
    /\ MarkFailed(c)
    /\ NextIteration(w)
    /\ UNCHANGED <<inflight, applied>>

\* A verified result that carries the external id.  The adapter verifies by
\* looking the event up, so such an answer exists only once the event does.
AnswerVerified(w, c) ==
    /\ worker[w].pc = "calling"
    /\ worker[w].claim = c
    /\ c \in applied
    /\ Commit(c, "succeeded", SucceededExecution(c))
    /\ NextIteration(w)
    /\ UNCHANGED <<inflight, applied>>

\* An unverified result, one without an external id, or any exception other
\* than TimeoutError: the row is failed whatever the provider did or will do.
AnswerFailed(w, c) ==
    /\ worker[w].pc = "calling"
    /\ worker[w].claim = c
    /\ MarkFailed(c)
    /\ NextIteration(w)
    /\ UNCHANGED <<inflight, applied>>

\* Mutant of AnswerTimeout: an unknown outcome is taken for a success.
AnswerTimeoutSucceeds(w, c) ==
    /\ worker[w].pc = "calling"
    /\ worker[w].claim = c
    /\ Commit(c, "succeeded", SucceededExecution(c))
    /\ NextIteration(w)
    /\ UNCHANGED <<inflight, applied>>

\* TimeoutError: outcome unknown; the row stays pending, the execution as is.
AnswerTimeout(w, c) ==
    /\ worker[w].pc = "calling"
    /\ worker[w].claim = c
    /\ Commit(c, "pending", execution[c])
    /\ NextIteration(w)
    /\ UNCHANGED <<inflight, applied>>

\* SIGINT or SIGTERM sets the stop event, which poll looks at between batches.
Stop(w) ==
    /\ worker[w].pc = "sleeping"
    /\ worker' = [worker EXCEPT ![w] = [@ EXCEPT !.pc = "stopped"]]
    /\ UNCHANGED <<record, execution, inflight, applied>>

\* The process dies: its transaction is rolled back and the lock released, the
\* request it may have sent is not recalled.
Crash(w) ==
    /\ worker[w].pc \in {"sleeping", "looping", "calling"}
    /\ worker' = [worker EXCEPT ![w] = [pc |-> "down", left |-> 0,
                                        claim |-> None]]
    /\ UNCHANGED <<record, execution, inflight, applied>>

Restart(w) ==
    /\ worker[w].pc \in {"stopped", "down"}
    /\ worker' = [worker EXCEPT ![w] = Sleeping]
    /\ UNCHANGED <<record, execution, inflight, applied>>

---------------------------------------------------------------------------
(* The provider (external).                                                *)

\* The event for the key exists from now on.  Whether further copies of the
\* request are still under way is left open.
ProviderApplies(c) ==
    /\ c \in inflight
    /\ applied' = applied \cup {c}
    /\ inflight' \in {inflight, inflight \ {c}}
    /\ UNCHANGED <<record, execution, worker>>

ProviderLoses(c) ==
    /\ c \in inflight
    /\ inflight' = inflight \ {c}
    /\ UNCHANGED <<record, execution, worker, applied>>

---------------------------------------------------------------------------
Answer(w, c) == AnswerVerified(w, c) \/ AnswerFailed(w, c) \/ AnswerTimeout(w, c)

Next ==
    \/ \E c \in Commands : Enqueue(c) \/ ProviderApplies(c) \/ ProviderLoses(c)
    \/ \E w \in Workers : BeginBatch(w) \/ EndBatch(w) \/ Stop(w) \/ Crash(w)
                          \/ Restart(w)
    \/ \E w \in Workers, c \in Commands :
          Claim(w, c) \/ FailClosed(w, c) \/ Answer(w, c)

Spec == Init /\ [][Next]_vars

\* What a worker's own code, or its supervisor, does next if nothing stops it.
Proceed(w) == EndBatch(w) \/ Restart(w) \/ \E c \in Commands : Answer(w, c)

\* poll loops for ever and a supervisor restarts what stopped; a worker is not
\* stopped or killed every time before it begins a batch, nor every time before
\* it claims a row; and the calls for an Answering key do not all end in a
\* timeout or a crash.
Fairness ==
    /\ \A w \in Workers :
          /\ WF_vars(Proceed(w)) /\ SF_vars(BeginBatch(w))
          /\ SF_vars(\E c \in Commands : Claim(w, c) \/ FailClosed(w, c))
    /\ \A c \in Answering :
          SF_vars(\E w \in Workers : AnswerVerified(w, c) \/ AnswerFailed(w, c))

FairSpec == Spec /\ Fairness

---------------------------------------------------------------------------
Settled(c) == record[c].status \in {"succeeded", "failed"}

\* No false success: a row says succeeded only when the event exists at the
\* provider and the execution is verified and carries that event's id.
SuccessIsReal ==
    \A c \in Commands : record[c].status = "succeeded" =>
        c \in applied /\ execution[c] = SucceededExecution(c)

\* The queue row and its execution row, which two tables hold and a crash can
\* interrupt, always tell the same story.
RowsAgree ==
    \A c \in Commands :
        <<record[c].status, execution[c].result>> \in
            {<<"absent", "absent">>, <<"pending", "Pending">>,
             <<"succeeded", "Succeeded">>, <<"failed", "Failed">>}

\* Two workers never have the same command at the provider, and a command that
\* somebody is executing has no recorded outcome yet: with SKIP LOCKED no
\* duplicate delivery starts from a row another worker is settling.
ClaimIsExclusive ==
    \A w \in Workers : worker[w].claim # None =>
        /\ record[worker[w].claim].status = "pending"
        /\ \A v \in Workers \ {w} : worker[v].claim # worker[w].claim

\* A recorded outcome, with its external id, is never changed again, by a late
\* answer, a second worker, a restart or a second enqueue of the same key.
SettledIsFinal ==
    [][\A c \in Commands : Settled(c) =>
          record'[c] = record[c] /\ execution'[c] = execution[c]]_vars

\* The outbox keeps the contract of ExternalExecution.
Contract == INSTANCE ExternalExecution
    WITH outcome <- [c \in Commands |-> record[c].status], performed <- applied
KeepsContract == Contract!ExtSpec

\* Every recorded command whose provider eventually answers is settled.
AnsweredCommandsSettle ==
    \A c \in Answering : record[c].status = "pending" ~> Settled(c)
===========================================================================
