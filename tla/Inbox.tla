-------------------------------- MODULE Inbox --------------------------------
(***************************************************************************)
(* Inbox items from their creation to the decision on what was found in    *)
(* them (inbox/service.py, inbox/router.py, worker files/jobs.py).         *)
(*                                                                         *)
(* Workers run processing jobs in transactions of their own: a job loads   *)
(* the item without a lock, reserves the key of its operation, and commits *)
(* the key, the item's status and the candidates together.  Users decide   *)
(* candidates under locks on the candidate's and the item's row.           *)
(***************************************************************************)
EXTENDS Integers, FiniteSets, Sequences, TLC, Functions

CONSTANTS
    Items,
    Fixtures,       \* items that exist from the start, each with a candidate
    Operations,     \* operation ids under which jobs are delivered
    ItemOf,         \* operation -> the item its job is for
    MarkTargets,    \* the statuses mark is called with
    Workers,
    Users,
    Nobody,
    MaxCrashes      \* bound on the crashes of workers and API processes

VARIABLES
    items,          \* item -> its row
    candidates,     \* the rows of candidate_facts, in the order of insertion
    keys,           \* the committed idempotency keys
    audit,          \* the events of the decisions, in order
    worker,         \* worker -> its job
    lock,           \* item -> the user that holds its row and those of its candidates
    deciding,       \* user -> the decision it has locked the rows for
    crashes

vars == <<items, candidates, keys, audit, worker, lock, deciding, crashes>>

ASSUME InboxAssumption ==
    /\ Fixtures \subseteq Items /\ IsFiniteSet(Fixtures) /\ Fixtures \cap Operations = {}
    /\ ItemOf \in [Operations -> Items]
    /\ Nobody \notin Users
    /\ MaxCrashes \in Nat

\* INBOX_TRANSITIONS
Transitions ==
    [NEW                |-> {"PROCESSING", "IGNORED"},
     PROCESSING         |-> {"NEEDS_CONFIRMATION", "STRUCTURED", "FAILED"},
     NEEDS_CONFIRMATION |-> {"STRUCTURED", "IGNORED", "PROCESSING"},
     FAILED             |-> {"PROCESSING", "IGNORED"},
     STRUCTURED         |-> {},
     IGNORED            |-> {}]

Statuses == DOMAIN Transitions

Decisions == {"CONFIRMED", "IGNORED"}

StatusAfter(decision) == IF decision = "CONFIRMED" THEN "STRUCTURED" ELSE "IGNORED"

Absent == [status |-> "ABSENT", blank |-> FALSE]

NoJob == [step |-> "idle"]

NoDecision == [step |-> "idle"]

\* The operation that made the candidate of a fixture is not one of Operations.
Candidate(i, operation) == [item |-> i, operation |-> operation, decision |-> "HOLD"]

Init ==
    /\ items = [i \in Items |-> IF i \in Fixtures
                                THEN [status |-> "NEEDS_CONFIRMATION", blank |-> FALSE]
                                ELSE Absent]
    /\ \E order \in Bijection(1 .. Cardinality(Fixtures), Fixtures) :
          candidates = [n \in 1 .. Cardinality(Fixtures) |-> Candidate(order[n], order[n])]
    /\ keys = {}
    /\ audit = <<>>
    /\ worker = [w \in Workers |-> NoJob]
    /\ lock = [i \in Items |-> Nobody]
    /\ deciding = [u \in Users |-> NoDecision]
    /\ crashes = 0
-----------------------------------------------------------------------------
Exists(i) == items[i] # Absent

\* create_from_text: the text may be blank.
CreateFromText(i) ==
    /\ ~Exists(i)
    /\ \E blank \in BOOLEAN : items' = [items EXCEPT ![i] = [status |-> "NEW", blank |-> blank]]
    /\ UNCHANGED <<candidates, keys, audit, worker, lock, deciding, crashes>>

\* ProcessingJob.run is delivered, perhaps not for the first time.
Load(w, operation) ==
    /\ worker[w] = NoJob
    /\ Exists(ItemOf[operation])
    /\ worker' = [worker EXCEPT ![w] = [step |-> "loaded", item |-> ItemOf[operation],
                                        operation |-> operation,
                                        seen |-> items[ItemOf[operation]].status]]
    /\ UNCHANGED <<items, candidates, keys, audit, lock, deciding, crashes>>

\* Mutants of Waits: a key that is reserved but not committed is not seen, or
\* a key that is committed is waited for.
NeverWaits(w) == FALSE

WaitsForCommitted(w) == worker[w].operation \in keys

\* Another transaction has inserted the key and not ended yet.
Waits(w) ==
    \E v \in Workers \ {w} :
        worker[v].step = "reserved" /\ worker[v].operation = worker[w].operation

\* reserve_key, and the two early returns behind it.
Reserve(w) ==
    /\ worker[w].step = "loaded"
    /\ ~Waits(w)
    /\ worker' = [worker EXCEPT ![w] =
          IF worker[w].operation \in keys \/ worker[w].seen # "NEW"
          THEN NoJob
          ELSE [@ EXCEPT !.step = "reserved"]]
    /\ UNCHANGED <<items, candidates, keys, audit, lock, deciding, crashes>>

\* The one commit of a job: whatever the item's status is by now, it becomes
\* what follows from the candidates found.
CommitJob(w) ==
    /\ worker[w].step = "reserved"
    /\ LET i     == worker[w].item
           found == IF items[i].blank THEN <<>> ELSE <<Candidate(i, worker[w].operation)>>
       IN  /\ lock[i] = Nobody
           /\ candidates' = candidates \o found
           /\ items' = [items EXCEPT ![i].status =
                 IF found = <<>> THEN "NEEDS_CONFIRMATION" ELSE "STRUCTURED"]
    /\ keys' = keys \cup {worker[w].operation}
    /\ worker' = [worker EXCEPT ![w] = NoJob]
    /\ UNCHANGED <<audit, lock, deciding, crashes>>

\* FailingProcessingJob.run: the item is read and, if it is new, written.
LoadToFail(w, i) ==
    /\ worker[w] = NoJob
    /\ Exists(i)
    /\ worker' = [worker EXCEPT ![w] = [step |-> "failing", item |-> i, seen |-> items[i].status]]
    /\ UNCHANGED <<items, candidates, keys, audit, lock, deciding, crashes>>

BeginToFail(w) ==
    /\ worker[w].step = "failing"
    /\ LET i == worker[w].item
       IN  IF worker[w].seen = "NEW"
           THEN /\ lock[i] = Nobody
                /\ items' = [items EXCEPT ![i].status = "PROCESSING"]
           ELSE UNCHANGED items
    /\ worker' = [worker EXCEPT ![w] = [@ EXCEPT !.step = "failed"]]
    /\ UNCHANGED <<candidates, keys, audit, lock, deciding, crashes>>

\* mark and mark_failed read the status, check the transition and write.
ReadToMark(w) ==
    /\ worker[w].step = "failed"
    /\ worker' = [worker EXCEPT ![w] =
          IF "FAILED" \in Transitions[items[worker[w].item].status]
          THEN [step |-> "marking", item |-> worker[w].item, target |-> "FAILED"]
          ELSE NoJob]
    /\ UNCHANGED <<items, candidates, keys, audit, lock, deciding, crashes>>

Mark(w, i, target) ==
    /\ worker[w] = NoJob
    /\ Exists(i)
    /\ target \in Transitions[items[i].status]
    /\ worker' = [worker EXCEPT ![w] = [step |-> "marking", item |-> i, target |-> target]]
    /\ UNCHANGED <<items, candidates, keys, audit, lock, deciding, crashes>>

WriteMark(w) ==
    /\ worker[w].step = "marking"
    /\ lock[worker[w].item] = Nobody
    /\ items' = [items EXCEPT ![worker[w].item].status = worker[w].target]
    /\ worker' = [worker EXCEPT ![w] = NoJob]
    /\ UNCHANGED <<candidates, keys, audit, lock, deciding, crashes>>

\* Everything the transaction has done is rolled back.
WorkerCrashes(w) ==
    /\ worker[w] # NoJob
    /\ crashes < MaxCrashes
    /\ crashes' = crashes + 1
    /\ worker' = [worker EXCEPT ![w] = NoJob]
    /\ UNCHANGED <<items, candidates, keys, audit, lock, deciding>>
-----------------------------------------------------------------------------
\* Mutant of RowsAreFree: the rows are read without FOR UPDATE.
RowsAreRead(i) == TRUE

RowsAreFree(i) == lock[i] = Nobody

\* What decide_candidate accepts: a candidate that is on hold, of an item
\* that may go where the decision takes it.  Anything else changes nothing.
MayDecide(k, decision) ==
    /\ candidates[k].decision = "HOLD"
    /\ StatusAfter(decision) \in Transitions[items[candidates[k].item].status]

\* decide_candidate selects the rows FOR UPDATE and checks the decision.
LockToDecide(u, k, decision) ==
    /\ deciding[u] = NoDecision
    /\ RowsAreFree(candidates[k].item)
    /\ MayDecide(k, decision)
    /\ lock' = [lock EXCEPT ![candidates[k].item] = u]
    /\ deciding' = [deciding EXCEPT ![u] = [step |-> "locked", candidate |-> k,
                                            decision |-> decision]]
    /\ UNCHANGED <<items, candidates, keys, audit, worker, crashes>>

EndDecision(u) ==
    /\ deciding' = [deciding EXCEPT ![u] = NoDecision]
    /\ lock' = [i \in Items |-> IF lock[i] = u THEN Nobody ELSE lock[i]]

CommitDecision(u) ==
    /\ deciding[u].step = "locked"
    /\ LET k == deciding[u].candidate
           d == deciding[u].decision
       IN  /\ candidates' = [candidates EXCEPT ![k].decision = d]
           /\ items' = [items EXCEPT ![candidates[k].item].status = StatusAfter(d)]
           /\ audit' = Append(audit, [candidate |-> k, decision |-> d])
    /\ EndDecision(u)
    /\ UNCHANGED <<keys, worker, crashes>>

RequestCrashes(u) ==
    /\ deciding[u] # NoDecision
    /\ crashes < MaxCrashes
    /\ crashes' = crashes + 1
    /\ EndDecision(u)
    /\ UNCHANGED <<items, candidates, keys, audit, worker>>
-----------------------------------------------------------------------------
WorkerStep(w) ==
    Reserve(w) \/ CommitJob(w) \/ BeginToFail(w) \/ ReadToMark(w) \/ WriteMark(w)

Next ==
    \/ \E i \in Items : CreateFromText(i)
    \/ \E w \in Workers, o \in Operations : Load(w, o)
    \/ \E w \in Workers, i \in Items : LoadToFail(w, i)
    \/ \E w \in Workers, i \in Items, s \in MarkTargets : Mark(w, i, s)
    \/ \E w \in Workers : WorkerStep(w) \/ WorkerCrashes(w)
    \/ \E u \in Users, k \in DOMAIN candidates, d \in Decisions : LockToDecide(u, k, d)
    \/ \E u \in Users : CommitDecision(u) \/ RequestCrashes(u)

Spec == Init /\ [][Next]_vars

\* A transaction that is not waiting goes on; the database grants a row to
\* those that wait for it in turn.
FairSpec ==
    /\ Spec
    /\ \A w \in Workers : SF_vars(WorkerStep(w))
    /\ \A u \in Users : WF_vars(CommitDecision(u))
-----------------------------------------------------------------------------
(***************************************************************************)
(* An operation runs once, whatever is delivered again, at the same time   *)
(* or after a crash: it leaves one candidate at most, the key and what was *)
(* found are there together or not at all (ProcessingJob, reserve_key).    *)
(***************************************************************************)
OperationRunsOnce ==
    /\ \A j, k \in DOMAIN candidates : candidates[j].operation = candidates[k].operation => j = k
    /\ \A k \in DOMAIN candidates :
          candidates[k].operation \in Operations => candidates[k].operation \in keys
    /\ \A o \in keys :
          \/ \E k \in DOMAIN candidates : candidates[k].operation = o
          \/ \E i \in Items : Exists(i) /\ items[i].blank /\ items[i].status # "NEW"

(***************************************************************************)
(* A candidate is decided once: the decision it has is the one that was    *)
(* audited, and no other one ever was (decide_candidate).                  *)
(***************************************************************************)
DecidedOnce ==
    \A k \in DOMAIN candidates :
        LET events == {n \in DOMAIN audit : audit[n].candidate = k}
        IN  IF candidates[k].decision = "HOLD"
            THEN events = {}
            ELSE \E n \in events : events = {n} /\ audit[n].decision = candidates[k].decision

(***************************************************************************)
(* No job waits for ever: neither for a key nor for the row of its item    *)
(* (reserve_key, ProcessingJob.run, mark_failed).                          *)
(***************************************************************************)
JobsEnd == \A w \in Workers : worker[w] # NoJob ~> worker[w] = NoJob
=============================================================================
