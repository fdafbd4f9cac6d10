---------------------------- MODULE OutboxProofs ----------------------------
(***************************************************************************)
(* Theorems about Outbox, for any number of commands and workers, any      *)
(* batch size and any order of creation.  Everything follows from one      *)
(* inductive invariant, IInv.                                              *)
(***************************************************************************)
EXTENDS Outbox, TLAPS

\* A worker is inside a provider call exactly while it holds a row lock, and
\* then its loop has an iteration left: the one it is in.
CallsHoldClaims ==
    \A w \in Workers :
        /\ worker[w].pc = "calling" <=> worker[w].claim # None
        /\ worker[w].pc = "calling" => worker[w].left > 0

\* The provider only ever sees keys that are recorded.
RequestsAreRecorded ==
    \A c \in inflight \cup applied : record[c].status # "absent"

IInv ==
    /\ TypeOK
    /\ CallsHoldClaims
    /\ RequestsAreRecorded
    /\ ClaimIsExclusive
    /\ RowsAgree
    /\ SuccessIsReal

---------------------------------------------------------------------------
\* The initial state satisfies the invariant.
LEMMA InitIInv == Init => IInv
  <1> SUFFICES ASSUME Init PROVE IInv
    OBVIOUS
  <1> USE BatchAssumption, AttemptsAssumption, NoneAssumption DEF Init, Sleeping
  <1>1. TypeOK
    BY DEF TypeOK, Records, Executions, WorkerStates, Statuses, Results, AbsentExecution
  <1>2. CallsHoldClaims /\ RequestsAreRecorded /\ ClaimIsExclusive
    BY DEF CallsHoldClaims, RequestsAreRecorded, ClaimIsExclusive
  <1>3. RowsAgree /\ SuccessIsReal
    BY DEF RowsAgree, SuccessIsReal, AbsentExecution
  <1> QED
    BY <1>1, <1>2, <1>3 DEF IInv

\* Attempts saturate at the bound of the model.
LEMMA CountAttemptType ==
    ASSUME TypeOK, NEW c \in Commands
    PROVE  CountAttempt(c) \in 0..MaxAttempts
  BY AttemptsAssumption DEF TypeOK, Records, CountAttempt

\* Recording a new command.
LEMMA EnqueueIInv ==
    ASSUME IInv, NEW c \in Commands, Enqueue(c)
    PROVE  IInv'
  <1> USE AttemptsAssumption, NoneAssumption DEF IInv, Enqueue
  <1>1. TypeOK'
    BY DEF TypeOK, Records, Executions, Statuses, Results, PendingExecution
  <1>2. CallsHoldClaims' /\ RequestsAreRecorded'
    BY DEF TypeOK, CallsHoldClaims, RequestsAreRecorded
  <1>3. ClaimIsExclusive'
    BY DEF TypeOK, WorkerStates, Records, ClaimIsExclusive
  <1>4. RowsAgree' /\ SuccessIsReal'
    BY DEF TypeOK, RowsAgree, SuccessIsReal, PendingExecution
  <1> QED
    BY <1>1, <1>2, <1>3, <1>4 DEF IInv

\* A commit that ends an iteration: worker w, which no other worker competes
\* with for the pending row c, writes one of the three consistent outcomes.
LEMMA CommitIInv ==
    ASSUME IInv, NEW w \in Workers, NEW c \in Commands,
           NEW status, NEW exec,
           record[c].status = "pending",
           worker[w].left > 0,
           \A v \in Workers \ {w} : worker[v].claim # c,
           \/ status = "pending" /\ exec = execution[c]
           \/ status = "failed" /\ exec = FailedExecution
           \/ status = "succeeded" /\ exec = SucceededExecution(c) /\ c \in applied,
           Commit(c, status, exec), NextIteration(w), UNCHANGED <<inflight, applied>>
    PROVE  IInv'
  <1> USE NoneAssumption DEF IInv, Commit, NextIteration
  <1>1. CountAttempt(c) \in 0..MaxAttempts
    BY CountAttemptType
  <1>2. record' \in [Commands -> Records]
    BY <1>1 DEF TypeOK, Records, Statuses
  <1>3. execution' \in [Commands -> Executions]
    <2>1. execution[c] \in Executions
      BY DEF TypeOK
    <2>2. FailedExecution \in Executions /\ SucceededExecution(c) \in Executions
      BY DEF Executions, Results, FailedExecution, SucceededExecution, ExternalId
    <2>3. exec \in Executions
      BY <2>1, <2>2
    <2> QED
      BY <2>3 DEF TypeOK
  <1>4. worker' \in [Workers -> WorkerStates]
    BY BatchAssumption DEF TypeOK, WorkerStates
  <1>5. TypeOK'
    BY <1>2, <1>3, <1>4 DEF TypeOK
  <1>6. CallsHoldClaims'
    BY DEF TypeOK, CallsHoldClaims
  <1>7. RequestsAreRecorded'
    BY DEF TypeOK, RequestsAreRecorded
  <1>8. ClaimIsExclusive'
    BY DEF TypeOK, WorkerStates, ClaimIsExclusive
  <1>9. RowsAgree'
    BY DEF TypeOK, RowsAgree, FailedExecution, SucceededExecution
  <1>10. SuccessIsReal'
    BY DEF TypeOK, SuccessIsReal, SucceededExecution
  <1> QED
    BY <1>5, <1>6, <1>7, <1>8, <1>9, <1>10

\* What a worker in a provider call may rely on: the row it claimed is its own
\* and still pending.
LEMMA CallerOwnsRow ==
    ASSUME IInv, NEW w \in Workers, NEW c \in Commands,
           worker[w].pc = "calling", worker[w].claim = c
    PROVE  /\ record[c].status = "pending"
           /\ worker[w].left > 0
           /\ \A v \in Workers \ {w} : worker[v].claim # c
  BY NoneAssumption DEF IInv, CallsHoldClaims, ClaimIsExclusive

\* The three answers of the provider.
LEMMA AnswerIInv ==
    ASSUME IInv, NEW w \in Workers, NEW c \in Commands, Answer(w, c)
    PROVE  IInv'
  <1>1. CASE AnswerVerified(w, c)
    BY <1>1, CallerOwnsRow, CommitIInv DEF AnswerVerified
  <1>2. CASE AnswerFailed(w, c)
    BY <1>2, CallerOwnsRow, CommitIInv DEF AnswerFailed, MarkFailed
  <1>3. CASE AnswerTimeout(w, c)
    BY <1>3, CallerOwnsRow, CommitIInv DEF AnswerTimeout
  <1> QED
    BY <1>1, <1>2, <1>3 DEF Answer

\* A worker without an executor fails the row it selects.
LEMMA FailClosedIInv ==
    ASSUME IInv, NEW w \in Workers, NEW c \in Commands, FailClosed(w, c)
    PROVE  IInv'
  <1>1. record[c].status = "pending" /\ \A v \in Workers \ {w} : worker[v].claim # c
    BY DEF FailClosed, OldestClaimable, Claimable, Locked
  <1> QED
    BY <1>1, CommitIInv DEF FailClosed, MarkFailed

\* Claiming a row that nobody has locked keeps claims exclusive.
LEMMA ClaimIInv ==
    ASSUME IInv, NEW w \in Workers, NEW c \in Commands, Claim(w, c)
    PROVE  IInv'
  <1> USE NoneAssumption DEF IInv, Claim
  <1>1. record[c].status = "pending" /\ \A v \in Workers : worker[v].claim # c
    BY DEF OldestClaimable, Claimable, Locked
  <1>2. worker' = [worker EXCEPT ![w] = [pc |-> "calling", left |-> worker[w].left,
                                        claim |-> c]]
    BY DEF TypeOK
  <1>3. TypeOK'
    BY <1>2 DEF TypeOK, WorkerStates
  <1>4. CallsHoldClaims'
    BY <1>2 DEF TypeOK, CallsHoldClaims
  <1>5. RequestsAreRecorded'
    BY <1>1 DEF TypeOK, RequestsAreRecorded
  <1>6. ClaimIsExclusive'
    BY <1>1, <1>2 DEF TypeOK, WorkerStates, ClaimIsExclusive
  <1>7. RowsAgree' /\ SuccessIsReal'
    BY DEF RowsAgree, SuccessIsReal
  <1> QED
    BY <1>3, <1>4, <1>5, <1>6, <1>7

\* A worker that leaves whatever it was doing holds no claim afterwards.
LEMMA ReleaseIInv ==
    ASSUME IInv, NEW w \in Workers, NEW new \in WorkerStates,
           new.pc # "calling", new.claim = None,
           worker' = [worker EXCEPT ![w] = new],
           UNCHANGED <<record, execution, inflight, applied>>
    PROVE  IInv'
  <1> USE NoneAssumption DEF IInv
  <1>1. TypeOK'
    BY DEF TypeOK
  <1>2. CallsHoldClaims'
    BY DEF TypeOK, CallsHoldClaims
  <1>3. ClaimIsExclusive'
    BY DEF TypeOK, ClaimIsExclusive
  <1>4. RequestsAreRecorded' /\ RowsAgree' /\ SuccessIsReal'
    BY DEF RequestsAreRecorded, RowsAgree, SuccessIsReal
  <1> QED
    BY <1>1, <1>2, <1>3, <1>4

\* Batches, stops, crashes and restarts.
LEMMA WorkerIInv ==
    ASSUME IInv, NEW w \in Workers,
           BeginBatch(w) \/ EndBatch(w) \/ Stop(w) \/ Crash(w) \/ Restart(w)
    PROVE  IInv'
  <1> DEFINE Resting(pc, left) == [pc |-> pc, left |-> left, claim |-> None]
  <1>1. CASE BeginBatch(w)
    <2>1. Resting("looping", BatchSize) \in WorkerStates
      BY BatchAssumption DEF WorkerStates
    <2> QED
      BY <1>1, <2>1, ReleaseIInv DEF BeginBatch
  <1>2. CASE EndBatch(w) \/ Restart(w)
    <2>1. Resting("sleeping", 0) \in WorkerStates
      BY BatchAssumption DEF WorkerStates
    <2> QED
      BY <1>2, <2>1, ReleaseIInv DEF EndBatch, Restart, Sleeping
  <1>3. CASE Stop(w)
    <2>1. worker[w] \in WorkerStates /\ worker[w].claim = None
      BY <1>3 DEF IInv, TypeOK, CallsHoldClaims, Stop
    <2> DEFINE new == [worker[w] EXCEPT !.pc = "stopped"]
    <2>2. new \in WorkerStates /\ new.pc # "calling" /\ new.claim = None
      BY <2>1 DEF WorkerStates
    <2> QED
      BY <1>3, <2>2, ReleaseIInv DEF Stop
  <1>4. CASE Crash(w)
    <2>1. Resting("down", 0) \in WorkerStates
      BY BatchAssumption DEF WorkerStates
    <2> QED
      BY <1>4, <2>1, ReleaseIInv DEF Crash
  <1> QED
    BY <1>1, <1>2, <1>3, <1>4

\* The provider acts on, or loses, a request.
LEMMA ProviderIInv ==
    ASSUME IInv, NEW c \in Commands, ProviderApplies(c) \/ ProviderLoses(c)
    PROVE  IInv'
  <1> USE DEF IInv, ProviderApplies, ProviderLoses
  <1>1. TypeOK' /\ RequestsAreRecorded'
    BY DEF TypeOK, RequestsAreRecorded
  <1>2. CallsHoldClaims' /\ ClaimIsExclusive' /\ RowsAgree'
    BY DEF CallsHoldClaims, ClaimIsExclusive, RowsAgree
  <1>3. SuccessIsReal'
    BY DEF SuccessIsReal
  <1> QED
    BY <1>1, <1>2, <1>3

\* Every step, and every stuttering step, preserves the invariant.
LEMMA NextIInv == IInv /\ [Next]_vars => IInv'
  <1> SUFFICES ASSUME IInv, [Next]_vars PROVE IInv'
    OBVIOUS
  <1>1. CASE \E c \in Commands : Enqueue(c) \/ ProviderApplies(c) \/ ProviderLoses(c)
    BY <1>1, EnqueueIInv, ProviderIInv
  <1>2. CASE \E w \in Workers : BeginBatch(w) \/ EndBatch(w) \/ Stop(w) \/ Crash(w)
                                \/ Restart(w)
    BY <1>2, WorkerIInv
  <1>3. CASE \E w \in Workers, c \in Commands :
                Claim(w, c) \/ FailClosed(w, c) \/ Answer(w, c)
    BY <1>3, ClaimIInv, FailClosedIInv, AnswerIInv
  <1>4. CASE UNCHANGED vars
    BY <1>4 DEF vars, IInv, TypeOK, CallsHoldClaims, RequestsAreRecorded,
                ClaimIsExclusive, RowsAgree, SuccessIsReal
  <1> QED
    BY <1>1, <1>2, <1>3, <1>4 DEF Next

---------------------------------------------------------------------------
\* No invariant is lost on the way: the workers, their crashes and restarts and
\* the late effects of the provider keep IInv.
THEOREM Invariance == Spec => []IInv
  <1>1. Init => IInv
    BY InitIInv
  <1>2. IInv /\ [Next]_vars => IInv'
    BY NextIInv
  <1> QED
    BY <1>1, <1>2, PTL DEF Spec

\* Every variable keeps its type: in particular no worker's loop counter ever
\* goes below zero, which needs CallsHoldClaims.
THEOREM TypeCorrect == Spec => []TypeOK
  <1>1. IInv => TypeOK
    BY DEF IInv
  <1> QED
    BY <1>1, Invariance, PTL

\* run_once never records a success for an event that does not exist, or
\* without that event's id.
THEOREM NoFalseSuccess == Spec => []SuccessIsReal
  <1>1. IInv => SuccessIsReal
    BY DEF IInv
  <1> QED
    BY <1>1, Invariance, PTL

\* No two workers are ever in a provider call for the same command, whatever
\* their number: SKIP LOCKED and the transaction around the call suffice.
THEOREM ExclusiveClaims == Spec => []ClaimIsExclusive
  <1>1. IInv => ClaimIsExclusive
    BY DEF IInv
  <1> QED
    BY <1>1, Invariance, PTL

\* outbox_events and external_executions agree after every commit or crash.
THEOREM ConsistentRows == Spec => []RowsAgree
  <1>1. IInv => RowsAgree
    BY DEF IInv
  <1> QED
    BY <1>1, Invariance, PTL

---------------------------------------------------------------------------
\* Only a pending row is ever written by a step that keeps IInv.
LEMMA SettledStep ==
    ASSUME IInv, [Next]_vars, NEW c \in Commands, Settled(c)
    PROVE  record'[c] = record[c] /\ execution'[c] = execution[c]
  <1> DEFINE Kept == record'[c] = record[c] /\ execution'[c] = execution[c]
  <1>1. ASSUME NEW d \in Commands, NEW status, NEW exec,
               record[d].status = "pending", Commit(d, status, exec)
        PROVE  Kept
    BY <1>1 DEF Settled, Commit, IInv, TypeOK
  <1>2. ASSUME NEW d \in Commands, Enqueue(d) PROVE Kept
    BY <1>2 DEF Settled, Enqueue, IInv, TypeOK
  <1>3. ASSUME NEW w \in Workers, NEW d \in Commands, Answer(w, d) PROVE Kept
    <2>1. record[d].status = "pending"
      BY <1>3, CallerOwnsRow DEF Answer, AnswerVerified, AnswerFailed, AnswerTimeout
    <2> QED
      BY <1>1, <1>3, <2>1 DEF Answer, AnswerVerified, AnswerFailed, AnswerTimeout,
                              MarkFailed
  <1>4. ASSUME NEW w \in Workers, NEW d \in Commands, FailClosed(w, d) PROVE Kept
    BY <1>1, <1>4 DEF FailClosed, OldestClaimable, Claimable, MarkFailed
  <1>5. ASSUME UNCHANGED <<record, execution>> PROVE Kept
    BY <1>5
  <1> QED
    BY <1>2, <1>3, <1>4, <1>5
    DEF Next, vars, ProviderApplies, ProviderLoses, BeginBatch, EndBatch, Stop,
        Crash, Restart, Claim

\* A settled command stays settled: no late answer, crash, restart or second
\* enqueue ever changes its rows.
THEOREM OutcomesAreFinal == Spec => SettledIsFinal
  <1>1. IInv /\ [Next]_vars =>
            [\A c \in Commands : Settled(c) =>
                record'[c] = record[c] /\ execution'[c] = execution[c]]_vars
    BY SettledStep
  <1> QED
    BY <1>1, Invariance, PTL DEF Spec, SettledIsFinal

---------------------------------------------------------------------------
\* The outbox implements ExternalExecution: what happens to one command is
\* what the contract allows, and everything else is invisible.
outcomeBar == [c \in Commands |-> record[c].status]

\* Initially nothing is recorded and nothing performed.
LEMMA ContractInit == Init => Contract!ExtInit
  BY DEF Init, Contract!ExtInit

\* A step that leaves the statuses and the provider alone is a stutter.
LEMMA ContractStutter ==
    ASSUME UNCHANGED <<record, applied>>
    PROVE  UNCHANGED Contract!extVars
  BY DEF Contract!extVars

\* Enqueue requests the command.
LEMMA ContractRequest ==
    ASSUME IInv, NEW c \in Commands, Enqueue(c)
    PROVE  Contract!Request(c)
  <1>1. outcomeBar' = [outcomeBar EXCEPT ![c] = "pending"]
    BY DEF outcomeBar, Enqueue, IInv, TypeOK
  <1> QED
    BY <1>1 DEF outcomeBar, Contract!Request, Enqueue

\* A commit of one of the three outcomes settles the command, or is invisible.
LEMMA ContractCommit ==
    ASSUME IInv, NEW c \in Commands, NEW status, NEW exec,
           record[c].status = "pending", Commit(c, status, exec),
           UNCHANGED applied,
           status \in {"pending", "failed"} \/ (status = "succeeded" /\ c \in applied)
    PROVE  [Contract!ExtNext]_(Contract!extVars)
  <1>1. outcomeBar' = [outcomeBar EXCEPT ![c] = status]
    BY DEF outcomeBar, Commit, IInv, TypeOK
  <1>2. outcomeBar[c] = "pending"
    BY DEF outcomeBar
  <1>3. CASE status = "pending"
    BY <1>1, <1>2, <1>3 DEF outcomeBar, Contract!extVars
  <1>4. CASE status = "failed"
    BY <1>1, <1>2, <1>4 DEF outcomeBar, Contract!ExtNext, Contract!Settle, Contract!Fail
  <1>5. CASE status = "succeeded" /\ c \in applied
    BY <1>1, <1>2, <1>5
    DEF outcomeBar, Contract!ExtNext, Contract!Settle, Contract!Succeed
  <1> QED
    BY <1>3, <1>4, <1>5

\* The provider acts on recorded commands only.
LEMMA ContractPerform ==
    ASSUME IInv, NEW c \in Commands, ProviderApplies(c)
    PROVE  Contract!Perform(c)
  BY DEF IInv, TypeOK, RequestsAreRecorded, ProviderApplies, Contract!Perform

\* Every step of the outbox is a step of the contract or invisible to it.
LEMMA ContractNext ==
    ASSUME IInv, [Next]_vars
    PROVE  [Contract!ExtNext]_(Contract!extVars)
  <1> DEFINE Implemented == [Contract!ExtNext]_(Contract!extVars)
  <1>1. ASSUME NEW c \in Commands, Enqueue(c) PROVE Implemented
    BY <1>1, ContractRequest DEF Contract!ExtNext
  <1>2. ASSUME NEW c \in Commands, ProviderApplies(c) PROVE Implemented
    BY <1>2, ContractPerform DEF Contract!ExtNext
  <1>3. ASSUME NEW w \in Workers, NEW c \in Commands, Answer(w, c) PROVE Implemented
    <2>1. record[c].status = "pending"
      BY <1>3, CallerOwnsRow DEF Answer, AnswerVerified, AnswerFailed, AnswerTimeout
    <2> QED
      BY <1>3, <2>1, ContractCommit
      DEF Answer, AnswerVerified, AnswerFailed, AnswerTimeout, MarkFailed
  <1>4. ASSUME NEW w \in Workers, NEW c \in Commands, FailClosed(w, c)
        PROVE  Implemented
    BY <1>4, ContractCommit DEF FailClosed, OldestClaimable, Claimable, MarkFailed
  <1>5. ASSUME UNCHANGED <<record, applied>> PROVE Implemented
    BY <1>5, ContractStutter
  <1> QED
    BY <1>1, <1>2, <1>3, <1>4, <1>5
    DEF Next, vars, ProviderLoses, BeginBatch, EndBatch, Stop, Crash, Restart, Claim

\* The outbox keeps its contract, for any commands, workers and schedules.
THEOREM ImplementsContract == Spec => KeepsContract
  <1>1. Init => Contract!ExtInit
    BY ContractInit
  <1>2. IInv /\ [Next]_vars => [Contract!ExtNext]_(Contract!extVars)
    BY ContractNext
  <1> QED
    BY <1>1, <1>2, Invariance, PTL DEF Spec, KeepsContract, Contract!ExtSpec

=============================================================================
