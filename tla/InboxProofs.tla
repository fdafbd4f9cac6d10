---------------------------- MODULE InboxProofs ----------------------------
(***************************************************************************)
(* What the inbox promises whatever is delivered again, races or crashes,  *)
(* for any items, operations, workers and users: an operation leaves its   *)
(* candidate once, and a candidate is decided once.  The status of an item *)
(* needs no invariant: jobs and marks overwrite it without a lock.         *)
(***************************************************************************)
EXTENDS Inbox, FiniteSetTheorems, SequenceTheorems, TLAPS

ItemRows == {Absent} \cup [status : Statuses, blank : BOOLEAN]

CandidateRows ==
    [item : Items, operation : Operations \cup Fixtures, decision : Decisions \cup {"HOLD"}]

Jobs ==
    {NoJob}
    \cup [step : {"loaded", "reserved"}, item : Items, operation : Operations, seen : Statuses]
    \cup [step : {"failing", "failed"}, item : Items, seen : Statuses]
    \cup [step : {"marking"}, item : Items, target : Statuses \ {"NEW"}]

Locked == [step : {"locked"}, candidate : Nat, decision : Decisions]

InboxTyped ==
    /\ items \in [Items -> ItemRows]
    /\ candidates \in Seq(CandidateRows)
    /\ keys \subseteq Operations
    /\ audit \in Seq([candidate : Nat, decision : Decisions])
    /\ worker \in [Workers -> Jobs]
    /\ lock \in [Items -> Users \cup {Nobody}]
    /\ deciding \in [Users -> {NoDecision} \cup Locked]

JobsAreOfItems == \A w \in Workers : worker[w] # NoJob => Exists(worker[w].item)

CandidatesAreOfItems == \A k \in DOMAIN candidates : Exists(candidates[k].item)

\* A key under reservation is neither committed nor reserved by another job.
ReservedAlone ==
    \A w \in Workers : worker[w].step = "reserved" =>
        /\ worker[w].operation \notin keys
        /\ ~Waits(w)

\* Who decides a candidate holds its item's row, and the candidate is on hold.
DecidersHoldRows ==
    \A u \in Users : deciding[u] # NoDecision =>
        LET k == deciding[u].candidate
        IN  /\ k \in DOMAIN candidates
            /\ candidates[k].decision = "HOLD"
            /\ lock[candidates[k].item] = u

AuditsAreOfCandidates == \A n \in DOMAIN audit : audit[n].candidate \in DOMAIN candidates

InboxInv ==
    /\ InboxTyped
    /\ JobsAreOfItems
    /\ CandidatesAreOfItems
    /\ ReservedAlone
    /\ DecidersHoldRows
    /\ AuditsAreOfCandidates
    /\ OperationRunsOnce
    /\ DecidedOnce

\* The fixtures have a candidate each, and nothing else is there.
LEMMA InboxInitially == Init => InboxInv
<1> SUFFICES ASSUME Init PROVE InboxInv
  OBVIOUS
<1> DEFINE N == Cardinality(Fixtures)
<1>1. N \in Nat
  BY FS_CardinalityType, InboxAssumption
<1>2. PICK order \in Bijection(1 .. N, Fixtures) :
         candidates = [n \in 1 .. N |-> Candidate(order[n], order[n])]
  BY DEF Init
<1>3. /\ order \in [1 .. N -> Fixtures]
      /\ \A m, n \in 1 .. N : order[m] = order[n] => m = n
  BY <1>2 DEF Bijection, Injection, Surjection, IsInjective
<1> HIDE DEF N
<1>4. /\ candidates \in [1 .. N -> CandidateRows]
      /\ \A n \in 1 .. N : /\ candidates[n].decision = "HOLD"
                           /\ candidates[n].operation = order[n]
  BY <1>2, <1>3, InboxAssumption DEF Candidate, CandidateRows
<1>5. candidates \in Seq(CandidateRows) /\ DOMAIN candidates = 1 .. N
  BY <1>1, <1>4
<1>6. InboxTyped
  <2>1. items \in [Items -> ItemRows]
    BY DEF Init, ItemRows, Statuses, Transitions
  <2> QED BY <1>5, <2>1 DEF Init, InboxTyped, Jobs
<1>7. OperationRunsOnce
  <2>1. \A n \in DOMAIN candidates : candidates[n].operation \in Fixtures
    BY <1>3, <1>4, <1>5
  <2>2. \A m, n \in DOMAIN candidates :
           candidates[m].operation = candidates[n].operation => m = n
    BY <1>3, <1>4, <1>5
  <2>3. keys = {}
    BY DEF Init
  <2> QED BY <2>1, <2>2, <2>3, InboxAssumption DEF OperationRunsOnce
<1>8. DecidedOnce
  <2>1. DOMAIN audit = {}
    BY DEF Init
  <2> QED BY <1>4, <1>5, <2>1 DEF DecidedOnce
<1>9. CandidatesAreOfItems
  <2>1. \A n \in DOMAIN candidates : candidates[n].item \in Fixtures
    BY <1>2, <1>3, <1>5 DEF Candidate
  <2>2. \A i \in Fixtures : Exists(i)
    BY InboxAssumption DEF Init, Exists, Absent
  <2> QED BY <2>1, <2>2 DEF CandidatesAreOfItems
<1>10. JobsAreOfItems /\ ReservedAlone /\ DecidersHoldRows /\ AuditsAreOfCandidates
  BY DEF Init, JobsAreOfItems, ReservedAlone, DecidersHoldRows, AuditsAreOfCandidates, NoJob
<1> QED BY <1>6, <1>7, <1>8, <1>9, <1>10 DEF InboxInv

\* What a candidate is made of.
LEMMA CandidateFields ==
    ASSUME InboxInv, NEW k \in DOMAIN candidates
    PROVE  k \in Nat /\ candidates[k] \in CandidateRows /\ candidates[k].item \in Items
<1>1. candidates \in Seq(CandidateRows)
  BY DEF InboxInv, InboxTyped
<1>2. k \in 1 .. Len(candidates) /\ Len(candidates) \in Nat
  BY <1>1, LenProperties
<1>3. candidates[k] \in CandidateRows
  BY <1>1, <1>2, ElementOfSeq
<1> QED BY <1>2, <1>3 DEF CandidateRows

\* Statuses change, candidates and keys do not: what remains is what the jobs know.
LEMMA WorkerMoves ==
    ASSUME InboxInv, UNCHANGED <<candidates, keys, audit, lock, deciding>>,
           items' \in [Items -> ItemRows],
           \A i \in Items : items'[i] # items[i] =>
              /\ items'[i] # Absent
              /\ Exists(i) => items'[i].status # "NEW" /\ items'[i].blank = items[i].blank,
           worker' \in [Workers -> Jobs],
           \A w \in Workers :
              \/ worker'[w] = worker[w]
              \/ worker'[w] = NoJob
              \/ worker'[w].step # "reserved" /\ Exists(worker'[w].item)
    PROVE  InboxInv'
<1>1. InboxTyped'
  BY DEF InboxInv, InboxTyped
<1>2. \A w \in Workers : worker[w].step = "reserved" => worker[w] # NoJob
  BY DEF NoJob
<1>3. \A w \in Workers : worker'[w].step = "reserved" => worker'[w] = worker[w]
  BY DEF NoJob
<1>4. ReservedAlone'
  BY <1>3 DEF InboxInv, ReservedAlone, Waits
<1>5. JobsAreOfItems'
  <2> SUFFICES ASSUME NEW w \in Workers, worker'[w] # NoJob PROVE items'[worker'[w].item] # Absent
    BY DEF JobsAreOfItems, Exists
  <2>1. Exists(worker'[w].item) /\ worker'[w].item \in Items
    BY DEF InboxInv, JobsAreOfItems, Jobs
  <2> QED BY <2>1 DEF Exists
<1>6. DecidersHoldRows' /\ AuditsAreOfCandidates' /\ DecidedOnce'
  BY DEF InboxInv, DecidersHoldRows, AuditsAreOfCandidates, DecidedOnce
<1>7. OperationRunsOnce'
  <2>1. ASSUME NEW i \in Items, Exists(i), items[i].blank, items[i].status # "NEW"
        PROVE  Exists(i)' /\ items'[i].blank /\ items'[i].status # "NEW"
    BY <2>1 DEF Exists
  <2> QED BY <2>1 DEF InboxInv, OperationRunsOnce
<1>8. CandidatesAreOfItems'
  <2> SUFFICES ASSUME NEW k \in DOMAIN candidates PROVE items'[candidates[k].item] # Absent
    BY DEF CandidatesAreOfItems, Exists
  <2>1. candidates[k].item \in Items /\ Exists(candidates[k].item)
    BY CandidateFields DEF InboxInv, CandidatesAreOfItems
  <2> QED BY <2>1 DEF Exists
<1> QED BY <1>1, <1>4, <1>5, <1>6, <1>7, <1>8 DEF InboxInv

\* What a job that has begun knows.
LEMMA JobFields ==
    ASSUME InboxInv, NEW w \in Workers, worker[w] # NoJob
    PROVE  /\ worker[w].item \in Items /\ Exists(worker[w].item)
           /\ items[worker[w].item] \in [status : Statuses, blank : BOOLEAN]
           /\ worker[w].step \in {"loaded", "reserved"} =>
                 worker[w].operation \in Operations /\ worker[w].seen \in Statuses
           /\ worker[w].step \in {"failing", "failed"} => worker[w].seen \in Statuses
           /\ worker[w].step = "marking" => worker[w].target \in Statuses \ {"NEW"}
<1>1. worker[w] \in Jobs /\ Exists(worker[w].item)
  BY DEF InboxInv, InboxTyped, JobsAreOfItems
<1>2. /\ worker[w].item \in Items
      /\ worker[w].step \in {"loaded", "reserved"} =>
            worker[w].operation \in Operations /\ worker[w].seen \in Statuses
      /\ worker[w].step \in {"failing", "failed"} => worker[w].seen \in Statuses
      /\ worker[w].step = "marking" => worker[w].target \in Statuses \ {"NEW"}
  BY <1>1 DEF Jobs
<1> QED BY <1>1, <1>2 DEF Exists, InboxInv, InboxTyped, ItemRows

\* No status leads back to NEW.
LEMMA NoWayBack ==
    \A s \in Statuses : Transitions[s] \subseteq Statuses \ {"NEW"}
BY DEF Statuses, Transitions

\* One job moves to another step, the items stay.
LEMMA WorkerStepsAside ==
    ASSUME InboxInv, UNCHANGED <<items, candidates, keys, audit, lock, deciding>>,
           NEW w \in Workers, NEW job \in Jobs,
           worker' = [worker EXCEPT ![w] = job],
           job # NoJob => job.step # "reserved" /\ Exists(job.item)
    PROVE  InboxInv'
<1>1. /\ worker' \in [Workers -> Jobs] /\ worker'[w] = job
      /\ \A v \in Workers \ {w} : worker'[v] = worker[v]
  BY DEF InboxInv, InboxTyped
<1>2. items' \in [Items -> ItemRows]
  BY DEF InboxInv, InboxTyped
<1> QED BY <1>1, <1>2, WorkerMoves

\* A job begins, or a mark.
LEMMA LoadInv ==
    ASSUME InboxInv, NEW w \in Workers,
           \/ \E o \in Operations : Load(w, o)
           \/ \E i \in Items : LoadToFail(w, i) \/ \E s \in MarkTargets : Mark(w, i, s)
    PROVE  InboxInv'
<1>1. \A i \in Items : Exists(i) => items[i].status \in Statuses
  BY DEF Exists, InboxInv, InboxTyped, ItemRows
<1>2. ASSUME NEW o \in Operations, Load(w, o) PROVE InboxInv'
  <2> DEFINE job == [step |-> "loaded", item |-> ItemOf[o], operation |-> o,
                     seen |-> items[ItemOf[o]].status]
  <2>1. /\ worker' = [worker EXCEPT ![w] = job]
        /\ UNCHANGED <<items, candidates, keys, audit, lock, deciding>>
        /\ Exists(ItemOf[o]) /\ ItemOf[o] \in Items
    BY <1>2, InboxAssumption DEF Load
  <2>2. job \in Jobs /\ job.step # "reserved" /\ Exists(job.item)
    BY <1>1, <2>1 DEF Jobs
  <2> QED BY <2>1, <2>2, WorkerStepsAside
<1>3. ASSUME NEW i \in Items, LoadToFail(w, i) PROVE InboxInv'
  <2> DEFINE job == [step |-> "failing", item |-> i, seen |-> items[i].status]
  <2>1. /\ worker' = [worker EXCEPT ![w] = job] /\ Exists(i)
        /\ UNCHANGED <<items, candidates, keys, audit, lock, deciding>>
    BY <1>3 DEF LoadToFail
  <2>2. job \in Jobs /\ job.step # "reserved" /\ Exists(job.item)
    BY <1>1, <2>1 DEF Jobs
  <2> QED BY <2>1, <2>2, WorkerStepsAside
<1>4. ASSUME NEW i \in Items, NEW s \in MarkTargets, Mark(w, i, s) PROVE InboxInv'
  <2> DEFINE job == [step |-> "marking", item |-> i, target |-> s]
  <2>1. /\ worker' = [worker EXCEPT ![w] = job] /\ Exists(i)
        /\ s \in Transitions[items[i].status]
        /\ UNCHANGED <<items, candidates, keys, audit, lock, deciding>>
    BY <1>4 DEF Mark
  <2>2. s \in Statuses \ {"NEW"}
    BY <1>1, <2>1, NoWayBack
  <2>3. job \in Jobs /\ job.step # "reserved" /\ Exists(job.item)
    BY <2>1, <2>2 DEF Jobs
  <2> QED BY <2>1, <2>3, WorkerStepsAside
<1> QED BY <1>2, <1>3, <1>4

\* A key is reserved: it is not there, and nobody else reserves it.
LEMMA ReserveInv ==
    ASSUME InboxInv, NEW w \in Workers, Reserve(w)
    PROVE  InboxInv'
<1>1. /\ worker[w].step = "loaded" /\ worker[w] # NoJob /\ ~Waits(w)
      /\ UNCHANGED <<items, candidates, keys, audit, lock, deciding>>
  BY DEF Reserve, NoJob
<1>2. CASE worker' = [worker EXCEPT ![w] = NoJob]
  BY <1>1, <1>2, WorkerStepsAside DEF Jobs
<1>3. CASE /\ worker[w].operation \notin keys
           /\ worker' = [worker EXCEPT ![w] = [worker[w] EXCEPT !.step = "reserved"]]
  <2> DEFINE job == [worker[w] EXCEPT !.step = "reserved"]
  <2>1. worker[w] \in [step : {"loaded", "reserved"}, item : Items, operation : Operations,
                       seen : Statuses]
    BY <1>1 DEF InboxInv, InboxTyped, Jobs
  <2>2. /\ job \in Jobs /\ job.item = worker[w].item /\ job.operation = worker[w].operation
        /\ job.step = "reserved"
    BY <2>1 DEF Jobs
  <2> HIDE DEF job
  <2>3. /\ worker' \in [Workers -> Jobs] /\ worker'[w] = job
        /\ \A v \in Workers \ {w} : worker'[v] = worker[v]
    BY <1>3, <2>2 DEF InboxInv, InboxTyped, job
  <2>4. InboxTyped'
    BY <1>1, <2>3 DEF InboxInv, InboxTyped
  <2>5. JobsAreOfItems' /\ CandidatesAreOfItems'
    BY <1>1, <2>2, <2>3 DEF InboxInv, JobsAreOfItems, CandidatesAreOfItems, Exists
  <2>6. ReservedAlone'
    BY <1>1, <1>3, <2>2, <2>3 DEF InboxInv, ReservedAlone, Waits
  <2>7. DecidersHoldRows' /\ AuditsAreOfCandidates' /\ OperationRunsOnce' /\ DecidedOnce'
    BY <1>1 DEF InboxInv, DecidersHoldRows, AuditsAreOfCandidates, OperationRunsOnce, DecidedOnce,
                Exists
  <2> QED BY <2>4, <2>5, <2>6, <2>7 DEF InboxInv
<1> QED BY <1>2, <1>3 DEF Reserve

\* A status is written, never NEW.
LEMMA WriteStatusInv ==
    ASSUME InboxInv, NEW w \in Workers, BeginToFail(w) \/ WriteMark(w)
    PROVE  InboxInv'
<1> DEFINE i == worker[w].item
<1>1. CASE BeginToFail(w)
  <2> DEFINE job == [worker[w] EXCEPT !.step = "failed"]
  <2>1. /\ worker[w].step = "failing" /\ worker[w] # NoJob
        /\ worker' = [worker EXCEPT ![w] = job]
        /\ UNCHANGED <<candidates, keys, audit, lock, deciding>>
        /\ items' = items \/ items' = [items EXCEPT ![i].status = "PROCESSING"]
    BY <1>1 DEF BeginToFail, NoJob
  <2>2. worker[w] \in [step : {"failing", "failed"}, item : Items, seen : Statuses]
    BY <2>1 DEF InboxInv, InboxTyped, Jobs
  <2>3. job \in Jobs /\ job.item = i /\ job.step = "failed" /\ job # NoJob
    BY <2>2 DEF Jobs, NoJob
  <2>4. /\ i \in Items /\ Exists(i) /\ items[i] \in [status : Statuses, blank : BOOLEAN]
        /\ "PROCESSING" \in Statuses
    BY <2>1, JobFields DEF Statuses, Transitions
  <2> HIDE DEF job, i
  <2>5. /\ items' \in [Items -> ItemRows]
        /\ \A j \in Items : items'[j] # items[j] =>
              /\ j = i /\ items'[j] # Absent
              /\ items'[j].status # "NEW" /\ items'[j].blank = items[j].blank
    BY <2>1, <2>4 DEF InboxInv, InboxTyped, ItemRows, Absent, Statuses, Transitions
  <2>6. /\ worker' \in [Workers -> Jobs] /\ worker'[w] = job
        /\ \A v \in Workers \ {w} : worker'[v] = worker[v]
    BY <2>1, <2>3 DEF InboxInv, InboxTyped
  <2> QED BY <2>1, <2>3, <2>4, <2>5, <2>6, WorkerMoves
<1>2. CASE WriteMark(w)
  <2> DEFINE target == worker[w].target
  <2>1. /\ worker[w].step = "marking" /\ worker[w] # NoJob
        /\ worker' = [worker EXCEPT ![w] = NoJob]
        /\ UNCHANGED <<candidates, keys, audit, lock, deciding>>
        /\ items' = [items EXCEPT ![i].status = target]
    BY <1>2 DEF WriteMark, NoJob
  <2>2. /\ i \in Items /\ Exists(i) /\ items[i] \in [status : Statuses, blank : BOOLEAN]
        /\ target \in Statuses \ {"NEW"}
    BY <2>1, JobFields
  <2> HIDE DEF i, target
  <2>3. /\ items' \in [Items -> ItemRows]
        /\ \A j \in Items : items'[j] # items[j] =>
              /\ j = i /\ items'[j] # Absent
              /\ items'[j].status # "NEW" /\ items'[j].blank = items[j].blank
    BY <2>1, <2>2 DEF InboxInv, InboxTyped, ItemRows, Absent, Statuses, Transitions
  <2>4. /\ worker' \in [Workers -> Jobs] /\ worker'[w] = NoJob
        /\ \A v \in Workers \ {w} : worker'[v] = worker[v]
    BY <2>1 DEF InboxInv, InboxTyped, Jobs
  <2> QED BY <2>1, <2>2, <2>3, <2>4, WorkerMoves
<1> QED BY <1>1, <1>2

\* What is appended comes last.
LEMMA OneMore ==
    ASSUME NEW S, NEW s \in Seq(S), NEW c \in S, NEW t, t = s \o <<c>>
    PROVE  /\ t \in Seq(S) /\ DOMAIN t = 1 .. Len(s) + 1
           /\ \A k \in 1 .. Len(s) : t[k] = s[k]
           /\ t[Len(s) + 1] = c
<1>1. t = Append(s, c)
  BY AppendIsConcat
<1>2. /\ Append(s, c) \in Seq(S) /\ Len(Append(s, c)) = Len(s) + 1
      /\ \A k \in 1 .. Len(s) : Append(s, c)[k] = s[k]
      /\ Append(s, c)[Len(s) + 1] = c
  BY AppendProperties
<1>3. DOMAIN Append(s, c) = 1 .. Len(Append(s, c))
  BY <1>2, LenProperties
<1> QED BY <1>1, <1>2, <1>3

\* The one commit of a job: the operation was not committed before, so nothing of it is there.
LEMMA CommitJobInv ==
    ASSUME InboxInv, NEW w \in Workers, CommitJob(w)
    PROVE  InboxInv'
<1> DEFINE i == worker[w].item
           o == worker[w].operation
           c == Candidate(i, o)
           found == IF items[i].blank THEN <<>> ELSE <<c>>
           status == IF found = <<>> THEN "NEEDS_CONFIRMATION" ELSE "STRUCTURED"
           N == Len(candidates)
<1>1. /\ worker[w].step = "reserved" /\ worker[w] # NoJob /\ lock[i] = Nobody
      /\ candidates' = candidates \o found
      /\ items' = [items EXCEPT ![i].status = status]
      /\ keys' = keys \cup {o}
      /\ worker' = [worker EXCEPT ![w] = NoJob]
      /\ UNCHANGED <<audit, lock, deciding>>
  BY DEF CommitJob, NoJob
<1>2. /\ i \in Items /\ o \in Operations /\ Exists(i)
      /\ items[i] \in [status : Statuses, blank : BOOLEAN]
  BY <1>1, JobFields
<1>3. o \notin keys /\ ~Waits(w)
  BY <1>1 DEF InboxInv, ReservedAlone
<1>4. /\ c \in CandidateRows /\ c.item = i /\ c.operation = o /\ c.decision = "HOLD"
  BY <1>2 DEF Candidate, CandidateRows
<1>5. candidates \in Seq(CandidateRows) /\ N \in Nat /\ DOMAIN candidates = 1 .. N
  BY DEF InboxInv, InboxTyped
<1>6. \/ items[i].blank /\ found = <<>> /\ status = "NEEDS_CONFIRMATION"
      \/ ~items[i].blank /\ found = <<c>> /\ status = "STRUCTURED"
  OBVIOUS
<1> HIDE DEF i, o, c, found, status, N
<1>7. \/ items[i].blank /\ candidates' = candidates
      \/ /\ candidates' \in Seq(CandidateRows) /\ DOMAIN candidates' = 1 .. N + 1
         /\ \A k \in 1 .. N : candidates'[k] = candidates[k]
         /\ candidates'[N + 1] = c
  <2>1. CASE items[i].blank /\ found = <<>>
    <3>1. candidates \o <<>> = candidates
      BY <1>5, ConcatEmptySeq
    <3> QED BY <1>1, <2>1, <3>1
  <2>2. CASE found = <<c>>
    <3>1. candidates' = candidates \o <<c>>
      BY <1>1, <2>2
    <3>2. /\ candidates' \in Seq(CandidateRows) /\ DOMAIN candidates' = 1 .. Len(candidates) + 1
          /\ \A k \in 1 .. Len(candidates) : candidates'[k] = candidates[k]
          /\ candidates'[Len(candidates) + 1] = c
      <4>1. candidates \in Seq(CandidateRows) /\ c \in CandidateRows
        BY <1>4, <1>5
      <4> QED BY <3>1, <4>1, OneMore
    <3> QED BY <3>2 DEF N
  <2> QED BY <1>6, <2>1, <2>2
<1>8. /\ items' \in [Items -> ItemRows] /\ items'[i].status # "NEW" /\ items'[i] # Absent
      /\ items'[i].blank = items[i].blank
      /\ \A j \in Items \ {i} : items'[j] = items[j]
  BY <1>1, <1>2, <1>6 DEF InboxInv, InboxTyped, ItemRows, Statuses, Transitions, Absent
<1>9. /\ worker' \in [Workers -> Jobs] /\ worker'[w] = NoJob
      /\ \A v \in Workers \ {w} : worker'[v] = worker[v]
  BY <1>1 DEF InboxInv, InboxTyped, Jobs
<1>10. /\ candidates' \in Seq(CandidateRows)
       /\ \A k \in DOMAIN candidates : k \in DOMAIN candidates' /\ candidates'[k] = candidates[k]
       /\ \A k \in DOMAIN candidates' \ DOMAIN candidates : candidates'[k] = c /\ k = N + 1
  BY <1>5, <1>7
<1>11. InboxTyped'
  BY <1>1, <1>2, <1>8, <1>9, <1>10 DEF InboxInv, InboxTyped
<1>12. JobsAreOfItems'
  <2> SUFFICES ASSUME NEW v \in Workers, worker'[v] # NoJob PROVE items'[worker'[v].item] # Absent
    BY DEF JobsAreOfItems, Exists
  <2>1. worker'[v] = worker[v] /\ v # w
    BY <1>9
  <2>2. worker[v].item \in Items /\ Exists(worker[v].item)
    BY <2>1, JobFields
  <2> QED BY <1>8, <2>1, <2>2 DEF Exists
<1>13. ReservedAlone'
  <2> SUFFICES ASSUME NEW v \in Workers, worker'[v].step = "reserved"
               PROVE  worker'[v].operation \notin keys' /\ ~Waits(v)'
    BY DEF ReservedAlone
  <2>1. v # w /\ worker'[v] = worker[v]
    BY <1>9 DEF NoJob
  <2>2. worker[v].operation \notin keys /\ ~Waits(v)
    BY <2>1 DEF InboxInv, ReservedAlone
  <2>3. worker[v].operation # o
    BY <1>1, <2>1, <2>2 DEF Waits, o
  <2>4. ~Waits(v)'
    BY <1>9, <2>1, <2>2 DEF Waits, NoJob
  <2> QED BY <1>1, <2>1, <2>2, <2>3, <2>4
<1>14. DecidersHoldRows'
  BY <1>1, <1>10 DEF InboxInv, DecidersHoldRows
<1>15. AuditsAreOfCandidates'
  BY <1>1, <1>10 DEF InboxInv, AuditsAreOfCandidates
<1>16. OperationRunsOnce'
  <2>1. \A k \in DOMAIN candidates : candidates[k].operation # o
    BY <1>2, <1>3 DEF InboxInv, OperationRunsOnce
  <2>2. \A j, k \in DOMAIN candidates' :
           candidates'[j].operation = candidates'[k].operation => j = k
    BY <1>4, <1>10, <2>1 DEF InboxInv, OperationRunsOnce
  <2>3. \A k \in DOMAIN candidates' :
           candidates'[k].operation \in Operations => candidates'[k].operation \in keys'
    BY <1>1, <1>4, <1>10 DEF InboxInv, OperationRunsOnce
  <2>4. ASSUME NEW p \in keys
        PROVE  \/ \E k \in DOMAIN candidates' : candidates'[k].operation = p
               \/ \E j \in Items : items'[j] # Absent /\ items'[j].blank /\ items'[j].status # "NEW"
    <3>1. CASE \E k \in DOMAIN candidates : candidates[k].operation = p
      BY <1>10, <3>1
    <3>2. CASE \E j \in Items : Exists(j) /\ items[j].blank /\ items[j].status # "NEW"
      BY <1>8, <3>2 DEF Exists
    <3> QED BY <3>1, <3>2 DEF InboxInv, OperationRunsOnce
  <2>5. \/ \E k \in DOMAIN candidates' : candidates'[k].operation = o
        \/ \E j \in Items : items'[j] # Absent /\ items'[j].blank /\ items'[j].status # "NEW"
    BY <1>2, <1>4, <1>5, <1>7, <1>8
  <2> QED BY <1>1, <2>2, <2>3, <2>4, <2>5 DEF OperationRunsOnce, Exists
<1>17. DecidedOnce'
  <2>1. ASSUME NEW k \in DOMAIN candidates' \ DOMAIN candidates
        PROVE  candidates'[k].decision = "HOLD" /\ {n \in DOMAIN audit : audit[n].candidate = k} = {}
    BY <1>4, <1>10, <2>1 DEF InboxInv, AuditsAreOfCandidates
  <2>2. \A k \in DOMAIN candidates : candidates'[k] = candidates[k]
    BY <1>10
  <2>3. audit' = audit
    BY <1>1
  <2> SUFFICES ASSUME NEW k \in DOMAIN candidates'
               PROVE  DecidedOnce!(k)'
    BY DEF DecidedOnce
  <2>4. CASE k \in DOMAIN candidates
    BY <2>2, <2>3, <2>4 DEF InboxInv, DecidedOnce
  <2>5. CASE k \notin DOMAIN candidates
    BY <2>1, <2>3, <2>5
  <2> QED BY <2>4, <2>5
<1>18. CandidatesAreOfItems'
  <2> SUFFICES ASSUME NEW k \in DOMAIN candidates' PROVE items'[candidates'[k].item] # Absent
    BY DEF CandidatesAreOfItems, Exists
  <2>1. CASE k \in DOMAIN candidates
    <3>1. candidates[k].item \in Items /\ Exists(candidates[k].item)
      BY <2>1, CandidateFields DEF InboxInv, CandidatesAreOfItems
    <3> QED BY <1>8, <1>10, <2>1, <3>1 DEF Exists
  <2>2. CASE k \notin DOMAIN candidates
    BY <1>4, <1>8, <1>10, <2>2
  <2> QED BY <2>1, <2>2
<1> QED BY <1>11, <1>12, <1>13, <1>14, <1>15, <1>16, <1>17, <1>18 DEF InboxInv

\* The rows of a candidate on hold are locked.
LEMMA LockToDecideInv ==
    ASSUME InboxInv, NEW u \in Users, NEW k \in DOMAIN candidates, NEW d \in Decisions,
           LockToDecide(u, k, d)
    PROVE  InboxInv'
<1> DEFINE i == candidates[k].item
           decision == [step |-> "locked", candidate |-> k, decision |-> d]
<1>1. /\ deciding[u] = NoDecision /\ lock[i] = Nobody /\ candidates[k].decision = "HOLD"
      /\ lock' = [lock EXCEPT ![i] = u]
      /\ deciding' = [deciding EXCEPT ![u] = decision]
      /\ UNCHANGED <<items, candidates, keys, audit, worker>>
  BY DEF LockToDecide, RowsAreFree, MayDecide
<1>2. i \in Items /\ k \in Nat
  BY CandidateFields
<1>3. decision \in Locked /\ decision.candidate = k
  BY <1>2 DEF Locked
<1> HIDE DEF decision
<1>4. /\ lock' \in [Items -> Users \cup {Nobody}] /\ lock'[i] = u
      /\ \A j \in Items \ {i} : lock'[j] = lock[j]
      /\ deciding' \in [Users -> {NoDecision} \cup Locked] /\ deciding'[u] = decision
      /\ \A v \in Users \ {u} : deciding'[v] = deciding[v]
  BY <1>1, <1>2, <1>3 DEF InboxInv, InboxTyped
<1>5. InboxTyped'
  BY <1>1, <1>4 DEF InboxInv, InboxTyped
<1>6. DecidersHoldRows'
  <2> SUFFICES ASSUME NEW v \in Users, deciding'[v] # NoDecision
               PROVE  /\ deciding'[v].candidate \in DOMAIN candidates
                      /\ candidates[deciding'[v].candidate].decision = "HOLD"
                      /\ lock'[candidates[deciding'[v].candidate].item] = v
    BY <1>1 DEF DecidersHoldRows
  <2>1. CASE v = u
    BY <1>1, <1>3, <1>4, <2>1
  <2>2. CASE v # u
    <3>1. deciding'[v] = deciding[v]
      BY <1>4, <2>2
    <3>2. /\ deciding[v].candidate \in DOMAIN candidates
          /\ candidates[deciding[v].candidate].decision = "HOLD"
          /\ lock[candidates[deciding[v].candidate].item] = v
      BY <3>1 DEF InboxInv, DecidersHoldRows
    <3>3. candidates[deciding[v].candidate].item \in Items
      BY <3>2, CandidateFields
    <3> QED BY <1>1, <1>4, <3>1, <3>2, <3>3, InboxAssumption
  <2> QED BY <2>1, <2>2
<1>7. /\ JobsAreOfItems' /\ CandidatesAreOfItems' /\ ReservedAlone' /\ AuditsAreOfCandidates'
      /\ OperationRunsOnce' /\ DecidedOnce'
  BY <1>1 DEF InboxInv, JobsAreOfItems, CandidatesAreOfItems, Exists, ReservedAlone, Waits, AuditsAreOfCandidates,
              OperationRunsOnce, DecidedOnce
<1> QED BY <1>5, <1>6, <1>7 DEF InboxInv

\* A decision ends, with or without its commit: its rows are free, the others' are not.
LEMMA DecisionEnds ==
    ASSUME InboxInv, NEW u \in Users, deciding[u] # NoDecision, EndDecision(u)
    PROVE  /\ lock' \in [Items -> Users \cup {Nobody}]
           /\ deciding' \in [Users -> {NoDecision} \cup Locked]
           /\ \A v \in Users : deciding'[v] # NoDecision =>
                 /\ v # u /\ deciding'[v] = deciding[v]
                 /\ deciding[v].candidate \in DOMAIN candidates
                 /\ candidates[deciding[v].candidate].decision = "HOLD"
                 /\ lock'[candidates[deciding[v].candidate].item] = v
                 /\ deciding[v].candidate # deciding[u].candidate
<1>1. /\ lock' = [i \in Items |-> IF lock[i] = u THEN Nobody ELSE lock[i]]
      /\ deciding' = [deciding EXCEPT ![u] = NoDecision]
  BY DEF EndDecision
<1>2. /\ lock' \in [Items -> Users \cup {Nobody}]
      /\ deciding' \in [Users -> {NoDecision} \cup Locked]
      /\ deciding'[u] = NoDecision /\ \A v \in Users \ {u} : deciding'[v] = deciding[v]
  BY <1>1 DEF InboxInv, InboxTyped
<1>3. ASSUME NEW v \in Users, deciding'[v] # NoDecision
      PROVE  /\ v # u /\ deciding'[v] = deciding[v]
             /\ deciding[v].candidate \in DOMAIN candidates
             /\ candidates[deciding[v].candidate].decision = "HOLD"
             /\ lock'[candidates[deciding[v].candidate].item] = v
             /\ deciding[v].candidate # deciding[u].candidate
  <2>1. v # u /\ deciding'[v] = deciding[v]
    BY <1>2, <1>3
  <2>2. /\ deciding[v].candidate \in DOMAIN candidates
        /\ candidates[deciding[v].candidate].decision = "HOLD"
        /\ lock[candidates[deciding[v].candidate].item] = v
        /\ lock[candidates[deciding[u].candidate].item] = u
    BY <1>3, <2>1 DEF InboxInv, DecidersHoldRows
  <2>3. candidates[deciding[v].candidate].item \in Items
    BY <2>2, CandidateFields
  <2> QED BY <1>1, <2>1, <2>2, <2>3
<1> QED BY <1>2, <1>3

\* A candidate that is on hold gets its decision, and the audit its event.
LEMMA CommitDecisionInv ==
    ASSUME InboxInv, NEW u \in Users, CommitDecision(u)
    PROVE  InboxInv'
<1> DEFINE k == deciding[u].candidate
           d == deciding[u].decision
           i == candidates[k].item
           event == [candidate |-> k, decision |-> d]
           M == Len(audit)
<1>1. /\ deciding[u] # NoDecision /\ EndDecision(u)
      /\ candidates' = [candidates EXCEPT ![k].decision = d]
      /\ items' = [items EXCEPT ![i].status = StatusAfter(d)]
      /\ audit' = Append(audit, event)
      /\ UNCHANGED <<keys, worker>>
  BY DEF CommitDecision, NoDecision
<1>2. k \in DOMAIN candidates /\ candidates[k].decision = "HOLD"
  BY <1>1 DEF InboxInv, DecidersHoldRows
<1>3. d \in Decisions
  BY <1>1 DEF InboxInv, InboxTyped, Locked
<1>4. k \in Nat /\ candidates[k] \in CandidateRows /\ i \in Items
  BY <1>2, CandidateFields
<1>5. /\ lock' \in [Items -> Users \cup {Nobody}]
      /\ deciding' \in [Users -> {NoDecision} \cup Locked]
      /\ \A v \in Users : deciding'[v] # NoDecision =>
            /\ v # u /\ deciding'[v] = deciding[v]
            /\ deciding[v].candidate \in DOMAIN candidates
            /\ candidates[deciding[v].candidate].decision = "HOLD"
            /\ lock'[candidates[deciding[v].candidate].item] = v
            /\ deciding[v].candidate # k
  BY <1>1, DecisionEnds
<1> DEFINE decided == [candidates[k] EXCEPT !.decision = d]
<1>6. /\ decided \in CandidateRows /\ decided.item = candidates[k].item
      /\ decided.operation = candidates[k].operation /\ decided.decision = d
  BY <1>3, <1>4 DEF CandidateRows
<1>7. candidates' = [candidates EXCEPT ![k] = decided]
  BY <1>1
<1>8. /\ StatusAfter(d) \in Statuses \ {"NEW"}
  BY <1>3 DEF StatusAfter, Statuses, Transitions
<1>9. event \in [candidate : Nat, decision : Decisions] /\ event.candidate = k /\ event.decision = d
  BY <1>3, <1>4
<1>10. audit \in Seq([candidate : Nat, decision : Decisions]) /\ M \in Nat
  BY DEF InboxInv, InboxTyped
<1> HIDE DEF d, i, decided, event, k
<1>11. /\ candidates' \in Seq(CandidateRows) /\ DOMAIN candidates' = DOMAIN candidates
       /\ candidates'[k] = decided
       /\ \A j \in DOMAIN candidates \ {k} : candidates'[j] = candidates[j]
  <2>1. candidates \in Seq(CandidateRows)
    BY DEF InboxInv, InboxTyped
  <2>2. k \in 1 .. Len(candidates)
    BY <1>2, <2>1, LenProperties
  <2>3. candidates' \in Seq(CandidateRows)
    BY <1>6, <1>7, <2>1, <2>2, ExceptSeq
  <2> QED BY <1>2, <1>7, <2>3
<1>12. /\ audit' \in Seq([candidate : Nat, decision : Decisions])
       /\ DOMAIN audit = 1 .. M /\ DOMAIN audit' = 1 .. M + 1
       /\ \A n \in 1 .. M : audit'[n] = audit[n]
       /\ audit'[M + 1] = event
  BY <1>1, <1>9, <1>10, AppendProperties, LenProperties
<1> HIDE DEF M
<1>13. /\ items' \in [Items -> ItemRows]
       /\ \A j \in Items : Exists(j) =>
             /\ items'[j] # Absent /\ items'[j].blank = items[j].blank
             /\ items'[j].status = items[j].status \/ items'[j].status # "NEW"
  <2>1. items \in [Items -> ItemRows]
    BY DEF InboxInv, InboxTyped
  <2>2. Exists(i)
    BY <1>2 DEF InboxInv, CandidatesAreOfItems, i
  <2> QED BY <1>1, <1>4, <1>8, <2>1, <2>2 DEF ItemRows, Exists, Absent, Statuses, Transitions
<1>14. InboxTyped'
  BY <1>1, <1>5, <1>11, <1>12, <1>13 DEF InboxInv, InboxTyped
<1>15. JobsAreOfItems'
  <2> SUFFICES ASSUME NEW w \in Workers, worker[w] # NoJob PROVE items'[worker[w].item] # Absent
    BY <1>1 DEF JobsAreOfItems, Exists
  <2> QED BY <1>13, JobFields
<1>16. ReservedAlone'
  BY <1>1 DEF InboxInv, ReservedAlone, Waits
<1>17. DecidersHoldRows'
  BY <1>5, <1>11 DEF DecidersHoldRows
<1>18. AuditsAreOfCandidates'
  <2> SUFFICES ASSUME NEW n \in DOMAIN audit' PROVE audit'[n].candidate \in DOMAIN candidates'
    BY DEF AuditsAreOfCandidates
  <2>1. CASE n \in 1 .. M
    BY <1>11, <1>12, <2>1 DEF InboxInv, AuditsAreOfCandidates
  <2>2. CASE n \notin 1 .. M
    BY <1>2, <1>9, <1>10, <1>11, <1>12, <2>2
  <2> QED BY <2>1, <2>2
<1>19. OperationRunsOnce'
  <2>1. \A j \in DOMAIN candidates : candidates'[j].operation = candidates[j].operation
    BY <1>6, <1>11
  <2>2. ASSUME NEW j \in Items, Exists(j), items[j].blank, items[j].status # "NEW"
        PROVE  items'[j] # Absent /\ items'[j].blank /\ items'[j].status # "NEW"
    BY <1>13, <2>2
  <2> QED BY <1>1, <1>11, <2>1, <2>2 DEF InboxInv, OperationRunsOnce, Exists
<1>20. DecidedOnce'
  <2> SUFFICES ASSUME NEW j \in DOMAIN candidates'
               PROVE  DecidedOnce!(j)'
    BY DEF DecidedOnce
  <2> DEFINE before == {n \in DOMAIN audit : audit[n].candidate = j}
             after == {n \in DOMAIN audit' : audit'[n].candidate = j}
  <2>1. CASE j = k
    <3>1. before = {}
      BY <1>2, <2>1 DEF InboxInv, DecidedOnce
    <3>2. after = {M + 1}
      BY <1>9, <1>10, <1>12, <2>1, <3>1
    <3>3. candidates'[j].decision = d /\ audit'[M + 1].decision = d /\ d # "HOLD"
      BY <1>3, <1>6, <1>9, <1>11, <1>12, <2>1 DEF Decisions
    <3> QED BY <3>2, <3>3
  <2>2. CASE j # k
    <3>1. after = before
      BY <1>9, <1>10, <1>12, <2>2
    <3>2. candidates'[j] = candidates[j] /\ j \in DOMAIN candidates
      BY <1>11, <2>2
    <3>3. \A n \in before : audit'[n] = audit[n]
      BY <1>12
    <3> QED BY <3>1, <3>2, <3>3 DEF InboxInv, DecidedOnce
  <2> QED BY <2>1, <2>2
<1>21. CandidatesAreOfItems'
  <2> SUFFICES ASSUME NEW j \in DOMAIN candidates PROVE items'[candidates'[j].item] # Absent
    BY <1>11 DEF CandidatesAreOfItems, Exists
  <2>1. candidates[j].item \in Items /\ Exists(candidates[j].item)
    BY CandidateFields DEF InboxInv, CandidatesAreOfItems
  <2> QED BY <1>6, <1>11, <1>13, <2>1
<1> QED BY <1>14, <1>15, <1>16, <1>17, <1>18, <1>19, <1>20, <1>21
        DEF InboxInv

\* A decision is rolled back.
LEMMA RequestCrashesInv ==
    ASSUME InboxInv, NEW u \in Users, RequestCrashes(u)
    PROVE  InboxInv'
<1>1. /\ deciding[u] # NoDecision /\ EndDecision(u)
      /\ UNCHANGED <<items, candidates, keys, audit, worker>>
  BY DEF RequestCrashes
<1>2. InboxTyped'
  BY <1>1, DecisionEnds DEF InboxInv, InboxTyped
<1>3. DecidersHoldRows'
  BY <1>1, DecisionEnds DEF DecidersHoldRows
<1>4. /\ JobsAreOfItems' /\ CandidatesAreOfItems' /\ ReservedAlone' /\ AuditsAreOfCandidates'
      /\ OperationRunsOnce' /\ DecidedOnce'
  BY <1>1 DEF InboxInv, JobsAreOfItems, CandidatesAreOfItems, Exists, ReservedAlone, Waits,
              AuditsAreOfCandidates, OperationRunsOnce, DecidedOnce
<1> QED BY <1>2, <1>3, <1>4 DEF InboxInv

\* An item is created.
LEMMA CreateFromTextInv ==
    ASSUME InboxInv, NEW i \in Items, CreateFromText(i)
    PROVE  InboxInv'
<1>1. PICK blank \in BOOLEAN : items' = [items EXCEPT ![i] = [status |-> "NEW", blank |-> blank]]
  BY DEF CreateFromText
<1>2. ~Exists(i) /\ UNCHANGED <<candidates, keys, audit, worker, lock, deciding>>
  BY DEF CreateFromText
<1>3. [status |-> "NEW", blank |-> blank] \in ItemRows \ {Absent}
  BY DEF ItemRows, Absent, Statuses, Transitions
<1>4. /\ items' \in [Items -> ItemRows] /\ items'[i] # Absent
      /\ \A j \in Items \ {i} : items'[j] = items[j]
  BY <1>1, <1>3 DEF InboxInv, InboxTyped
<1>5. worker' \in [Workers -> Jobs]
  BY <1>2 DEF InboxInv, InboxTyped
<1> QED BY <1>2, <1>4, <1>5, WorkerMoves

\* A step keeps InboxInv.
LEMMA InboxStep == InboxInv /\ [Next]_vars => InboxInv'
<1> SUFFICES ASSUME InboxInv, [Next]_vars PROVE InboxInv'
  OBVIOUS
<1>1. ASSUME NEW w \in Workers, ReadToMark(w) PROVE InboxInv'
  <2> DEFINE i == worker[w].item
             marking == [step |-> "marking", item |-> i, target |-> "FAILED"]
             job == IF "FAILED" \in Transitions[items[i].status] THEN marking ELSE NoJob
  <2>1. /\ worker[w] # NoJob /\ worker' = [worker EXCEPT ![w] = job]
        /\ UNCHANGED <<items, candidates, keys, audit, lock, deciding>>
    BY <1>1 DEF ReadToMark, NoJob
  <2>2. i \in Items /\ Exists(i)
    BY <2>1, JobFields
  <2>3. marking \in Jobs /\ NoJob \in Jobs
    BY <2>2 DEF Jobs, Statuses, Transitions
  <2>4. job \in Jobs /\ (job # NoJob => job.step # "reserved" /\ job.item = i)
    BY <2>3
  <2> HIDE DEF job
  <2> QED BY <2>1, <2>2, <2>4, WorkerStepsAside
<1>2. ASSUME NEW w \in Workers, WorkerCrashes(w) PROVE InboxInv'
  BY <1>2, WorkerStepsAside DEF WorkerCrashes, Jobs
<1>3. ASSUME NEW w \in Workers, WorkerStep(w) PROVE InboxInv'
  BY <1>1, <1>3, ReserveInv, CommitJobInv, WriteStatusInv DEF WorkerStep
<1>4. CASE UNCHANGED vars
  <2>1. UNCHANGED <<items, worker, keys, candidates, lock, deciding, audit>>
    BY <1>4 DEF vars
  <2>2. InboxTyped'
    BY <2>1 DEF InboxInv, InboxTyped
  <2>3. JobsAreOfItems' /\ CandidatesAreOfItems'
    BY <2>1 DEF InboxInv, JobsAreOfItems, CandidatesAreOfItems, Exists
  <2>4. ReservedAlone'
    BY <2>1 DEF InboxInv, ReservedAlone, Waits
  <2>5. DecidersHoldRows'
    BY <2>1 DEF InboxInv, DecidersHoldRows
  <2>6. AuditsAreOfCandidates'
    BY <2>1 DEF InboxInv, AuditsAreOfCandidates
  <2>7. OperationRunsOnce'
    BY <2>1 DEF InboxInv, OperationRunsOnce, Exists
  <2>8. DecidedOnce'
    BY <2>1 DEF InboxInv, DecidedOnce
  <2> QED BY <2>2, <2>3, <2>4, <2>5, <2>6, <2>7, <2>8 DEF InboxInv
<1> QED BY <1>2, <1>3, <1>4, CreateFromTextInv, LoadInv, LockToDecideInv, CommitDecisionInv,
           RequestCrashesInv DEF Next

\* InboxInv is invariant.
LEMMA InboxInvariance == Spec => []InboxInv
BY InboxInitially, InboxStep, PTL DEF Spec

(***************************************************************************)
(* An operation runs once, however often its job is delivered and wherever *)
(* it crashes (ProcessingJob.run, reserve_key).                            *)
(***************************************************************************)
THEOREM OperationsRunOnce == Spec => []OperationRunsOnce
<1>1. InboxInv => OperationRunsOnce
  BY DEF InboxInv
<1> QED BY <1>1, InboxInvariance, PTL

(***************************************************************************)
(* A candidate has the one decision that was audited (decide_candidate).   *)
(***************************************************************************)
THEOREM CandidatesDecidedOnce == Spec => []DecidedOnce
<1>1. InboxInv => DecidedOnce
  BY DEF InboxInv
<1> QED BY <1>1, InboxInvariance, PTL
=============================================================================
