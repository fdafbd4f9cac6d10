---------------------------- MODULE PlannerProofs ----------------------------
(***************************************************************************)
(* Theorems about the planner as it is called, for any inputs that are     *)
(* well-formed (ReplanningAssumption), any revisions and any sizes.        *)
(*                                                                         *)
(* First a single pass, over any slots and jobs (Spec): SInv says that the *)
(* ledger is right, and PassInv adds how much every job has been given and *)
(* that nothing free would have suited a job that is left out.  Then the   *)
(* slots that are built, the problem the passes are given, and what they   *)
(* leave (PlannerInv).  In the end the calls, which make the passes up to  *)
(* three times and hand the plan to the next call (CallInv).               *)
(*                                                                         *)
(* Sums and sequences are defined by recursive functions and folds; what   *)
(* is needed of them is proved from the least counterexample.              *)
(***************************************************************************)
EXTENDS Replanning, TLAPS, WellFoundedInduction, FiniteSetTheorems
-----------------------------------------------------------------------------
\* The fields of a job that is being placed.
IsPlacement(c) ==
    c = [kind |-> "job", job |-> c.job, remaining |-> c.remaining,
         cursor |-> c.cursor, progress |-> c.progress, chunks |-> c.chunks]

\* The job being placed: one whose predecessors are placed and that has left
\* the pending ones for good.
CurrentIsReady ==
    current # NoJob =>
        /\ IsPlacement(current)
        /\ current.job \in problem.jobs \ (pending \cup placed)
        /\ problem.gates[current.job] \subseteq placed

\* The sets a pass keeps consist of its jobs, and a job is in one of them at a time.
SetsAreJobs ==
    /\ pending \subseteq problem.jobs
    /\ placed \subseteq problem.jobs
    /\ pending \cap placed = {}

\* The slots that are free when a pass begins.
FreeSlots == {i \in DOMAIN problem.slots : problem.slots[i].free}

\* An allocation the pass has made: a stretch of slots from f to l.
IsStretch(a, f, l) ==
    /\ f <= l
    /\ a.slots = f .. l
    /\ a.start = StartOf(f)
    /\ a.end = EndOf(l)

\* What is free touches no allocation; kept allocations are those of the
\* problem; the others are stretches of slots that were free and are not now.
LedgerIsRight ==
    /\ free \subseteq FreeSlots
    /\ \A i \in free : \A a \in allocations : ~Overlaps(problem.slots[i], a)
    /\ \A a \in allocations : Kept(a) => a \in KeptAllocations(problem)
    /\ \A a \in allocations : ~Kept(a) =>
          /\ a.job \in Jobs
          /\ a.slots \subseteq FreeSlots \ free
          /\ \E f, l \in a.slots : IsStretch(a, f, l)

\* The invariant of the ledger: what is booked, what is free, and whose turn it is.
SInv ==
    /\ problem \in Problems
    /\ SetsAreJobs
    /\ CurrentIsReady
    /\ LedgerIsRight
    /\ NoDoubleBooking
    /\ PredecessorsFirst

-----------------------------------------------------------------------------
\* The slots of a problem are intervals of integers in increasing order.
LEMMA SlotsIncrease ==
    ASSUME problem \in Problems
    PROVE  /\ DOMAIN problem.slots \subseteq Nat
           /\ \A i, k \in DOMAIN problem.slots : i .. k \subseteq DOMAIN problem.slots
           /\ \A i \in DOMAIN problem.slots :
                 /\ StartOf(i) \in Int
                 /\ EndOf(i) \in Int
                 /\ StartOf(i) < EndOf(i)
           /\ \A i, k \in DOMAIN problem.slots : i < k => EndOf(i) <= StartOf(k)
<1> DEFINE s == problem.slots
<1>1. s \in Seq(Slots) /\ Increasing(s)
  BY DEF Problems
<1>2. DOMAIN s = 1 .. Len(s) /\ Len(s) \in Nat /\ \A i \in DOMAIN s : s[i] \in Slots
  BY <1>1
<1>3. DOMAIN s \subseteq Nat /\ \A i, k \in DOMAIN s : i .. k \subseteq DOMAIN s
  BY <1>2
<1>4. \A i \in DOMAIN s : s[i].start \in Int /\ s[i].end \in Int
  BY <1>2 DEF Slots
<1>5. QED
  BY <1>1, <1>3, <1>4 DEF Increasing, StartOf, EndOf

\* The kept allocations of a problem are intervals of integers, own no slots
\* and exclude one another.
LEMMA KeptExclude ==
    ASSUME NEW p \in Problems
    PROVE  /\ \A a \in KeptAllocations(p) :
                 /\ a.start \in Int /\ a.end \in Int /\ a.start < a.end
                 /\ a.slots = {}
           /\ \A a, b \in KeptAllocations(p) : a # b => ~Overlaps(a, b)
<1>1. p.kept \subseteq KeptBlocks /\ KeptApart(p.kept)
  BY DEF Problems
<1>2. \A a \in KeptAllocations(p) : \E k \in p.kept :
          a = [job |-> k.job, start |-> k.start, end |-> k.end, slots |-> {}]
  BY DEF KeptAllocations
<1>3. \A k \in p.kept : k = [job |-> k.job, start |-> k.start, end |-> k.end]
                        /\ k.start \in Int /\ k.end \in Int /\ k.start < k.end
  BY <1>1 DEF KeptBlocks, KeptApart
<1>4. \A a \in KeptAllocations(p) :
          a.start \in Int /\ a.end \in Int /\ a.start < a.end /\ a.slots = {}
  BY <1>2, <1>3
<1>5. ASSUME NEW a \in KeptAllocations(p), NEW b \in KeptAllocations(p), a # b
      PROVE  ~Overlaps(a, b)
  <2>1. PICK k \in p.kept : a = [job |-> k.job, start |-> k.start, end |-> k.end, slots |-> {}]
    BY <1>2
  <2>2. PICK n \in p.kept : b = [job |-> n.job, start |-> n.start, end |-> n.end, slots |-> {}]
    BY <1>2
  <2>3. k # n
    BY <1>5, <2>1, <2>2
  <2>4. ~Overlaps(k, n)
    BY <1>1, <2>3 DEF KeptApart
  <2>5. QED
    BY <2>1, <2>2, <2>4 DEF Overlaps
<1>6. QED
  BY <1>4, <1>5

-----------------------------------------------------------------------------
\* A pass begins with the invariant, whatever was there before: Begin is how
\* each of the three passes starts.
LEMMA FreshInv ==
    ASSUME problem \in Problems,
           free = FreeAtFirst(problem),
           allocations = KeptAllocations(problem),
           pending = problem.jobs,
           placed = {},
           current = NoJob
    PROVE  SInv
<1>1. \A a \in allocations : Kept(a)
  BY KeptExclude DEF Kept
<1>2. SetsAreJobs /\ CurrentIsReady
  BY DEF SetsAreJobs, CurrentIsReady
<1>3. LedgerIsRight
  <2>1. free \subseteq FreeSlots
    BY DEF FreeAtFirst, FreeSlots
  <2>2. ASSUME NEW i \in free, NEW a \in allocations
        PROVE  ~Overlaps(problem.slots[i], a)
    <3>1. PICK k \in problem.kept :
              a = [job |-> k.job, start |-> k.start, end |-> k.end, slots |-> {}]
      BY DEF KeptAllocations
    <3>2. ~Overlaps(problem.slots[i], k)
      BY DEF FreeAtFirst
    <3>3. QED
      BY <3>1, <3>2 DEF Overlaps
  <2>3. QED
    BY <1>1, <2>1, <2>2 DEF LedgerIsRight
<1>4. NoDoubleBooking
  BY <1>1, KeptExclude DEF NoDoubleBooking
<1>5. PredecessorsFirst
  BY <1>1 DEF PredecessorsFirst
<1>6. QED
  BY <1>2, <1>3, <1>4, <1>5 DEF SInv

\* A step that places nothing leaves the ledger as it is, and what is placed
\* stays placed.
LEMMA Frame ==
    ASSUME SInv, UNCHANGED <<problem, free, allocations>>, placed \subseteq placed'
    PROVE  problem' \in Problems /\ LedgerIsRight' /\ NoDoubleBooking' /\ PredecessorsFirst'
<1>1. \A i : StartOf(i)' = StartOf(i) /\ EndOf(i)' = EndOf(i)
  BY DEF StartOf, EndOf
<1>2. LedgerIsRight'
  BY <1>1 DEF SInv, LedgerIsRight, FreeSlots, IsStretch
<1>3. NoDoubleBooking'
  BY DEF SInv, NoDoubleBooking
<1>4. PredecessorsFirst'
  BY DEF SInv, PredecessorsFirst
<1>5. QED
  BY <1>2, <1>3, <1>4 DEF SInv

\* What the steps of a placement do to its record.
LEMMA PlacementGoesOn ==
    ASSUME NEW c, IsPlacement(c), NEW d,
           d = [c EXCEPT !.cursor = 0, !.progress = FALSE]
    PROVE  IsPlacement(d) /\ d.job = c.job
<1>1. PICK j, r0, u0, p0, k0 :
          c = [kind |-> "job", job |-> j, remaining |-> r0, cursor |-> u0,
               progress |-> p0, chunks |-> k0]
  BY DEF IsPlacement
<1>2. d.kind = "job" /\ d.job = j
  BY ONLY <1>1, d = [c EXCEPT !.cursor = 0, !.progress = FALSE]
<1>3. d = [kind |-> d.kind, job |-> d.job, remaining |-> d.remaining,
           cursor |-> d.cursor, progress |-> d.progress, chunks |-> d.chunks]
  BY ONLY <1>1, d = [c EXCEPT !.cursor = 0, !.progress = FALSE]
<1>4. c.job = j
  BY ONLY <1>1
<1>5. QED
  BY ONLY <1>2, <1>3, <1>4 DEF IsPlacement

\* A job that takes a chunk is still one that is being placed.
LEMMA PlacementTakesChunk ==
    ASSUME NEW c, IsPlacement(c), NEW d, NEW r, NEW u, NEW k,
           d = [c EXCEPT !.remaining = r, !.cursor = u, !.progress = TRUE, !.chunks = k]
    PROVE  IsPlacement(d) /\ d.job = c.job
<1>1. PICK j, r0, u0, p0, k0 :
          c = [kind |-> "job", job |-> j, remaining |-> r0, cursor |-> u0,
               progress |-> p0, chunks |-> k0]
  BY DEF IsPlacement
<1>2. d.kind = "job" /\ d.job = j
  BY ONLY <1>1, d = [c EXCEPT !.remaining = r, !.cursor = u, !.progress = TRUE, !.chunks = k]
<1>3. d = [kind |-> d.kind, job |-> d.job, remaining |-> d.remaining,
           cursor |-> d.cursor, progress |-> d.progress, chunks |-> d.chunks]
  BY ONLY <1>1, d = [c EXCEPT !.remaining = r, !.cursor = u, !.progress = TRUE, !.chunks = k]
<1>4. c.job = j
  BY ONLY <1>1
<1>5. QED
  BY ONLY <1>2, <1>3, <1>4 DEF IsPlacement

\* A ready job is placed at once, or becomes the current one.
LEMMA SelectInv == SInv /\ Select => SInv'
<1> SUFFICES ASSUME SInv, Select PROVE SInv'
  OBVIOUS
<1>1. PICK j \in pending :
          /\ Ready(j)
          /\ pending' = pending \ {j}
          /\ \/ placed' = placed \cup {j} /\ UNCHANGED current
             \/ /\ current' = [kind |-> "job", job |-> j,
                               remaining |-> problem.need[j] - MinutesOf(j),
                               cursor |-> 0, progress |-> FALSE, chunks |-> {}]
                /\ UNCHANGED placed
  BY DEF Select
<1>2. UNCHANGED <<problem, free, allocations>> /\ current = NoJob
  BY DEF Select
<1>3. SetsAreJobs'
  BY <1>1, <1>2 DEF SInv, SetsAreJobs
<1>4. CurrentIsReady'
  BY <1>1, <1>2 DEF SInv, SetsAreJobs, CurrentIsReady, IsPlacement, Ready
<1>5. placed \subseteq placed'
  BY <1>1
<1>6. QED
  BY <1>2, <1>3, <1>4, <1>5, Frame DEF SInv

\* Giving up, going through the runs again and finishing a job place nothing.
LEMMA GiveUpInv == SInv /\ GiveUp => SInv'
<1> SUFFICES ASSUME SInv, GiveUp PROVE SInv'
  OBVIOUS
<1>1. UNCHANGED <<problem, free, allocations, placed, current>> /\ pending' = {}
  BY DEF GiveUp
<1>2. SetsAreJobs' /\ CurrentIsReady'
  BY <1>1 DEF GiveUp, SInv, SetsAreJobs, CurrentIsReady, NoJob
<1>3. QED
  BY <1>1, <1>2, Frame DEF SInv

\* Trying again with what is left of a job changes no booking.
LEMMA AgainInv == SInv /\ Again => SInv'
<1> SUFFICES ASSUME SInv, Again PROVE SInv'
  OBVIOUS
<1>1. UNCHANGED <<problem, free, allocations, pending, placed>>
  BY DEF Again
<1>2. SetsAreJobs'
  BY <1>1 DEF SInv, SetsAreJobs
<1>3. CurrentIsReady'
  <2>1. IsPlacement(current')  /\ current'.job = current.job
    BY PlacementGoesOn DEF Again, SInv, CurrentIsReady
  <2>2. QED
    BY <1>1, <2>1 DEF Again, SInv, CurrentIsReady
<1>4. QED
  BY <1>1, <1>2, <1>3, Frame DEF SInv

\* Finishing a job moves it to the placed ones.
LEMMA FinishInv == SInv /\ Finish => SInv'
<1> SUFFICES ASSUME SInv, Finish PROVE SInv'
  OBVIOUS
<1>1. UNCHANGED <<problem, free, allocations, pending>> /\ current' = NoJob /\ current # NoJob
  BY DEF Finish
<1>2. placed' \in {placed, placed \cup {current.job}}
  BY DEF Finish
<1>3. SetsAreJobs'
  BY <1>1, <1>2 DEF SInv, SetsAreJobs, CurrentIsReady
<1>4. CurrentIsReady'
  BY <1>1 DEF CurrentIsReady
<1>5. QED
  BY <1>1, <1>2, <1>3, <1>4, Frame DEF SInv

-----------------------------------------------------------------------------
\* A nonempty set of natural numbers has a least element.
LEMMA LeastNatural ==
    ASSUME NEW T \in SUBSET Nat, T # {}
    PROVE  \E m \in T : \A n \in T : m <= n
<1>1. \A m, n \in Nat : n < m => <<n, m>> \in OpToRel(<, Nat)
  BY DEF OpToRel
<1>2. \E R : IsWellFoundedOn(R, Nat) /\ \A m, n \in Nat : n < m => <<n, m>> \in R
  BY ONLY <1>1, NatLessThanWellFounded, Zenon
<1>3. PICK R : IsWellFoundedOn(R, Nat) /\ \A m, n \in Nat : n < m => <<n, m>> \in R
  BY <1>2
<1>4. \E m \in T : \A n \in T : <<n, m>> \notin R
  BY <1>3, WFMin
<1>5. \E m \in T : \A n \in T : ~(n < m)
  BY <1>3, <1>4, Zenon
<1>6. QED
  BY <1>5

\* A stretch of slots without gaps touches an interval only if one of its
\* slots does.
LEMMA StretchTouches ==
    ASSUME problem \in Problems,
           NEW f \in DOMAIN problem.slots, NEW l \in DOMAIN problem.slots, f <= l,
           \A i \in f .. l - 1 : EndOf(i) = StartOf(i + 1),
           NEW b, b.start \in Int, b.end \in Int, b.start < b.end,
           StartOf(f) < b.end, b.start < EndOf(l)
    PROVE  \E i \in f .. l : Overlaps(problem.slots[i], b)
<1> DEFINE T == {i \in f .. l : b.start < EndOf(i)}
<1>1. f \in Nat /\ l \in Nat /\ f .. l \subseteq DOMAIN problem.slots
  BY SlotsIncrease
<1>2. T \in SUBSET Nat /\ l \in T
  BY <1>1
<1>3. PICK m \in T : \A n \in T : m <= n
  BY <1>2, LeastNatural
<1>4. StartOf(m) < b.end
  <2>1. CASE m = f
    BY <2>1
  <2>2. CASE m # f
    <3>1. m - 1 \in f .. l - 1 /\ m - 1 \in f .. l /\ m - 1 \notin T
      BY <1>1, <1>3, <2>2
    <3>2. EndOf(m - 1) = StartOf(m)
      BY <1>1, <1>3, <3>1
    <3>3. EndOf(m - 1) <= b.start
      BY <1>1, <3>1, SlotsIncrease
    <3>4. QED
      BY <1>1, <1>3, <3>2, <3>3, SlotsIncrease
  <2>3. QED
    BY <2>1, <2>2
<1>5. QED
  BY <1>3, <1>4 DEF Overlaps, StartOf, EndOf

\* What PlaceChunk does: the current job gets a stretch of free slots without
\* gaps, none of which ends before the job may start, and counts it.
LEMMA ChunkIsStretch ==
    ASSUME SInv, PlaceChunk
    PROVE  \E f, l \in DOMAIN problem.slots :
              /\ f <= l
              /\ f .. l \subseteq free
              /\ \A i \in f .. l - 1 : EndOf(i) = StartOf(i + 1)
              /\ StartsLate(current.job, f)
              /\ allocations' = allocations \cup
                    {[job |-> current.job, start |-> StartOf(f), end |-> EndOf(l), slots |-> f .. l]}
              /\ free' = free \ (f .. l)
              /\ \E last \in Int :
                    current' = [current EXCEPT !.remaining = @ - (EndOf(l) - StartOf(f)),
                                               !.cursor = last,
                                               !.progress = TRUE,
                                               !.chunks = @ \cup {f}]
<1> DEFINE Given(f, l) ==
              /\ f <= l
              /\ allocations' = allocations \cup
                    {[job |-> current.job, start |-> StartOf(f), end |-> EndOf(l), slots |-> f .. l]}
              /\ free' = free \ (f .. l)
           Counted(f, l, last) ==
              current' = [current EXCEPT !.remaining = @ - (EndOf(l) - StartOf(f)),
                                         !.cursor = last,
                                         !.progress = TRUE,
                                         !.chunks = @ \cup {f}]
<1>0. PICK r \in NextRuns : \E f, l \in r[1] .. r[2] :
          SuitsCurrent(r, f) /\ Given(f, l) /\ Counted(f, l, r[2])
  BY Zenon DEF PlaceChunk
<1>1. PICK f, l \in r[1] .. r[2] : SuitsCurrent(r, f) /\ Given(f, l) /\ Counted(f, l, r[2])
  BY <1>0, Zenon
<1> HIDE DEF Counted
<1>2. r \in free \X free /\ r[1] <= r[2] /\ IsRun(r[1], r[2])
  BY <1>1 DEF NextRuns, Runs
<1>3. free \subseteq DOMAIN problem.slots /\ DOMAIN problem.slots \subseteq Nat
  BY SlotsIncrease DEF SInv, LedgerIsRight, FreeSlots
<1>4. r[1] \in Nat /\ r[2] \in Nat /\ r[2] \in free
  BY <1>2, <1>3
<1>5. \A i \in r[1] .. r[2] - 1 : i \in free /\ EndOf(i) = StartOf(i + 1)
  BY <1>2 DEF IsRun, Joined
<1>6. r[1] .. r[2] \subseteq free
  BY <1>4, <1>5
<1>7. f .. l \subseteq free /\ f \in free /\ l \in free
  BY <1>1, <1>4, <1>6
<1>8. \A i \in f .. l - 1 : EndOf(i) = StartOf(i + 1)
  BY <1>1, <1>4, <1>5
<1>9. StartsLate(current.job, f)
  BY <1>1 DEF SuitsCurrent, Suits, Usable
<1>10. \E last \in Int : Counted(f, l, last)
  BY <1>1, <1>4
<1>11. f \in DOMAIN problem.slots /\ l \in DOMAIN problem.slots
  BY <1>3, <1>7
<1>12. Given(f, l)
  BY <1>1
<1> QED BY <1>7, <1>8, <1>9, <1>10, <1>11, <1>12 DEF Counted

\* The new stretch touches no allocation: slots of earlier ones are not free,
\* and kept ones touch no free slot.
LEMMA StretchExcludes ==
    ASSUME SInv,
           NEW f \in DOMAIN problem.slots, NEW l \in DOMAIN problem.slots, f <= l,
           f .. l \subseteq free,
           \A i \in f .. l - 1 : EndOf(i) = StartOf(i + 1),
           NEW b \in allocations
    PROVE  ~(StartOf(f) < b.end /\ b.start < EndOf(l))
<1> SUFFICES ASSUME StartOf(f) < b.end, b.start < EndOf(l)
             PROVE  FALSE
  OBVIOUS
<1>1. problem \in Problems /\ LedgerIsRight
  BY DEF SInv
<1>2. CASE Kept(b)
  <2>1. b.start \in Int /\ b.end \in Int /\ b.start < b.end
    BY <1>1, <1>2, KeptExclude DEF LedgerIsRight
  <2>2. PICK i \in f .. l : Overlaps(problem.slots[i], b)
    BY <1>1, <2>1, StretchTouches
  <2>3. QED
    BY <1>1, <2>2 DEF LedgerIsRight
<1>3. CASE ~Kept(b)
  <2>1. PICK g, n \in b.slots : IsStretch(b, g, n)
    BY <1>1, <1>3 DEF LedgerIsRight
  <2>2. b.slots \subseteq DOMAIN problem.slots /\ b.slots \cap free = {}
    BY <1>1, <1>3 DEF LedgerIsRight, FreeSlots
  <2>3. g \in Nat /\ n \in Nat /\ f \in Nat /\ l \in Nat /\ g <= n
    BY <1>1, <2>1, <2>2, SlotsIncrease DEF IsStretch
  <2>4. StartOf(f) < EndOf(n) /\ StartOf(g) < EndOf(l)
    BY <2>1 DEF IsStretch
  <2>5. f <= n
    BY <1>1, <2>1, <2>2, <2>3, <2>4, SlotsIncrease
  <2>6. g <= l
    BY <1>1, <2>1, <2>2, <2>3, <2>4, SlotsIncrease
  <2>7. \E i \in f .. l : i \in g .. n
    <3>1. CASE f <= g
      BY <2>3, <2>6, <3>1
    <3>2. CASE g <= f
      BY <2>3, <2>5, <3>2
    <3>3. QED
      BY <2>3, <3>1, <3>2
  <2>8. QED
    BY <2>1, <2>2, <2>7 DEF IsStretch
<1>4. QED
  BY <1>2, <1>3

\* The new stretch begins after the allocations its job must wait for: its
\* first slot ends after them and, being free, touches none of them.
LEMMA StretchFollows ==
    ASSUME SInv,
           NEW f \in free, StartsLate(current.job, f),
           NEW b \in allocations, b.job \in problem.gates[current.job]
    PROVE  b.end <= StartOf(f)
<1>1. problem \in Problems /\ LedgerIsRight /\ f \in DOMAIN problem.slots
  BY DEF SInv, LedgerIsRight, FreeSlots
<1>2. b.end < EndOf(f) /\ ~Overlaps(problem.slots[f], b)
  BY <1>1 DEF StartsLate, LedgerIsRight
<1>3. StartOf(f) \in Int /\ EndOf(f) \in Int
  BY <1>1, SlotsIncrease
<1>4. b.start \in Int /\ b.end \in Int /\ b.start < b.end
  <2>1. CASE Kept(b)
    BY <1>1, <2>1, KeptExclude DEF LedgerIsRight
  <2>2. CASE ~Kept(b)
    <3>1. PICK g, n \in b.slots : IsStretch(b, g, n)
      BY <1>1, <2>2 DEF LedgerIsRight
    <3>2. g \in DOMAIN problem.slots /\ n \in DOMAIN problem.slots /\ g <= n
      BY <1>1, <2>2, <3>1 DEF LedgerIsRight, FreeSlots, IsStretch
    <3>3. StartOf(g) < EndOf(n)
      BY <1>1, <3>2, SlotsIncrease
    <3>4. QED
      BY <1>1, <3>1, <3>2, <3>3, SlotsIncrease DEF IsStretch
  <2>3. QED
    BY <2>1, <2>2
<1>5. QED
  BY <1>2, <1>3, <1>4 DEF Overlaps, StartOf, EndOf

\* Giving a chunk to the current job preserves the invariant.
LEMMA PlaceChunkInv == SInv /\ PlaceChunk => SInv'
<1> SUFFICES ASSUME SInv, PlaceChunk PROVE SInv'
  OBVIOUS
<1>1. PICK f \in DOMAIN problem.slots, l \in DOMAIN problem.slots :
          /\ f <= l
          /\ f .. l \subseteq free
          /\ \A i \in f .. l - 1 : EndOf(i) = StartOf(i + 1)
          /\ StartsLate(current.job, f)
          /\ allocations' = allocations \cup
                {[job |-> current.job, start |-> StartOf(f), end |-> EndOf(l), slots |-> f .. l]}
          /\ free' = free \ (f .. l)
          /\ \E last \in Int :
                current' = [current EXCEPT !.remaining = @ - (EndOf(l) - StartOf(f)),
                                           !.cursor = last,
                                           !.progress = TRUE,
                                           !.chunks = @ \cup {f}]
  BY ChunkIsStretch
<1> DEFINE new == [job |-> current.job, start |-> StartOf(f), end |-> EndOf(l), slots |-> f .. l]
<1>2. UNCHANGED <<problem, pending, placed>> /\ current # NoJob
  BY DEF PlaceChunk
<1>3. /\ problem \in Problems
      /\ LedgerIsRight
      /\ IsPlacement(current)
      /\ current.job \in problem.jobs \ (pending \cup placed)
      /\ problem.gates[current.job] \subseteq placed
      /\ problem.jobs \subseteq Jobs
  BY <1>2 DEF SInv, CurrentIsReady, Problems
<1>4. IsPlacement(current') /\ current'.job = current.job
  <2>1. PICK last \in Int :
            current' = [current EXCEPT !.remaining = @ - (EndOf(l) - StartOf(f)),
                                       !.cursor = last,
                                       !.progress = TRUE,
                                       !.chunks = @ \cup {f}]
    BY <1>1, Zenon
  <2>2. QED
    BY ONLY <1>3, <2>1, PlacementTakesChunk, Zenon
<1>5. SetsAreJobs' /\ CurrentIsReady'
  BY <1>2, <1>3, <1>4 DEF SInv, SetsAreJobs, CurrentIsReady
<1>6. f \in Nat /\ l \in Nat /\ f \in f .. l /\ l \in f .. l
  BY <1>1, <1>3, SlotsIncrease
<1>7. new.slots = f .. l /\ ~Kept(new) /\ new.job = current.job
      /\ new.start = StartOf(f) /\ new.end = EndOf(l)
  BY <1>6 DEF Kept
<1>8. \A b \in allocations : ~Overlaps(new, b) /\ ~Overlaps(b, new)
  BY <1>1, <1>7, StretchExcludes DEF Overlaps
<1>9. \A i : StartOf(i)' = StartOf(i) /\ EndOf(i)' = EndOf(i)
  BY <1>2 DEF StartOf, EndOf
\* A free slot outside the stretch lies before or after it.
<1>10. \A i \in free' : ~Overlaps(problem.slots[i], new)
  <2> SUFFICES ASSUME NEW i \in free' PROVE ~Overlaps(problem.slots[i], new)
    OBVIOUS
  <2>1. i \in DOMAIN problem.slots /\ i \in Nat /\ i \notin f .. l
    BY <1>1, <1>3, SlotsIncrease DEF LedgerIsRight, FreeSlots
  <2>2. CASE i < f
    <3>1. EndOf(i) <= StartOf(f)
      BY <1>3, <2>1, <2>2, SlotsIncrease
    <3>2. QED
      BY <1>3, <1>7, <2>1, <3>1, SlotsIncrease DEF Overlaps, StartOf, EndOf
  <2>3. CASE l < i
    <3>1. EndOf(l) <= StartOf(i)
      BY <1>3, <2>1, <2>3, SlotsIncrease
    <3>2. QED
      BY <1>3, <1>7, <2>1, <3>1, SlotsIncrease DEF Overlaps, StartOf, EndOf
  <2>4. QED
    BY <1>6, <2>1, <2>2, <2>3
<1>11. LedgerIsRight'
  <2>1. free' \subseteq FreeSlots'
    BY <1>1, <1>2, <1>3 DEF LedgerIsRight, FreeSlots
  <2>2. \A i \in free' : \A a \in allocations' : ~Overlaps(problem'.slots[i], a)
    BY <1>1, <1>2, <1>3, <1>10 DEF LedgerIsRight
  <2>3. \A a \in allocations' : Kept(a) => a \in KeptAllocations(problem')
    BY <1>1, <1>2, <1>3, <1>7 DEF LedgerIsRight
  <2>4. new.job \in Jobs /\ new.slots \subseteq FreeSlots' \ free' /\ IsStretch(new, f, l)
    BY <1>1, <1>2, <1>3, <1>7, <1>9 DEF LedgerIsRight, FreeSlots, IsStretch
  <2>5. ASSUME NEW a \in allocations, ~Kept(a)
        PROVE  /\ a.job \in Jobs
               /\ a.slots \subseteq FreeSlots' \ free'
               /\ \E g, n \in a.slots : IsStretch(a, g, n)
    BY <1>1, <1>2, <1>3, <1>9, <2>5 DEF LedgerIsRight, FreeSlots, IsStretch
  <2>6. \E g, n \in new.slots : IsStretch(new, g, n)
    BY <1>6, <1>7, <2>4
  <2>7. ASSUME NEW a \in allocations', ~Kept(a)
        PROVE  /\ a.job \in Jobs
               /\ a.slots \subseteq FreeSlots' \ free'
               /\ \E g, n \in a.slots : IsStretch(a, g, n)
    <3>1. CASE a \in allocations
      BY <2>5, <2>7, <3>1
    <3>2. CASE a = new
      BY <2>4, <2>6, <3>2
    <3>3. QED
      BY <1>1, <2>7, <3>1, <3>2
  <2>8. QED
    BY <1>9, <2>1, <2>2, <2>3, <2>7 DEF LedgerIsRight, IsStretch
\* A slot that touches the stretch is one of it, and those were free.
<1>12. \A i \in DOMAIN problem.slots : Overlaps(problem.slots[i], new) => problem.slots[i].free
  <2> SUFFICES ASSUME NEW i \in DOMAIN problem.slots, Overlaps(problem.slots[i], new)
               PROVE  problem.slots[i].free
    OBVIOUS
  <2>1. StartOf(i) < EndOf(l) /\ StartOf(f) < EndOf(i)
    BY <1>7 DEF Overlaps, StartOf, EndOf
  <2>2. i \in Nat /\ ~(l < i) /\ ~(i < f)
    BY <1>3, <2>1, SlotsIncrease
  <2>3. i \in free
    BY <1>1, <1>6, <2>2
  <2>4. QED
    BY <1>3, <2>3 DEF LedgerIsRight, FreeSlots
<1>13. NoDoubleBooking'
  BY <1>1, <1>2, <1>8, <1>12 DEF SInv, NoDoubleBooking
<1>14. PredecessorsFirst'
  <2>1. current.job \notin problem.gates[current.job]
    BY <1>3
  <2>2. \A b \in allocations : b.job \in problem.gates[current.job] => b.end <= new.start
    BY <1>1, <1>6, <1>7, StretchFollows
  <2>3. \A a \in allocations : ~Kept(a) => current.job \notin problem.gates[a.job]
    BY <1>3 DEF SInv, PredecessorsFirst
  <2>4. QED
    BY <1>1, <1>2, <1>3, <1>7, <2>1, <2>2, <2>3 DEF SInv, PredecessorsFirst
<1>15. QED
  BY <1>2, <1>3, <1>5, <1>11, <1>13, <1>14 DEF SInv

\* Every step of a pass preserves the invariant.
LEMMA NextSInv == SInv /\ [ScheduleNext]_scheduleVars => SInv'
<1> SUFFICES ASSUME SInv, [ScheduleNext]_scheduleVars PROVE SInv'
  OBVIOUS
<1>1. CASE Select
  BY <1>1, SelectInv
<1>2. CASE GiveUp
  BY <1>2, GiveUpInv
<1>3. CASE PlaceChunk
  BY <1>3, PlaceChunkInv
<1>4. CASE Again
  BY <1>4, AgainInv
<1>5. CASE Finish
  BY <1>5, FinishInv
<1>6. CASE UNCHANGED scheduleVars
  <2>1. UNCHANGED <<problem, free, allocations, pending, placed, current>>
    BY <1>6 DEF scheduleVars
  <2>2. SetsAreJobs' /\ CurrentIsReady'
    BY <2>1 DEF SInv, SetsAreJobs, CurrentIsReady
  <2>3. QED
    BY <2>1, <2>2, Frame DEF SInv
<1>7. QED
  BY <1>1, <1>2, <1>3, <1>4, <1>5, <1>6 DEF ScheduleNext

-----------------------------------------------------------------------------
\* The ledger, the job being placed and the sets of jobs stay consistent in
\* every pass (serial_schedule).
THEOREM PassInvariance == Spec => []SInv
<1>1. Init => SInv
  BY FreshInv DEF Init
<1>2. QED
  BY <1>1, NextSInv, PTL DEF Spec

\* Calling serial_schedule again, as the planner does for the next pass, starts
\* from the invariant whatever the pass before has left.
THEOREM NextPassBeginsFresh ==
    ASSUME NEW p \in Problems, Begin(p)
    PROVE  SInv'
<1>1. /\ problem' \in Problems
      /\ free' = FreeAtFirst(problem')
      /\ allocations' = KeptAllocations(problem')
      /\ pending' = problem'.jobs
      /\ placed' = {}
      /\ current' = NoJob
  BY DEF Begin
<1>2. (problem \in Problems /\ free = FreeAtFirst(problem)
         /\ allocations = KeptAllocations(problem) /\ pending = problem.jobs
         /\ placed = {} /\ current = NoJob => SInv)'
  BY FreshInv, PTL
<1>3. QED
  BY <1>1, <1>2

\* No job starts before all it waits for is placed and over, whatever the
\* gates, cycles included (start_gates).
THEOREM GatesAreKept == Spec => []PredecessorsFirst
<1>1. SInv => PredecessorsFirst
  BY DEF SInv
<1>2. QED
  BY <1>1, PassInvariance, PTL
-----------------------------------------------------------------------------
\* What holds of 0, and of n + 1 if it holds of n, holds of every natural number.
LEMMA NaturalInduction ==
    ASSUME NEW T, 0 \in T, \A n \in Nat : n \in T => n + 1 \in T
    PROVE  Nat \subseteq T
<1> SUFFICES ASSUME Nat \ T # {} PROVE FALSE
  OBVIOUS
<1>1. PICK m \in Nat \ T : \A n \in Nat \ T : m <= n
  BY LeastNatural
<1>2. m # 0 /\ m - 1 \in Nat /\ m - 1 \in T
  BY <1>1
<1> QED BY <1>1, <1>2

\* The element a sum over a set takes first.
FirstOf(s) == CHOOSE x \in s : TRUE

\* F is the sum of the weights w over the subsets of A, in the order of CHOOSE.
IsSum(F, w, A) ==
    F = [s \in SUBSET A |-> IF s = {} THEN 0 ELSE w[FirstOf(s)] + F[s \ {FirstOf(s)}]]

\* Taking an element out of a finite set.
LEMMA TakenOut ==
    ASSUME NEW s, IsFiniteSet(s), s # {}
    PROVE  /\ FirstOf(s) \in s
           /\ IsFiniteSet(s \ {FirstOf(s)})
           /\ Cardinality(s) \in Nat \ {0}
           /\ Cardinality(s \ {FirstOf(s)}) = Cardinality(s) - 1
<1>1. FirstOf(s) \in s
  BY DEF FirstOf
<1>2. Cardinality(s) \in Nat /\ Cardinality(s) # 0
  BY FS_CardinalityType, FS_EmptySet
<1> QED BY <1>1, <1>2, FS_RemoveElement

\* Every finite set of terms has a sum.
LEMMA SumsExist ==
    ASSUME NEW A, IsFiniteSet(A), NEW w
    PROVE  \E F : IsSum(F, w, A)
<1> DEFINE Upto(n) == {s \in SUBSET A : Cardinality(s) <= n}
           SumsTo(F, n) == F = [s \in Upto(n) |->
                                  IF s = {} THEN 0 ELSE w[FirstOf(s)] + F[s \ {FirstOf(s)}]]
           T == {n \in Nat : \E F : SumsTo(F, n)}
<1>1. \A s \in SUBSET A : IsFiniteSet(s) /\ Cardinality(s) \in Nat /\ Cardinality(s) <= Cardinality(A)
  BY FS_Subset, FS_CardinalityType
<1>2. 0 \in T
  <2> DEFINE F == [s \in Upto(0) |-> 0]
  <2>1. \A s \in Upto(0) : s = {}
    BY <1>1, FS_EmptySet
  <2>2. SumsTo(F, 0)
    BY <2>1
  <2> QED BY <2>2
<1>3. ASSUME NEW n \in Nat, n \in T PROVE n + 1 \in T
  <2>1. PICK F : SumsTo(F, n)
    BY <1>3
  <2> DEFINE G == [s \in Upto(n + 1) |->
                     IF s = {} THEN 0 ELSE w[FirstOf(s)] + F[s \ {FirstOf(s)}]]
  <2>2. ASSUME NEW s \in Upto(n) PROVE s \in Upto(n + 1) /\ G[s] = F[s]
    <3>1. s \in Upto(n + 1)
      BY <1>1
    <3>2. F[s] = IF s = {} THEN 0 ELSE w[FirstOf(s)] + F[s \ {FirstOf(s)}]
      BY <2>1, Zenon
    <3> QED BY <3>1, <3>2
  <2>3. ASSUME NEW s \in Upto(n + 1), s # {}
        PROVE  s \ {FirstOf(s)} \in Upto(n)
    BY <1>1, <2>3, TakenOut
  <2>4. SumsTo(G, n + 1)
    BY <2>2, <2>3
  <2> HIDE DEF SumsTo, G
  <2> QED BY <2>4
<1>4. Nat \subseteq T
  <2> HIDE DEF T
  <2> QED BY <1>2, <1>3, NaturalInduction
<1>5. Cardinality(A) \in Nat /\ Upto(Cardinality(A)) = SUBSET A
  BY <1>1, FS_CardinalityType
<1>6. PICK F : SumsTo(F, Cardinality(A))
  BY <1>4, <1>5
<1> QED BY <1>5, <1>6 DEF IsSum

\* A sum depends on the weights of the elements alone, and is an integer if they are.
LEMMA SumsAgree ==
    ASSUME NEW A, NEW w, NEW F, IsSum(F, w, A),
           NEW B, NEW v, NEW G, IsSum(G, v, B),
           NEW C, C \subseteq A, C \subseteq B, IsFiniteSet(C), \A x \in C : w[x] = v[x] /\ w[x] \in Int
    PROVE  F[C] = G[C] /\ F[C] \in Int
<1> DEFINE P(s) == F[s] = G[s] /\ F[s] \in Int
           T == {n \in Nat : \A s \in SUBSET C : Cardinality(s) = n => P(s)}
<1>1. \A s \in SUBSET C : IsFiniteSet(s) /\ Cardinality(s) \in Nat
  BY FS_Subset, FS_CardinalityType
<1>2. \A s \in SUBSET C : s = {} => P(s)
  BY DEF IsSum
<1>3. 0 \in T
  <2>1. \A s \in SUBSET C : Cardinality(s) = 0 => s = {}
    BY <1>1, FS_EmptySet
  <2> QED BY <1>2, <2>1
<1>4. ASSUME NEW n \in Nat, n \in T PROVE n + 1 \in T
  <2> SUFFICES ASSUME NEW s \in SUBSET C, Cardinality(s) = n + 1 PROVE P(s)
    OBVIOUS
  <2> DEFINE x == FirstOf(s)
  <2>1. s # {}
    BY FS_EmptySet
  <2>2. x \in s /\ s \ {x} \in SUBSET C /\ Cardinality(s \ {x}) = n
    BY <1>1, <2>1, TakenOut
  <2>3. P(s \ {x})
    BY <1>4, <2>2
  <2>4. F[s] = w[x] + F[s \ {x}] /\ G[s] = v[x] + G[s \ {x}]
    BY <2>1 DEF IsSum
  <2>5. w[x] = v[x] /\ w[x] \in Int
    BY <2>2
  <2> QED BY <2>3, <2>4, <2>5
<1>5. Nat \subseteq T
  <2> HIDE DEF T
  <2> QED BY <1>3, <1>4, NaturalInduction
<1>6. Cardinality(C) \in T
  BY <1>1, <1>5
<1> QED BY <1>6

\* Whichever element is taken out first, the rest of the sum is that of the others.
LEMMA SumTakesOut ==
    ASSUME NEW A, NEW w, NEW F, IsSum(F, w, A), IsFiniteSet(A), \A x \in A : w[x] \in Int,
           NEW C \in SUBSET A, NEW x \in C
    PROVE  F[C] = w[x] + F[C \ {x}]
<1> DEFINE P(s) == \A z \in s : F[s] = w[z] + F[s \ {z}]
           T == {n \in Nat : \A s \in SUBSET A : Cardinality(s) = n => P(s)}
<1>1. \A s \in SUBSET A : IsFiniteSet(s) /\ Cardinality(s) \in Nat /\ F[s] \in Int
  BY FS_Subset, FS_CardinalityType, SumsAgree
<1>2. 0 \in T
  <2>1. \A s \in SUBSET A : Cardinality(s) = 0 => s = {}
    BY <1>1, FS_EmptySet
  <2> QED BY <2>1
<1>3. ASSUME NEW n \in Nat, n \in T PROVE n + 1 \in T
  <2> SUFFICES ASSUME NEW s \in SUBSET A, Cardinality(s) = n + 1, NEW z \in s
               PROVE  F[s] = w[z] + F[s \ {z}]
    OBVIOUS
  <2> DEFINE y == FirstOf(s)
  <2>1. y \in s /\ Cardinality(s \ {y}) = n /\ s \ {y} \in SUBSET A
    BY <1>1, TakenOut
  <2>2. F[s] = w[y] + F[s \ {y}]
    BY DEF IsSum
  <2>3. CASE z = y
    BY <2>2, <2>3
  <2>4. CASE z # y
    <3> HIDE DEF y
    <3>1. F[s \ {y}] = w[z] + F[(s \ {y}) \ {z}]
      BY <1>3, <2>1, <2>4
    <3>2. Cardinality(s \ {z}) = n /\ s \ {z} \in SUBSET A
      <4>1. IsFiniteSet(s)
        BY <1>1
      <4>2. Cardinality(s \ {z}) = Cardinality(s) - 1
        BY <4>1, FS_RemoveElement
      <4> QED BY <4>2
    <3>3. F[s \ {z}] = w[y] + F[(s \ {z}) \ {y}]
      BY <1>3, <2>1, <2>4, <3>2
    <3>4. (s \ {y}) \ {z} = (s \ {z}) \ {y} /\ (s \ {y}) \ {z} \in SUBSET A
      OBVIOUS
    <3>5. F[(s \ {y}) \ {z}] \in Int /\ w[z] \in Int /\ w[y] \in Int
      BY <1>1, <2>1, <3>4
    <3>6. F[s] = w[y] + (w[z] + F[(s \ {y}) \ {z}])
      BY <2>2, <3>1
    <3>7. F[s \ {z}] = w[y] + F[(s \ {y}) \ {z}]
      BY <3>3, <3>4
    <3> QED BY ONLY <3>5, <3>6, <3>7
  <2> QED BY <2>3, <2>4
<1>4. Nat \subseteq T
  <2> HIDE DEF T
  <2> QED BY <1>2, <1>3, NaturalInduction
<1>5. Cardinality(C) \in T
  BY <1>1, <1>4
<1> QED BY <1>5

\* The time of intervals is the sum of their lengths.
LEMMA MinutesAreSums ==
    ASSUME NEW A, IsFiniteSet(A), NEW w, w = [a \in A |-> a.end - a.start]
    PROVE  \E F : IsSum(F, w, A) /\ Minutes(A) = F[A]
<1> DEFINE Rec(F) == F = [s \in SUBSET A |-> IF s = {} THEN 0
                            ELSE LET x == CHOOSE x \in s : TRUE
                                 IN  (x.end - x.start) + F[s \ {x}]]
           F == CHOOSE F : Rec(F)
<1>1. \A G : IsSum(G, w, A) <=> Rec(G)
  <2> SUFFICES ASSUME NEW G PROVE IsSum(G, w, A) <=> Rec(G)
    OBVIOUS
  <2>1. \A s \in SUBSET A : s # {} => FirstOf(s) \in A /\ w[FirstOf(s)] = FirstOf(s).end - FirstOf(s).start
    BY DEF FirstOf
  <2> QED BY <2>1 DEF IsSum, FirstOf
<1>2. Minutes(A) = F[A]
  BY DEF Minutes, MapThenSumSet, MapThenFoldSet
<1> HIDE DEF Rec
<1>3. \E G : Rec(G)
  <2>1. PICK G : IsSum(G, w, A)
    BY SumsExist
  <2> QED BY <1>1, <2>1
<1>4. Rec(F)
  BY <1>3
<1> HIDE DEF F
<1> QED BY <1>1, <1>2, <1>4

\* The time of finitely many intervals is an integer.
LEMMA SumsAreTyped ==
    ASSUME NEW A, IsFiniteSet(A), \A a \in A : a.start \in Int /\ a.end \in Int
    PROVE  Minutes(A) \in Int
<1> DEFINE w == [a \in A |-> a.end - a.start]
<1>1. PICK F : IsSum(F, w, A) /\ Minutes(A) = F[A]
  BY MinutesAreSums
<1>2. \A a \in A : w[a] \in Int
  OBVIOUS
<1> HIDE DEF w
<1> QED BY <1>1, <1>2, SumsAgree

\* The minutes of no allocation, and of one more.
LEMMA NoMinutes == Minutes({}) = 0
<1>1. PICK F : IsSum(F, [a \in {} |-> a.end - a.start], {}) /\ Minutes({}) = F[{}]
  BY MinutesAreSums, FS_EmptySet
<1> QED BY <1>1 DEF IsSum

\* One interval more adds its length.
LEMMA MoreMinutes ==
    ASSUME NEW A, IsFiniteSet(A), \A a \in A : a.start \in Int /\ a.end \in Int,
           NEW b, b \notin A, b.start \in Int, b.end \in Int
    PROVE  /\ Minutes(A) \in Int
           /\ Minutes(A \cup {b}) = Minutes(A) + (b.end - b.start)
<1> DEFINE B == A \cup {b}
           w == [a \in A |-> a.end - a.start]
           v == [a \in B |-> a.end - a.start]
<1>1. IsFiniteSet(B)
  BY FS_AddElement
<1>2. PICK F : IsSum(F, w, A) /\ Minutes(A) = F[A]
  BY MinutesAreSums
<1>3. PICK G : IsSum(G, v, B) /\ Minutes(B) = G[B]
  BY <1>1, MinutesAreSums
<1>4. /\ \A a \in B : v[a] \in Int
      /\ \A a \in A : w[a] = v[a] /\ w[a] \in Int
      /\ v[b] = b.end - b.start
  OBVIOUS
<1> HIDE DEF w, v
<1>5. F[A] = G[A] /\ F[A] \in Int
  BY <1>2, <1>3, <1>4, SumsAgree
<1>6. G[B] = v[b] + G[B \ {b}]
  BY <1>1, <1>3, <1>4, SumTakesOut
<1>7. B \ {b} = A
  OBVIOUS
<1>8. Minutes(A) \in Int
  BY <1>2, <1>5
<1>9. Minutes(B) = (b.end - b.start) + Minutes(A)
  BY <1>2, <1>3, <1>4, <1>5, <1>6, <1>7, Zenon
<1>10. b.end - b.start \in Int
  OBVIOUS
<1> QED BY <1>8, <1>9, <1>10

\* The image of a finite set under a function is finite.
LEMMA ImageIsFinite ==
    ASSUME NEW A, IsFiniteSet(A), NEW f, A \subseteq DOMAIN f
    PROVE  IsFiniteSet({f[a] : a \in A})
<1> DEFINE T == {f[a] : a \in A}
           g == [a \in A |-> f[a]]
<1>1. g \in [A -> T]
  OBVIOUS
<1>2. \A t \in T : \E a \in A : g[a] = t
  OBVIOUS
<1>3. g \in Surjection(A, T)
  <2> HIDE DEF g, T
  <2> QED BY <1>1, <1>2 DEF Surjection
<1> HIDE DEF g, T
<1>4. IsFiniteSet(T)
  BY <1>3, FS_Surjection
<1> QED BY <1>4 DEF T

\* A part of finitely many intervals takes no more time than all of them.
LEMMA PartIsShorter ==
    ASSUME NEW A, IsFiniteSet(A), \A a \in A : a.start \in Int /\ a.end \in Int /\ a.start <= a.end,
           NEW B \in SUBSET A
    PROVE  /\ Minutes(A) \in Nat
           /\ Minutes(B) \in Nat
           /\ Minutes(B) <= Minutes(A)
<1> DEFINE T == {n \in Nat : \A s \in SUBSET A : Cardinality(s) = n =>
                                 \A C \in SUBSET s : Minutes(C) <= Minutes(s)}
<1>1. \A s \in SUBSET A : IsFiniteSet(s) /\ Cardinality(s) \in Nat /\ Minutes(s) \in Int
  BY FS_Subset, FS_CardinalityType, SumsAreTyped
<1>2. 0 \in T
  <2>1. \A s \in SUBSET A : Cardinality(s) = 0 => s = {}
    BY <1>1, FS_EmptySet
  <2>2. \A s \in SUBSET A : s = {} => \A C \in SUBSET s : C = s /\ Minutes(C) = 0
    BY NoMinutes
  <2> QED BY <1>1, <2>1, <2>2
<1>3. ASSUME NEW n \in Nat, n \in T PROVE n + 1 \in T
  <2> SUFFICES ASSUME NEW s \in SUBSET A, Cardinality(s) = n + 1, NEW C \in SUBSET s
               PROVE  Minutes(C) <= Minutes(s)
    OBVIOUS
  <2>1. s # {}
    BY FS_EmptySet
  <2> DEFINE x == FirstOf(s)
             R == s \ {x}
  <2>2. x \in s /\ Cardinality(R) = n /\ R \in SUBSET A /\ C \in SUBSET A
    BY <1>1, <2>1, TakenOut
  <2> HIDE DEF x
  <2>3. \A D \in SUBSET R : Minutes(D) <= Minutes(R)
    BY <1>3, <2>2
  <2>4. x.start \in Int /\ x.end \in Int /\ x.end - x.start >= 0
    BY <2>2
  <2>5. \A D \in SUBSET R : D \in SUBSET A /\ x \notin D /\ IsFiniteSet(D) /\ Minutes(D) \in Int
    BY <1>1, <2>2
  <2>6. \A D \in SUBSET R : Minutes(D \cup {x}) = Minutes(D) + (x.end - x.start)
    <3> TAKE D \in SUBSET R
    <3>1. \A a \in D : a.start \in Int /\ a.end \in Int
      BY <2>5
    <3> QED BY <2>4, <2>5, <3>1, MoreMinutes
  <2>7. R \in SUBSET R /\ s = R \cup {x}
    BY <2>2
  <2>8. Minutes(s) = Minutes(R) + (x.end - x.start) /\ Minutes(R) \in Int
    BY <2>5, <2>6, <2>7
  <2>9. CASE x \in C
    <3>1. C \ {x} \in SUBSET R /\ C = (C \ {x}) \cup {x}
      BY <2>9
    <3>2. Minutes(C) = Minutes(C \ {x}) + (x.end - x.start) /\ Minutes(C \ {x}) \in Int
      BY <2>5, <2>6, <3>1
    <3>3. Minutes(C \ {x}) <= Minutes(R)
      BY <2>3, <3>1
    <3> QED BY <2>4, <2>8, <3>2, <3>3
  <2>10. CASE x \notin C
    <3>1. C \in SUBSET R
      BY <2>10
    <3>2. Minutes(C) <= Minutes(R) /\ Minutes(C) \in Int
      BY <2>3, <2>5, <3>1
    <3> QED BY <2>4, <2>8, <3>2
  <2> QED BY <2>9, <2>10
<1>4. Nat \subseteq T
  <2> HIDE DEF T
  <2> QED BY <1>2, <1>3, NaturalInduction
<1>5. \A s \in SUBSET A : \A C \in SUBSET s : Minutes(C) <= Minutes(s)
  BY <1>1, <1>4
<1>6. \A s \in SUBSET A : Minutes(s) \in Nat
  <2> TAKE s \in SUBSET A
  <2>1. {} \in SUBSET s
    OBVIOUS
  <2>2. Minutes({}) <= Minutes(s)
    BY <1>5, <2>1
  <2> QED BY <1>1, <2>2, NoMinutes
<1> QED BY <1>5, <1>6

\* Intervals that are renamed take the time they took.
LEMMA RenamedIntervals ==
    ASSUME NEW A, IsFiniteSet(A), \A a \in A : a.start \in Int /\ a.end \in Int,
           NEW g, \A a \in A : g[a].start = a.start /\ g[a].end = a.end,
           \A a, b \in A : g[a] = g[b] => a = b
    PROVE  Minutes({g[a] : a \in A}) = Minutes(A)
<1> DEFINE Image(s) == {g[a] : a \in s}
           T == {n \in Nat : \A s \in SUBSET A : Cardinality(s) = n => Minutes(Image(s)) = Minutes(s)}
<1>1. \A s \in SUBSET A : IsFiniteSet(s) /\ Cardinality(s) \in Nat /\ IsFiniteSet(Image(s))
  <2> TAKE s \in SUBSET A
  <2>1. IsFiniteSet(s)
    BY FS_Subset
  <2> DEFINE h == [a \in s |-> g[a]]
  <2>2. {h[a] : a \in s} = Image(s) /\ s \subseteq DOMAIN h
    OBVIOUS
  <2> HIDE DEF h
  <2>3. IsFiniteSet({h[a] : a \in s})
    BY <2>1, <2>2, ImageIsFinite
  <2> QED BY <2>1, <2>2, <2>3, FS_CardinalityType
<1>2. 0 \in T
  <2>1. \A s \in SUBSET A : Cardinality(s) = 0 => s = {}
    BY <1>1, FS_EmptySet
  <2>2. \A s \in SUBSET A : s = {} => Image(s) = s
    OBVIOUS
  <2> QED BY <2>1, <2>2
<1>3. ASSUME NEW n \in Nat, n \in T PROVE n + 1 \in T
  <2> SUFFICES ASSUME NEW s \in SUBSET A, Cardinality(s) = n + 1
               PROVE  Minutes(Image(s)) = Minutes(s)
    OBVIOUS
  <2>1. s # {}
    BY FS_EmptySet
  <2> DEFINE x == FirstOf(s)
             R == s \ {x}
  <2>2. x \in s /\ Cardinality(R) = n /\ R \in SUBSET A
    <3>1. IsFiniteSet(s)
      BY <1>1
    <3> HIDE DEF T
    <3>2. x \in s /\ Cardinality(s \ {x}) = Cardinality(s) - 1
      BY <2>1, <3>1, TakenOut
    <3> QED BY <3>2
  <2> HIDE DEF x
  <2>3. Minutes(Image(R)) = Minutes(R)
    BY <1>3, <2>2
  <2>4. s = R \cup {x} /\ x \notin R
    BY <2>2
  <2>5. Image(s) = Image(R) \cup {g[x]}
    BY <2>4
  <2>6. g[x] \notin Image(R)
    BY <2>2
  <2>7. /\ IsFiniteSet(R) /\ IsFiniteSet(Image(R))
        /\ x.start \in Int /\ x.end \in Int
        /\ g[x].start = x.start /\ g[x].end = x.end
        /\ \A a \in R : a.start \in Int /\ a.end \in Int
        /\ \A b \in Image(R) : b.start \in Int /\ b.end \in Int
    BY <1>1, <2>2
  <2>8. Minutes(R \cup {x}) = Minutes(R) + (x.end - x.start)
    BY <2>4, <2>7, MoreMinutes
  <2> HIDE DEF Image
  <2>9. Minutes(Image(R) \cup {g[x]}) = Minutes(Image(R)) + (g[x].end - g[x].start)
    BY <2>6, <2>7, MoreMinutes
  <2> QED BY <2>3, <2>4, <2>5, <2>7, <2>8, <2>9
<1>4. Nat \subseteq T
  <2> HIDE DEF T
  <2> QED BY <1>2, <1>3, NaturalInduction
<1>5. Cardinality(A) \in T
  BY <1>1, <1>4
<1> QED BY <1>5
-----------------------------------------------------------------------------
\* The sum of a function over a finite set is one of the sums above.
LEMMA FunctionSums ==
    ASSUME NEW S, IsFiniteSet(S), NEW w
    PROVE  \E F : IsSum(F, w, S) /\ SumFunctionOnSet(w, S) = F[S]
<1> DEFINE Rec(F) == F = [s \in SUBSET S |-> IF s = {} THEN 0
                            ELSE LET x == CHOOSE x \in s : TRUE
                                 IN  w[x] + F[s \ {x}]]
           F == CHOOSE F : Rec(F)
<1>1. \A G : IsSum(G, w, S) <=> Rec(G)
  BY DEF IsSum, FirstOf
<1>2. SumFunctionOnSet(w, S) = F[S]
  BY DEF SumFunctionOnSet, FoldFunctionOnSet, MapThenFoldSet
<1> HIDE DEF Rec
<1>3. \E G : Rec(G)
  <2>1. PICK G : IsSum(G, w, S)
    BY SumsExist
  <2> QED BY <1>1, <2>1
<1>4. Rec(F)
  BY <1>3
<1> HIDE DEF F
<1> QED BY <1>1, <1>2, <1>4

\* Intervals of two kinds take the time of the one and of the other.
LEMMA MinutesOfBoth ==
    ASSUME NEW A, IsFiniteSet(A), \A a \in A : a.start \in Int /\ a.end \in Int,
           NEW B \in SUBSET A
    PROVE  Minutes(A) = Minutes(B) + Minutes(A \ B)
<1> DEFINE rest == A \ B
           P(s) == Minutes(s \cup rest) = Minutes(s) + Minutes(rest)
           T == {n \in Nat : \A s \in SUBSET B : Cardinality(s) = n => P(s)}
<1>1. \A s \in SUBSET A : IsFiniteSet(s) /\ Cardinality(s) \in Nat /\ Minutes(s) \in Int
  BY FS_Subset, FS_CardinalityType, SumsAreTyped
<1>2. 0 \in T
  <2>1. \A s \in SUBSET B : Cardinality(s) = 0 => s = {}
    BY <1>1, FS_EmptySet
  <2>2. {} \cup rest = rest /\ Minutes(rest) = 0 + Minutes(rest)
    BY <1>1
  <2>3. P({})
    BY <2>2, NoMinutes
  <2> HIDE DEF P
  <2> QED BY <2>1, <2>3
<1>3. ASSUME NEW n \in Nat, n \in T PROVE n + 1 \in T
  <2> HIDE DEF P
  <2> SUFFICES ASSUME NEW s \in SUBSET B, Cardinality(s) = n + 1 PROVE P(s)
    OBVIOUS
  <2>1. s # {} /\ IsFiniteSet(s)
    BY <1>1, FS_EmptySet
  <2> DEFINE x == FirstOf(s)
             R == s \ {x}
  <2>2. x \in s /\ Cardinality(R) = n
    <3> HIDE DEF T
    <3>1. x \in s /\ Cardinality(s \ {x}) = Cardinality(s) - 1
      BY <2>1, TakenOut
    <3> QED BY <3>1
  <2> HIDE DEF x
  <2>3. P(R)
    BY <1>3, <2>2
  <2>4. /\ x.start \in Int /\ x.end \in Int
        /\ x \notin R /\ x \notin R \cup rest
        /\ s = R \cup {x} /\ s \cup rest = (R \cup rest) \cup {x}
    BY <2>2
  <2>5. /\ IsFiniteSet(R) /\ \A a \in R : a.start \in Int /\ a.end \in Int
        /\ IsFiniteSet(R \cup rest)
        /\ \A a \in R \cup rest : a.start \in Int /\ a.end \in Int
    BY <1>1
  <2>6. Minutes(R) \in Int /\ Minutes(rest) \in Int /\ x.end - x.start \in Int
    BY <1>1, <2>4
  <2>7. Minutes(s) = Minutes(R) + (x.end - x.start)
    BY <2>4, <2>5, MoreMinutes
  <2> HIDE DEF R, rest
  <2>8. Minutes((R \cup rest) \cup {x}) = Minutes(R \cup rest) + (x.end - x.start)
    BY <2>4, <2>5, MoreMinutes
  <2>9. Minutes(s \cup rest) = Minutes(R \cup rest) + (x.end - x.start)
    BY <2>4, <2>8
  <2> QED BY <2>3, <2>6, <2>7, <2>9 DEF P
<1>4. Nat \subseteq T
  <2> HIDE DEF T
  <2> QED BY <1>2, <1>3, NaturalInduction
<1>5. P(B)
  <2> HIDE DEF P
  <2> QED BY <1>1, <1>4
<1>6. B \cup (A \ B) = A
  OBVIOUS
<1> QED BY <1>5, <1>6

\* If no job has more time than its share, then all have no more than all
\* shares, and each has its share as soon as all have all shares.
LEMMA EnoughInAll ==
    ASSUME NEW D, IsFiniteSet(D), \A a \in D : a.start \in Int /\ a.end \in Int,
           NEW S, IsFiniteSet(S), NEW w, NEW F, IsSum(F, w, S),
           \A j \in S : w[j] \in Int /\ Minutes({a \in D : a.job = j}) <= w[j]
    PROVE  /\ F[S] \in Int
           /\ Minutes({a \in D : a.job \in S}) <= F[S]
           /\ Minutes({a \in D : a.job \in S}) >= F[S] =>
                 \A j \in S : Minutes({a \in D : a.job = j}) >= w[j]
<1> DEFINE By(j) == {a \in D : a.job = j}
           All(s) == {a \in D : a.job \in s}
           P(s) == /\ Minutes(All(s)) <= F[s]
                   /\ Minutes(All(s)) >= F[s] => \A j \in s : Minutes(By(j)) >= w[j]
           T == {n \in Nat : \A s \in SUBSET S : Cardinality(s) = n => P(s)}
<1>1. \A s \in SUBSET S : IsFiniteSet(s) /\ Cardinality(s) \in Nat /\ F[s] \in Int
  <2> TAKE s \in SUBSET S
  <2>1. IsFiniteSet(s) /\ s \subseteq S
    BY FS_Subset
  <2>2. \A x \in s : w[x] = w[x] /\ w[x] \in Int
    OBVIOUS
  <2> HIDE DEF P, T
  <2>3. F[s] \in Int
    BY <2>1, <2>2, SumsAgree
  <2> QED BY <2>1, <2>3, FS_CardinalityType
<1>2. /\ \A s : IsFiniteSet(All(s)) /\ Minutes(All(s)) \in Int
      /\ \A j : IsFiniteSet(By(j)) /\ Minutes(By(j)) \in Int
  <2>1. \A E \in SUBSET D : IsFiniteSet(E) /\ Minutes(E) \in Int
    BY FS_Subset, SumsAreTyped
  <2> QED BY <2>1
<1>3. \A j \in S : Minutes(By(j)) <= w[j] /\ w[j] \in Int
  OBVIOUS
<1>4. 0 \in T
  <2>1. \A s \in SUBSET S : Cardinality(s) = 0 => s = {}
    BY <1>1, FS_EmptySet
  <2>2. All({}) = {} /\ F[{}] = 0
    BY DEF IsSum
  <2> HIDE DEF All, By
  <2>3. P({})
    BY <2>2, NoMinutes
  <2> QED BY <2>1, <2>3
<1>5. ASSUME NEW n \in Nat, n \in T PROVE n + 1 \in T
  <2> SUFFICES ASSUME NEW s \in SUBSET S, Cardinality(s) = n + 1
               PROVE  P(s)
    OBVIOUS
  <2>1. s # {} /\ IsFiniteSet(s)
    BY <1>1, FS_EmptySet
  <2> DEFINE x == FirstOf(s)
             R == s \ {x}
  <2>2. x \in s /\ Cardinality(R) = n
    <3> HIDE DEF P, T
    <3>1. x \in s /\ Cardinality(s \ {x}) = Cardinality(s) - 1
      BY <2>1, TakenOut
    <3> QED BY <3>1
  <2>3. F[s] = w[x] + F[R]
    BY <2>1 DEF IsSum
  <2> HIDE DEF x
  <2>4. R \in SUBSET S
    OBVIOUS
  <2>5. P(R)
    <3> HIDE DEF P, R
    <3> QED BY <1>5, <2>2, <2>4
  <2>6. Minutes(All(s)) = Minutes(By(x)) + Minutes(All(R))
    <3>1. By(x) \in SUBSET All(s) /\ All(s) \ By(x) = All(R)
      BY <2>2
    <3>2. IsFiniteSet(All(s)) /\ \A a \in All(s) : a.start \in Int /\ a.end \in Int
      BY <1>2
    <3> HIDE DEF All, By, R
    <3> QED BY <3>1, <3>2, MinutesOfBoth
  <2>7. /\ Minutes(By(x)) \in Int /\ Minutes(All(R)) \in Int /\ F[R] \in Int
        /\ w[x] \in Int /\ Minutes(By(x)) <= w[x]
    BY <1>1, <1>2, <1>3, <2>2, <2>4
  <2>8. \A j \in s : j = x \/ j \in R
    OBVIOUS
  <2> HIDE DEF All, By, R
  <2> QED BY <2>3, <2>5, <2>6, <2>7, <2>8
<1>6. Nat \subseteq T
  <2> HIDE DEF T
  <2> QED BY <1>4, <1>5, NaturalInduction
<1>7. P(S)
  <2> HIDE DEF P
  <2> QED BY <1>1, <1>6
<1> QED BY <1>1, <1>7

\* The sum of an integer function is an integer.
LEMMA SumIsTyped ==
    ASSUME NEW S, IsFiniteSet(S), NEW w, \A j \in S : w[j] \in Int
    PROVE  SumFunctionOnSet(w, S) \in Int
<1>1. PICK F : IsSum(F, w, S) /\ SumFunctionOnSet(w, S) = F[S]
  BY FunctionSums
<1> QED BY <1>1, SumsAgree

\* Every finite set of integers that is not empty has a least element.
LEMMA LeastOfFinite ==
    ASSUME NEW S, IsFiniteSet(S), S # {}, \A x \in S : x \in Int
    PROVE  Min(S) \in S /\ \A x \in S : Min(S) <= x
<1> DEFINE T == {n \in Nat : \A s \in SUBSET S : Cardinality(s) = n + 1 =>
                                 \E m \in s : \A x \in s : m <= x}
<1>1. \A s \in SUBSET S : IsFiniteSet(s) /\ Cardinality(s) \in Nat
  BY FS_Subset, FS_CardinalityType
<1>2. 0 \in T
  <2> SUFFICES ASSUME NEW s \in SUBSET S, Cardinality(s) = 1
               PROVE  \E m \in s : \A x \in s : m <= x
    OBVIOUS
  <2>1. PICK m : s = {m}
    BY <1>1, FS_Singleton
  <2> QED BY <2>1
<1>3. ASSUME NEW n \in Nat, n \in T PROVE n + 1 \in T
  <2> SUFFICES ASSUME NEW s \in SUBSET S, Cardinality(s) = n + 2
               PROVE  \E m \in s : \A x \in s : m <= x
    OBVIOUS
  <2>1. s # {}
    BY FS_EmptySet
  <2> DEFINE y == FirstOf(s)
             R == s \ {y}
  <2>2. y \in s /\ Cardinality(R) = n + 1 /\ R \in SUBSET S
    <3>1. IsFiniteSet(s)
      BY <1>1
    <3> HIDE DEF T
    <3>2. y \in s /\ Cardinality(s \ {y}) = Cardinality(s) - 1
      BY <2>1, <3>1, TakenOut
    <3> QED BY <3>2
  <2> HIDE DEF y
  <2>3. PICK m \in R : \A x \in R : m <= x
    BY <1>3, <2>2
  <2>4. \A x \in s : x = y \/ x \in R
    OBVIOUS
  <2>5. \A x \in s : x \in Int
    OBVIOUS
  <2>6. CASE m <= y
    BY <2>3, <2>4, <2>6
  <2>7. CASE ~(m <= y)
    <3>1. \A x \in R : y <= x
      BY <2>2, <2>3, <2>5, <2>7
    <3> QED BY <2>2, <2>4, <2>5, <3>1
  <2> QED BY <2>6, <2>7
<1>4. Nat \subseteq T
  <2> HIDE DEF T
  <2> QED BY <1>2, <1>3, NaturalInduction
<1>5. Cardinality(S) # 0
  BY FS_EmptySet
<1>6. Cardinality(S) - 1 \in T /\ (Cardinality(S) - 1) + 1 = Cardinality(S)
  BY <1>1, <1>4, <1>5
<1>7. \E m \in S : \A x \in S : m <= x
  BY <1>6
<1> QED BY <1>7 DEF Min
-----------------------------------------------------------------------------
\* If of any two elements of a finite set one comes before the other, together
\* with all that come before it, then the numbers of elements that come before
\* are all different: 0, 1 and so on.
LEMMA RanksAreExact ==
    ASSUME NEW A, IsFiniteSet(A), NEW B \in [A -> SUBSET A],
           \A a \in A : a \notin B[a],
           \A a, b \in A : a # b => \/ a \in B[b] /\ B[a] \subseteq B[b]
                                    \/ b \in B[a] /\ B[b] \subseteq B[a]
    PROVE  /\ Cardinality(A) \in Nat
           /\ \A a \in A : Cardinality(B[a]) \in 0 .. Cardinality(A) - 1
           /\ \A a, b \in A : a \in B[b] => Cardinality(B[a]) < Cardinality(B[b])
           /\ \A n \in 0 .. Cardinality(A) - 1 : \E a \in A : Cardinality(B[a]) = n
<1> DEFINE N == 0 .. Cardinality(A) - 1
           rank == [a \in A |-> Cardinality(B[a])]
<1>1. Cardinality(A) \in Nat
  BY FS_CardinalityType
<1>2. \A a \in A : IsFiniteSet(B[a]) /\ Cardinality(B[a]) \in Nat
  BY FS_Subset, FS_CardinalityType
<1>3. ASSUME NEW a \in A PROVE Cardinality(B[a]) \in N
  <2>1. Cardinality(B[a]) <= Cardinality(A) /\ Cardinality(B[a]) # Cardinality(A)
    BY FS_Subset
  <2> QED BY <1>1, <1>2, <2>1
<1>4. ASSUME NEW a \in A, NEW b \in A, a \in B[b] PROVE Cardinality(B[a]) < Cardinality(B[b])
  <2>1. B[a] \subseteq B[b] /\ B[a] # B[b]
    BY <1>4
  <2>2. Cardinality(B[a]) <= Cardinality(B[b]) /\ Cardinality(B[a]) # Cardinality(B[b])
    BY <1>2, <2>1, FS_Subset
  <2> QED BY <1>2, <2>2
<1>5. rank \in [A -> N]
  BY <1>3
<1>6. \A a, b \in A : rank[a] = rank[b] => a = b
  <2> SUFFICES ASSUME NEW a \in A, NEW b \in A, a # b PROVE rank[a] # rank[b]
    OBVIOUS
  <2>1. CASE a \in B[b]
    BY <1>2, <1>4, <2>1
  <2>2. CASE b \in B[a]
    BY <1>2, <1>4, <2>2
  <2> QED BY <2>1, <2>2
<1>7. IsFiniteSet(N) /\ Cardinality(N) = Cardinality(A)
  <2>1. IsFiniteSet(N) /\ Cardinality(N) = IF 0 > Cardinality(A) - 1 THEN 0 ELSE Cardinality(A) - 1 - 0 + 1
    BY <1>1, FS_Interval
  <2> QED BY <1>1, <2>1
<1>8. rank \in Surjection(A, N)
  <2> HIDE DEF rank, N
  <2>1. rank \in Injection(A, N)
    BY <1>5, <1>6 DEF Injection, IsInjective
  <2> QED BY <1>7, <2>1, FS_Injection
<1>9. \A n \in N : \E a \in A : rank[a] = n
  <2> HIDE DEF rank, N
  <2> QED BY <1>8 DEF Surjection
<1> QED BY <1>1, <1>3, <1>4, <1>9
-----------------------------------------------------------------------------
\* The smaller of two numbers.
LEMMA MinOfTwo ==
    ASSUME NEW a \in Int, NEW b \in Int
    PROVE  Min({a, b}) \in {a, b} /\ Min({a, b}) <= a /\ Min({a, b}) <= b
BY DEF Min

\* A window is cut into slots that follow one another within it.
LEMMA WindowIsCut ==
    ASSUME NEW w \in [start : Int, end : Int]
    PROVE  /\ SplitWindow(w) \in Seq(Spans)
           /\ \A i \in DOMAIN SplitWindow(w) :
                 w.start <= SplitWindow(w)[i].start /\ SplitWindow(w)[i].end <= w.end
           /\ \A i, k \in DOMAIN SplitWindow(w) :
                 i < k => SplitWindow(w)[i].end <= SplitWindow(w)[k].start
<1> DEFINE d == SlotMinutes
           n == (Length(w) + SlotMinutes - 1) \div SlotMinutes
           s == SplitWindow(w)
<1>1. d \in Nat \ {0}
  BY InputAssumption DEF InputAssumption
<1>2. Length(w) \in Int /\ Length(w) = w.end - w.start /\ w.start \in Int /\ w.end \in Int
  BY DEF Length
<1>3. n \in Int /\ d * n <= Length(w) + d - 1
  BY <1>1, <1>2
<1>4. s = [i \in 1 .. n |-> [start |-> w.start + (i - 1) * d,
                             end   |-> Min({w.start + i * d, w.end})]]
  BY DEF SplitWindow
<1> HIDE DEF n, s, d
<1>5. ASSUME NEW i \in 1 .. n
      PROVE  /\ (i - 1) * d \in Int /\ i * d \in Int
             /\ i * d = (i - 1) * d + d
             /\ 0 <= (i - 1) * d
             /\ (i - 1) * d < Length(w)
  <2>1. i \in Int /\ n \in Int /\ d \in Int /\ 1 <= i /\ i <= n /\ 0 < d
    BY <1>1, <1>3
  <2>2. i * d \in Int /\ (i - 1) * d \in Int /\ d * n \in Int
    BY <2>1
  <2>3. i * d = (i - 1) * d + d
    BY <2>1
  <2>4. 0 <= (i - 1) * d
    BY <2>1
  <2>5. i * d <= d * n
    BY <2>1
  <2> QED BY ONLY <1>2, <1>3, <2>1, <2>2, <2>3, <2>4, <2>5
<1>6. ASSUME NEW i \in 1 .. n
      PROVE  /\ s[i] \in Spans
             /\ w.start <= s[i].start /\ s[i].end <= w.end
             /\ s[i].start = w.start + (i - 1) * d
             /\ s[i].end <= w.start + i * d
  <2>1. w.start + i * d \in Int
    BY <1>2, <1>5
  <2>2. /\ Min({w.start + i * d, w.end}) \in {w.start + i * d, w.end}
        /\ Min({w.start + i * d, w.end}) <= w.start + i * d
        /\ Min({w.start + i * d, w.end}) <= w.end
    BY <1>2, <2>1, MinOfTwo
  <2>3. s[i].start = w.start + (i - 1) * d /\ s[i].end = Min({w.start + i * d, w.end})
        /\ s[i] = [start |-> w.start + (i - 1) * d, end |-> Min({w.start + i * d, w.end})]
    BY <1>4
  <2>4. s[i].start < s[i].end
    BY <1>1, <1>2, <1>5, <2>1, <2>2, <2>3
  <2>5. s[i].start \in Int /\ s[i].end \in Int
    BY <1>2, <1>5, <2>1, <2>2, <2>3
  <2>6. s[i] \in Spans
    BY <2>3, <2>4, <2>5 DEF Spans
  <2> QED BY <1>2, <1>5, <2>2, <2>3, <2>6
<1>7. ASSUME NEW i \in 1 .. n, NEW k \in 1 .. n, i < k
      PROVE  s[i].end <= s[k].start
  <2>1. i \in Int /\ k \in Int /\ d \in Int /\ i <= k - 1 /\ 0 < d
    BY <1>1, <1>3, <1>7
  <2>2. i * d \in Int /\ (k - 1) * d \in Int /\ i * d <= (k - 1) * d
    BY <2>1
  <2>3. s[i].end <= w.start + i * d /\ s[k].start = w.start + (k - 1) * d
        /\ s[i].end \in Int
    BY <1>6 DEF Spans
  <2> QED BY <1>2, <2>2, <2>3
<1>8. s \in Seq(Spans) /\ DOMAIN s = 1 .. n
  <2>1. CASE n < 0
    <3>1. 1 .. n = {} /\ 1 .. 0 = {}
      BY <1>3, <2>1
    <3>2. DOMAIN s = 1 .. n /\ s = <<>>
      BY <1>4, <3>1
    <3> QED BY <3>2
  <2>2. CASE n >= 0
    <3>1. n \in Nat
      BY <1>3, <2>2
    <3> QED BY <1>4, <1>6, <3>1
  <2> QED BY <1>3, <2>1, <2>2
<1> QED BY <1>6, <1>7, <1>8 DEF s
-----------------------------------------------------------------------------
\* Appended sequences keep the positions of their elements.
LEMMA Appended ==
    ASSUME NEW S, NEW s \in Seq(S), NEW t \in Seq(S)
    PROVE  /\ s \o t \in Seq(S)
           /\ Len(s \o t) = Len(s) + Len(t)
           /\ \A p \in DOMAIN (s \o t) :
                 \/ p \in DOMAIN s /\ (s \o t)[p] = s[p]
                 \/ p - Len(s) \in DOMAIN t /\ (s \o t)[p] = t[p - Len(s)] /\ p \notin DOMAIN s
OBVIOUS

\* f is what is written out step by step when seqs are put together.
IsFlat(f, seqs, n) ==
    f = [i \in 1 .. n |-> IF i = 1 THEN seqs[i] ELSE f[i - 1] \o seqs[i]]

\* A concatenation of sequences grows by one sequence at a time.
LEMMA FlatStep ==
    ASSUME NEW f, NEW seqs, NEW n, IsFlat(f, seqs, n), NEW i \in 1 .. n
    PROVE  f[i] = IF i = 1 THEN seqs[i] ELSE f[i - 1] \o seqs[i]
<1>1. f = [k \in 1 .. n |-> IF k = 1 THEN seqs[k] ELSE f[k - 1] \o seqs[k]]
  BY DEF IsFlat
<1> QED BY ONLY <1>1, i \in 1 .. n, Zenon

\* Every sequence of sequences has a concatenation.
LEMMA FlatExists ==
    ASSUME NEW seqs, NEW n \in Nat
    PROVE  \E f : IsFlat(f, seqs, n)
<1> DEFINE T == {m \in Nat : \E f : IsFlat(f, seqs, m)}
<1>1. 0 \in T
  <2> DEFINE f == [i \in 1 .. 0 |-> {}]
  <2>1. IsFlat(f, seqs, 0)
    BY DEF IsFlat
  <2> QED BY <2>1
<1>2. ASSUME NEW m \in Nat, m \in T PROVE m + 1 \in T
  <2>1. PICK f : IsFlat(f, seqs, m)
    BY <1>2
  <2> DEFINE g == [i \in 1 .. m + 1 |-> IF i = 1 THEN seqs[i] ELSE f[i - 1] \o seqs[i]]
  <2>2. \A i \in 1 .. m : i \in 1 .. m + 1 /\ g[i] = f[i]
    <3> SUFFICES ASSUME NEW i \in 1 .. m PROVE i \in 1 .. m + 1 /\ g[i] = f[i]
      OBVIOUS
    <3>1. f[i] = IF i = 1 THEN seqs[i] ELSE f[i - 1] \o seqs[i]
      BY <2>1, FlatStep
    <3>2. i \in 1 .. m + 1
      OBVIOUS
    <3> QED BY <3>1, <3>2
  <2>3. \A i \in 1 .. m + 1 : i # 1 => i - 1 \in 1 .. m
    OBVIOUS
  <2>4. IsFlat(g, seqs, m + 1)
    BY <2>2, <2>3 DEF IsFlat
  <2> HIDE DEF g
  <2> QED BY <2>4
<1>3. Nat \subseteq T
  <2> HIDE DEF T
  <2> QED BY <1>1, <1>2, NaturalInduction
<1> QED BY <1>3

\* Spans none of which overlaps another exclude one another still when the
\* sequences they are in are put together.
LEMMA FlatExclude ==
    ASSUME NEW seqs \in Seq(Seq(Spans)),
           \A i, j \in DOMAIN seqs : \A k \in DOMAIN seqs[i], l \in DOMAIN seqs[j] :
               i # j \/ k # l => ~Overlaps(seqs[i][k], seqs[j][l])
    PROVE  /\ FlattenSeq(seqs) \in Seq(Spans)
           /\ \A p, q \in DOMAIN FlattenSeq(seqs) :
                 p # q => ~Overlaps(FlattenSeq(seqs)[p], FlattenSeq(seqs)[q])
           /\ \A p \in DOMAIN FlattenSeq(seqs) :
                 \E i \in DOMAIN seqs : \E k \in DOMAIN seqs[i] : FlattenSeq(seqs)[p] = seqs[i][k]
<1> DEFINE n == Len(seqs)
           Good(s, m) ==
              /\ s \in Seq(Spans)
              /\ \A p \in DOMAIN s : \E i \in 1 .. m : \E k \in DOMAIN seqs[i] : s[p] = seqs[i][k]
              /\ \A p, q \in DOMAIN s : p # q => ~Overlaps(s[p], s[q])
<1>1. n \in Nat /\ DOMAIN seqs = 1 .. n /\ \A i \in 1 .. n : seqs[i] \in Seq(Spans)
  OBVIOUS
<1>2. CASE n = 0
  <2>1. FlattenSeq(seqs) = seqs /\ seqs = <<>>
    BY <1>2 DEF FlattenSeq
  <2> QED BY <2>1
<1>3. CASE n # 0
  <2>1. PICK f : IsFlat(f, seqs, n)
    BY <1>1, FlatExists
  <2> DEFINE g == CHOOSE h : h = [i \in 1 .. n |-> IF i = 1 THEN seqs[i] ELSE h[i - 1] \o seqs[i]]
  <2>2. IsFlat(g, seqs, n)
    BY <2>1 DEF IsFlat
  <2>3. FlattenSeq(seqs) = g[n]
    BY <1>3 DEF FlattenSeq
  <2> HIDE DEF g
  <2> DEFINE T == {m \in Nat : m \in 1 .. n => Good(g[m], m)}
  <2>4. ASSUME NEW m \in Nat, m \in T, m + 1 \in 1 .. n, m # 0 PROVE Good(g[m + 1], m + 1)
    <3>1. g[m + 1] = g[m] \o seqs[m + 1]
      <4>1. g[m + 1] = IF m + 1 = 1 THEN seqs[m + 1] ELSE g[m + 1 - 1] \o seqs[m + 1]
        BY <2>2, <2>4, FlatStep
      <4>2. m + 1 # 1 /\ m + 1 - 1 = m
        BY <2>4
      <4> QED BY <4>1, <4>2
    <3>2. Good(g[m], m)
      BY <1>1, <2>4
    <3> DEFINE s == g[m]
               t == seqs[m + 1]
               u == g[m + 1]
    <3>3. t \in Seq(Spans)
      BY <1>1, <2>4
    <3>4. \A i \in 1 .. m : i \in DOMAIN seqs /\ i # m + 1 /\ i \in 1 .. m + 1
      BY <1>1, <2>4
    <3>5. m + 1 \in DOMAIN seqs
      BY <1>1, <2>4
    <3> HIDE DEF s, t, u, g, Good
    <3>6. /\ u = s \o t
          /\ s \in Seq(Spans)
          /\ \A p \in DOMAIN s : \E i \in 1 .. m : \E k \in DOMAIN seqs[i] : s[p] = seqs[i][k]
          /\ \A p, q \in DOMAIN s : p # q => ~Overlaps(s[p], s[q])
      BY <3>1, <3>2 DEF s, t, u, Good
    <3>7. /\ u \in Seq(Spans)
          /\ \A p \in DOMAIN u :
                 \/ p \in DOMAIN s /\ u[p] = s[p]
                 \/ p - Len(s) \in DOMAIN t /\ u[p] = t[p - Len(s)]
      BY <3>3, <3>6, Appended
    <3>8. /\ \A k \in DOMAIN t, p \in DOMAIN s : ~Overlaps(s[p], t[k]) /\ ~Overlaps(t[k], s[p])
          /\ \A k, l \in DOMAIN t : k # l => ~Overlaps(t[k], t[l])
      BY <3>4, <3>5, <3>6 DEF t
    <3>9. \A p, q \in DOMAIN u : p # q => ~Overlaps(u[p], u[q])
      <4> SUFFICES ASSUME NEW p \in DOMAIN u, NEW q \in DOMAIN u, p # q
                   PROVE  ~Overlaps(u[p], u[q])
        OBVIOUS
      <4>1. p \in Int /\ q \in Int /\ Len(s) \in Int
        BY <3>6, <3>7
      <4>2. p - Len(s) # q - Len(s)
        BY <4>1
      <4> QED BY <3>6, <3>7, <3>8, <4>2
    <3>10. \A p \in DOMAIN u : \E i \in 1 .. m + 1 : \E k \in DOMAIN seqs[i] : u[p] = seqs[i][k]
      <4> SUFFICES ASSUME NEW p \in DOMAIN u
                   PROVE  \E i \in 1 .. m + 1 : \E k \in DOMAIN seqs[i] : u[p] = seqs[i][k]
        OBVIOUS
      <4>1. CASE p \in DOMAIN s /\ u[p] = s[p]
        BY <3>4, <3>6, <4>1
      <4>2. CASE p - Len(s) \in DOMAIN t /\ u[p] = t[p - Len(s)]
        <5>1. m + 1 \in 1 .. m + 1
          OBVIOUS
        <5> QED BY <4>2, <5>1 DEF t
      <4> QED BY <3>7, <4>1, <4>2
    <3> QED BY <3>7, <3>9, <3>10 DEF u, Good
  <2>5. ASSUME 1 \in 1 .. n PROVE Good(g[1], 1)
    <3>1. g[1] = seqs[1]
      BY <2>2, <2>5, FlatStep
    <3>2. 1 \in DOMAIN seqs /\ 1 \in 1 .. 1
      BY <1>1, <2>5
    <3>3. seqs[1] \in Seq(Spans)
      BY <3>2
    <3> QED BY <3>1, <3>2, <3>3
  <2>6. 0 \in T
    OBVIOUS
  <2>7. ASSUME NEW m \in Nat, m \in T PROVE m + 1 \in T
    <3> HIDE DEF Good
    <3>1. CASE m = 0
      BY <2>5, <3>1
    <3>2. CASE m # 0
      BY <2>4, <2>7, <3>2
    <3> QED BY <3>1, <3>2
  <2>8. Nat \subseteq T
    <3> HIDE DEF T
    <3> QED BY <2>6, <2>7, NaturalInduction
  <2>9. Good(g[n], n)
    <3> HIDE DEF Good
    <3>1. n \in 1 .. n
      BY <1>1, <1>3
    <3> QED BY <1>1, <2>8, <3>1
  <2> QED BY <2>3, <2>9
<1> QED BY <1>2, <1>3
-----------------------------------------------------------------------------
\* The elements of a sequence.
LEMMA ElementsOf ==
    ASSUME NEW S, NEW s \in Seq(S)
    PROVE  DOMAIN s = 1 .. Len(s) /\ Len(s) \in Nat /\ \A i \in DOMAIN s : s[i] \in S
OBVIOUS

\* The slots of windows that do not overlap do not overlap.
LEMMA SplitExclude ==
    ASSUME input.windows \in Calendars
    PROVE  /\ SplitSlots \in Seq(Spans)
           /\ \A p, q \in DOMAIN SplitSlots : p # q => ~Overlaps(SplitSlots[p], SplitSlots[q])
           /\ \A p \in DOMAIN SplitSlots : SplitSlots[p].end <= Never
<1> DEFINE w == input.windows
           cut == [i \in DOMAIN w |-> SplitWindow(w[i])]
<1>1. /\ w \in Seq([start : Int, end : Int])
      /\ \A i, k \in DOMAIN w : i # k => ~Overlaps(w[i], w[k])
      /\ \A i \in DOMAIN w : w[i].end <= Never
  BY DEF Calendars
<1>2. \A i \in DOMAIN w : w[i] \in [start : Int, end : Int]
  BY <1>1, ElementsOf
<1>3. \A i \in DOMAIN w :
          /\ cut[i] \in Seq(Spans)
          /\ \A k \in DOMAIN cut[i] : w[i].start <= cut[i][k].start /\ cut[i][k].end <= w[i].end
          /\ \A k, l \in DOMAIN cut[i] : k < l => cut[i][k].end <= cut[i][l].start
  BY <1>2, WindowIsCut
<1>4. DOMAIN cut = DOMAIN w /\ SplitSlots = FlattenSeq(cut)
  BY DEF SplitSlots
<1> HIDE DEF cut, w
<1>5. cut \in Seq(Seq(Spans))
  <2>1. DOMAIN cut = 1 .. Len(w) /\ Len(w) \in Nat
    BY <1>1, <1>4
  <2>2. cut \in [1 .. Len(w) -> Seq(Spans)]
    <3>1. cut = [i \in DOMAIN w |-> cut[i]]
      BY DEF cut
    <3> QED BY <1>3, <1>4, <2>1, <3>1
  <2> QED BY <2>1, <2>2
<1>6. ASSUME NEW i \in DOMAIN cut, NEW j \in DOMAIN cut,
             NEW k \in DOMAIN cut[i], NEW l \in DOMAIN cut[j], i # j \/ k # l
      PROVE  ~Overlaps(cut[i][k], cut[j][l])
  <2>1. cut[i][k] \in Spans /\ cut[j][l] \in Spans
    BY <1>3, <1>4
  <2>2. CASE i = j
    <3>1. k \in Int /\ l \in Int /\ k # l
      BY <1>3, <1>4, <1>6, <2>2
    <3>2. CASE k < l
      <4>1. cut[i][k].end <= cut[j][l].start
        BY <1>3, <1>4, <2>2, <3>2
      <4> QED BY <2>1, <4>1 DEF Overlaps, Spans
    <3>3. CASE l < k
      <4>1. cut[j][l].end <= cut[i][k].start
        BY <1>3, <1>4, <2>2, <3>3
      <4> QED BY <2>1, <4>1 DEF Overlaps, Spans
    <3> QED BY <3>1, <3>2, <3>3
  <2>3. CASE i # j
    <3>1. ~Overlaps(w[i], w[j])
      BY <1>1, <1>4, <2>3
    <3>2. /\ w[i].start <= cut[i][k].start /\ cut[i][k].end <= w[i].end
          /\ w[j].start <= cut[j][l].start /\ cut[j][l].end <= w[j].end
      BY <1>3, <1>4
    <3>3. w[i].start \in Int /\ w[i].end \in Int /\ w[j].start \in Int /\ w[j].end \in Int
      BY <1>2, <1>4
    <3> QED BY <2>1, <3>1, <3>2, <3>3 DEF Overlaps, Spans
  <2> QED BY <2>2, <2>3
<1>7. ASSUME NEW i \in DOMAIN cut, NEW k \in DOMAIN cut[i] PROVE cut[i][k].end <= Never
  <2>1. cut[i][k] \in Spans /\ cut[i][k].end <= w[i].end /\ w[i].end <= Never
    BY <1>1, <1>3, <1>4
  <2>2. w[i].end \in Int /\ Never \in Int
    BY <1>2, <1>4, InputAssumption DEF InputAssumption
  <2> QED BY <2>1, <2>2 DEF Spans
<1>8. /\ FlattenSeq(cut) \in Seq(Spans)
      /\ \A p, q \in DOMAIN FlattenSeq(cut) : p # q => ~Overlaps(FlattenSeq(cut)[p], FlattenSeq(cut)[q])
      /\ \A p \in DOMAIN FlattenSeq(cut) :
            \E i \in DOMAIN cut : \E k \in DOMAIN cut[i] : FlattenSeq(cut)[p] = cut[i][k]
  BY <1>5, <1>6, FlatExclude
<1> QED BY <1>4, <1>7, <1>8

-----------------------------------------------------------------------------
\* What is decided of the slots is decided in the order of the windows.
SlotsFollow ==
    /\ slots \in Seq(Slots)
    /\ Len(slots) <= Len(SplitSlots)
    /\ \A i \in DOMAIN slots :
          slots[i].start = SplitSlots[i].start /\ slots[i].end = SplitSlots[i].end

\* The decided slots are intervals that exclude one another.
LEMMA SlotsExclude ==
    ASSUME input.windows \in Calendars, SlotsFollow
    PROVE  /\ \A i \in DOMAIN slots : slots[i] \in Slots /\ slots[i].start < slots[i].end
           /\ \A i, k \in DOMAIN slots : i # k => slots[i] # slots[k]
           /\ \A s, t \in ToSet(slots) : s # t => s.end <= t.start \/ t.end <= s.start
           /\ \A s \in ToSet(slots) : s.end <= Never
<1>1. /\ SplitSlots \in Seq(Spans)
      /\ \A p, q \in DOMAIN SplitSlots : p # q => ~Overlaps(SplitSlots[p], SplitSlots[q])
  BY SplitExclude
<1>2. DOMAIN slots \subseteq DOMAIN SplitSlots
  BY <1>1 DEF SlotsFollow
<1>3. \A i \in DOMAIN slots : slots[i] \in Slots /\ SplitSlots[i] \in Spans
  BY <1>1, <1>2 DEF SlotsFollow
<1>4. \A i \in DOMAIN slots : slots[i].start < slots[i].end
  BY <1>3 DEF SlotsFollow, Spans
<1>5. ASSUME NEW i \in DOMAIN slots, NEW k \in DOMAIN slots, i # k
      PROVE  slots[i].end <= slots[k].start \/ slots[k].end <= slots[i].start
  <2>1. ~Overlaps(SplitSlots[i], SplitSlots[k])
    BY <1>1, <1>2, <1>5
  <2>2. ~Overlaps(slots[i], slots[k])
    BY <2>1 DEF SlotsFollow, Overlaps
  <2> QED BY <1>3, <2>2 DEF Overlaps, Slots
<1>6. ASSUME NEW i \in DOMAIN slots, NEW k \in DOMAIN slots, i # k
      PROVE  slots[i] # slots[k]
  <2>1. slots[i].start \in Int /\ slots[i].end \in Int
    BY <1>3 DEF Slots
  <2> QED BY <1>4, <1>5, <1>6, <2>1
<1>7. ASSUME NEW s \in ToSet(slots), NEW t \in ToSet(slots), s # t
      PROVE  s.end <= t.start \/ t.end <= s.start
  <2>1. PICK i \in DOMAIN slots : s = slots[i]
    BY DEF ToSet
  <2>2. PICK k \in DOMAIN slots : t = slots[k]
    BY DEF ToSet
  <2> QED BY <1>5, <1>7, <2>1, <2>2
<1>8. \A s \in ToSet(slots) : s.end <= Never
  BY <1>2, SplitExclude DEF SlotsFollow, ToSet
<1> QED BY <1>3, <1>4, <1>6, <1>7, <1>8

\* Sorted by their beginnings, they are the slots of a problem.
LEMMA UniqueSlotsIncrease ==
    ASSUME input.windows \in Calendars, SlotsFollow
    PROVE  /\ UniqueSlots \in Seq(Slots)
           /\ Increasing(UniqueSlots)
           /\ Len(UniqueSlots) = Len(slots)
           /\ ToSet(UniqueSlots) = ToSet(slots)
<1> DEFINE A == ToSet(slots)
           B == [s \in A |-> {t \in A : t.start < s.start}]
           n == Len(slots)
           At(i) == CHOOSE s \in A : Cardinality({t \in A : t.start < s.start}) = i - 1
<1>1. n \in Nat /\ DOMAIN slots = 1 .. n /\ slots \in Seq(Slots)
  BY DEF SlotsFollow
<1>2. /\ \A s \in A : s \in Slots /\ s.start \in Int /\ s.end \in Int /\ s.start < s.end
      /\ \A s, t \in A : s # t => s.end <= t.start \/ t.end <= s.start
  BY SlotsExclude DEF ToSet, Slots
<1>3. IsFiniteSet(A) /\ Cardinality(A) = n
  <2> DEFINE f == [i \in 1 .. n |-> slots[i]]
  <2>1. f \in [1 .. n -> A]
    BY <1>1 DEF ToSet
  <2>2. \A a \in A : \E i \in 1 .. n : f[i] = a
    BY <1>1 DEF ToSet
  <2>3. \A i, k \in 1 .. n : f[i] = f[k] => i = k
    BY <1>1, SlotsExclude
  <2>4. f \in Surjection(1 .. n, A) /\ f \in Injection(1 .. n, A)
    <3> HIDE DEF A, f, n
    <3>1. f \in Surjection(1 .. n, A)
      BY <2>1, <2>2 DEF Surjection
    <3>2. f \in Injection(1 .. n, A)
      BY <2>1, <2>3 DEF Injection, IsInjective
    <3> QED BY <3>1, <3>2
  <2>5. IsFiniteSet(1 .. n) /\ Cardinality(1 .. n) = n
    <3> HIDE DEF n
    <3>1. IsFiniteSet(1 .. n) /\ Cardinality(1 .. n) = IF 1 > n THEN 0 ELSE n - 1 + 1
      BY <1>1, FS_Interval
    <3> QED BY <1>1, <3>1
  <2> HIDE DEF A, f, n
  <2> QED BY <2>4, <2>5, FS_Surjection
<1>4. B \in [A -> SUBSET A]
  OBVIOUS
<1>5. \A a \in A : a \notin B[a]
  BY <1>2
<1>6. \A a, b \in A : a # b => \/ a \in B[b] /\ B[a] \subseteq B[b]
                               \/ b \in B[a] /\ B[b] \subseteq B[a]
  BY <1>2
<1>7. \A s \in A : B[s] = {t \in A : t.start < s.start}
  OBVIOUS
<1>8. UniqueSlots = [i \in 1 .. n |-> At(i)]
  BY <1>1 DEF UniqueSlots
<1> DEFINE u == UniqueSlots
<1> HIDE DEF A, B, n, u, At
<1>9. /\ \A a \in A : Cardinality(B[a]) \in 0 .. n - 1
      /\ \A a, b \in A : a \in B[b] => Cardinality(B[a]) < Cardinality(B[b])
      /\ \A i \in 0 .. n - 1 : \E a \in A : Cardinality(B[a]) = i
  BY <1>3, <1>4, <1>5, <1>6, RanksAreExact
<1>10. ASSUME NEW i \in 1 .. n
       PROVE  u[i] \in A /\ Cardinality(B[u[i]]) = i - 1
  <2>1. i - 1 \in 0 .. n - 1
    BY <1>1
  <2>2. \E s \in A : Cardinality({t \in A : t.start < s.start}) = i - 1
    BY <1>7, <1>9, <2>1
  <2>3. u[i] = CHOOSE s \in A : Cardinality({t \in A : t.start < s.start}) = i - 1
    BY <1>8 DEF u, At
  <2>4. u[i] \in A /\ Cardinality({t \in A : t.start < u[i].start}) = i - 1
    BY <2>2, <2>3
  <2> QED BY <1>7, <2>4
<1>11. u \in Seq(Slots) /\ DOMAIN u = 1 .. n /\ Len(u) = n
  <2>1. DOMAIN u = 1 .. n
    BY <1>8 DEF u
  <2>2. u = [i \in 1 .. n |-> u[i]]
    BY <1>8 DEF u
  <2>3. \A i \in 1 .. n : u[i] \in Slots
    BY <1>2, <1>10
  <2>4. u \in [1 .. n -> Slots]
    BY <2>2, <2>3
  <2> QED BY <1>1, <2>1, <2>4
<1>12. ASSUME NEW i \in 1 .. n, NEW k \in 1 .. n, i < k PROVE u[i].end <= u[k].start
  <2>1. i \in Int /\ k \in Int
    BY <1>1
  <2>2. u[i] # u[k]
    BY <1>10, <1>12, <2>1
  <2>3. ~(u[k].end <= u[i].start)
    <3> SUFFICES ASSUME u[k].end <= u[i].start PROVE FALSE
      OBVIOUS
    <3>1. u[k].start < u[i].start
      BY <1>2, <1>10
    <3>2. u[k] \in B[u[i]]
      BY <1>7, <1>10, <3>1
    <3>3. Cardinality(B[u[k]]) < Cardinality(B[u[i]])
      BY <1>9, <1>10, <3>2
    <3> QED BY <1>10, <1>12, <2>1, <3>3
  <2> QED BY <1>2, <1>10, <2>2, <2>3
<1>13. Increasing(u)
  BY <1>2, <1>10, <1>11, <1>12 DEF Increasing
<1>14. ASSUME NEW s \in A PROVE \E i \in 1 .. n : u[i] = s
  <2> DEFINE c == Cardinality(B[s])
  <2>1. c \in 0 .. n - 1
    BY <1>9
  <2> HIDE DEF c
  <2>2. PICK i \in 1 .. n : i - 1 = c
    BY <1>1, <2>1
  <2>3. Cardinality(B[u[i]]) = Cardinality(B[s]) /\ u[i] \in A
    BY <1>10, <2>2 DEF c
  <2>4. ~(u[i] \in B[s]) /\ ~(s \in B[u[i]])
    BY <1>9, <2>1, <2>3 DEF c
  <2> QED BY <1>6, <2>3, <2>4
<1>15. ToSet(u) = A
  BY <1>10, <1>11, <1>14 DEF ToSet
<1> QED BY <1>11, <1>13, <1>15 DEF u, A, n
-----------------------------------------------------------------------------
\* The allocations that may be kept: some of those of the earlier plan.
PreallocatedIsPrior == input.preallocated \subseteq ToSet(input.priorPlan)

\* The jobs of a pass are finitely many.
LEMMA JobsAreFinite ==
    /\ JobsToPlan \subseteq Jobs
    /\ IsFiniteSet(JobsToPlan)
    /\ BufferTasks \subseteq Jobs
    /\ Tasks \subseteq Jobs
    /\ Jobs \subseteq Nat
<1>1. Tasks \subseteq Nat /\ IsFiniteSet(Tasks) /\ IsFiniteSet(Milestones)
  BY InputAssumption DEF InputAssumption
<1>2. /\ Review \in [Milestones -> Nat] /\ Submission \in [Milestones -> Nat]
      /\ Jobs = Tasks \cup BufferTasks
  BY PlannerAssumption DEF PlannerAssumption
<1>3. BufferTasks \subseteq Nat
  BY <1>2 DEF BufferTasks
<1>4. BufferTasks = {Review[m] : m \in Milestones} \cup {Submission[m] : m \in Milestones}
  BY DEF BufferTasks
<1>5. IsFiniteSet({Review[m] : m \in Milestones}) /\ IsFiniteSet({Submission[m] : m \in Milestones})
  BY <1>1, <1>2, ImageIsFinite
<1>6. IsFiniteSet(BufferTasks)
  BY <1>4, <1>5, FS_Union
<1>7. JobsToPlan \subseteq Tasks \cup BufferTasks
  BY DEF JobsToPlan, Active, BuffersOf, BufferTasks
<1>8. IsFiniteSet(Tasks \cup BufferTasks)
  BY <1>1, <1>6, FS_Union
<1>9. IsFiniteSet(JobsToPlan)
  BY <1>7, <1>8, FS_Subset
<1> QED BY <1>1, <1>2, <1>3, <1>7, <1>9

\* What a job needs is a number of minutes.
LEMMA NeedIsTyped ==
    ASSUME WellFormed(input), NEW pass, NEW j \in Jobs
    PROVE  Need(pass, j) \in Int
<1>1. Jobs = Tasks \cup BufferTasks
  BY PlannerAssumption DEF PlannerAssumption
<1>2. /\ input.buffer \in [Milestones -> Int]
      /\ input.remainingBase \in [Tasks -> Int] /\ input.remainingSafety \in [Tasks -> Int]
  BY DEF WellFormed
<1>3. CASE j \in BufferTasks
  <2>1. \E m \in Milestones : j \in {Review[m], Submission[m]}
    BY <1>3 DEF BufferTasks
  <2>2. MilestoneOf(j) \in Milestones
    BY <2>1 DEF MilestoneOf
  <2>3. input.buffer[MilestoneOf(j)] \in Int
    BY <1>2, <2>2
  <2>4. ReviewMinutes(MilestoneOf(j)) \in Int
    BY <2>3 DEF ReviewMinutes
  <2>5. BufferMinutes(j, MilestoneOf(j)) \in Int
    BY <2>3, <2>4 DEF BufferMinutes
  <2> QED BY <1>3, <2>5 DEF Need
<1>4. CASE j \notin BufferTasks
  BY <1>1, <1>2, <1>4 DEF Need
<1> QED BY <1>3, <1>4

\* Some of what excludes one another excludes one another.
LEMMA SomeAreApart ==
    ASSUME NEW A, NEW B \in SUBSET A, KeptApart(A)
    PROVE  KeptApart(B)
<1>1. IsFiniteSet(B)
  BY FS_Subset DEF KeptApart
<1> QED BY <1>1 DEF KeptApart

\* Every pass is given a problem whose slots are in order and do not overlap.
LEMMA PassesAreWellFormed ==
    ASSUME WellFormed(input), PreallocatedIsPrior, SlotsFollow, NEW pass
    PROVE  Problem(pass) \in Problems
<1> DEFINE p == Problem(pass)
<1>1. input.windows \in Calendars /\ input.priorPlan \in PriorPlans
  BY DEF WellFormed
<1>2. UniqueSlots \in Seq(Slots) /\ Increasing(UniqueSlots)
  BY <1>1, UniqueSlotsIncrease
<1>3. input.preallocated \in SUBSET KeptBlocks /\ KeptApart(input.preallocated)
  <2>1. ToSet(input.priorPlan) \subseteq KeptBlocks /\ KeptApart(ToSet(input.priorPlan))
    <3>1. input.priorPlan \in Seq(KeptBlocks) /\ KeptApart(ToSet(input.priorPlan))
      BY <1>1 DEF PriorPlans
    <3>2. \A i \in DOMAIN input.priorPlan : input.priorPlan[i] \in KeptBlocks
      BY <3>1, ElementsOf
    <3> QED BY <3>1, <3>2 DEF ToSet
  <2> QED BY <2>1, SomeAreApart DEF PreallocatedIsPrior
<1>4. JobsToPlan \in SUBSET Jobs
  BY JobsAreFinite
<1>5. [j \in Jobs |-> Need(pass, j)] \in [Jobs -> Int]
  BY NeedIsTyped
<1>6. /\ input.splittable \in [Tasks -> BOOLEAN]
      /\ input.minChunk \in [Tasks -> Int] /\ input.startAfter \in [Tasks -> Int]
  BY DEF WellFormed
<1>7. [j \in Jobs |-> j \in Tasks /\ input.splittable[j]] \in [Jobs -> BOOLEAN]
  BY <1>6
<1>8. [j \in Jobs |-> IF j \in Tasks THEN input.minChunk[j] ELSE Need(pass, j)] \in [Jobs -> Int]
  BY <1>6, NeedIsTyped
<1>9. [j \in Jobs |-> IF j \in Tasks THEN input.startAfter[j] ELSE 0] \in [Jobs -> Int]
  BY <1>6
<1>10. [j \in Jobs |-> Gates(j)] \in [Jobs -> SUBSET Jobs]
  BY JobsAreFinite DEF Gates
<1>11. [j \in Jobs |-> IF j \in JobsToPlan
                       THEN Cardinality({k \in JobsToPlan : Precedes(k, j)}) ELSE 0] \in [Jobs -> Int]
  <2>1. \A j \in Jobs : Cardinality({k \in JobsToPlan : Precedes(k, j)}) \in Nat
    <3> TAKE j \in Jobs
    <3> DEFINE K == {k \in JobsToPlan : Precedes(k, j)}
    <3>1. K \in SUBSET JobsToPlan
      OBVIOUS
    <3> HIDE DEF K
    <3>2. IsFiniteSet(K)
      BY <3>1, JobsAreFinite, FS_Subset
    <3> QED BY <3>2, FS_CardinalityType DEF K
  <2> QED BY <2>1
<1>12. p \in [slots : Seq(Slots), jobs : SUBSET Jobs, need : [Jobs -> Int],
              splittable : [Jobs -> BOOLEAN], minChunk : [Jobs -> Int],
              startAfter : [Jobs -> Int], gates : [Jobs -> SUBSET Jobs],
              rank : [Jobs -> Int], kept : SUBSET KeptBlocks]
  BY <1>2, <1>3, <1>4, <1>5, <1>7, <1>8, <1>9, <1>10, <1>11 DEF Problem
<1>13. p.slots = UniqueSlots /\ p.kept = input.preallocated
  BY DEF Problem
<1> HIDE DEF p
<1> QED BY <1>2, <1>3, <1>12, <1>13 DEF Problems, p
-----------------------------------------------------------------------------
\* The allocations of a pass are intervals for jobs that exclude one another.
IsSound(A) ==
    /\ IsFiniteSet(A)
    /\ \A a \in A : a.job \in Jobs /\ a.start \in Int /\ a.end \in Int /\ a.start < a.end
    /\ \A a, b \in A : a # b => ~Overlaps(a, b)

\* What a pass has allocated is finite, begins before it ends, and excludes one another.
LEMMA AllocationsAreSound ==
    ASSUME SInv, IsFiniteSet(allocations)
    PROVE  IsSound(allocations)
<1>1. problem \in Problems /\ LedgerIsRight /\ NoDoubleBooking
  BY DEF SInv
<1>2. ASSUME NEW a \in allocations
      PROVE  a.job \in Jobs /\ a.start \in Int /\ a.end \in Int /\ a.start < a.end
  <2>1. CASE Kept(a)
    <3>1. a \in KeptAllocations(problem)
      BY <1>1, <2>1 DEF LedgerIsRight
    <3>2. PICK k \in problem.kept :
              a = [job |-> k.job, start |-> k.start, end |-> k.end, slots |-> {}]
      BY <3>1 DEF KeptAllocations
    <3>3. k \in KeptBlocks
      BY <1>1 DEF Problems
    <3>4. a.job \in Jobs
      BY <3>2, <3>3 DEF KeptBlocks
    <3> QED BY <1>1, <3>1, <3>4, KeptExclude
  <2>2. CASE ~Kept(a)
    <3>1. a.job \in Jobs /\ a.slots \subseteq DOMAIN problem.slots
      BY <1>1, <2>2 DEF LedgerIsRight, FreeSlots
    <3>2. PICK f, l \in a.slots : IsStretch(a, f, l)
      BY <1>1, <2>2 DEF LedgerIsRight
    <3>3. f \in DOMAIN problem.slots /\ l \in DOMAIN problem.slots /\ f <= l
          /\ a.start = StartOf(f) /\ a.end = EndOf(l)
      BY <3>1, <3>2 DEF IsStretch
    <3>4. /\ StartOf(f) \in Int /\ EndOf(l) \in Int /\ StartOf(f) < EndOf(f)
          /\ EndOf(f) \in Int /\ StartOf(l) \in Int /\ StartOf(l) < EndOf(l)
          /\ f \in Nat /\ l \in Nat
          /\ f < l => EndOf(f) <= StartOf(l)
      BY <1>1, <3>3, SlotsIncrease
    <3> QED BY <3>1, <3>3, <3>4
  <2> QED BY <2>1, <2>2
<1> QED BY <1>1, <1>2 DEF IsSound, NoDoubleBooking

-----------------------------------------------------------------------------
\* What is stored are the blocks of the base plan, no two at the same time.
LEMMA StoredAreBlocks ==
    ASSUME IsSound(plans["base"].allocations)
    PROVE  Stored \in PriorPlans /\ ToSet(Stored) = BaseBlocks
<1> DEFINE P == plans["base"].allocations
           f == [a \in P |-> [job |-> a.job, start |-> a.start, end |-> a.end]]
           A == BaseBlocks
           n == Cardinality(BaseBlocks)
           B == [a \in A |-> {b \in A : Earlier(b, a)}]
           At(i) == CHOOSE a \in A : Cardinality({b \in A : Earlier(b, a)}) = i - 1
<1>1. /\ IsFiniteSet(P)
      /\ \A a \in P : a.job \in Jobs /\ a.start \in Int /\ a.end \in Int /\ a.start < a.end
      /\ \A a, b \in P : a # b => ~Overlaps(a, b)
  BY DEF IsSound
<1>2. A = {f[a] : a \in P}
  BY DEF BaseBlocks
<1>3. IsFiniteSet(A)
  <2>1. P \subseteq DOMAIN f
    OBVIOUS
  <2> HIDE DEF A, P, f
  <2> QED BY <1>1, <1>2, <2>1, ImageIsFinite
<1>4. ASSUME NEW a \in A
      PROVE  /\ a \in KeptBlocks /\ a.start < a.end
             /\ a.start \in Int /\ a.end \in Int /\ a.job \in Int
  <2>1. PICK b \in P : a = [job |-> b.job, start |-> b.start, end |-> b.end]
    BY DEF BaseBlocks
  <2>2. b.job \in Jobs /\ b.start \in Int /\ b.end \in Int /\ b.start < b.end
    BY <1>1
  <2>3. b.job \in Int
    <3>1. \A j \in Jobs : j \in Int
      BY JobsAreFinite
    <3> QED BY <2>2, <3>1, Zenon
  <2> QED BY ONLY <2>1, <2>2, <2>3 DEF KeptBlocks
<1>5. ASSUME NEW a \in A, NEW b \in A, a # b PROVE ~Overlaps(a, b)
  <2>1. PICK c \in P : a = [job |-> c.job, start |-> c.start, end |-> c.end]
    BY DEF BaseBlocks
  <2>2. PICK d \in P : b = [job |-> d.job, start |-> d.start, end |-> d.end]
    BY DEF BaseBlocks
  <2>3. c # d
    BY <1>5, <2>1, <2>2
  <2>4. ~Overlaps(c, d)
    BY <1>1, <2>3
  <2>5. a.start = c.start /\ a.end = c.end /\ b.start = d.start /\ b.end = d.end
    BY ONLY <2>1, <2>2
  <2> QED BY <2>4, <2>5 DEF Overlaps
<1>6. KeptApart(A)
  BY <1>3, <1>4, <1>5 DEF KeptApart
<1>7. ASSUME NEW a \in A, NEW b \in A, a # b
      PROVE  a.start < b.start \/ b.start < a.start
  BY <1>4, <1>5, <1>7 DEF Overlaps
<1>8. B \in [A -> SUBSET A]
  OBVIOUS
<1>9. \A a \in A : a \notin B[a]
  BY <1>4 DEF Earlier
<1>10. \A a, b \in A : a # b => \/ a \in B[b] /\ B[a] \subseteq B[b]
                                \/ b \in B[a] /\ B[b] \subseteq B[a]
  BY <1>4, <1>7 DEF Earlier
<1>11. \A a \in A : B[a] = {b \in A : Earlier(b, a)}
  OBVIOUS
<1>12. Stored = [i \in 1 .. n |-> At(i)]
  BY DEF Stored
<1> DEFINE s == Stored
<1> HIDE DEF A, B, P, f, n, At, s
<1>13. /\ n \in Nat
       /\ \A a \in A : Cardinality(B[a]) \in 0 .. n - 1
       /\ \A a, b \in A : a \in B[b] => Cardinality(B[a]) < Cardinality(B[b])
       /\ \A i \in 0 .. n - 1 : \E a \in A : Cardinality(B[a]) = i
  BY <1>3, <1>8, <1>9, <1>10, RanksAreExact DEF n, A
<1>14. \A a, b \in A : Cardinality(B[a]) = Cardinality(B[b]) => a = b
  <2> SUFFICES ASSUME NEW a \in A, NEW b \in A, a # b
               PROVE  Cardinality(B[a]) # Cardinality(B[b])
    OBVIOUS
  <2>1. Cardinality(B[a]) < Cardinality(B[b]) \/ Cardinality(B[b]) < Cardinality(B[a])
    BY <1>10, <1>13
  <2> QED BY <1>13, <2>1
<1>15. ASSUME NEW i \in 1 .. n PROVE s[i] \in A /\ Cardinality(B[s[i]]) = i - 1
  <2>1. i - 1 \in 0 .. n - 1
    BY <1>13
  <2>2. \E a \in A : Cardinality({b \in A : Earlier(b, a)}) = i - 1
    BY <1>11, <1>13, <2>1
  <2>3. s[i] = CHOOSE a \in A : Cardinality({b \in A : Earlier(b, a)}) = i - 1
    BY <1>12 DEF s, At
  <2>4. s[i] \in A /\ Cardinality({b \in A : Earlier(b, s[i])}) = i - 1
    BY <2>2, <2>3
  <2> QED BY <1>11, <2>4
<1>16. s \in Seq(KeptBlocks) /\ DOMAIN s = 1 .. n
  <2>1. DOMAIN s = 1 .. n /\ s = [i \in 1 .. n |-> s[i]]
    BY <1>12 DEF s
  <2>2. \A i \in 1 .. n : s[i] \in KeptBlocks
    BY <1>4, <1>15
  <2>3. s \in [1 .. n -> KeptBlocks]
    BY <2>1, <2>2
  <2> QED BY <1>13, <2>1, <2>3
<1>17. ASSUME NEW a \in A PROVE \E i \in DOMAIN s : s[i] = a
  <2> DEFINE c == Cardinality(B[a])
  <2>1. c \in 0 .. n - 1
    BY <1>13
  <2> HIDE DEF c
  <2>2. n \in Nat
    BY <1>13
  <2>3. PICK i \in 1 .. n : i - 1 = c
    BY <2>1, <2>2
  <2>4. s[i] \in A /\ Cardinality(B[s[i]]) = Cardinality(B[a])
    BY <1>15, <2>3 DEF c
  <2>5. s[i] = a
    BY <1>14, <2>4
  <2> QED BY <1>16, <2>3, <2>5
<1>18. ToSet(s) = A
  BY <1>15, <1>16, <1>17 DEF ToSet
<1> QED BY <1>6, <1>16, <1>18 DEF PriorPlans, s, A
-----------------------------------------------------------------------------
\* The counts a placement keeps are right.
IsCounted(j) ==
    /\ current.remaining = problem.need[j] - MinutesOf(j)
    /\ current.chunks = ChunksOf(j)
    /\ current.cursor \in Int
    /\ current.progress \in BOOLEAN
    /\ ~current.progress => current.cursor = 0

\* A job that is given up finds no room, or waits for one that does not.
NoRoomLeft ==
    \A j \in unallocated :
        \/ problem.gates[j] \subseteq placed /\ ~CouldHaveMore(j)
        \/ ScheduleDone /\ ~(problem.gates[j] \subseteq placed)

\* A job that is placed has all the time it needs.
PlacedHaveEnough == \A j \in placed : problem.need[j] <= MinutesOf(j)

\* What the jobs have been given, and why those left out were left out.
FillInv ==
    /\ PlacedHaveEnough
    /\ unallocated \subseteq problem.jobs \ (pending \cup placed)
    /\ \A a \in allocations : ~Kept(a) => a.job \notin pending
    /\ current # NoJob => current.job \notin unallocated /\ IsCounted(current.job)
    /\ NoRoomLeft

-----------------------------------------------------------------------------
\* The room for a job depends on the slots and the allocations alone.
LEMMA RoomStays ==
    ASSUME UNCHANGED <<problem, free, allocations>>
    PROVE  \A j : /\ MinutesOf(j)' = MinutesOf(j)
                  /\ ChunksOf(j)' = ChunksOf(j)
                  /\ CouldHaveMore(j)' = CouldHaveMore(j)
<1> SUFFICES ASSUME NEW j
             PROVE  /\ MinutesOf(j)' = MinutesOf(j)
                    /\ ChunksOf(j)' = ChunksOf(j)
                    /\ CouldHaveMore(j)' = CouldHaveMore(j)
  OBVIOUS
<1>1. MinutesOf(j)' = MinutesOf(j)
  BY DEF MinutesOf, AllocationsOf
<1>2. ChunksOf(j)' = ChunksOf(j)
  BY DEF ChunksOf, AllocationsOf
<1>3. Runs' = Runs
  BY DEF Runs, IsRun, Joined, StartOf, EndOf
<1>4. \A n, C, r, f : Suits(j, n, C, r, f)' = Suits(j, n, C, r, f)
  BY DEF Suits, Usable, StartsLate, StartOf, EndOf, ChunksOn
<1>5. \A i : DayIsFull(j, i)' = DayIsFull(j, i)
  BY <1>2 DEF DayIsFull, ChunksOn
<1>6. \A i, k : Adjoins(i, k)' = Adjoins(i, k)
  BY DEF Adjoins, StartOf, EndOf
<1>7. CouldHaveMore(j)' = CouldHaveMore(j)
  BY <1>1, <1>2, <1>3, <1>4, <1>5, <1>6 DEF CouldHaveMore
<1> QED BY <1>1, <1>2, <1>7

\* Free slots that follow one another are part of a maximal stretch of them.
LEMMA RunAround ==
    ASSUME problem \in Problems, free \subseteq DOMAIN problem.slots,
           NEW x \in free, NEW y \in free, x <= y, \A i \in x .. y - 1 : Joined(i)
    PROVE  \E h, b \in free : /\ h <= x /\ y <= b
                              /\ <<h, b>> \in Runs
                              /\ Adjoins(h, x)
<1> DEFINE n == Len(problem.slots)
           H == {h \in Nat : h \in free /\ h <= x /\ \A i \in h .. x - 1 : Joined(i)}
           B == {d \in Nat : n - d \in free /\ y <= n - d /\ \A i \in y .. n - d - 1 : Joined(i)}
<1>1. n \in Nat /\ DOMAIN problem.slots = 1 .. n
  BY DEF Problems
<1>2. \A i \in free : i \in Nat /\ i <= n
  BY <1>1
<1>3. PICK h \in H : \A k \in H : h <= k
  <2>1. x \in H
    BY <1>2
  <2> QED BY <2>1, LeastNatural
<1>4. ~Joined(h - 1)
  <2> SUFFICES ASSUME Joined(h - 1) PROVE FALSE
    OBVIOUS
  <2>1. h - 1 \in free /\ h - 1 \in Nat
    BY <1>2 DEF Joined
  <2>2. \A i \in h - 1 .. x - 1 : i = h - 1 \/ i \in h .. x - 1
    BY <1>2
  <2>3. h - 1 \in H
    BY <1>2, <2>1, <2>2
  <2> QED BY <1>3, <2>3
<1>5. PICK d \in B : \A k \in B : d <= k
  <2>1. n - y \in B
    BY <1>1, <1>2
  <2> QED BY <2>1, LeastNatural
<1> DEFINE b == n - d
<1>6. b \in free /\ b \in Nat /\ y <= b /\ \A i \in y .. b - 1 : Joined(i)
  BY <1>2
<1>7. ~Joined(b)
  <2> SUFFICES ASSUME Joined(b) PROVE FALSE
    OBVIOUS
  <2>1. b + 1 \in free
    BY DEF Joined
  <2>2. d - 1 \in Nat /\ n - (d - 1) = b + 1
    BY <1>1, <1>2, <2>1
  <2>3. \A i \in y .. b : i = b \/ i \in y .. b - 1
    <3>1. \A k \in Nat : \A i \in y .. k : i = k \/ i \in y .. k - 1
      OBVIOUS
    <3> HIDE DEF b
    <3> QED BY <1>6, <3>1
  <2>4. d - 1 \in B
    BY <1>1, <1>2, <1>6, <2>1, <2>2, <2>3
  <2>5. d \in Nat /\ d <= d - 1
    BY <1>5, <2>4
  <2> QED BY <2>5
<1> HIDE DEF b, B
<1>8. \A i \in h .. b - 1 : Joined(i)
  <2>1. \A i \in h .. b - 1 : i \in h .. x - 1 \/ i \in x .. y - 1 \/ i \in y .. b - 1
    BY <1>2, <1>6
  <2> QED BY <1>6, <2>1
<1>9. h \in free /\ h <= x /\ h <= b
  BY <1>2, <1>6
<1>10. <<h, b>> \in Runs
  BY <1>4, <1>6, <1>7, <1>8, <1>9 DEF Runs, IsRun
<1>11. Adjoins(h, x)
  BY <1>9 DEF Adjoins, Joined
<1> QED BY <1>6, <1>9, <1>10, <1>11

\* The counting of chunks is sound: there are finitely many.
LEMMA ChunksAreFinite ==
    ASSUME IsFiniteSet(allocations), NEW j, NEW i
    PROVE  Cardinality(ChunksOn(ChunksOf(j), i)) \in Nat
<1> DEFINE A == {a \in AllocationsOf(j) : ~Kept(a)}
           f == [a \in A |-> Min(a.slots)]
<1>1. IsFiniteSet(A)
  BY FS_Subset DEF AllocationsOf
<1>2. ChunksOf(j) = {f[a] : a \in A}
  BY DEF ChunksOf
<1>3. IsFiniteSet({f[a] : a \in A})
  <2>1. A \subseteq DOMAIN f
    OBVIOUS
  <2> HIDE DEF A, f
  <2> QED BY <1>1, <2>1, ImageIsFinite
<1> HIDE DEF A, f
<1>4. IsFiniteSet(ChunksOf(j))
  BY <1>2, <1>3
<1>5. ChunksOn(ChunksOf(j), i) \subseteq ChunksOf(j)
  BY DEF ChunksOn
<1>6. IsFiniteSet(ChunksOn(ChunksOf(j), i))
  BY <1>4, <1>5, FS_Subset
<1> QED BY <1>6, FS_CardinalityType

\* What is allocated to a job are intervals, so that they have a sum.
LEMMA MinutesAreTyped ==
    ASSUME SInv, IsFiniteSet(allocations), NEW j
    PROVE  /\ IsFiniteSet(AllocationsOf(j))
           /\ \A a \in AllocationsOf(j) : a.start \in Int /\ a.end \in Int
           /\ MinutesOf(j) \in Int
<1> DEFINE A == AllocationsOf(j)
<1>1. IsFiniteSet(A)
  BY FS_Subset DEF AllocationsOf
<1>2. \A a \in A : a.start \in Int /\ a.end \in Int
  BY AllocationsAreSound DEF IsSound, AllocationsOf
<1> HIDE DEF A
<1>3. Minutes(A) \in Int
  BY <1>1, <1>2, SumsAreTyped
<1> QED BY <1>1, <1>2, <1>3 DEF A, MinutesOf

\* A job may start after the same slots as before when another one, which it
\* does not wait for, is given a chunk.
LEMMA StartsAsBefore ==
    ASSUME NEW new, allocations' = allocations \cup {new}, problem' = problem,
           NEW j, new.job # j, new.job \notin problem.gates[j], NEW i
    PROVE  StartsLate(j, i)' = StartsLate(j, i)
BY DEF StartsLate, EndOf

\* Of two slots the later one neither starts nor ends earlier.
LEMMA SlotsEndLater ==
    ASSUME problem \in Problems,
           NEW i \in DOMAIN problem.slots, NEW k \in DOMAIN problem.slots, i <= k
    PROVE  /\ StartOf(i) <= StartOf(k) /\ StartOf(i) \in Int /\ StartOf(k) \in Int
           /\ EndOf(i) <= EndOf(k) /\ EndOf(i) \in Int /\ EndOf(k) \in Int
<1>1. i \in Nat /\ k \in Nat
  BY SlotsIncrease
<1>2. /\ StartOf(i) \in Int /\ EndOf(i) \in Int /\ StartOf(i) < EndOf(i)
      /\ StartOf(k) \in Int /\ EndOf(k) \in Int /\ StartOf(k) < EndOf(k)
  BY SlotsIncrease
<1>3. CASE i < k
  <2>1. EndOf(i) <= StartOf(k)
    BY <1>3, SlotsIncrease
  <2> QED BY <1>2, <2>1
<1>4. CASE i = k
  BY <1>2, <1>4
<1> QED BY <1>1, <1>3, <1>4

\* What another job takes makes no new room: a stretch that suits a job was
\* part of one that suited it before.
LEMMA RoomShrinks ==
    ASSUME SInv, IsFiniteSet(allocations), PlaceChunk,
           NEW j \in Jobs, j # current.job, current.job \notin problem.gates[j],
           CouldHaveMore(j)'
    PROVE  CouldHaveMore(j)
<1>1. problem \in Problems /\ problem' = problem /\ free \subseteq DOMAIN problem.slots
  BY DEF PlaceChunk, SInv, LedgerIsRight, FreeSlots
<1>2. PICK new : allocations' = allocations \cup {new} /\ new.job = current.job
  <2>1. PICK f, l \in DOMAIN problem.slots :
            allocations' = allocations \cup
              {[job |-> current.job, start |-> StartOf(f), end |-> EndOf(l), slots |-> f .. l]}
    BY ChunkIsStretch
  <2> DEFINE a == [job |-> current.job, start |-> StartOf(f), end |-> EndOf(l), slots |-> f .. l]
  <2>2. a.job = current.job /\ allocations' = allocations \cup {a}
    BY <2>1
  <2> HIDE DEF a
  <2> QED BY <2>2
<1>3. free' \subseteq free
  BY ChunkIsStretch
<1> DEFINE rest == problem.need[j] - MinutesOf(j)
           C == ChunksOf(j)
<1>4. AllocationsOf(j)' = AllocationsOf(j)
  BY <1>2 DEF AllocationsOf
<1>5. rest' = rest /\ C' = C
  BY <1>1, <1>4 DEF MinutesOf, ChunksOf
<1>6. rest \in Int /\ problem.minChunk[j] \in Int
  BY <1>1, MinutesAreTyped DEF Problems
<1> HIDE DEF rest, C
<1>7. \A i : StartOf(i)' = StartOf(i) /\ EndOf(i)' = EndOf(i)
  BY <1>1 DEF StartOf, EndOf
<1>8. \A i, k : Adjoins(i, k)' = Adjoins(i, k)
  BY <1>7 DEF Adjoins
<1>9. \A i : DayIsFull(j, i)' = DayIsFull(j, i)
  BY <1>1, <1>5 DEF DayIsFull, ChunksOn, C
<1>10. PICK r \in Runs' : \E f \in r[1] .. r[2] :
          /\ Suits(j, rest, C, r, f)'
          /\ problem'.splittable[j] =>
                \A i \in DOMAIN problem'.slots : Adjoins(i, r[1])' => ~DayIsFull(j, i)'
  BY DEF CouldHaveMore, rest, C
<1>11. PICK f \in r[1] .. r[2] :
          /\ Suits(j, rest, C, r, f)'
          /\ problem.splittable[j] =>
                \A i \in DOMAIN problem.slots : Adjoins(i, r[1]) => ~DayIsFull(j, i)
  BY <1>1, <1>5, <1>8, <1>9, <1>10
<1>12. r[1] \in free' /\ r[2] \in free' /\ r[1] <= r[2] /\ \A i \in r[1] .. r[2] - 1 : Joined(i)
  BY <1>3, <1>7, <1>10 DEF Runs, IsRun, Joined
<1>13. PICK h, b \in free : /\ h <= r[1] /\ r[2] <= b
                            /\ <<h, b>> \in Runs
                            /\ Adjoins(h, r[1])
  BY <1>1, <1>3, <1>12, RunAround
<1>14. \A i \in DOMAIN problem.slots : i \in Nat
  BY <1>1, SlotsIncrease
<1>15. h \in Nat /\ b \in Nat /\ r[1] \in Nat /\ r[2] \in Nat /\ f \in h .. b
  BY <1>1, <1>3, <1>12, <1>13, <1>14
<1>16. h .. b \subseteq DOMAIN problem.slots
  BY <1>1, <1>13, SlotsIncrease
\* The larger stretch is used from an earlier slot on, or from the same.
<1>17. PICK g \in {i \in h .. b : StartsLate(j, i)} : \A i \in {i \in h .. b : StartsLate(j, i)} : g <= i
  <2>1. StartsLate(j, f)
    BY <1>1, <1>2, <1>11, StartsAsBefore DEF Suits, Usable
  <2>2. {i \in h .. b : StartsLate(j, i)} \in SUBSET Nat
    BY <1>15
  <2> QED BY <1>15, <2>1, <2>2, LeastNatural
<1>18. g <= f
  <2>1. StartsLate(j, f)
    BY <1>1, <1>2, <1>11, StartsAsBefore DEF Suits, Usable
  <2> QED BY <1>15, <1>17, <2>1
<1>19. Usable(j, <<h, b>>, g)
  <2>1. \A i \in h .. g - 1 : i \in h .. b /\ ~(g <= i)
    BY <1>15, <1>17
  <2> QED BY <1>17, <2>1 DEF Usable
<1>20. EndOf(r[2]) - StartOf(f) <= EndOf(b) - StartOf(g)
  <2>1. EndOf(r[2]) <= EndOf(b) /\ EndOf(r[2]) \in Int /\ EndOf(b) \in Int
    BY <1>1, <1>3, <1>12, <1>13, <1>15, SlotsEndLater
  <2>2. StartOf(g) <= StartOf(f) /\ StartOf(g) \in Int /\ StartOf(f) \in Int
    BY <1>1, <1>15, <1>16, <1>17, <1>18, SlotsEndLater
  <2> QED BY <2>1, <2>2
<1>21. EndOf(r[2]) - StartOf(f) \in Int /\ EndOf(b) - StartOf(g) \in Int
  BY <1>1, <1>3, <1>12, <1>13, <1>15, <1>16, <1>17, SlotsIncrease
<1>22. /\ EndOf(r[2]) - StartOf(f) >= Smaller(problem.minChunk[j], rest)
       /\ ~problem.splittable[j] => EndOf(r[2]) - StartOf(f) >= rest
  BY <1>1, <1>5, <1>7, <1>11 DEF Suits
<1>23. \A i \in DOMAIN problem.slots : problem.splittable[j] /\ Adjoins(i, h) => ~DayIsFull(j, i)
  <2>1. \A i \in DOMAIN problem.slots : Adjoins(i, h) => Adjoins(i, r[1])
    BY <1>13, <1>14, <1>15 DEF Adjoins
  <2> QED BY <1>11, <2>1
<1>24. problem.splittable[j] => Cardinality(ChunksOn(C, h)) < MaxChunksPerDay
  <2>1. problem.splittable[j] => ~DayIsFull(j, h)
    BY <1>1, <1>11, <1>13
  <2>2. Cardinality(ChunksOn(C, h)) \in Nat
    BY ChunksAreFinite DEF C
  <2>3. MaxChunksPerDay \in Nat
    BY PlannerAssumption DEF PlannerAssumption
  <2> QED BY <2>1, <2>2, <2>3 DEF DayIsFull, C
<1>25. Suits(j, rest, C, <<h, b>>, g)
  <2>1. Smaller(problem.minChunk[j], rest) \in Int
    BY <1>6 DEF Smaller
  <2>2. EndOf(b) - StartOf(g) >= Smaller(problem.minChunk[j], rest)
    BY <1>20, <1>21, <1>22, <2>1
  <2>3. ~problem.splittable[j] => EndOf(b) - StartOf(g) >= rest
    BY <1>6, <1>20, <1>21, <1>22
  <2> QED BY <1>19, <1>24, <2>2, <2>3 DEF Suits
<1> QED BY <1>13, <1>17, <1>23, <1>25 DEF CouldHaveMore, rest, C

-----------------------------------------------------------------------------
\* Steps that place nothing leave the room for every job as it is.
LEMMA RoomIsKept ==
    ASSUME FillInv, UNCHANGED <<problem, free, allocations>>,
           placed \subseteq placed', ~ScheduleDone,
           NEW j \in unallocated
    PROVE  problem'.gates[j] \subseteq placed' /\ ~CouldHaveMore(j)'
<1>1. problem.gates[j] \subseteq placed /\ ~CouldHaveMore(j)
  BY DEF FillInv, NoRoomLeft
<1> QED BY <1>1, RoomStays

\* Taking the next job on leaves out nothing that would fit.
LEMMA SelectFills ==
    ASSUME SInv, FillInv, Select
    PROVE  FillInv'
<1>1. PICK j \in pending :
          /\ pending' = pending \ {j}
          /\ \/ /\ problem.need[j] <= MinutesOf(j)
                /\ placed' = placed \cup {j} /\ UNCHANGED current
             \/ /\ current' = [kind |-> "job", job |-> j,
                               remaining |-> problem.need[j] - MinutesOf(j),
                               cursor |-> 0, progress |-> FALSE, chunks |-> {}]
                /\ UNCHANGED placed
  BY DEF Select
<1>2. UNCHANGED <<problem, free, allocations, unallocated>> /\ current = NoJob /\ ~ScheduleDone
  BY <1>1 DEF Select, ScheduleDone
<1>3. unallocated' \subseteq problem'.jobs \ (pending' \cup placed')
  BY <1>1, <1>2 DEF FillInv
<1>4. \A a \in allocations' : ~Kept(a) => a.job \notin pending'
  BY <1>1, <1>2 DEF FillInv
<1>5. ASSUME current' # NoJob
      PROVE  current'.job \notin unallocated' /\ IsCounted(current.job)'
  <2>1. /\ current'.job = j /\ current'.remaining = problem.need[j] - MinutesOf(j)
        /\ current'.cursor = 0 /\ current'.progress = FALSE /\ current'.chunks = {}
    BY <1>1, <1>2, <1>5
  <2>2. ChunksOf(j) = {}
    BY <1>1 DEF FillInv, ChunksOf, AllocationsOf
  <2>3. MinutesOf(j)' = MinutesOf(j) /\ ChunksOf(j)' = ChunksOf(j)
    BY <1>2, RoomStays
  <2>4. problem'.need[j] = problem.need[j] /\ 0 \in Int
    BY <1>2
  <2>5. IsCounted(j)'
    BY <2>1, <2>2, <2>3, <2>4 DEF IsCounted
  <2> QED BY <1>1, <1>2, <2>1, <2>5 DEF FillInv
<1>6. NoRoomLeft'
  BY <1>1, <1>2, RoomIsKept DEF NoRoomLeft
<1>7. PlacedHaveEnough'
  <2>1. placed' = placed \/ (placed' = placed \cup {j} /\ problem.need[j] <= MinutesOf(j))
    BY <1>1
  <2> QED BY <1>2, <2>1, RoomStays DEF FillInv, PlacedHaveEnough
<1> QED BY <1>3, <1>4, <1>5, <1>6, <1>7 DEF FillInv

\* A job is given up only when nothing free suits it.
LEMMA GiveUpFills ==
    ASSUME SInv, FillInv, GiveUp
    PROVE  FillInv'
<1>1. /\ UNCHANGED <<problem, free, allocations, placed, current>> /\ current = NoJob
      /\ pending' = {} /\ unallocated' = unallocated \cup pending
      /\ pending # {} /\ \A j \in pending : ~Ready(j)
  BY DEF GiveUp
<1>2. ScheduleDone' /\ ~ScheduleDone
  BY <1>1 DEF ScheduleDone
<1>3. unallocated' \subseteq problem'.jobs \ (pending' \cup placed')
  BY <1>1 DEF FillInv, SInv, SetsAreJobs
<1>4. ASSUME NEW j \in unallocated'
      PROVE  \/ problem'.gates[j] \subseteq placed' /\ ~CouldHaveMore(j)'
             \/ ScheduleDone' /\ ~(problem'.gates[j] \subseteq placed')
  <2>1. CASE j \in unallocated
    BY <1>1, <1>2, <2>1, RoomIsKept
  <2>2. CASE j \in pending
    BY <1>1, <1>2, <2>2 DEF Ready
  <2> QED BY <1>1, <2>1, <2>2
<1>5. NoRoomLeft'
  BY <1>4 DEF NoRoomLeft
<1>6. PlacedHaveEnough'
  BY <1>1, RoomStays DEF FillInv, PlacedHaveEnough
<1> QED BY <1>1, <1>3, <1>5, <1>6 DEF FillInv

\* A job whose remaining chunk is tried again keeps what it has been given.
LEMMA AgainFills ==
    ASSUME SInv, FillInv, Again
    PROVE  FillInv'
<1>1. /\ UNCHANGED <<problem, free, allocations, pending, placed, unallocated>>
      /\ current # NoJob /\ ~ScheduleDone
      /\ current' = [current EXCEPT !.cursor = 0, !.progress = FALSE]
  BY DEF Again, ScheduleDone
<1>2. IsPlacement(current)
  BY <1>1 DEF SInv, CurrentIsReady
<1>3. /\ current'.job = current.job /\ current'.remaining = current.remaining
      /\ current'.chunks = current.chunks
      /\ current'.cursor = 0 /\ current'.progress = FALSE
  BY ONLY <1>1, <1>2 DEF IsPlacement
<1>4. IsCounted(current.job)'
  BY <1>1, <1>3, RoomStays DEF FillInv, IsCounted
<1>5. NoRoomLeft'
  BY <1>1, RoomIsKept DEF NoRoomLeft
<1>6. PlacedHaveEnough'
  BY <1>1, RoomStays DEF FillInv, PlacedHaveEnough
<1> QED BY <1>1, <1>3, <1>4, <1>5, <1>6 DEF FillInv

\* A job is given up only when all runs were looked at for what it still needs.
LEMMA FinishFills ==
    ASSUME SInv, IsFiniteSet(allocations), FillInv, Finish
    PROVE  FillInv'
<1> DEFINE j == current.job
<1>1. /\ UNCHANGED <<problem, free, allocations, pending>>
      /\ current # NoJob /\ current' = NoJob /\ ~ScheduleDone
      /\ \/ current.remaining <= 0 /\ placed' = placed \cup {j} /\ unallocated' = unallocated
         \/ Exhausted /\ placed' = placed /\ unallocated' = unallocated \cup {j}
  BY DEF Finish, ScheduleDone
<1>2. /\ j \in problem.jobs \ (pending \cup placed)
      /\ problem.gates[j] \subseteq placed
      /\ j \notin unallocated /\ IsCounted(j)
  BY <1>1 DEF SInv, CurrentIsReady, FillInv
<1>3. unallocated' \subseteq problem'.jobs \ (pending' \cup placed')
  BY <1>1, <1>2 DEF FillInv
<1>4. ASSUME Exhausted PROVE ~CouldHaveMore(j)
  <2> SUFFICES ASSUME CouldHaveMore(j) PROVE FALSE
    OBVIOUS
  <2>1. PICK r \in Runs : \E f \in r[1] .. r[2] :
            Suits(j, problem.need[j] - MinutesOf(j), ChunksOf(j), r, f)
    BY DEF CouldHaveMore
  <2>2. \E f \in r[1] .. r[2] : SuitsCurrent(r, f)
    BY <1>2, <2>1 DEF IsCounted, SuitsCurrent
  <2>3. r[1] > current.cursor
    <3>1. r[1] \in DOMAIN problem.slots
      BY DEF Runs, SInv, LedgerIsRight, FreeSlots
    <3>2. r[1] \in Nat /\ r[1] # 0
      BY <3>1 DEF SInv, Problems
    <3> QED BY <1>2, <1>4, <3>2 DEF IsCounted, Exhausted
  <2> QED BY <1>4, <2>2, <2>3 DEF Exhausted, NextRuns
<1> HIDE DEF j
<1>5. ASSUME NEW k \in unallocated'
      PROVE  problem'.gates[k] \subseteq placed' /\ ~CouldHaveMore(k)'
  <2>1. CASE k \in unallocated
    <3>1. placed \subseteq placed'
      BY <1>1
    <3> QED BY <1>1, <2>1, <3>1, RoomIsKept
  <2>2. CASE k = j /\ Exhausted /\ placed' = placed
    BY <1>1, <1>2, <1>4, <2>2, RoomStays
  <2> QED BY <1>1, <2>1, <2>2
<1>6. NoRoomLeft'
  BY <1>5 DEF NoRoomLeft
<1>7. PlacedHaveEnough'
  <2>1. ASSUME current.remaining <= 0 PROVE problem.need[j] <= MinutesOf(j)
    <3>1. problem.need[j] \in Int /\ MinutesOf(j) \in Int
      BY <1>2, MinutesAreTyped DEF SInv, Problems
    <3> QED BY <1>2, <2>1, <3>1 DEF IsCounted
  <2> QED BY <1>1, <2>1, RoomStays DEF FillInv, PlacedHaveEnough
<1> QED BY <1>1, <1>3, <1>6, <1>7 DEF FillInv

\* The least of a range is its beginning.
LEMMA FirstOfRange ==
    ASSUME NEW f \in Int, NEW l \in Int, f <= l
    PROVE  Min(f .. l) = f
<1>1. \E x \in f .. l : \A y \in f .. l : x <= y
  <2>1. f \in f .. l /\ \A y \in f .. l : f <= y
    OBVIOUS
  <2> QED BY <2>1
<1>2. Min(f .. l) \in f .. l /\ \A y \in f .. l : Min(f .. l) <= y
  BY <1>1 DEF Min
<1> QED BY <1>2

\* What is taken from the free slots is counted, and leaves no more room to others.
LEMMA PlaceChunkFills ==
    ASSUME SInv, IsFiniteSet(allocations), FillInv, PlaceChunk
    PROVE  FillInv'
<1> DEFINE j == current.job
           New(f, l) == [job |-> current.job, start |-> StartOf(f), end |-> EndOf(l), slots |-> f .. l]
<1>1. PICK f, l \in DOMAIN problem.slots :
          /\ f <= l
          /\ f .. l \subseteq free
          /\ allocations' = allocations \cup {New(f, l)}
          /\ \E last \in Int :
                current' = [current EXCEPT !.remaining = @ - (EndOf(l) - StartOf(f)),
                                           !.cursor = last,
                                           !.progress = TRUE,
                                           !.chunks = @ \cup {f}]
  BY ChunkIsStretch
<1> DEFINE new == New(f, l)
<1>2. /\ UNCHANGED <<problem, pending, placed, unallocated>>
      /\ current # NoJob /\ ~ScheduleDone
  BY DEF PlaceChunk, ScheduleDone
<1>3. /\ problem \in Problems /\ LedgerIsRight /\ IsPlacement(current)
      /\ j \in problem.jobs \ (pending \cup placed) /\ problem.jobs \subseteq Jobs
      /\ j \notin unallocated /\ IsCounted(j)
  BY <1>2 DEF SInv, CurrentIsReady, FillInv, Problems
<1>4. f \in Nat /\ l \in Nat /\ f \in f .. l
      /\ StartOf(f) \in Int /\ EndOf(l) \in Int
  BY <1>1, <1>3, SlotsIncrease
<1>5. /\ new.job = j /\ new.start = StartOf(f) /\ new.end = EndOf(l) /\ new.slots = f .. l
      /\ allocations' = allocations \cup {new}
  BY <1>1
<1>6. ~Kept(new)
  BY <1>4, <1>5 DEF Kept
<1>7. new \notin allocations
  BY <1>1, <1>3, <1>4, <1>5, <1>6 DEF LedgerIsRight
<1>8. PICK last \in Int :
          current' = [current EXCEPT !.remaining = @ - (EndOf(l) - StartOf(f)),
                                     !.cursor = last,
                                     !.progress = TRUE,
                                     !.chunks = @ \cup {f}]
  BY <1>1, Zenon
<1>9. /\ current'.job = current.job
      /\ current'.remaining = current.remaining - (EndOf(l) - StartOf(f))
      /\ current'.cursor = last
      /\ current'.progress = TRUE
      /\ current'.chunks = current.chunks \cup {f}
  <2>1. IsPlacement(current)
    BY <1>3
  <2> QED BY ONLY <1>8, <2>1 DEF IsPlacement
<1> HIDE DEF j, new, New
<1>10. \A i : StartOf(i)' = StartOf(i) /\ EndOf(i)' = EndOf(i)
  BY <1>2 DEF StartOf, EndOf
<1>11. (AllocationsOf(j) \cup {new}) = {a \in allocations' : a.job = j}
  BY <1>5 DEF AllocationsOf
<1>12. Minutes({a \in allocations' : a.job = j}) = MinutesOf(j) + (EndOf(l) - StartOf(f))
       /\ MinutesOf(j) \in Int
  <2>1. new \notin AllocationsOf(j)
    BY <1>7 DEF AllocationsOf
  <2>2. /\ IsFiniteSet(AllocationsOf(j)) /\ MinutesOf(j) \in Int
        /\ \A a \in AllocationsOf(j) : a.start \in Int /\ a.end \in Int
    BY MinutesAreTyped
  <2>3. Minutes(AllocationsOf(j) \cup {new}) = Minutes(AllocationsOf(j)) + (new.end - new.start)
    BY <1>4, <1>5, <2>1, <2>2, MoreMinutes
  <2> QED BY <1>5, <1>11, <2>2, <2>3 DEF MinutesOf
<1>13. {Min(a.slots) : a \in {b \in {a \in allocations' : a.job = j} : ~Kept(b)}} = ChunksOf(j) \cup {f}
  <2>1. Min(new.slots) = f
    BY <1>1, <1>4, <1>5, FirstOfRange
  <2> QED BY <1>6, <1>11, <2>1 DEF ChunksOf
<1>14. IsCounted(current.job)'
  <2>1. current.job' = j
    BY <1>9 DEF j
  <2>2. MinutesOf(current.job)' = MinutesOf(j) + (EndOf(l) - StartOf(f))
    BY <1>12, <2>1 DEF MinutesOf, AllocationsOf
  <2>3. ChunksOf(current.job)' = ChunksOf(j) \cup {f}
    BY <1>13, <2>1 DEF ChunksOf, AllocationsOf, Kept
  <2>4. problem.need[j] \in Int
    BY <1>3 DEF Problems
  <2>5. problem'.need[current'.job] = problem.need[j]
    BY <1>2, <2>1
  <2>6. current'.remaining = problem'.need[current'.job] - MinutesOf(current.job)'
    BY <1>3, <1>4, <1>9, <1>12, <2>2, <2>4, <2>5 DEF IsCounted
  <2>7. current'.chunks = ChunksOf(current.job)'
    BY <1>3, <1>9, <2>3 DEF IsCounted
  <2> QED BY <1>8, <1>9, <2>6, <2>7 DEF IsCounted
<1>15. \A a \in allocations' : ~Kept(a) => a.job \notin pending'
  BY <1>2, <1>3, <1>5 DEF FillInv
<1>16. NoRoomLeft'
  <2> SUFFICES ASSUME NEW k \in unallocated
               PROVE  problem'.gates[k] \subseteq placed' /\ ~CouldHaveMore(k)'
    BY <1>2 DEF NoRoomLeft
  <2>1. problem.gates[k] \subseteq placed /\ ~CouldHaveMore(k)
    BY <1>2 DEF FillInv, NoRoomLeft
  <2>2. k \in Jobs /\ k # current.job /\ current.job \notin problem.gates[k]
    BY <1>3, <2>1 DEF FillInv, j
  <2>3. ~CouldHaveMore(k)'
    BY <2>1, <2>2, RoomShrinks
  <2> QED BY <1>2, <2>1, <2>3
<1>17. unallocated' \subseteq problem'.jobs \ (pending' \cup placed')
  BY <1>2 DEF FillInv
<1>18. current'.job \notin unallocated'
  BY <1>2, <1>3, <1>9 DEF j
<1>19. PlacedHaveEnough'
  <2> SUFFICES ASSUME NEW k \in placed PROVE problem.need[k] <= MinutesOf(k)'
    BY <1>2 DEF PlacedHaveEnough
  <2>1. k # j
    BY <1>3
  <2>2. MinutesOf(k)' = MinutesOf(k)
    BY <1>5, <2>1 DEF MinutesOf, AllocationsOf
  <2> QED BY <2>2 DEF FillInv, PlacedHaveEnough
<1> QED BY <1>14, <1>15, <1>16, <1>17, <1>18, <1>19 DEF FillInv

\* Every step of a pass goes on filling what is free.
LEMMA NextFills ==
    ASSUME SInv, IsFiniteSet(allocations), FillInv, [ScheduleNext]_scheduleVars
    PROVE  FillInv'
<1>1. CASE UNCHANGED scheduleVars
  <2>1. UNCHANGED <<problem, free, allocations, pending, placed, unallocated, current>>
    BY <1>1 DEF scheduleVars
  <2>2. UNCHANGED <<problem, free, allocations>>
    BY <2>1
  <2>3. \A j : IsCounted(j)' = IsCounted(j)
    BY <2>1, <2>2, RoomStays DEF IsCounted
  <2>4. NoRoomLeft'
    BY <2>1, <2>2, RoomStays DEF FillInv, NoRoomLeft, ScheduleDone
  <2>5. PlacedHaveEnough'
    BY <2>1, <2>2, RoomStays DEF FillInv, PlacedHaveEnough
  <2> QED BY <2>1, <2>3, <2>4, <2>5 DEF FillInv
<1> QED BY <1>1, SelectFills, GiveUpFills, PlaceChunkFills, AgainFills, FinishFills DEF ScheduleNext
-----------------------------------------------------------------------------
\* A pass keeps what it was given, and allocates finitely often, whole
\* stretches of slots without gaps.
KeepsInv ==
    /\ IsFiniteSet(allocations)
    /\ KeptAllocations(problem) \subseteq allocations
    /\ allocations \subseteq
          [job : Jobs, start : Int, end : Int, slots : SUBSET DOMAIN problem.slots]
    /\ \A a \in allocations : ~Kept(a) =>
          \E f, l \in a.slots :
             IsStretch(a, f, l) /\ \A i \in f .. l - 1 : EndOf(i) = StartOf(i + 1)

\* The invariant of a pass.
PassInv == SInv /\ KeepsInv /\ FillInv

\* Finitely many allocations are kept.
LEMMA KeptAreFinite ==
    ASSUME NEW p \in Problems
    PROVE  IsFiniteSet(KeptAllocations(p))
<1> DEFINE f == [a \in p.kept |-> [job |-> a.job, start |-> a.start, end |-> a.end, slots |-> {}]]
           K == p.kept
<1>1. IsFiniteSet(K)
  BY DEF Problems, KeptApart
<1>2. KeptAllocations(p) = {f[a] : a \in K}
  BY DEF KeptAllocations
<1>3. K \subseteq DOMAIN f
  OBVIOUS
<1> HIDE DEF f, K
<1> QED BY <1>1, <1>2, <1>3, ImageIsFinite

\* The invariant holds when a pass begins.
LEMMA PassStarts ==
    ASSUME problem \in Problems,
           free = FreeAtFirst(problem),
           allocations = KeptAllocations(problem),
           pending = problem.jobs,
           placed = {},
           unallocated = {},
           current = NoJob
    PROVE  PassInv
<1>1. SInv
  BY FreshInv
<1>2. \A a \in allocations : Kept(a)
  BY KeptExclude DEF Kept
<1>3. allocations \subseteq [job : Jobs, start : Int, end : Int, slots : SUBSET DOMAIN problem.slots]
  <2>1. problem.kept \subseteq KeptBlocks
    BY DEF Problems
  <2> QED BY <2>1 DEF KeptAllocations, KeptBlocks
<1>4. KeepsInv
  BY <1>2, <1>3, KeptAreFinite DEF KeepsInv
<1>5. FillInv
  BY <1>2 DEF FillInv, NoRoomLeft, PlacedHaveEnough
<1> QED BY <1>1, <1>4, <1>5 DEF PassInv

\* Every step of a pass keeps the invariant.
LEMMA NextPassInv == PassInv /\ [ScheduleNext]_scheduleVars => PassInv'
<1> SUFFICES ASSUME PassInv, [ScheduleNext]_scheduleVars PROVE PassInv'
  OBVIOUS
<1>1. SInv' /\ FillInv'
  BY NextSInv, NextFills DEF PassInv, KeepsInv
<1>2. problem' = problem
  BY DEF ScheduleNext, Select, GiveUp, PlaceChunk, Again, Finish, scheduleVars
<1>3. \A i : StartOf(i)' = StartOf(i) /\ EndOf(i)' = EndOf(i)
  BY <1>2 DEF StartOf, EndOf
<1>4. CASE PlaceChunk
  <2>1. PICK f, l \in DOMAIN problem.slots :
          /\ f <= l
          /\ \A i \in f .. l - 1 : EndOf(i) = StartOf(i + 1)
          /\ allocations' = allocations \cup
                {[job |-> current.job, start |-> StartOf(f), end |-> EndOf(l), slots |-> f .. l]}
    BY <1>4, ChunkIsStretch DEF PassInv
  <2> DEFINE new == [job |-> current.job, start |-> StartOf(f), end |-> EndOf(l), slots |-> f .. l]
             Proper == [job : Jobs, start : Int, end : Int, slots : SUBSET DOMAIN problem.slots]
  <2>2. /\ f \in Nat /\ l \in Nat /\ f .. l \in SUBSET DOMAIN problem.slots
        /\ StartOf(f) \in Int /\ EndOf(l) \in Int
    BY SlotsIncrease DEF PassInv, SInv
  <2>3. current.job \in Jobs
    BY <1>4 DEF PassInv, SInv, CurrentIsReady, Problems, PlaceChunk
  <2>4. new \in Proper
    BY <2>2, <2>3
  <2>5. IsStretch(new, f, l) /\ new.slots = f .. l
    BY <2>1 DEF IsStretch
  <2>6. f \in new.slots /\ l \in new.slots
    BY <2>1, <2>2, <2>5
  <2>7. allocations' = allocations \cup {new}
    BY <2>1
  <2> HIDE DEF new, Proper
  <2>8. IsFiniteSet(allocations')
    BY <2>7, FS_AddElement DEF PassInv, KeepsInv
  <2>9. allocations' \subseteq Proper
    BY <2>4, <2>7 DEF PassInv, KeepsInv, Proper
  <2>10. ASSUME NEW a \in allocations', ~Kept(a)
         PROVE  \E g, n \in a.slots :
                   IsStretch(a, g, n) /\ \A i \in g .. n - 1 : EndOf(i) = StartOf(i + 1)
    <3>1. CASE a \in allocations
      BY <2>10, <3>1 DEF PassInv, KeepsInv
    <3>2. CASE a = new
      BY <2>1, <2>5, <2>6, <3>2
    <3> QED BY <2>7, <3>1, <3>2
  <2>11. KeepsInv'
    BY <1>2, <1>3, <2>7, <2>8, <2>9, <2>10 DEF PassInv, KeepsInv, Proper, IsStretch, Kept
  <2> QED BY <1>1, <2>11 DEF PassInv
<1>5. CASE ~PlaceChunk
  <2>1. allocations' = allocations
    BY <1>5 DEF ScheduleNext, Select, GiveUp, Again, Finish, scheduleVars
  <2>2. KeepsInv'
    BY <1>2, <1>3, <2>1 DEF PassInv, KeepsInv, IsStretch, Kept
  <2> QED BY <1>1, <2>2 DEF PassInv
<1> QED BY <1>4, <1>5

\* What is known of a job that is being placed has the types it should.
LEMMA PassIsTyped == PassInv => ScheduleTypeOK
<1> SUFFICES ASSUME PassInv PROVE ScheduleTypeOK
  OBVIOUS
<1>1. problem \in Problems /\ SetsAreJobs /\ LedgerIsRight /\ CurrentIsReady
  BY DEF PassInv, SInv
<1>2. unallocated \subseteq problem.jobs
  BY DEF PassInv, FillInv
<1>3. current \in Placements \cup {NoJob}
  <2> SUFFICES ASSUME current # NoJob PROVE current \in Placements
    OBVIOUS
  <2>1. IsPlacement(current) /\ current.job \in Jobs /\ IsCounted(current.job)
    BY <1>1 DEF CurrentIsReady, Problems, PassInv, FillInv
  <2>2. current.remaining \in Int
    <3>1. MinutesOf(current.job) \in Int
      BY MinutesAreTyped DEF PassInv, KeepsInv
    <3>2. problem.need[current.job] \in Int
      BY <1>1, <2>1 DEF Problems
    <3> QED BY <2>1, <3>1, <3>2 DEF IsCounted
  <2>3. current.chunks \subseteq Int
    <3> SUFFICES ASSUME NEW a \in allocations, ~Kept(a) PROVE Min(a.slots) \in Int
      BY <2>1 DEF IsCounted, ChunksOf, AllocationsOf
    <3>1. PICK f, l \in a.slots : IsStretch(a, f, l)
      BY <1>1 DEF LedgerIsRight
    <3>2. f \in Int /\ l \in Int /\ f <= l /\ a.slots = f .. l
      BY <1>1, <3>1, SlotsIncrease DEF LedgerIsRight, FreeSlots, IsStretch
    <3> QED BY <3>2, FirstOfRange
  <2>4. /\ current.cursor \in Int /\ current.progress \in BOOLEAN
        /\ current = [kind |-> "job", job |-> current.job, remaining |-> current.remaining,
                      cursor |-> current.cursor, progress |-> current.progress,
                      chunks |-> current.chunks]
    BY <2>1 DEF IsPlacement, IsCounted
  <2> QED BY <2>1, <2>2, <2>3, <2>4 DEF Placements
<1> QED BY <1>1, <1>2, <1>3 DEF ScheduleTypeOK, SetsAreJobs, LedgerIsRight, FreeSlots, PassInv, KeepsInv

\* Every pass, over any slots and jobs, keeps the invariant (serial_schedule).
THEOREM PassCompletes == Spec => []PassInv
<1>1. Init => PassInv
  BY PassStarts DEF Init
<1> QED BY <1>1, NextPassInv, PTL DEF Spec

\* The variables of a pass have their types (serial_schedule).
THEOREM PassIsTypeCorrect == Spec => []ScheduleTypeOK
BY PassCompletes, PassIsTyped, PTL

\* The invariant says that nothing more fits.
LEMMA NoTimeIsIdle == FillInv => NothingMoreFits
BY DEF FillInv, NoRoomLeft, NothingMoreFits

\* A job is left out of a pass only if no free slots suit it (serial_schedule).
THEOREM NoTimeIsLeftIdle == Spec => []NothingMoreFits
<1>1. PassInv => NothingMoreFits
  BY NoTimeIsIdle DEF PassInv
<1> QED BY <1>1, PassCompletes, PTL
-----------------------------------------------------------------------------
\* The time that is left free on a local day.
FreeOn(day) == Minutes({s \in ToSet(slots) : s.free /\ LocalDay(s.start) = day})

\* Free slots are not reserved; with what may still be planned they make up the
\* share of their day that may be planned.
SlotsRespect ==
    /\ \A i \in DOMAIN slots : slots[i].free => ~Reserved(slots[i])
    /\ slots # <<>> => DOMAIN capacityLeft = SlotDays
    /\ DOMAIN capacityLeft = SlotDays =>
          \A day \in SlotDays :
             capacityLeft[day] \in Nat /\ FreeOn(day) + capacityLeft[day] = PlannedCapacity(day)

\* The slots that are decided are finitely many, and tell their days apart.
LEMMA SlotsAreFinite ==
    ASSUME input.windows \in Calendars, SlotsFollow
    PROVE  /\ IsFiniteSet(ToSet(slots))
           /\ \A s \in ToSet(slots) : s.start \in Int /\ s.end \in Int /\ s.start < s.end
           /\ \A s, t \in ToSet(slots) : s.start = t.start => s = t
<1>1. slots \in Seq(Slots)
  BY DEF SlotsFollow
<1>2. IsFiniteSet(ToSet(slots))
  <2> DEFINE A == DOMAIN slots
  <2>1. A = 1 .. Len(slots) /\ Len(slots) \in Nat
    BY <1>1
  <2>2. IsFiniteSet(A)
    BY <2>1, FS_Interval
  <2>3. ToSet(slots) = {slots[i] : i \in A}
    BY DEF ToSet
  <2> HIDE DEF A
  <2>4. A \subseteq DOMAIN slots
    BY DEF A
  <2> QED BY <2>2, <2>3, <2>4, ImageIsFinite
<1>3. \A s \in ToSet(slots) : s.start \in Int /\ s.end \in Int /\ s.start < s.end
  BY SlotsExclude DEF ToSet, Slots
<1>4. \A s, t \in ToSet(slots) : s # t => s.end <= t.start \/ t.end <= s.start
  BY SlotsExclude
<1>5. \A s, t \in ToSet(slots) : s.start = t.start => s = t
  BY <1>3, <1>4
<1> QED BY <1>2, <1>3, <1>5

\* The share of a day that may be planned is what the code says.
LEMMA CapacityIsShare ==
    ASSUME NEW R \in Nat
    PROVE  LET q == ((R * CapacityPercent) \div (100 * SlotMinutes)) * SlotMinutes
           IN  q \in Nat /\ 100 * q <= CapacityPercent * R
<1> DEFINE X == R * CapacityPercent
           D == 100 * SlotMinutes
           k == X \div D
<1>1. SlotMinutes \in Nat \ {0} /\ CapacityPercent \in Nat
  BY InputAssumption, PlannerAssumption DEF InputAssumption, PlannerAssumption
<1>2. X \in Nat /\ D \in Nat \ {0} /\ X = CapacityPercent * R
  BY <1>1
<1> HIDE DEF X
<1>3. k \in Nat /\ D * k <= X
  <2> HIDE DEF D
  <2> QED BY <1>2
<1> HIDE DEF k
<1>4. D * k = 100 * (k * SlotMinutes) /\ k * SlotMinutes \in Nat
  BY <1>1, <1>3
<1> HIDE DEF D
<1> QED BY <1>2, <1>3, <1>4 DEF k, X, D

\* What is unreserved on a day takes a number of minutes.
LEMMA RawFreeIsTyped ==
    ASSUME input.windows \in Calendars, NEW day
    PROVE  RawFree(day) \in Nat
<1>1. SplitSlots \in Seq(Spans)
  BY SplitExclude
<1> DEFINE A == ToSet(SplitSlots)
           B == {slot \in A : LocalDay(slot.start) = day /\ ~Reserved(slot)}
<1>2. \A s \in A : s \in Spans
  BY <1>1 DEF ToSet
<1>3. IsFiniteSet(A)
  <2> DEFINE D == DOMAIN SplitSlots
             S == SplitSlots
  <2>1. D = 1 .. Len(S) /\ Len(S) \in Nat
    BY <1>1
  <2>2. IsFiniteSet(D)
    BY <2>1, FS_Interval
  <2>3. A = {S[i] : i \in D}
    BY DEF ToSet
  <2>4. D \subseteq DOMAIN S
    OBVIOUS
  <2> HIDE DEF A, D, S
  <2> QED BY <2>2, <2>3, <2>4, ImageIsFinite
<1>4. B \in SUBSET A
  OBVIOUS
<1>5. \A s \in A : s.start \in Int /\ s.end \in Int /\ s.start <= s.end
  BY <1>2 DEF Spans
<1>6. RawFree(day) = Minutes(B)
  BY DEF RawFree
<1> HIDE DEF A, B
<1> QED BY <1>3, <1>4, <1>5, <1>6, PartIsShorter

\* A day may be planned up to its share, rounded down to whole slots.
LEMMA CapacityIsTyped ==
    ASSUME input.windows \in Calendars, NEW day
    PROVE  /\ PlannedCapacity(day) \in Nat
           /\ 100 * PlannedCapacity(day) <= CapacityPercent * RawFree(day)
<1>1. RawFree(day) \in Nat
  BY RawFreeIsTyped
<1> QED BY <1>1, CapacityIsShare DEF PlannedCapacity

\* The slots that are decided so far keep to the share of their day.
LEMMA MeasureRespects ==
    ASSUME input.windows \in Calendars, SlotsFollow, SlotsRespect, MeasureDays, UNCHANGED input
    PROVE  SlotsRespect'
<1>1. /\ SlotDays' = SlotDays /\ SplitSlots' = SplitSlots
      /\ slots' = slots /\ slots = <<>>
      /\ capacityLeft' = [day \in SlotDays |-> PlannedCapacity(day)]
  BY DEF MeasureDays, SlotsRespect, SlotDays, SplitSlots, SplitWindow
<1>2. \A day : PlannedCapacity(day)' = PlannedCapacity(day)
  BY <1>1 DEF PlannedCapacity, RawFree, Reserved
<1>3. \A day : FreeOn(day)' = 0
  <2> TAKE day
  <2>1. {s \in ToSet(slots') : s.free /\ LocalDay(s.start) = day} = {}
    BY <1>1 DEF ToSet
  <2> QED BY <2>1, NoMinutes DEF FreeOn
<1>4. \A day : PlannedCapacity(day) \in Nat
  BY CapacityIsTyped
<1>5. \A day \in SlotDays' :
          capacityLeft'[day] \in Nat /\ FreeOn(day)' + capacityLeft'[day] = PlannedCapacity(day)'
  BY <1>1, <1>2, <1>3, <1>4
<1>6. \A i \in DOMAIN slots' : FALSE
  BY <1>1
<1> QED BY <1>1, <1>5, <1>6 DEF SlotsRespect

\* A slot is opened only where the calendar leaves time, and within the day's share.
LEMMA DecideRespects ==
    ASSUME input.windows \in Calendars, SlotsFollow, SlotsRespect, DecideSlot, UNCHANGED input
    PROVE  SlotsRespect'
<1> DEFINE n == Len(slots)
           slot == SplitSlots[n + 1]
           today == LocalDay(slot.start)
           keep == ~Reserved(slot) /\ capacityLeft[today] >= Length(slot)
           e == [start |-> slot.start, end |-> slot.end, day |-> UtcDay(slot.start), free |-> keep]
<1>1. input.windows \in Calendars
  OBVIOUS
<1>2. SplitSlots \in Seq(Spans)
  BY <1>1, SplitExclude
<1>3. n < Len(SplitSlots) /\ n \in Nat /\ Len(SplitSlots) \in Nat /\ slots \in Seq(Slots)
  BY <1>2 DEF DecideSlot, SlotsFollow
<1>4. slot \in Spans /\ n + 1 \in DOMAIN SplitSlots
  BY <1>2, <1>3, ElementsOf
<1>5. /\ DOMAIN capacityLeft = SlotDays
      /\ slots' = Append(slots, e)
      /\ capacityLeft' = [capacityLeft EXCEPT ![today] = IF keep THEN @ - Length(slot) ELSE @]
  BY DEF DecideSlot
<1>6. today \in SlotDays
  BY <1>4 DEF SlotDays
<1>7. SlotDays' = SlotDays /\ SplitSlots' = SplitSlots
  BY DEF SlotDays, SplitSlots, SplitWindow
<1>8. \A day : PlannedCapacity(day)' = PlannedCapacity(day)
  BY <1>7 DEF PlannedCapacity, RawFree, Reserved
<1>9. /\ e.start = slot.start /\ e.end = slot.end /\ e.free = keep
       /\ slot.start \in Int /\ slot.end \in Int /\ slot.start < slot.end
  BY <1>4 DEF Spans
<1>10. Reserved(e) <=> Reserved(slot)
  BY <1>9 DEF Reserved, Overlaps
<1>11. keep \in BOOLEAN
  OBVIOUS
<1> HIDE DEF e, slot, keep, n
<1>12. ToSet(slots') = ToSet(slots) \cup {e}
  <2>1. DOMAIN slots = 1 .. n /\ DOMAIN slots' = 1 .. n + 1
    BY <1>3, <1>5 DEF n
  <2>2. \A i \in 1 .. n : slots'[i] = slots[i] /\ i \in 1 .. n + 1
    BY <1>3, <1>5, <2>1 DEF n
  <2>3. slots'[n + 1] = e /\ n + 1 \in 1 .. n + 1
    BY <1>3, <1>5, <2>1 DEF n
  <2>4. \A i \in 1 .. n + 1 : i \in 1 .. n \/ i = n + 1
    BY <1>3
  <2> QED BY <2>1, <2>2, <2>3, <2>4 DEF ToSet
<1>13. e \notin ToSet(slots)
  <2> SUFFICES ASSUME e \in ToSet(slots) PROVE FALSE
    OBVIOUS
  <2>1. PICK i \in DOMAIN slots : slots[i] = e
    BY DEF ToSet
  <2>2. i \in DOMAIN SplitSlots /\ i # n + 1
    BY <1>2, <1>3, <2>1 DEF n
  <2>3. ~Overlaps(SplitSlots[i], SplitSlots[n + 1])
    BY <1>1, <1>4, <2>2, SplitExclude
  <2>4. SplitSlots[i].start = slot.start /\ SplitSlots[i].end = slot.end
    BY <1>9, <2>1 DEF SlotsFollow
  <2> QED BY <1>9, <2>3, <2>4 DEF Overlaps, slot
<1>14. /\ IsFiniteSet(ToSet(slots))
       /\ \A s \in ToSet(slots) : s.start \in Int /\ s.end \in Int /\ s.start < s.end
  BY <1>1, SlotsAreFinite
<1>15. \A i \in DOMAIN slots' : slots'[i].free => ~Reserved(slots[i])'
  <2>1. \A s \in ToSet(slots') : s.free => ~Reserved(s)
    <3>1. \A s \in ToSet(slots) : s.free => ~Reserved(s)
      BY DEF SlotsRespect, ToSet
    <3>2. e.free => ~Reserved(e)
      BY <1>9, <1>10 DEF keep
    <3> QED BY <1>12, <3>1, <3>2
  <2>2. \A i \in DOMAIN slots' : slots'[i] \in ToSet(slots')
    BY DEF ToSet
  <2> QED BY <2>1, <2>2 DEF Reserved
<1>16. ASSUME NEW day \in SlotDays
       PROVE  /\ capacityLeft'[day] \in Nat
              /\ FreeOn(day)' + capacityLeft'[day] = PlannedCapacity(day)
  <2> DEFINE A == {s \in ToSet(slots) : s.free /\ LocalDay(s.start) = day}
             B == {s \in ToSet(slots') : s.free /\ LocalDay(s.start) = day}
  <2>1. /\ capacityLeft[day] \in Nat
        /\ Minutes(A) + capacityLeft[day] = PlannedCapacity(day)
    BY <1>5 DEF SlotsRespect, FreeOn
  <2>2. IsFiniteSet(A) /\ \A s \in A : s.start \in Int /\ s.end \in Int
    BY <1>14, FS_Subset
  <2>3. FreeOn(day)' = Minutes(B)
    BY DEF FreeOn
  <2>4. CASE keep /\ today = day
    <3>1. B = A \cup {e}
      BY <1>9, <1>12, <2>4
    <3>2. e \notin A
      BY <1>13
    <3> HIDE DEF A, B
    <3>3. Minutes(B) = Minutes(A) + (e.end - e.start) /\ Minutes(A) \in Int
      BY <1>9, <2>2, <3>1, <3>2, MoreMinutes
    <3>4. capacityLeft[day] >= e.end - e.start
      BY <1>9, <2>4 DEF keep, Length
    <3>5. capacityLeft'[day] = capacityLeft[day] - (e.end - e.start)
      BY <1>5, <1>6, <1>9, <2>4 DEF Length
    <3> QED BY <1>9, <2>1, <2>3, <3>3, <3>4, <3>5
  <2>5. CASE ~(keep /\ today = day)
    <3>1. B = A
      BY <1>9, <1>12, <2>5
    <3>2. capacityLeft'[day] = capacityLeft[day]
      BY <1>5, <1>6, <2>5
    <3> QED BY <2>1, <2>3, <3>1, <3>2
  <2> QED BY <2>4, <2>5
<1>17. DOMAIN capacityLeft' = SlotDays'
  BY <1>5, <1>7
<1> QED BY <1>7, <1>8, <1>15, <1>16, <1>17 DEF SlotsRespect

\* A stretch of free slots touches nothing that reserves slots.
LEMMA StretchesAvoidBusy ==
    ASSUME PassInv, \A i \in DOMAIN problem.slots : problem.slots[i].free => ~Reserved(problem.slots[i]),
           NEW a \in allocations, ~Kept(a),
           NEW b \in Spans, b \in input.fixedEvents \cup input.protected
    PROVE  ~Overlaps(a, b)
<1> SUFFICES ASSUME Overlaps(a, b) PROVE FALSE
  OBVIOUS
<1>1. PICK f, l \in a.slots : IsStretch(a, f, l) /\ \A i \in f .. l - 1 : EndOf(i) = StartOf(i + 1)
  BY DEF PassInv, KeepsInv
<1>2. a.slots \subseteq FreeSlots /\ problem \in Problems
  BY DEF PassInv, SInv, LedgerIsRight
<1>3. f \in DOMAIN problem.slots /\ l \in DOMAIN problem.slots
  BY <1>2 DEF FreeSlots
<1>4. b.start \in Int /\ b.end \in Int /\ b.start < b.end
  BY DEF Spans
<1>5. f <= l /\ StartOf(f) < b.end /\ b.start < EndOf(l)
  BY <1>1 DEF IsStretch, Overlaps
<1>6. PICK i \in f .. l : Overlaps(problem.slots[i], b)
  BY <1>1, <1>2, <1>3, <1>4, <1>5, StretchTouches
<1>7. i \in FreeSlots
  BY <1>1, <1>2 DEF IsStretch
<1> QED BY <1>6, <1>7 DEF FreeSlots, Reserved

\* The pass that ends respects the calendar: it has used free slots only, and
\* what is free of a day is no more than its share.
LEMMA CalendarIsRespected ==
    ASSUME PassInv, WellFormed(input), SlotsFollow, SlotsRespect, SlotsDone,
           problem.slots = UniqueSlots
    PROVE  PlansRespectCalendar
<1> DEFINE busy == input.fixedEvents \cup input.protected
           used == UNION {a.slots : a \in allocations}
           open == {i \in DOMAIN problem.slots : \A b \in busy : ~Overlaps(problem.slots[i], b)}
           S == ToSet(slots)
<1>1. input.windows \in Calendars /\ busy \subseteq Spans
  BY DEF WellFormed
<1>2. ToSet(problem.slots) = S
  BY <1>1, UniqueSlotsIncrease
<1>3. /\ IsFiniteSet(S)
      /\ \A s \in S : s.start \in Int /\ s.end \in Int /\ s.start < s.end
      /\ \A s, t \in S : s.start = t.start => s = t
  BY <1>1, SlotsAreFinite
<1>4. \A s \in S : s.free => ~Reserved(s)
  BY DEF SlotsRespect, ToSet
<1>5. \A i \in DOMAIN problem.slots : problem.slots[i] \in S
  BY <1>2 DEF ToSet
<1>6. \A a \in allocations, b \in busy : ~Kept(a) => ~Overlaps(a, b)
  BY <1>1, <1>4, <1>5, StretchesAvoidBusy
<1>7. \A i \in used : i \in DOMAIN problem.slots /\ problem.slots[i].free
  <2>1. \A a \in allocations : a.slots \subseteq FreeSlots
    BY DEF PassInv, SInv, LedgerIsRight, Kept
  <2> QED BY <2>1 DEF FreeSlots
<1>8. ASSUME NEW day \in SlotDays
      PROVE  100 * MinutesOn(day, used) <= CapacityPercent * MinutesOn(day, open)
  <2> DEFINE U == {problem.slots[i] : i \in {n \in used : LocalDay(StartOf(n)) = day}}
             O == {problem.slots[i] : i \in {n \in open : LocalDay(StartOf(n)) = day}}
             F == {s \in S : s.free /\ LocalDay(s.start) = day}
             R == {slot \in ToSet(SplitSlots) : LocalDay(slot.start) = day /\ ~Reserved(slot)}
             g == [s \in S |-> [start |-> s.start, end |-> s.end]]
  <2>1. MinutesOn(day, used) = Minutes(U) /\ MinutesOn(day, open) = Minutes(O)
    BY DEF MinutesOn
  <2>2. U \in SUBSET F /\ F \in SUBSET S
    BY <1>5, <1>7 DEF StartOf
  <2>3. O = {s \in S : LocalDay(s.start) = day /\ ~Reserved(s)}
    <3>1. \A s \in S : \E i \in DOMAIN problem.slots : problem.slots[i] = s
      BY <1>2 DEF ToSet
    <3>2. \A i \in DOMAIN problem.slots : i \in open <=> ~Reserved(problem.slots[i])
      BY DEF Reserved
    <3> QED BY <1>5, <3>1, <3>2 DEF StartOf
  <2>4. Minutes(U) \in Nat /\ Minutes(F) \in Nat /\ Minutes(U) <= Minutes(F)
    <3>1. IsFiniteSet(F) /\ \A s \in F : s.start \in Int /\ s.end \in Int /\ s.start <= s.end
      BY <1>3, FS_Subset
    <3> HIDE DEF U, F
    <3> QED BY <2>2, <3>1, PartIsShorter
  <2>5. {g[s] : s \in O} = R
    <3>1. SplitSlots \in Seq(Spans) /\ DOMAIN slots = DOMAIN SplitSlots
      <4>1. SplitSlots \in Seq(Spans) /\ slots \in Seq(Slots)
        BY <1>1, SplitExclude DEF SlotsFollow
      <4> QED BY <4>1 DEF SlotsDone
    <3>2. \A i \in DOMAIN slots : SplitSlots[i] = g[slots[i]] /\ slots[i] \in S
      <4> TAKE i \in DOMAIN slots
      <4>1. SplitSlots[i] \in Spans
        BY <3>1, ElementsOf
      <4>2. SplitSlots[i] = [start |-> SplitSlots[i].start, end |-> SplitSlots[i].end]
        BY <4>1 DEF Spans
      <4>3. slots[i] \in S
        BY DEF ToSet
      <4> QED BY <4>2, <4>3 DEF SlotsFollow
    <3>3. \A s \in S : Reserved(g[s]) <=> Reserved(s)
      BY DEF Reserved, Overlaps
    <3>4. \A s \in S : g[s].start = s.start
      OBVIOUS
    <3> HIDE DEF g
    <3>5. R \subseteq {g[s] : s \in O}
      <4> SUFFICES ASSUME NEW r \in R PROVE \E s \in O : g[s] = r
        OBVIOUS
      <4>1. PICK i \in DOMAIN slots : r = SplitSlots[i]
        BY <3>1 DEF ToSet
      <4> QED BY <2>3, <3>2, <3>3, <3>4, <4>1
    <3>6. ASSUME NEW s \in O PROVE g[s] \in R
      <4>1. PICK i \in DOMAIN slots : s = slots[i]
        BY <2>3 DEF ToSet
      <4>2. g[s] \in ToSet(SplitSlots)
        BY <3>1, <3>2, <4>1 DEF ToSet
      <4> QED BY <2>3, <3>3, <3>4, <4>2
    <3> QED BY <3>5, <3>6
  <2>6. Minutes(R) = Minutes(O)
    <3>1. IsFiniteSet(O) /\ \A s \in O : s.start \in Int /\ s.end \in Int
      BY <1>3, <2>3, FS_Subset
    <3>2. \A s \in O : g[s].start = s.start /\ g[s].end = s.end
      BY <2>3
    <3>3. \A s, t \in O : g[s] = g[t] => s = t
      BY <1>3, <2>3, <3>2
    <3> HIDE DEF O, R, g
    <3> QED BY <2>5, <3>1, <3>2, <3>3, RenamedIntervals
  <2>7. RawFree(day) = Minutes(R)
    BY DEF RawFree
  <2>8. /\ PlannedCapacity(day) \in Nat
        /\ 100 * PlannedCapacity(day) <= CapacityPercent * RawFree(day)
    BY <1>1, CapacityIsTyped
  <2>9. capacityLeft[day] \in Nat /\ Minutes(F) + capacityLeft[day] = PlannedCapacity(day)
    BY DEF SlotsRespect, SlotsDone, FreeOn
  <2>10. CapacityPercent * RawFree(day) \in Int
    <3>1. RawFree(day) \in Nat
      BY <1>1, RawFreeIsTyped
    <3> QED BY <3>1, PlannerAssumption DEF PlannerAssumption
  <2> HIDE DEF U, O, F, R, g
  <2>11. 100 * Minutes(U) <= 100 * PlannedCapacity(day)
    BY <2>4, <2>8, <2>9
  <2> QED BY <2>1, <2>4, <2>6, <2>7, <2>8, <2>10, <2>11
<1> QED BY <1>6, <1>8 DEF PlansRespectCalendar
-----------------------------------------------------------------------------
\* The input, the calls to come and the earlier plan are well-formed.
InputIsProper ==
    /\ WellFormed(input)
    /\ PreallocatedIsPrior
    /\ revisions \in Seq(Revisions)
    /\ output.allocations \in PriorPlans

\* The allocations that are kept, as a pass books them.
Preallocated == {[job |-> a.job, start |-> a.start, end |-> a.end, slots |-> {}] :
                    a \in input.preallocated}

\* What a task waits for is over, and has had its time, when the task starts.
WaitsAreOver(A) ==
    \A a \in A : ~Kept(a) =>
        /\ a.start <= Never
        /\ \A p \in Gates(a.job) :
              /\ \A b \in A : b.job = p => b.end <= a.start
              /\ Need("base", p) <= Minutes({b \in A : b.job = p})

\* The problem of a pass has the slots, the gates and the needs of the input.
ProblemIsPosed ==
    phase \in Passes =>
        /\ problem.slots = UniqueSlots
        /\ problem.gates = [j \in Jobs |-> Gates(j)]
        /\ problem.need = [j \in Jobs |-> Need(phase, j)]

\* The plans that are recorded are sound; the base plan has what it was to
\* keep.
BaseKeeps ==
    /\ phase \in Passes \cup {"promoting", "done"} => problem.kept = input.preallocated
    /\ phase \in {"safety", "done"} =>
          /\ "base" \in DOMAIN plans
          /\ IsSound(plans["base"].allocations)
          /\ Preallocated \subseteq plans["base"].allocations
          /\ WaitsAreOver(plans["base"].allocations)
    /\ phase = "done" => IsSound(plans["safety"].allocations)

\* The invariant of a run of the passes: the slots respect the calendar, the
\* problem of a pass is that of the input, and the plans made are sound.
PlannerInv ==
    /\ phase \in Phases
    /\ SlotsFollow
    /\ SlotsRespect
    /\ phase # "slots" => SlotsDone
    /\ PassInv
    /\ ProblemIsPosed
    /\ BaseKeeps

\* A pass that is begun by the planner begins with the invariant.
LEMMA PassBegins ==
    ASSUME InputIsProper, PlannerInv, NEW pass, Begin(Problem(pass))
    PROVE  /\ PassInv'
           /\ problem'.kept = input.preallocated
           /\ problem'.slots = UniqueSlots
           /\ problem'.gates = [j \in Jobs |-> Gates(j)]
           /\ problem'.need = [j \in Jobs |-> Need(pass, j)]
<1>1. Problem(pass) \in Problems
  BY PassesAreWellFormed DEF InputIsProper, PlannerInv
<1>2. problem' \in Problems /\ free' = FreeAtFirst(problem')
      /\ allocations' = KeptAllocations(problem') /\ pending' = problem'.jobs
      /\ placed' = {} /\ unallocated' = {} /\ current' = NoJob
  BY <1>1 DEF Begin
<1>3. (problem \in Problems /\ free = FreeAtFirst(problem)
         /\ allocations = KeptAllocations(problem) /\ pending = problem.jobs
         /\ placed = {} /\ unallocated = {} /\ current = NoJob => PassInv)'
  BY PassStarts, PTL
<1>4. /\ problem'.kept = input.preallocated
      /\ problem'.slots = UniqueSlots
      /\ problem'.gates = [j \in Jobs |-> Gates(j)]
      /\ problem'.need = [j \in Jobs |-> Need(pass, j)]
  BY DEF Begin, Problem
<1> QED BY <1>2, <1>3, <1>4

\* What does not touch the pass keeps its invariant.
LEMMA PassIsKept == PassInv /\ UNCHANGED scheduleVars => PassInv'
BY NextPassInv

\* The slots are decided one after the other, and begun anew with a new run.
LEMMA SlotsStep ==
    ASSUME InputIsProper, SlotsFollow, SlotsNext, UNCHANGED input
    PROVE  SlotsFollow'
<1>1. SplitSlots' = SplitSlots
  BY DEF SplitSlots, SplitWindow
<1>2. SplitSlots \in Seq(Spans)
  BY SplitExclude DEF InputIsProper, WellFormed
<1>3. CASE MeasureDays
  <2>1. slots' = slots
    BY <1>3 DEF MeasureDays
  <2> QED BY <1>1, <2>1 DEF SlotsFollow
<1>4. CASE DecideSlot
  <2> DEFINE n == Len(slots)
             slot == SplitSlots[n + 1]
  <2>1. n < Len(SplitSlots) /\ n \in Nat /\ Len(SplitSlots) \in Nat
    BY <1>2, <1>4 DEF DecideSlot, SlotsFollow
  <2>2. slot \in Spans
    BY <1>2, <2>1, ElementsOf
  <2>3. PICK keep \in BOOLEAN :
            slots' = Append(slots, [start |-> slot.start, end |-> slot.end,
                                    day |-> UtcDay(slot.start), free |-> keep])
    BY <1>4 DEF DecideSlot
  <2> HIDE DEF n, slot
  <2> DEFINE e == [start |-> slot.start, end |-> slot.end, day |-> UtcDay(slot.start), free |-> keep]
  <2>4. UtcDay(slot.start) \in Int
    BY <2>2, InputAssumption DEF InputAssumption, UtcDay, Spans
  <2>5. e \in Slots /\ e.start = slot.start /\ e.end = slot.end
    BY <2>2, <2>3, <2>4 DEF Spans, Slots
  <2> HIDE DEF e
  <2>6. slots' = Append(slots, e) /\ slots \in Seq(Slots)
    BY <2>3 DEF e, SlotsFollow
  <2>7. /\ slots' \in Seq(Slots) /\ Len(slots') = n + 1
        /\ \A i \in DOMAIN slots' : \/ i \in DOMAIN slots /\ slots'[i] = slots[i]
                                    \/ i = n + 1 /\ slots'[i] = e
    BY <2>5, <2>6 DEF n
  <2>8. ASSUME NEW i \in DOMAIN slots'
        PROVE  slots'[i].start = SplitSlots[i].start /\ slots'[i].end = SplitSlots[i].end
    BY <2>5, <2>7 DEF SlotsFollow, slot
  <2> QED BY <1>1, <2>1, <2>7, <2>8 DEF SlotsFollow
<1> QED BY <1>3, <1>4 DEF SlotsNext

\* As long as there are no slots, they respect everything.
LEMMA NoSlotsYet ==
    ASSUME input.windows \in Calendars, slots = <<>>, capacityLeft = <<>>
    PROVE  SlotsFollow /\ SlotsRespect
<1>1. SplitSlots \in Seq(Spans)
  BY SplitExclude
<1>2. slots \in Seq(Slots) /\ Len(slots) = 0 /\ DOMAIN slots = {}
  OBVIOUS
<1>3. SlotsFollow
  BY <1>1, <1>2 DEF SlotsFollow
<1>4. DOMAIN capacityLeft = {}
  OBVIOUS
<1>5. SlotsRespect
  BY <1>2, <1>4 DEF SlotsRespect
<1> QED BY <1>3, <1>5

\* Nothing has been planned before the first pass, which is as good as an
\* empty one.
LEMMA NothingPlannedYet ==
    ASSUME problem = NoProblem, free = {}, allocations = {}, pending = {}, placed = {},
           unallocated = {}, current = NoJob
    PROVE  PassInv
<1>1. problem \in Problems
  <2>1. KeptApart({})
    BY FS_EmptySet DEF KeptApart
  <2>2. Increasing(<<>>)
    BY DEF Increasing
  <2>3. <<>> \in Seq(Slots)
    OBVIOUS
  <2>4. /\ problem \in [slots : Seq(Slots), jobs : SUBSET Jobs, need : [Jobs -> Int],
                       splittable : [Jobs -> BOOLEAN], minChunk : [Jobs -> Int],
                       startAfter : [Jobs -> Int], gates : [Jobs -> SUBSET Jobs],
                       rank : [Jobs -> Int], kept : SUBSET KeptBlocks]
        /\ problem.slots = <<>> /\ problem.kept = {}
    BY <2>3 DEF NoProblem
  <2> QED BY <2>1, <2>2, <2>4 DEF Problems
<1>2. FreeAtFirst(problem) = {} /\ KeptAllocations(problem) = {} /\ problem.jobs = {}
  BY DEF NoProblem, FreeAtFirst, KeptAllocations
<1> QED BY <1>1, <1>2, PassStarts
-----------------------------------------------------------------------------
\* Slots that are decided stay so as long as the input does.
LEMMA SlotsStay ==
    ASSUME UNCHANGED <<input, slotVars>>
    PROVE  /\ SlotsFollow' = SlotsFollow /\ SlotsRespect' = SlotsRespect
           /\ SlotsDone' = SlotsDone /\ UniqueSlots' = UniqueSlots
<1>1. slots' = slots /\ capacityLeft' = capacityLeft /\ input' = input
  BY DEF slotVars
<1>2. SplitSlots' = SplitSlots
  BY <1>1 DEF SplitSlots, SplitWindow
<1>3. SlotDays' = SlotDays
  BY <1>2 DEF SlotDays
<1>4. SlotsFollow' = SlotsFollow
  BY <1>1, <1>2 DEF SlotsFollow
<1>5. \A day : PlannedCapacity(day)' = PlannedCapacity(day) /\ FreeOn(day)' = FreeOn(day)
  BY <1>1, <1>2 DEF PlannedCapacity, RawFree, Reserved, FreeOn
<1>6. \A i : Reserved(slots[i])' = Reserved(slots[i])
  BY <1>1 DEF Reserved
<1>7. SlotsRespect' = SlotsRespect
  BY <1>1, <1>3, <1>5, <1>6 DEF SlotsRespect
<1>8. SlotsDone' = SlotsDone /\ UniqueSlots' = UniqueSlots
  BY <1>1, <1>2, <1>3 DEF SlotsDone, UniqueSlots
<1> QED BY <1>4, <1>7, <1>8

\* How the passes read the input does not change as long as it does not.
LEMMA ReadingsStay ==
    ASSUME UNCHANGED input
    PROVE  /\ \A j : Gates(j)' = Gates(j)
           /\ \A pass, j : Need(pass, j)' = Need(pass, j)
           /\ \A A : WaitsAreOver(A)' = WaitsAreOver(A)
<1>1. \A j : Gates(j)' = Gates(j)
  BY DEF Gates, Active
<1>2. \A pass, j : Need(pass, j)' = Need(pass, j)
  BY DEF Need, BufferMinutes, ReviewMinutes
<1>3. \A A : WaitsAreOver(A)' = WaitsAreOver(A)
  BY <1>1, <1>2 DEF WaitsAreOver
<1> QED BY <1>1, <1>2, <1>3

\* Steps that change neither the slots nor the input leave the problem as it is.
LEMMA ProblemStaysPosed ==
    ASSUME ProblemIsPosed, UNCHANGED <<input, phase, problem, slotVars>>
    PROVE  ProblemIsPosed'
<1>1. UniqueSlots' = UniqueSlots
  BY SlotsStay
<1>2. \A j : Gates(j)' = Gates(j) /\ Need(phase, j)' = Need(phase, j)
  BY ReadingsStay
<1> QED BY <1>1, <1>2 DEF ProblemIsPosed

\* When the base pass ends, all that was waited for is over.
LEMMA WaitsEnd ==
    ASSUME InputIsProper, PlannerInv, phase = "base"
    PROVE  WaitsAreOver(allocations)
<1> SUFFICES ASSUME NEW a \in allocations, ~Kept(a)
             PROVE  /\ a.start <= Never
                    /\ \A p \in Gates(a.job) :
                          /\ \A b \in allocations : b.job = p => b.end <= a.start
                          /\ Need("base", p) <= Minutes({b \in allocations : b.job = p})
  BY DEF WaitsAreOver
<1>1. /\ problem \in Problems /\ LedgerIsRight /\ PredecessorsFirst /\ PlacedHaveEnough
      /\ problem.slots = UniqueSlots
      /\ problem.gates = [j \in Jobs |-> Gates(j)]
      /\ problem.need = [j \in Jobs |-> Need("base", j)]
  BY DEF PlannerInv, PassInv, SInv, FillInv, ProblemIsPosed, Passes
<1>2. a.job \in Jobs
  BY <1>1 DEF LedgerIsRight
<1>3. a.start <= Never
  <2>1. PICK f \in DOMAIN problem.slots : a.start = StartOf(f)
    BY <1>1 DEF LedgerIsRight, FreeSlots, IsStretch
  <2>2. StartOf(f) \in Int /\ EndOf(f) \in Int /\ StartOf(f) < EndOf(f)
    BY <1>1, SlotsIncrease
  <2>3. EndOf(f) <= Never
    <3>1. input.windows \in Calendars /\ SlotsFollow
      BY DEF InputIsProper, WellFormed, PlannerInv
    <3>2. ToSet(UniqueSlots) = ToSet(slots) /\ \A s \in ToSet(slots) : s.end <= Never
      BY <3>1, UniqueSlotsIncrease, SlotsExclude
    <3>3. problem.slots[f] \in ToSet(UniqueSlots)
      BY <1>1 DEF ToSet
    <3> QED BY <3>2, <3>3 DEF EndOf
  <2> QED BY <2>1, <2>2, <2>3, InputAssumption DEF InputAssumption
<1>4. ASSUME NEW p \in Gates(a.job)
      PROVE  /\ \A b \in allocations : b.job = p => b.end <= a.start
             /\ Need("base", p) <= Minutes({b \in allocations : b.job = p})
  <2>1. p \in problem.gates[a.job] /\ p \in Jobs
    BY <1>1, <1>2, JobsAreFinite DEF Gates
  <2>2. p \in placed /\ \A b \in allocations : b.job = p => b.end <= a.start
    BY <1>1, <2>1 DEF PredecessorsFirst
  <2>3. problem.need[p] = Need("base", p)
    BY <1>1, <2>1
  <2> QED BY <1>1, <2>2, <2>3 DEF PlacedHaveEnough, MinutesOf, AllocationsOf
<1> QED BY <1>3, <1>4

\* When the base pass ends, its plan is sound and has what was to be kept.
LEMMA BaseIsRecorded ==
    ASSUME InputIsProper, PlannerInv, Record("base")
    PROVE  /\ "base" \in DOMAIN plans'
           /\ IsSound(plans'["base"].allocations)
           /\ Preallocated \subseteq plans'["base"].allocations
           /\ WaitsAreOver(plans'["base"].allocations)
<1>1. phase = "base" /\ plans' = [p \in DOMAIN plans \cup {"base"} |-> IF p = "base" THEN Result ELSE plans[p]]
  BY DEF Record
<1>2. plans'["base"].allocations = allocations /\ "base" \in DOMAIN plans'
  BY <1>1 DEF Result
<1>3. PassInv /\ problem.kept = input.preallocated
  BY <1>1 DEF PlannerInv, BaseKeeps, Passes
<1>4. IsSound(allocations)
  BY <1>3, AllocationsAreSound DEF PassInv, KeepsInv
<1>5. Preallocated \subseteq allocations
  BY <1>3 DEF PassInv, KeepsInv, KeptAllocations, Preallocated
<1>6. WaitsAreOver(allocations)
  BY <1>1, WaitsEnd
<1> QED BY <1>2, <1>4, <1>5, <1>6

\* The plan of the safety pass is sound, too.
LEMMA SafetyIsRecorded ==
    ASSUME PlannerInv, Record("safety")
    PROVE  IsSound(plans'["safety"].allocations)
<1>1. plans' = [p \in DOMAIN plans \cup {"safety"} |-> IF p = "safety" THEN Result ELSE plans[p]]
  BY DEF Record
<1>2. plans'["safety"].allocations = allocations
  BY <1>1 DEF Result
<1>3. IsSound(allocations)
  BY AllocationsAreSound DEF PlannerInv, PassInv, KeepsInv
<1> QED BY <1>2, <1>3

\* Every step of the passes keeps the invariant.
LEMMA PlannerStep ==
    InputIsProper /\ PlannerInv /\ [PlannerNext]_vars => PlannerInv' /\ UNCHANGED input
<1> SUFFICES ASSUME InputIsProper, PlannerInv, [PlannerNext]_vars
             PROVE  PlannerInv' /\ UNCHANGED input
  OBVIOUS
<1>0. /\ phase \in Phases /\ SlotsFollow /\ SlotsRespect /\ PassInv /\ BaseKeeps
      /\ phase # "slots" => SlotsDone
      /\ ProblemIsPosed
  BY DEF PlannerInv
<1>1. UNCHANGED input
  BY DEF PlannerNext, BuildSlots, SlotsBuilt, FindCycles, CyclesFound, ComputeTiming,
         StartProvisional, Schedule, Promote, StartBase, StartSafety, Deliver, vars
<1>2. Preallocated' = Preallocated
  BY <1>1 DEF Preallocated
<1>3. \A A : WaitsAreOver(A)' = WaitsAreOver(A)
  BY <1>1, ReadingsStay
<1>4. SlotsFollow' /\ SlotsRespect'
  <2>1. CASE BuildSlots
    <3>1. SlotsNext /\ input.windows \in Calendars
      BY <2>1 DEF BuildSlots, InputIsProper, WellFormed
    <3>2. SlotsFollow'
      BY <1>0, <1>1, <3>1, SlotsStep
    <3>3. SlotsRespect'
      BY <1>0, <1>1, <3>1, MeasureRespects, DecideRespects DEF SlotsNext
    <3> QED BY <3>2, <3>3
  <2>2. CASE ~BuildSlots
    <3>1. UNCHANGED slotVars
      BY <2>2 DEF PlannerNext, SlotsBuilt, FindCycles, CyclesFound, ComputeTiming,
                  StartProvisional, Schedule, Promote, StartBase, StartSafety, Deliver, vars
    <3> QED BY <1>0, <1>1, <3>1, SlotsStay
  <2> QED BY <2>1, <2>2
<1>5. CASE BuildSlots
  <2>1. phase = "slots" /\ phase' = phase /\ UNCHANGED scheduleVars
    BY <1>5 DEF BuildSlots
  <2>2. PassInv'
    BY <1>0, <2>1, PassIsKept
  <2> QED BY <1>0, <1>1, <1>4, <2>1, <2>2 DEF PlannerInv, BaseKeeps, ProblemIsPosed, Passes
<1>6. CASE SlotsBuilt \/ FindCycles \/ CyclesFound \/ ComputeTiming
  <2>1. /\ phase' \in {"cycles", "timing"} /\ UNCHANGED <<scheduleVars, slotVars>> /\ SlotsDone
    BY <1>0, <1>6 DEF SlotsBuilt, FindCycles, CyclesFound, ComputeTiming
  <2>2. PassInv'
    BY <1>0, <2>1, PassIsKept
  <2>3. SlotsDone'
    BY <1>1, <2>1, SlotsStay
  <2> QED BY <1>1, <1>4, <2>1, <2>2, <2>3 DEF PlannerInv, BaseKeeps, ProblemIsPosed, Passes, Phases
<1>7. CASE StartProvisional \/ StartBase
  <2>1. PICK pass \in {"provisional", "base"} : Begin(Problem(pass)) /\ phase' = pass
    BY <1>7 DEF StartProvisional, StartBase
  <2>2. phase # "slots" /\ UNCHANGED slotVars
    BY <1>7 DEF StartProvisional, StartBase
  <2>3. /\ PassInv' /\ problem'.kept = input.preallocated /\ problem'.slots = UniqueSlots
        /\ problem'.gates = [j \in Jobs |-> Gates(j)]
        /\ problem'.need = [j \in Jobs |-> Need(pass, j)]
    BY <2>1, PassBegins
  <2>4. BaseKeeps'
    BY <1>1, <2>1, <2>3 DEF BaseKeeps, Passes
  <2>5. SlotsDone' /\ UniqueSlots' = UniqueSlots
    BY <1>0, <1>1, <2>2, SlotsStay
  <2>6. ProblemIsPosed'
    BY <1>1, <2>1, <2>3, <2>5, ReadingsStay DEF ProblemIsPosed
  <2> QED BY <1>1, <1>4, <2>1, <2>3, <2>4, <2>5, <2>6 DEF PlannerInv, Phases, Passes
<1>8. CASE Schedule
  <2>1. phase \in Passes /\ phase' = phase /\ ScheduleNext /\ plans' = plans /\ UNCHANGED slotVars
    BY <1>8 DEF Schedule
  <2>2. PassInv'
    BY <1>0, <2>1, NextPassInv
  <2>3. problem' = problem
    BY <2>1 DEF ScheduleNext, Select, GiveUp, PlaceChunk, Again, Finish
  <2>4. BaseKeeps'
    BY <1>0, <1>1, <1>2, <1>3, <2>1, <2>3 DEF BaseKeeps, Passes
  <2>5. SlotsDone' = SlotsDone
    BY <1>1, <2>1, SlotsStay
  <2>6. ProblemIsPosed'
    BY <1>0, <1>1, <2>1, <2>3, ProblemStaysPosed
  <2> QED BY <1>0, <1>1, <1>4, <2>1, <2>2, <2>4, <2>5, <2>6 DEF PlannerInv
<1>9. CASE Promote
  <2>1. phase = "provisional" /\ phase' = "promoting" /\ UNCHANGED <<scheduleVars, slotVars>>
    BY <1>9 DEF Promote, Record
  <2>2. PassInv'
    BY <1>0, <2>1, PassIsKept
  <2>3. BaseKeeps'
    BY <1>0, <1>1, <2>1 DEF BaseKeeps, Passes, scheduleVars
  <2>4. SlotsDone'
    BY <1>0, <1>1, <2>1, SlotsStay
  <2> QED BY <1>1, <1>4, <2>1, <2>2, <2>3, <2>4 DEF PlannerInv, ProblemIsPosed, Phases, Passes
<1>10. CASE StartSafety
  <2>1. Record("base") /\ phase' = "safety" /\ Begin(Problem("safety")) /\ UNCHANGED slotVars
    BY <1>10 DEF StartSafety
  <2>2. /\ PassInv' /\ problem'.kept = input.preallocated /\ problem'.slots = UniqueSlots
        /\ problem'.gates = [j \in Jobs |-> Gates(j)]
        /\ problem'.need = [j \in Jobs |-> Need("safety", j)]
    BY <2>1, PassBegins
  <2>3. BaseKeeps'
    BY <1>1, <1>2, <1>3, <2>1, <2>2, BaseIsRecorded DEF BaseKeeps
  <2>4. SlotsDone' /\ UniqueSlots' = UniqueSlots
    BY <1>0, <1>1, <2>1, SlotsStay DEF Record
  <2>5. ProblemIsPosed'
    BY <1>1, <2>1, <2>2, <2>4, ReadingsStay DEF ProblemIsPosed
  <2> QED BY <1>1, <1>4, <2>1, <2>2, <2>3, <2>4, <2>5 DEF PlannerInv, Phases, Passes
<1>11. CASE Deliver
  <2>1. /\ Record("safety") /\ phase = "safety" /\ phase' = "done"
        /\ UNCHANGED <<scheduleVars, slotVars>>
    BY <1>11 DEF Deliver, Record
  <2>2. PassInv'
    BY <1>0, <2>1, PassIsKept
  <2>3. "base" \in DOMAIN plans' /\ plans'["base"] = plans["base"]
    BY <1>0, <2>1 DEF Record, BaseKeeps
  <2>4. problem' = problem
    BY <2>1 DEF scheduleVars
  <2>5. BaseKeeps'
    <3>1. IsSound(plans'["safety"].allocations)
      BY <2>1, SafetyIsRecorded
    <3> QED BY <1>0, <1>1, <1>2, <1>3, <2>1, <2>3, <2>4, <3>1 DEF BaseKeeps, Passes
  <2>6. SlotsDone'
    BY <1>0, <1>1, <2>1, SlotsStay
  <2> QED BY <1>1, <1>4, <2>1, <2>2, <2>5, <2>6 DEF PlannerInv, ProblemIsPosed, Phases, Passes
<1>12. CASE UNCHANGED vars
  <2>1. UNCHANGED <<phase, plans, problem>> /\ UNCHANGED scheduleVars /\ UNCHANGED slotVars
    BY <1>12 DEF vars, scheduleVars
  <2>2. PassInv'
    BY <1>0, <2>1, PassIsKept
  <2>3. BaseKeeps'
    BY <1>0, <1>1, <1>2, <1>3, <2>1 DEF BaseKeeps
  <2>4. SlotsDone' = SlotsDone
    BY <1>1, <2>1, SlotsStay
  <2>5. ProblemIsPosed'
    BY <1>0, <1>1, <2>1, ProblemStaysPosed
  <2> QED BY <1>0, <1>1, <1>4, <2>1, <2>2, <2>3, <2>4, <2>5 DEF PlannerInv
<1> QED BY <1>1, <1>5, <1>6, <1>7, <1>8, <1>9, <1>10, <1>11, <1>12 DEF PlannerNext
-----------------------------------------------------------------------------
\* What is said of a plan does not change as long as the input and the plan do not.
LEMMA ViewStays ==
    ASSUME UNCHANGED <<input, plans>>
    PROVE  /\ \A pass, j, limit : FinishedBy(pass, j, limit)' = FinishedBy(pass, j, limit)
           /\ \A pass : NothingInExcess(pass)' = NothingInExcess(pass)
           /\ \A m : Members(m)' = Members(m) /\ BuffersOf(m)' = BuffersOf(m) /\ Limit(m)' = Limit(m)
           /\ \A t : /\ FreshToday(t)' = FreshToday(t) /\ StartKey(t)' = StartKey(t)
                     /\ Gates(t)' = Gates(t)
<1>1. \A pass, j : Need(pass, j)' = Need(pass, j)
  BY ReadingsStay
<1>2. \A pass, j, limit : FinishedBy(pass, j, limit)' = FinishedBy(pass, j, limit)
  BY <1>1 DEF FinishedBy, ChunksBy
<1>3. \A m : Members(m)' = Members(m) /\ BuffersOf(m)' = BuffersOf(m) /\ Limit(m)' = Limit(m)
  BY DEF Members, BuffersOf, Limit, Active, Buffered, BufferMinutes, ReviewMinutes
<1>4. JobsToPlan' = JobsToPlan
  BY <1>3 DEF JobsToPlan, Active
<1>5. \A pass : NothingInExcess(pass)' = NothingInExcess(pass)
  BY <1>1, <1>4 DEF NothingInExcess
<1>6. \A t : FreshToday(t)' = FreshToday(t)
  BY DEF FreshToday, AllocatedToday, LocalDay
<1>7. \A t : StartKey(t)' = StartKey(t)
  BY DEF StartKey
<1>8. \A t : Gates(t)' = Gates(t)
  BY ReadingsStay
<1> QED BY <1>2, <1>3, <1>5, <1>6, <1>7, <1>8

\* The buffers of a milestone are buffers of no other one and no tasks.
LEMMA BuffersAreOwn ==
    ASSUME NEW m \in Milestones, NEW b \in BuffersOf(m)
    PROVE  /\ b \in BufferTasks /\ b \notin Tasks
           /\ b \in JobsToPlan
           /\ \A pass : Need(pass, b) = BufferMinutes(b, m)
<1>1. b \in {Review[m], Submission[m]}
  BY DEF BuffersOf
<1>2. b \in BufferTasks /\ b \notin Tasks
  BY <1>1, PlannerAssumption DEF BufferTasks, PlannerAssumption
<1>3. MilestoneOf(b) = m
  BY <1>1, PlannerAssumption DEF MilestoneOf, PlannerAssumption
<1>4. \A pass : Need(pass, b) = BufferMinutes(b, m)
  BY <1>2, <1>3 DEF Need
<1> QED BY <1>2, <1>4 DEF JobsToPlan

\* If no job has more time than it needs, the time of some jobs in chunks that
\* end by the limit is no more than what they all need, and if it is that
\* much, then each of them is finished by the limit.
LEMMA EnoughByTheLimit ==
    ASSUME NEW pass, IsSound(plans[pass].allocations), NothingInExcess(pass),
           NEW S, IsFiniteSet(S), S \subseteq JobsToPlan,
           NEW w, \A j \in S : w[j] = Need(pass, j) /\ w[j] \in Int,
           NEW limit \in Int
    PROVE  LET demand == SumFunctionOnSet(w, S)
           IN  /\ demand \in Int /\ MinutesBy(pass, S, limit) \in Int
               /\ MinutesBy(pass, S, limit) <= demand
               /\ MinutesBy(pass, S, limit) >= demand =>
                     \A j \in S : FinishedBy(pass, j, limit)
<1> DEFINE A == plans[pass].allocations
           D == {a \in A : a.end <= limit}
<1>1. /\ IsFiniteSet(A)
      /\ \A a \in A : a.start \in Int /\ a.end \in Int /\ a.start < a.end
  BY DEF IsSound
<1>2. \A j \in S : Minutes({a \in A : a.job = j}) <= w[j]
  BY DEF NothingInExcess
<1> HIDE DEF A
<1>3. \A a \in A : a.start \in Int /\ a.end \in Int /\ a.start <= a.end
  BY <1>1
<1>4. \A B \in SUBSET A : IsFiniteSet(B) /\ Minutes(B) \in Int
  BY <1>1, <1>3, FS_Subset, SumsAreTyped
<1>5. ASSUME NEW j \in S PROVE Minutes({a \in D : a.job = j}) <= w[j]
  <2> DEFINE Of == {a \in A : a.job = j}
             By == {a \in D : a.job = j}
  <2>1. IsFiniteSet(Of) /\ By \in SUBSET Of /\ Of \in SUBSET A /\ By \in SUBSET A
    BY <1>4
  <2>2. \A a \in Of : a.start \in Int /\ a.end \in Int /\ a.start <= a.end
    BY <1>3
  <2> HIDE DEF Of, By
  <2>3. Minutes(By) <= Minutes(Of)
    BY <2>1, <2>2, PartIsShorter
  <2>4. Minutes(Of) <= w[j] /\ w[j] \in Int
    BY <1>2 DEF Of
  <2>5. Minutes(By) \in Int /\ Minutes(Of) \in Int
    BY <1>4, <2>1
  <2>6. Minutes(By) <= w[j]
    BY <2>3, <2>4, <2>5
  <2> QED BY <2>6 DEF By
<1>6. IsFiniteSet(D) /\ \A a \in D : a.start \in Int /\ a.end \in Int
  BY <1>3, <1>4
<1>7. PICK F : IsSum(F, w, S) /\ SumFunctionOnSet(w, S) = F[S]
  BY FunctionSums
<1>8. \A j \in S : w[j] \in Int
  OBVIOUS
<1> DEFINE All == {a \in D : a.job \in S}
           By(j) == {a \in D : a.job = j}
<1>9. /\ F[S] \in Int /\ Minutes(All) <= F[S]
      /\ Minutes(All) >= F[S] => \A j \in S : Minutes(By(j)) >= w[j]
  <2> HIDE DEF D
  <2> QED BY <1>5, <1>6, <1>7, <1>8, EnoughInAll
<1>10. /\ All = {a \in A : a.job \in S /\ a.end <= limit}
       /\ \A j : By(j) = {a \in A : a.job = j /\ a.end <= limit}
  OBVIOUS
<1>11. MinutesBy(pass, S, limit) = Minutes(All)
  BY <1>10 DEF MinutesBy, A
<1>12. \A j : ChunksBy(pass, j, limit) = By(j)
  BY <1>10 DEF ChunksBy, A
<1>13. Minutes(All) \in Int
  BY <1>4
<1> HIDE DEF All, By
<1>14. Minutes(All) >= F[S] => \A j \in S : FinishedBy(pass, j, limit)
  BY <1>9, <1>12 DEF FinishedBy
<1> QED BY <1>7, <1>9, <1>11, <1>13, <1>14

\* A milestone that is not at risk has all that it needs before its deadline.
LEMMA RisksAreHonest ==
    ASSUME WellFormed(input), NEW m \in Milestones, RiskLevel(m) \in {"LOW", "MEDIUM"},
           Limit(m) \in Int,
           IsSound(plans["base"].allocations), IsSound(plans["safety"].allocations),
           NothingInExcess("base"), NothingInExcess("safety")
    PROVE  /\ \A t \in Members(m) : FinishedBy("base", t, Limit(m))
           /\ \A j \in Members(m) \cup BuffersOf(m) : FinishedBy("safety", j, Limit(m))
<1> DEFINE S == Members(m)
           B == BuffersOf(m)
           by == Limit(m)
           v == [b \in B |-> BufferMinutes(b, m)]
<1>1. BaseCovered(m) /\ SafetyCovered(m)
  BY DEF RiskLevel
<1>2. S \subseteq Tasks /\ S \subseteq JobsToPlan /\ IsFiniteSet(S)
  <2>1. S \subseteq Active /\ Active \subseteq Tasks
    BY DEF Members, Active
  <2> QED BY <2>1, FS_Subset, InputAssumption DEF InputAssumption, JobsToPlan
<1>3. B \subseteq JobsToPlan /\ IsFiniteSet(B) /\ \A b \in B : b \notin Tasks
  <2>1. B \subseteq {Review[m], Submission[m]}
    BY DEF BuffersOf
  <2>2. IsFiniteSet({Review[m], Submission[m]})
    <3>1. IsFiniteSet({Review[m]})
      BY FS_Singleton
    <3>2. IsFiniteSet({Review[m]} \cup {Submission[m]})
      BY <3>1, FS_AddElement
    <3>3. {Review[m], Submission[m]} = {Review[m]} \cup {Submission[m]}
      OBVIOUS
    <3> QED BY <3>2, <3>3
  <2>3. IsFiniteSet(B)
    BY <2>1, <2>2, FS_Subset
  <2> QED BY <2>3, BuffersAreOwn
<1>4. /\ \A t \in S : input.remainingBase[t] \in Int /\ input.remainingSafety[t] \in Int
      /\ input.buffer[m] \in Int
  <2>1. /\ input.remainingBase \in [Tasks -> Int] /\ input.remainingSafety \in [Tasks -> Int]
        /\ input.buffer \in [Milestones -> Int]
    BY DEF WellFormed
  <2> QED BY <1>2, <2>1
<1>5. \A t \in S : /\ Need("base", t) = input.remainingBase[t]
                   /\ Need("safety", t) = input.remainingSafety[t]
  <2>1. \A t \in S : t \notin BufferTasks
    BY <1>2, PlannerAssumption DEF PlannerAssumption
  <2> QED BY <2>1 DEF Need
<1>6. \A b \in B : v[b] = Need("safety", b) /\ v[b] \in Int
  <2>1. \A b \in B : Need("safety", b) = BufferMinutes(b, m)
    BY BuffersAreOwn
  <2>2. \A b : BufferMinutes(b, m) \in Int
    BY <1>4 DEF BufferMinutes, ReviewMinutes
  <2> QED BY <2>1, <2>2
<1>7. BufferDemand(m) = SumFunctionOnSet(v, B)
  BY DEF BufferDemand
<1>8. MinutesBy("safety", S \cup B, by) = MinutesBy("safety", S, by) + MinutesBy("safety", B, by)
  <2> DEFINE A == plans["safety"].allocations
             Both == {a \in A : a.job \in S \cup B /\ a.end <= by}
             Mine == {a \in A : a.job \in S /\ a.end <= by}
  <2>1. Mine \in SUBSET Both /\ Both \ Mine = {a \in A : a.job \in B /\ a.end <= by}
    BY <1>2, <1>3
  <2>2. IsFiniteSet(Both) /\ \A a \in Both : a.start \in Int /\ a.end \in Int
    BY FS_Subset DEF IsSound
  <2>3. Minutes(Both) = Minutes(Mine) + Minutes(Both \ Mine)
    <3> HIDE DEF Both, Mine
    <3> QED BY <2>1, <2>2, MinutesOfBoth
  <2> QED BY <2>1, <2>3 DEF MinutesBy
<1> HIDE DEF S, B, by, v
<1>9. /\ SumFunctionOnSet(input.remainingBase, S) \in Int
      /\ MinutesBy("base", S, by) >= SumFunctionOnSet(input.remainingBase, S) =>
            \A j \in S : FinishedBy("base", j, by)
  BY <1>2, <1>4, <1>5, EnoughByTheLimit DEF by
<1>10. /\ SumFunctionOnSet(input.remainingSafety, S) \in Int /\ MinutesBy("safety", S, by) \in Int
       /\ MinutesBy("safety", S, by) <= SumFunctionOnSet(input.remainingSafety, S)
       /\ MinutesBy("safety", S, by) >= SumFunctionOnSet(input.remainingSafety, S) =>
             \A j \in S : FinishedBy("safety", j, by)
  BY <1>2, <1>4, <1>5, EnoughByTheLimit DEF by
<1>11. /\ SumFunctionOnSet(v, B) \in Int /\ MinutesBy("safety", B, by) \in Int
       /\ MinutesBy("safety", B, by) <= SumFunctionOnSet(v, B)
       /\ MinutesBy("safety", B, by) >= SumFunctionOnSet(v, B) =>
             \A j \in B : FinishedBy("safety", j, by)
  BY <1>3, <1>6, EnoughByTheLimit DEF by
<1>12. MinutesBy("base", S, by) >= SumFunctionOnSet(input.remainingBase, S)
  BY <1>1 DEF BaseCovered, BaseDemand, S, by
<1>13. MinutesBy("safety", S \cup B, by) >= SumFunctionOnSet(input.remainingSafety, S) + SumFunctionOnSet(v, B)
  BY <1>1, <1>7 DEF SafetyCovered, SafetyDemand, S, B, by
<1>14. /\ MinutesBy("safety", S, by) >= SumFunctionOnSet(input.remainingSafety, S)
       /\ MinutesBy("safety", B, by) >= SumFunctionOnSet(v, B)
  BY <1>8, <1>10, <1>11, <1>13
<1>15. /\ \A t \in S : FinishedBy("base", t, by)
       /\ \A j \in S \cup B : FinishedBy("safety", j, by)
  BY <1>9, <1>10, <1>11, <1>12, <1>14
<1> QED BY <1>15 DEF S, B, by
-----------------------------------------------------------------------------
\* A task is started when the first of its new chunks is, if it has one.
LEMMA StartsAreLeast ==
    ASSUME IsSound(plans["base"].allocations), NEW t
    PROVE  LET new == {b \in plans["base"].allocations : b.job = t /\ ~Kept(b)}
           IN  /\ StartKey(t) \in Int
               /\ StartKey(t) = Never \/ \E a \in new : a.start = StartKey(t)
               /\ \A a \in new : StartKey(t) <= a.start
<1> DEFINE new == {b \in plans["base"].allocations : b.job = t /\ ~Kept(b)}
           first == [a \in new |-> a.start]
           starts == {first[a] : a \in new}
           K == {Never} \cup starts
<1>1. IsFiniteSet(new) /\ \A a \in new : a.start \in Int
  BY FS_Subset DEF IsSound
<1>2. \A a \in new : first[a] = a.start
  OBVIOUS
<1>3. starts = {a.start : a \in new}
  BY <1>2
<1>4. StartKey(t) = Min(K)
  BY <1>3 DEF StartKey
<1>5. new \subseteq DOMAIN first
  OBVIOUS
<1> HIDE DEF new, first
<1>6. IsFiniteSet(starts)
  BY <1>1, <1>5, ImageIsFinite
<1>7. IsFiniteSet(K)
  <2>1. IsFiniteSet(starts \cup {Never})
    BY <1>6, FS_AddElement
  <2>2. K = starts \cup {Never}
    OBVIOUS
  <2> QED BY <2>1, <2>2
<1>8. \A x \in K : x \in Int
  BY <1>1, <1>2, InputAssumption DEF InputAssumption
<1>9. Min(K) \in K /\ \A x \in K : Min(K) <= x
  <2>1. K # {}
    OBVIOUS
  <2> HIDE DEF K
  <2> QED BY <1>7, <1>8, <2>1, LeastOfFinite
<1>10. \A a \in new : a.start \in K
  BY <1>2
<1>11. StartKey(t) = Never \/ \E a \in new : a.start = StartKey(t)
  BY <1>2, <1>4, <1>9
<1>12. StartKey(t) \in Int /\ \A a \in new : StartKey(t) <= a.start
  BY <1>4, <1>8, <1>9, <1>10
<1> QED BY <1>11, <1>12 DEF new

\* What must be done today is listed by the times at which it is started.
LEMMA TodayIsSorted ==
    ASSUME IsSound(plans["base"].allocations)
    PROVE  /\ \A i \in DOMAIN MustDo : MustDo[i] \in DoneToday
           /\ \A i \in DOMAIN MustDo : \A k \in 1 .. i - 1 :
                 StartKey(MustDo[k]) <= StartKey(MustDo[i])
<1> DEFINE A == DoneToday
           B == [t \in A |-> {s \in A : StartsBefore(s, t)}]
           rank(t) == Cardinality({s \in A : StartsBefore(s, t)})
           n == Min({MustDoLimit, Cardinality(A)})
           At(i) == CHOOSE t \in A : rank(t) = i - 1
<1>1. \A t : StartKey(t) \in Int
  BY StartsAreLeast
<1>2. IsFiniteSet(A) /\ \A t \in A : t \in Nat
  <2>1. A \subseteq Tasks
    BY DEF DoneToday, Active
  <2> QED BY <2>1, FS_Subset, InputAssumption DEF InputAssumption
<1>3. \A t \in A : rank(t) = Cardinality(B[t])
  OBVIOUS
<1>4. B \in [A -> SUBSET A]
  OBVIOUS
<1> DEFINE before(s, t) == StartKey(s) < StartKey(t) \/ (StartKey(s) = StartKey(t) /\ s < t)
<1>5. \A s, t \in A : s \in B[t] <=> before(s, t)
  BY DEF StartsBefore
<1> HIDE DEF A, B
<1>6. \A t \in A : t \notin B[t]
  BY <1>1, <1>2, <1>5
<1>7. \A s, t \in A : s # t => \/ s \in B[t] /\ B[s] \subseteq B[t]
                               \/ t \in B[s] /\ B[t] \subseteq B[s]
  <2> SUFFICES ASSUME NEW s \in A, NEW t \in A, before(s, t)
               PROVE  s \in B[t] /\ B[s] \subseteq B[t]
    <3>1. \A s, t \in A : s # t => before(s, t) \/ before(t, s)
      BY <1>1, <1>2
    <3> HIDE DEF before
    <3> QED BY <3>1
  <2>1. \A u \in B[s] : u \in A /\ before(u, s)
    BY <1>4, <1>5
  <2>2. \A u \in B[s] : u \in A /\ before(u, t)
    BY <1>1, <1>2, <2>1
  <2> HIDE DEF before
  <2> QED BY <1>5, <2>2
<1>8. /\ Cardinality(A) \in Nat
      /\ \A a, b \in A : a \in B[b] => Cardinality(B[a]) < Cardinality(B[b])
      /\ \A k \in 0 .. Cardinality(A) - 1 : \E a \in A : Cardinality(B[a]) = k
  BY <1>2, <1>4, <1>6, <1>7, RanksAreExact
<1>9. n \in Nat /\ n <= Cardinality(A)
  <2>1. MustDoLimit \in Nat
    BY TodayAssumption DEF TodayAssumption
  <2>2. IsFiniteSet({MustDoLimit} \cup {Cardinality(A)})
    <3>1. IsFiniteSet({MustDoLimit})
      BY FS_Singleton
    <3> QED BY <3>1, FS_AddElement
  <2> DEFINE K == {MustDoLimit, Cardinality(A)}
  <2>3. K = {MustDoLimit} \cup {Cardinality(A)} /\ K # {} /\ \A x \in K : x \in Int
    BY <1>8, <2>1
  <2>4. IsFiniteSet(K)
    BY <2>2, <2>3
  <2>5. Min(K) \in K /\ \A x \in K : Min(K) <= x
    <3> HIDE DEF K
    <3> QED BY <2>3, <2>4, LeastOfFinite
  <2> QED BY <1>8, <2>1, <2>5
<1>10. MustDo = [i \in 1 .. n |-> At(i)]
  BY DEF MustDo, A
<1> HIDE DEF n
<1>11. \A i \in 1 .. n : At(i) \in A /\ rank(At(i)) = i - 1
  <2> TAKE i \in 1 .. n
  <2>1. i - 1 \in 0 .. Cardinality(A) - 1
    BY <1>8, <1>9
  <2>2. \E t \in A : rank(t) = i - 1
    <3>1. PICK t \in A : Cardinality(B[t]) = i - 1
      BY <1>8, <2>1
    <3> QED BY <1>3, <3>1
  <2> HIDE DEF rank
  <2> QED BY <2>2
<1> HIDE DEF At, rank
<1>12. DOMAIN MustDo = 1 .. n /\ \A i \in 1 .. n : MustDo[i] \in A /\ rank(MustDo[i]) = i - 1
  BY <1>10, <1>11
<1>13. ASSUME NEW i \in 1 .. n, NEW k \in 1 .. i - 1
       PROVE  StartKey(MustDo[k]) <= StartKey(MustDo[i])
  <2>1. k \in 1 .. n /\ k < i
    BY <1>9
  <2>2. MustDo[i] \notin B[MustDo[k]]
    <3>1. /\ MustDo[i] \in A /\ Cardinality(B[MustDo[i]]) = i - 1
          /\ MustDo[k] \in A /\ Cardinality(B[MustDo[k]]) = k - 1
      BY <1>3, <1>12, <2>1
    <3>2. ~(i - 1 < k - 1)
      BY <2>1, <1>9
    <3> QED BY <1>8, <3>1, <3>2
  <2>3. ~before(MustDo[i], MustDo[k])
    BY <1>5, <1>12, <2>1, <2>2
  <2> QED BY <1>1, <2>3
<1>14. \A i \in DOMAIN MustDo : MustDo[i] \in A
  BY <1>12
<1>15. \A i \in DOMAIN MustDo : \A k \in 1 .. i - 1 : StartKey(MustDo[k]) <= StartKey(MustDo[i])
  BY <1>12, <1>13
<1> QED BY <1>14, <1>15 DEF A

\* A task on today's list that is not kept starts when what it waits for has
\* had all its time.
LEMMA TodayIsReady ==
    ASSUME IsSound(plans["base"].allocations), WaitsAreOver(plans["base"].allocations),
           NEW t \in DoneToday, FreshToday(t), NEW p \in Gates(t)
    PROVE  FinishedBy("base", p, StartKey(t))
<1> DEFINE A == plans["base"].allocations
           new == {b \in A : b.job = t /\ ~Kept(b)}
<1>1. AllocatedToday(t) # {}
  <2>1. Minutes(AllocatedToday(t)) > 0
    BY DEF DoneToday, MinutesToday
  <2> QED BY <2>1, NoMinutes
<1>2. PICK a \in new : TRUE
  BY <1>1 DEF FreshToday, AllocatedToday
<1>3. /\ StartKey(t) \in Int
      /\ StartKey(t) = Never \/ \E c \in new : c.start = StartKey(t)
      /\ \A c \in new : StartKey(t) <= c.start
  BY StartsAreLeast
<1>4. a.start <= Never /\ a.start \in Int /\ Never \in Int
  BY <1>2, InputAssumption DEF WaitsAreOver, IsSound, InputAssumption
<1>5. PICK c \in new : c.start = StartKey(t)
  BY <1>2, <1>3, <1>4
<1>6. /\ \A b \in A : b.job = p => b.end <= StartKey(t)
      /\ Need("base", p) <= Minutes({b \in A : b.job = p})
  BY <1>5 DEF WaitsAreOver
<1>7. ChunksBy("base", p, StartKey(t)) = {b \in A : b.job = p}
  BY <1>6 DEF ChunksBy
<1>8. Minutes(ChunksBy("base", p, StartKey(t))) >= Need("base", p)
  <2>1. Need("base", p) <= Minutes(ChunksBy("base", p, StartKey(t)))
    BY <1>6, <1>7
  <2> QED BY <2>1
<1> QED BY <1>8 DEF FinishedBy
-----------------------------------------------------------------------------
\* An input for another run differs only in what is reserved.
LEMMA RunInput ==
    ASSUME DOMAIN input = InputFields, NEW A, NEW B,
           input' = [input EXCEPT !.protected = A, !.preallocated = B]
    PROVE  /\ DOMAIN input' = InputFields
           /\ input'["preallocated"] = B /\ input'["protected"] = A
           /\ \A f \in InputFields \ {"protected", "preallocated"} : input'[f] = input[f]
BY DEF InputFields

\* A revised input has the fields of the revision.
LEMMA RevisedInput ==
    ASSUME WellFormed(input), NEW r, NEW k, k = Revised(r)
    PROVE  /\ DOMAIN k = InputFields
           /\ k["preallocated"] = {}
           /\ k["priorPlan"] = output.allocations
           /\ k["windows"] = r.windows
           /\ k["finished"] = [t \in Tasks |-> input.finished[t] \/ t \in r.finished]
           /\ k["remainingBase"] = [t \in Tasks |-> IF t \in r.finished THEN 0 ELSE input.remainingBase[t]]
           /\ k["remainingSafety"] = [t \in Tasks |-> IF t \in r.finished THEN 0 ELSE input.remainingSafety[t]]
           /\ k["protected"] = {}
           /\ \A f \in {"limit", "buffer", "minChunk", "startAfter", "splittable", "fixedEvents",
                      "blocksStart", "blocksCompletion", "milestone", "deadline", "safety"} :
                 k[f] = input[f]
BY DEF Revised, InputFields, WellFormed

\* The invariant of the calls.
CallInv ==
    /\ InputIsProper
    /\ PlannerInv
    /\ stage = "kept" => input.preallocated = ProtectedPrior
    /\ stage = "selected" => phase = "done" /\ Proposals = {}
    /\ ProtectedStay
    /\ RiskIsHonest
    /\ TodayIsDoable

\* Calls start without slots and without plans; the last pass is left alone.
LEMMA CleanStart ==
    ASSUME PlannerInv, UNCHANGED scheduleVars,
           phase' = "slots", slots' = <<>>, capacityLeft' = <<>>, input'.windows \in Calendars
    PROVE  PlannerInv'
<1>1. SlotsFollow' /\ SlotsRespect'
  <2>1. (input.windows \in Calendars /\ slots = <<>> /\ capacityLeft = <<>>
           => SlotsFollow /\ SlotsRespect)'
    BY NoSlotsYet, PTL
  <2> QED BY <2>1
<1>2. PassInv'
  BY PassIsKept DEF PlannerInv
<1>3. BaseKeeps'
  BY DEF BaseKeeps, Passes
<1>4. ProblemIsPosed'
  BY DEF ProblemIsPosed, Passes
<1> QED BY <1>1, <1>2, <1>3, <1>4 DEF PlannerInv, Phases, Passes

\* Starting the passes again, with some of the earlier allocations kept.
LEMMA RunStarts ==
    ASSUME CallInv, NEW s, NEW A, A \subseteq Spans,
           NEW B, B \subseteq ToSet(input.priorPlan), Run(s, A, B)
    PROVE  /\ InputIsProper' /\ PlannerInv'
           /\ ProtectedPrior' = ProtectedPrior
           /\ input'.preallocated = B
           /\ stage' = s
<1>1. WellFormed(input) /\ DOMAIN input = InputFields
  BY DEF CallInv, InputIsProper, WellFormed
<1>2. /\ DOMAIN input' = InputFields
      /\ input'["preallocated"] = B /\ input'["protected"] = A
      /\ \A f \in InputFields \ {"protected", "preallocated"} : input'[f] = input[f]
  <2>1. input' = [input EXCEPT !.protected = A, !.preallocated = B]
    BY DEF Run
  <2> QED BY <1>1, <2>1, RunInput
<1>3. /\ input'.finished = input.finished /\ input'.buffer = input.buffer /\ input'.limit = input.limit
      /\ input'.blocksStart = input.blocksStart /\ input'.blocksCompletion = input.blocksCompletion
      /\ input'.milestone = input.milestone /\ input'.deadline = input.deadline
      /\ input'.safety = input.safety
      /\ input'.remainingBase = input.remainingBase
      /\ input'.remainingSafety = input.remainingSafety
      /\ input'.minChunk = input.minChunk /\ input'.startAfter = input.startAfter
      /\ input'.splittable = input.splittable
      /\ input'.windows = input.windows /\ input'.priorPlan = input.priorPlan
      /\ input'.pinned = input.pinned /\ input'.now = input.now
      /\ input'.fixedEvents = input.fixedEvents
      /\ input'.preallocated = B /\ input'.protected = A
  BY <1>2 DEF InputFields
<1>4. WellFormed(input)'
  BY <1>1, <1>2, <1>3 DEF WellFormed
<1>5. UNCHANGED <<revisions, output>> /\ UNCHANGED scheduleVars
      /\ phase' = "slots" /\ slots' = <<>> /\ capacityLeft' = <<>> /\ stage' = s
  BY DEF Run
<1>6. InputIsProper'
  BY <1>3, <1>4, <1>5 DEF CallInv, InputIsProper, PreallocatedIsPrior
<1>7. PlannerInv'
  BY <1>1, <1>3, <1>5, CleanStart DEF CallInv, WellFormed
<1>8. ProtectedPrior' = ProtectedPrior
  BY <1>3 DEF ProtectedPrior, Protected, Frozen
<1> QED BY <1>3, <1>5, <1>6, <1>7, <1>8

\* A call that is validated begins with the passes around the earlier plan, or is
\* rejected.
LEMMA ValidateStep == CallInv /\ Validate => CallInv'
<1> SUFFICES ASSUME CallInv, Validate PROVE CallInv'
  OBVIOUS
<1>1. CASE Violations = {}
  <2>1. Run("before", {[start |-> a.start, end |-> a.end] : a \in ToSet(input.priorPlan)}, {})
    BY <1>1 DEF Validate
  <2>2. {[start |-> a.start, end |-> a.end] : a \in ToSet(input.priorPlan)} \subseteq Spans
    <3>1. input.priorPlan \in Seq(KeptBlocks) /\ KeptApart(ToSet(input.priorPlan))
      BY DEF CallInv, InputIsProper, WellFormed, PriorPlans
    <3>2. \A a \in ToSet(input.priorPlan) : a \in KeptBlocks
      BY <3>1, ElementsOf DEF ToSet
    <3>3. \A a \in ToSet(input.priorPlan) : a.start \in Int /\ a.end \in Int
      BY <3>2 DEF KeptBlocks
    <3> QED BY <3>1, <3>3 DEF KeptApart, Spans
  <2>3. InputIsProper' /\ PlannerInv' /\ stage' = "before"
    BY <2>1, <2>2, RunStarts
  <2> QED BY <2>3 DEF CallInv, ProtectedStay, RiskIsHonest, TodayIsDoable, Delivered
<1>2. CASE Violations # {}
  <2>1. stage' = "rejected" /\ UNCHANGED <<vars, revisions, output>>
    BY <1>2 DEF Validate
  <2>2. InputIsProper'
    BY <2>1 DEF CallInv, InputIsProper, WellFormed, PreallocatedIsPrior, vars
  <2>3. PlannerInv'
    BY <2>1, PlannerStep DEF CallInv
  <2> QED BY <2>1, <2>2, <2>3 DEF CallInv, ProtectedStay, RiskIsHonest, TodayIsDoable, Delivered
<1> QED BY <1>1, <1>2

\* The passes are made.
LEMMA MakePassesStep == CallInv /\ MakePasses => CallInv'
<1> SUFFICES ASSUME CallInv, MakePasses PROVE CallInv'
  OBVIOUS
<1>1. /\ PlannerNext /\ UNCHANGED <<stage, revisions, output>>
      /\ stage \in {"before", "after", "kept"}
  BY DEF MakePasses
<1>2. PlannerInv' /\ UNCHANGED input
  BY <1>1, PlannerStep DEF CallInv
<1>3. InputIsProper'
  BY <1>1, <1>2 DEF CallInv, InputIsProper, WellFormed, PreallocatedIsPrior
<1>4. ProtectedPrior' = ProtectedPrior
  BY <1>2 DEF ProtectedPrior, Protected, Frozen
<1> QED BY <1>1, <1>2, <1>3, <1>4 DEF CallInv, ProtectedStay, RiskIsHonest, TodayIsDoable, Delivered

\* The passes are made without the earlier plan.
LEMMA RunFreshStep == CallInv /\ RunFresh => CallInv'
<1> SUFFICES ASSUME CallInv, RunFresh PROVE CallInv'
  OBVIOUS
<1>1. Run("after", {}, {})
  BY DEF RunFresh
<1>2. InputIsProper' /\ PlannerInv' /\ stage' = "after"
  BY <1>1, RunStarts
<1> QED BY <1>2 DEF CallInv, ProtectedStay, RiskIsHonest, TodayIsDoable, Delivered

\* The fresh passes are selected only if they move nothing that is protected.
LEMMA SelectPassesStep == CallInv /\ SelectPasses => CallInv'
<1> SUFFICES ASSUME CallInv, SelectPasses PROVE CallInv'
  OBVIOUS
<1>1. CASE Proposals = {}
  <2>1. stage' = "selected" /\ phase = "done" /\ UNCHANGED <<vars, revisions, output>>
    BY <1>1 DEF SelectPasses
  <2>2. UNCHANGED <<input, plans, phase>>
    BY <2>1 DEF vars
  <2>3. InputIsProper'
    BY <2>1, <2>2 DEF CallInv, InputIsProper, WellFormed, PreallocatedIsPrior
  <2>4. PlannerInv'
    BY <2>1, PlannerStep DEF CallInv
  <2>5. Proposals' = Proposals
    BY <2>2 DEF Proposals, Disallowed, Moved, Removed, Candidates, Unchanged, Prior,
                ProtectedPrior, Protected, Frozen
  <2> QED BY <1>1, <2>1, <2>2, <2>3, <2>4, <2>5 DEF CallInv, ProtectedStay, RiskIsHonest, TodayIsDoable, Delivered
<1>2. CASE Proposals # {}
  <2>1. Run("kept", {}, ProtectedPrior)
    BY <1>2 DEF SelectPasses
  <2>2. ProtectedPrior \subseteq ToSet(input.priorPlan)
    BY DEF ProtectedPrior
  <2>3. /\ InputIsProper' /\ PlannerInv' /\ stage' = "kept"
        /\ input'.preallocated = ProtectedPrior'
    BY <2>1, <2>2, RunStarts
  <2> QED BY <2>3 DEF CallInv, ProtectedStay, RiskIsHonest, TodayIsDoable, Delivered
<1> QED BY <1>1, <1>2

\* Nothing that may not be moved is missing in the plan that is delivered.
LEMMA ProtectedAreBlocks ==
    ASSUME CallInv, stage \in {"selected", "kept"}, phase = "done",
           NEW i \in DOMAIN input.priorPlan, Protected(Prior(i))
    PROVE  Prior(i) \in BaseBlocks
<1> DEFINE p == Prior(i)
<1>1. p \in KeptBlocks
  BY ElementsOf DEF CallInv, InputIsProper, WellFormed, PriorPlans, Prior
<1>2. p = [job |-> p.job, start |-> p.start, end |-> p.end]
  BY <1>1 DEF KeptBlocks
<1>3. p \in ProtectedPrior
  BY DEF ProtectedPrior, ToSet, Prior
<1>4. CASE stage = "kept"
  <2>1. p \in input.preallocated
    BY <1>3, <1>4 DEF CallInv
  <2>2. [job |-> p.job, start |-> p.start, end |-> p.end, slots |-> {}] \in plans["base"].allocations
    BY <2>1 DEF CallInv, PlannerInv, BaseKeeps, Preallocated
  <2> HIDE DEF p
  <2>3. p \in BaseBlocks
    BY <1>2, <2>2 DEF BaseBlocks
  <2> QED BY <2>3 DEF p
<1>5. CASE stage = "selected"
  <2>1. Disallowed = {}
    BY <1>5 DEF CallInv, Proposals
  <2>2. i \notin Removed
    BY <1>3, <2>1 DEF Disallowed
  <2>3. i \notin Moved
    BY <2>1 DEF Disallowed
  <2>4. Unchanged(p)
    BY <2>2, <2>3 DEF Removed, Moved
  <2>5. PICK a \in Candidates(p.job) : a.start = p.start /\ a.end = p.end
    BY <2>4 DEF Unchanged
  <2>6. a \in plans["base"].allocations /\ a.job = p.job
    BY <2>5 DEF Candidates
  <2> HIDE DEF p
  <2>7. p \in BaseBlocks
    BY <1>2, <2>5, <2>6 DEF BaseBlocks
  <2> QED BY <2>7 DEF p
<1> QED BY <1>4, <1>5

\* The plan delivered keeps what is protected, and its risks and today's list are
\* those of the passes.
LEMMA DeliverPlanStep == CallInv /\ DeliverPlan => CallInv'
<1> SUFFICES ASSUME CallInv, DeliverPlan PROVE CallInv'
  OBVIOUS
<1>1. /\ stage \in {"selected", "kept"} /\ phase = "done" /\ stage' = "delivered"
      /\ output'.allocations = Stored /\ UNCHANGED <<vars, revisions>>
  BY DEF DeliverPlan
<1>2. UNCHANGED input
  BY <1>1 DEF vars
<1>3. Stored \in PriorPlans /\ ToSet(Stored) = BaseBlocks
  BY <1>1, StoredAreBlocks DEF CallInv, PlannerInv, BaseKeeps
<1>4. InputIsProper'
  BY <1>1, <1>2, <1>3 DEF CallInv, InputIsProper, WellFormed, PreallocatedIsPrior
<1>5. PlannerInv'
  BY <1>1, PlannerStep DEF CallInv
<1>6. ProtectedStay'
  <2> SUFFICES ASSUME NEW i \in DOMAIN input.priorPlan,
                      Prior(i).job \in input.pinned \/ Prior(i).start <= input.now + FreezeWindow
               PROVE  Prior(i) \in ToSet(output'.allocations)
    BY <1>2 DEF ProtectedStay, Prior
  <2>1. Protected(Prior(i))
    BY DEF Protected, Frozen
  <2>2. Prior(i) \in BaseBlocks
    BY <1>1, <2>1, ProtectedAreBlocks
  <2> QED BY <1>1, <1>3, <2>2
<1>7. UNCHANGED <<input, plans>>
  BY <1>1 DEF vars
<1>8. /\ WellFormed(input)
      /\ IsSound(plans["base"].allocations) /\ IsSound(plans["safety"].allocations)
      /\ WaitsAreOver(plans["base"].allocations)
  BY <1>1 DEF CallInv, InputIsProper, PlannerInv, BaseKeeps
<1>9. RiskIsHonest'
  <2>1. output'.risks = Risks
    BY DEF DeliverPlan
  <2> SUFFICES ASSUME NothingInExcess("base")', NothingInExcess("safety")',
                      NEW m \in Milestones, output'.risks[m] \in {"LOW", "MEDIUM"}
               PROVE  (/\ \A t \in Members(m) : FinishedBy("base", t, Limit(m))
                       /\ \A j \in Members(m) \cup BuffersOf(m) : FinishedBy("safety", j, Limit(m)))'
    BY DEF RiskIsHonest
  <2>2. RiskLevel(m) \in {"LOW", "MEDIUM"}
    BY <2>1 DEF Risks
  <2>3. Limit(m) \in Int
    BY <1>8 DEF WellFormed, Limit
  <2>4. NothingInExcess("base") /\ NothingInExcess("safety")
    BY <1>7, ViewStays
  <2>5. /\ \A t \in Members(m) : FinishedBy("base", t, Limit(m))
        /\ \A j \in Members(m) \cup BuffersOf(m) : FinishedBy("safety", j, Limit(m))
    BY <1>8, <2>2, <2>3, <2>4, RisksAreHonest
  <2>6. /\ Members(m)' = Members(m) /\ BuffersOf(m)' = BuffersOf(m) /\ Limit(m)' = Limit(m)
        /\ \A pass, j, limit : FinishedBy(pass, j, limit)' = FinishedBy(pass, j, limit)
    BY <1>7, ViewStays
  <2> QED BY <2>5, <2>6
<1>10. TodayIsDoable'
  <2>1. output'.today.mustDo = MustDo
    BY DEF DeliverPlan, Today
  <2>2. ASSUME NEW i \in DOMAIN MustDo, FreshToday(MustDo[i])
        PROVE  /\ \A k \in 1 .. i - 1 : StartKey(MustDo[k]) <= StartKey(MustDo[i])
               /\ \A p \in Gates(MustDo[i]) : FinishedBy("base", p, StartKey(MustDo[i]))
    BY <1>8, <2>2, TodayIsSorted, TodayIsReady
  <2>3. /\ \A t : /\ FreshToday(t)' = FreshToday(t) /\ StartKey(t)' = StartKey(t)
                  /\ Gates(t)' = Gates(t)
        /\ \A pass, j, limit : FinishedBy(pass, j, limit)' = FinishedBy(pass, j, limit)
    BY <1>7, ViewStays
  <2> DEFINE list == output.today.mustDo
  <2>4. list' = MustDo
    BY <2>1
  <2>5. ASSUME NEW i \in DOMAIN list', FreshToday(list[i])'
        PROVE  (/\ \A k \in 1 .. i - 1 : StartKey(list[k]) <= StartKey(list[i])
                /\ \A p \in Gates(list[i]) : FinishedBy("base", p, StartKey(list[i])))'
    <3>1. i \in DOMAIN MustDo /\ FreshToday(MustDo[i])
      BY <2>3, <2>4, <2>5
    <3> QED BY <2>2, <2>3, <2>4, <3>1
  <2> HIDE DEF list
  <2> QED BY <2>5 DEF TodayIsDoable, list
<1> QED BY <1>1, <1>4, <1>5, <1>6, <1>9, <1>10 DEF CallInv

\* The next call begins with the plan stored by the last one.
LEMMA CallAgainStep == CallInv /\ CallAgain => CallInv'
<1> SUFFICES ASSUME CallInv, CallAgain PROVE CallInv'
  OBVIOUS
<1> DEFINE r == Head(revisions)
<1>1. /\ revisions # <<>> /\ revisions' = Tail(revisions) /\ input' = Revised(r)
      /\ phase' = "slots" /\ slots' = <<>> /\ capacityLeft' = <<>> /\ stage' = "called"
      /\ UNCHANGED scheduleVars /\ output' = output
  BY DEF CallAgain
<1>2. revisions \in Seq(Revisions) /\ WellFormed(input) /\ output.allocations \in PriorPlans
  BY DEF CallInv, InputIsProper
<1>3. r \in Revisions /\ revisions' \in Seq(Revisions)
  BY <1>1, <1>2
<1>4. r.windows \in Calendars
  BY <1>3 DEF Revisions
<1> HIDE DEF r
<1>5. /\ DOMAIN input' = InputFields
      /\ input'["preallocated"] = {}
      /\ input'["priorPlan"] = output.allocations
      /\ input'["windows"] = r.windows
      /\ input'["finished"] = [t \in Tasks |-> input.finished[t] \/ t \in r.finished]
      /\ input'["remainingBase"] = [t \in Tasks |-> IF t \in r.finished THEN 0 ELSE input.remainingBase[t]]
      /\ input'["remainingSafety"] = [t \in Tasks |-> IF t \in r.finished THEN 0 ELSE input.remainingSafety[t]]
      /\ input'["protected"] = {}
      /\ \A f \in {"limit", "buffer", "minChunk", "startAfter", "splittable", "fixedEvents",
                      "blocksStart", "blocksCompletion", "milestone", "deadline", "safety"} :
            input'[f] = input[f]
  BY <1>1, <1>2, RevisedInput
<1>6. WellFormed(input)'
  <2>1. /\ input.remainingBase \in [Tasks -> Int] /\ input.remainingSafety \in [Tasks -> Int]
        /\ input.finished \in [Tasks -> BOOLEAN] /\ input.buffer \in [Milestones -> Int]
        /\ input.limit \in [Milestones -> Int]
        /\ input.blocksStart \cup input.blocksCompletion \subseteq Tasks \X Tasks
        /\ input.milestone \in [Tasks -> Milestones \cup {NoMilestone}]
        /\ input.deadline \in [Tasks -> Int] /\ input.safety \in [Tasks -> Int]
        /\ input.minChunk \in [Tasks -> Int] /\ input.startAfter \in [Tasks -> Int]
        /\ input.splittable \in [Tasks -> BOOLEAN]
    BY <1>2 DEF WellFormed
  <2>2. input'.remainingBase \in [Tasks -> Int] /\ input'.remainingSafety \in [Tasks -> Int]
    BY <1>5, <2>1
  <2>3. input'.finished \in [Tasks -> BOOLEAN]
    BY <1>5
  <2>4. /\ input'.buffer = input.buffer /\ input'.limit = input.limit
        /\ input'.blocksStart = input.blocksStart /\ input'.blocksCompletion = input.blocksCompletion
        /\ input'.milestone = input.milestone /\ input'.deadline = input.deadline
        /\ input'.safety = input.safety /\ input'.minChunk = input.minChunk
        /\ input'.startAfter = input.startAfter /\ input'.splittable = input.splittable
        /\ input'.fixedEvents = input.fixedEvents /\ input'.protected = {}
    BY <1>5
  <2> QED BY <1>2, <1>4, <1>5, <2>1, <2>2, <2>3, <2>4 DEF WellFormed
<1>7. InputIsProper'
  <2>1. input'.preallocated = {}
    BY <1>5
  <2> QED BY <1>1, <1>2, <1>3, <1>6, <2>1 DEF InputIsProper, PreallocatedIsPrior
<1>8. PlannerInv'
  BY <1>1, <1>4, <1>5, CleanStart DEF CallInv
<1> QED BY <1>1, <1>7, <1>8 DEF CallInv, ProtectedStay, RiskIsHonest, TodayIsDoable, Delivered
-----------------------------------------------------------------------------
\* The first call begins without an earlier plan stored.
LEMMA CallInit == ReplanInit => CallInv
<1> SUFFICES ASSUME ReplanInit PROVE CallInv
  OBVIOUS
<1>1. PICK s \in Scenarios : input = s.request /\ revisions = s.revisions
  BY DEF ReplanInit
<1>2. WellFormed(s.request) /\ s.request.preallocated = {} /\ s.revisions \in Seq(Revisions)
  BY ReplanningAssumption DEF ReplanningAssumption
<1>3. WellFormed(input) /\ PreallocatedIsPrior /\ revisions \in Seq(Revisions)
  BY <1>1, <1>2 DEF PreallocatedIsPrior
<1>4. /\ phase = "slots" /\ slots = <<>> /\ capacityLeft = <<>> /\ stage = "called"
      /\ output.allocations = <<>>
  BY DEF ReplanInit, PlannerInit, SlotsInit, NoOutput
<1>5. output.allocations \in PriorPlans
  <2>1. ToSet(<<>>) = {} /\ <<>> \in Seq(KeptBlocks)
    BY DEF ToSet
  <2>2. KeptApart({})
    BY FS_EmptySet DEF KeptApart
  <2> QED BY <1>4, <2>1, <2>2 DEF PriorPlans
<1>6. SlotsFollow /\ SlotsRespect
  BY <1>3, <1>4, NoSlotsYet DEF WellFormed
<1>7. PassInv
  BY NothingPlannedYet DEF ReplanInit, PlannerInit
<1>8. PlannerInv
  BY <1>4, <1>6, <1>7 DEF PlannerInv, ProblemIsPosed, BaseKeeps, Phases, Passes
<1> QED BY <1>3, <1>4, <1>5, <1>8 DEF CallInv, InputIsProper, ProtectedStay, RiskIsHonest, TodayIsDoable, Delivered

\* Every step of a call, and every new call, keeps the invariant.
LEMMA CallStep == CallInv /\ [ReplanNext]_replanVars => CallInv'
<1> SUFFICES ASSUME CallInv, [ReplanNext]_replanVars PROVE CallInv'
  OBVIOUS
<1>1. CASE UNCHANGED replanVars
  <2>1. UNCHANGED <<vars, stage, revisions, output>>
    BY <1>1 DEF replanVars
  <2>2. UNCHANGED <<input, plans, phase>>
    BY <2>1 DEF vars
  <2>3. InputIsProper'
    BY <2>1, <2>2 DEF CallInv, InputIsProper, WellFormed, PreallocatedIsPrior
  <2>4. PlannerInv'
    BY <2>1, PlannerStep DEF CallInv
  <2>5. Proposals' = Proposals /\ ProtectedPrior' = ProtectedPrior
    BY <2>2 DEF Proposals, Disallowed, Moved, Removed, Candidates, Unchanged, Prior,
                ProtectedPrior, Protected, Frozen
  <2>6. ProtectedStay'
    BY <2>1, <2>2 DEF CallInv, ProtectedStay, Delivered, Prior
  <2>7. /\ \A pass, j, limit : FinishedBy(pass, j, limit)' = FinishedBy(pass, j, limit)
        /\ \A pass : NothingInExcess(pass)' = NothingInExcess(pass)
        /\ \A m : Members(m)' = Members(m) /\ BuffersOf(m)' = BuffersOf(m) /\ Limit(m)' = Limit(m)
        /\ \A t : /\ FreshToday(t)' = FreshToday(t) /\ StartKey(t)' = StartKey(t)
                  /\ Gates(t)' = Gates(t)
    BY <2>2, ViewStays
  <2>8. output' = output /\ Delivered' = Delivered
    BY <2>1 DEF Delivered
  <2>9. RiskIsHonest'
    BY <2>7, <2>8 DEF CallInv, RiskIsHonest
  <2>10. TodayIsDoable'
    BY <2>7, <2>8 DEF CallInv, TodayIsDoable
  <2> QED BY <2>1, <2>2, <2>3, <2>4, <2>5, <2>6, <2>9, <2>10 DEF CallInv
<1> QED BY <1>1, ValidateStep, MakePassesStep, RunFreshStep, SelectPassesStep, DeliverPlanStep,
           CallAgainStep DEF ReplanNext, Proceed

\* The invariant holds in every call, whatever was planned and revised before
\* (create_plan).
THEOREM PlannerInvariance == ReplanSpec => []CallInv
BY CallInit, CallStep, PTL DEF ReplanSpec

\* No job starts before all it waits for is placed and over, in any pass of any
\* call (start_gates).
THEOREM PlansFollowGates == ReplanSpec => []PredecessorsFirst
<1>1. CallInv => PredecessorsFirst
  BY DEF CallInv, PlannerInv, PassInv, SInv
<1> QED BY <1>1, PlannerInvariance, PTL

\* Every plan delivered keeps what is pinned or frozen of the plan before (replan,
\* protected_allocations).
THEOREM ProtectedAllocationsStay == ReplanSpec => []ProtectedStay
<1>1. CallInv => ProtectedStay
  BY DEF CallInv
<1> QED BY <1>1, PlannerInvariance, PTL

\* A milestone whose risk is LOW or MEDIUM is finished in time by both passes, as
\* long as no job is given more than it needs (calculate_risks).
THEOREM RisksAreTrue == ReplanSpec => []RiskIsHonest
<1>1. CallInv => RiskIsHonest
  BY DEF CallInv
<1> QED BY <1>1, PlannerInvariance, PTL

\* Today's list can be worked off in its order (build_today_plan).
THEOREM TodayCanBeDone == ReplanSpec => []TodayIsDoable
<1>1. CallInv => TodayIsDoable
  BY DEF CallInv
<1> QED BY <1>1, PlannerInvariance, PTL

\* In every pass of every call, a job is left out only if no free slots suit it.
THEOREM PlansLeaveNothingIdle == ReplanSpec => []NothingMoreFits
<1>1. CallInv => NothingMoreFits
  BY NoTimeIsIdle DEF CallInv, PlannerInv, PassInv
<1> QED BY <1>1, PlannerInvariance, PTL

\* Every pass avoids the fixed events and the protected blocks and leaves of each day
\* what is held back (build_unique_slots, _apply_daily_capacity).
THEOREM CalendarRespected == ReplanSpec => []PlansRespectCalendar
<1>1. CallInv => PlansRespectCalendar
  <2> SUFFICES ASSUME CallInv, phase \in Passes PROVE PlansRespectCalendar
    BY DEF PlansRespectCalendar
  <2>1. phase # "slots"
    BY DEF Passes
  <2> QED BY <2>1, CalendarIsRespected DEF CallInv, PlannerInv, InputIsProper, ProblemIsPosed
<1> QED BY <1>1, PlannerInvariance, PTL
=============================================================================
