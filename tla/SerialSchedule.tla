--------------------------- MODULE SerialSchedule ---------------------------
(***************************************************************************)
(* One planning pass (scheduling/serial.py): jobs are taken in the order   *)
(* of their priority as soon as all jobs they wait for are placed fully,   *)
(* and each is put into the earliest free slots that suit it.              *)
(*                                                                         *)
(* A problem is what serial_schedule is called with.  Its slots are sorted *)
(* and exclude one another, as long as the windows they are cut from do,   *)
(* which nothing in the code enforces.                                     *)
(***************************************************************************)
EXTENDS Intervals, FiniteSets, Sequences

CONSTANTS
    Jobs,             \* tasks and synthetic buffers
    MaxChunksPerDay

VARIABLES
    problem,          \* slots, jobs, need, splittable, minChunk, startAfter, gates, rank, kept
    free,             \* the indexes of the slots nobody owns
    allocations,      \* [job, start, end, slots]; those kept from an earlier plan own no slots
    pending,          \* jobs not yet looked at
    placed,           \* jobs placed fully
    unallocated,      \* jobs placed partly or not at all
    current           \* the job being placed

scheduleVars == <<problem, free, allocations, pending, placed, unallocated, current>>

NoJob == [kind |-> "none"]

StartOf(i) == problem.slots[i].start

EndOf(i) == problem.slots[i].end

Kept(a) == a.slots = {}

AllocationsOf(j) == {a \in allocations : a.job = j}

MinutesOf(j) == Minutes(AllocationsOf(j))
-----------------------------------------------------------------------------
\* Mutant of FreeAtFirst: the slots of kept allocations are not reserved.
FreeOfAll(p) == {i \in DOMAIN p.slots : p.slots[i].free}

\* Kept allocations reserve the slots they touch (SlotLedger.reserve_interval).
FreeAtFirst(p) ==
    {i \in DOMAIN p.slots :
        p.slots[i].free /\ \A a \in p.kept : ~Overlaps(p.slots[i], a)}

\* The kept allocations of a problem, as allocations of the pass.
KeptAllocations(p) ==
    {[job |-> a.job, start |-> a.start, end |-> a.end, slots |-> {}] : a \in p.kept}

\* serial_schedule is called with p.
Begin(p) ==
    /\ problem' = p
    /\ free' = FreeAtFirst(p)
    /\ allocations' = KeptAllocations(p)
    /\ pending' = p.jobs
    /\ placed' = {}
    /\ unallocated' = {}
    /\ current' = NoJob

Ready(j) == problem.gates[j] \subseteq placed

\* The first ready job by priority; one that needs no more than it has
\* already is placed at once.
Select ==
    /\ current = NoJob
    /\ \E j \in pending :
        /\ Ready(j)
        /\ \A k \in pending : Ready(k) => problem.rank[j] <= problem.rank[k]
        /\ pending' = pending \ {j}
        /\ IF problem.need[j] <= MinutesOf(j)
           THEN placed' = placed \cup {j} /\ UNCHANGED current
           ELSE /\ current' = [kind |-> "job", job |-> j,
                               remaining |-> problem.need[j] - MinutesOf(j),
                               cursor |-> 0, progress |-> FALSE, chunks |-> {}]
                /\ UNCHANGED placed
    /\ UNCHANGED <<problem, free, allocations, unallocated>>

\* No pending job will ever be ready.
GiveUp ==
    /\ current = NoJob
    /\ pending # {}
    /\ \A j \in pending : ~Ready(j)
    /\ unallocated' = unallocated \cup pending
    /\ pending' = {}
    /\ UNCHANGED <<problem, free, allocations, placed, current>>

\* A maximal stretch of free slots that follow one another without a gap.
Joined(i) == {i, i + 1} \subseteq free /\ EndOf(i) = StartOf(i + 1)

IsRun(h, b) ==
    /\ {h, b} \subseteq free
    /\ \A i \in h .. b - 1 : Joined(i)
    /\ ~Joined(h - 1)
    /\ ~Joined(b)

Runs == {r \in free \X free : r[1] <= r[2] /\ IsRun(r[1], r[2])}

\* Mutant of StartsLate: a job may start while one it waits for is unfinished.
StartsAnyTime(j, i) == EndOf(i) > problem.startAfter[j]

\* The slot ends after everything the job must come after: its start date,
\* the jobs it waits for, and its own kept allocations.
StartsLate(j, i) ==
    /\ EndOf(i) > problem.startAfter[j]
    /\ \A a \in allocations :
          /\ a.job \in problem.gates[j] => EndOf(i) > a.end
          /\ a.job = j /\ Kept(a) => EndOf(i) > a.end

\* The usable part of a run of slots: all of it from slot f on.
Usable(j, r, f) ==
    /\ f \in r[1] .. r[2]
    /\ StartsLate(j, f)
    /\ \A i \in r[1] .. f - 1 : ~StartsLate(j, i)

\* The chunks, named by their first slots, that start on the UTC date of slot i.
ChunksOn(chunks, i) == {c \in chunks : problem.slots[c].day = problem.slots[i].day}

Smaller(a, b) == IF a <= b THEN a ELSE b

\* A job with `remaining` to place and the given chunks takes part of the
\* run r from slot f on.  The day of a chunk is looked up by the beginning
\* of the run, and counted by that of the chunk.
Suits(j, remaining, chunks, r, f) ==
    LET room == EndOf(r[2]) - StartOf(f)
    IN  /\ Usable(j, r, f)
        /\ room >= Smaller(problem.minChunk[j], remaining)
        /\ IF problem.splittable[j]
           THEN Cardinality(ChunksOn(chunks, r[1])) < MaxChunksPerDay
           ELSE room >= remaining

SuitsCurrent(r, f) == Suits(current.job, current.remaining, current.chunks, r, f)

\* The runs after the last one looked at that suit the current job.
NextRuns == {r \in Runs : r[1] > current.cursor /\ \E f \in r[1] .. r[2] : SuitsCurrent(r, f)}

\* The job takes whole slots of the first such run until it has enough.
PlaceChunk ==
    /\ current # NoJob
    /\ current.remaining > 0
    /\ \E r \in NextRuns : \E f, l \in r[1] .. r[2] :
        LET take == Smaller(EndOf(r[2]) - StartOf(f), current.remaining)
        IN  /\ \A q \in NextRuns : r[1] <= q[1]
            /\ SuitsCurrent(r, f)
            /\ f <= l
            /\ EndOf(l) - StartOf(f) >= take
            /\ \A i \in f .. l - 1 : EndOf(i) - StartOf(f) < take
            /\ allocations' = allocations \cup
                  {[job |-> current.job, start |-> StartOf(f), end |-> EndOf(l), slots |-> f .. l]}
            /\ free' = free \ (f .. l)
            /\ current' = [current EXCEPT !.remaining = @ - (EndOf(l) - StartOf(f)),
                                          !.cursor = r[2],
                                          !.progress = TRUE,
                                          !.chunks = @ \cup {f}]
    /\ UNCHANGED <<problem, pending, placed, unallocated>>

\* Mutant of Exhausted: the runs are gone through once.
ExhaustedOnce == NextRuns = {}

\* Mutant of Exhausted: a job that found no room is tried again for ever.
ExhaustedNever == FALSE

\* All runs were gone through without placing anything.
Exhausted == NextRuns = {} /\ ~current.progress

\* The runs are gone through again: a run too short for the smallest chunk
\* may suit the rest of the job.
Again ==
    /\ current # NoJob
    /\ current.remaining > 0
    /\ NextRuns = {}
    /\ ~Exhausted
    /\ current' = [current EXCEPT !.cursor = 0, !.progress = FALSE]
    /\ UNCHANGED <<problem, free, allocations, pending, placed, unallocated>>

Finish ==
    /\ current # NoJob
    /\ \/ /\ current.remaining <= 0
          /\ placed' = placed \cup {current.job}
          /\ UNCHANGED unallocated
       \/ /\ current.remaining > 0
          /\ Exhausted
          /\ unallocated' = unallocated \cup {current.job}
          /\ UNCHANGED placed
    /\ current' = NoJob
    /\ UNCHANGED <<problem, free, allocations, pending>>

ScheduleNext == Select \/ GiveUp \/ PlaceChunk \/ Again \/ Finish

ScheduleDone == pending = {} /\ current = NoJob
-----------------------------------------------------------------------------
Increasing(slots) ==
    /\ \A i \in DOMAIN slots : slots[i].start < slots[i].end
    /\ \A i, k \in DOMAIN slots : i < k => slots[i].end <= slots[k].start

Slots == [start : Int, end : Int, free : BOOLEAN, day : Int]

KeptBlocks == [job : Jobs, start : Int, end : Int]

\* The allocations kept from an earlier plan are finitely many and exclude
\* one another.
KeptApart(kept) ==
    /\ IsFiniteSet(kept)
    /\ \A a \in kept : a.start < a.end
    /\ \A a, b \in kept : a # b => ~Overlaps(a, b)

Problems ==
    {p \in [slots : Seq(Slots), jobs : SUBSET Jobs, need : [Jobs -> Int],
            splittable : [Jobs -> BOOLEAN], minChunk : [Jobs -> Int],
            startAfter : [Jobs -> Int], gates : [Jobs -> SUBSET Jobs],
            rank : [Jobs -> Int], kept : SUBSET KeptBlocks] :
        Increasing(p.slots) /\ KeptApart(p.kept)}

Init ==
    /\ problem \in Problems
    /\ free = FreeAtFirst(problem)
    /\ allocations = KeptAllocations(problem)
    /\ pending = problem.jobs
    /\ placed = {}
    /\ unallocated = {}
    /\ current = NoJob

Spec == Init /\ [][ScheduleNext]_scheduleVars
-----------------------------------------------------------------------------
Placements ==
    [kind : {"job"}, job : Jobs, remaining : Int, cursor : Int,
     progress : BOOLEAN, chunks : SUBSET Int]

ScheduleTypeOK ==
    /\ problem \in Problems
    /\ free \subseteq {i \in DOMAIN problem.slots : problem.slots[i].free}
    /\ allocations \subseteq
          [job : Jobs, start : Int, end : Int, slots : SUBSET DOMAIN problem.slots]
    /\ pending \subseteq problem.jobs
    /\ placed \subseteq problem.jobs
    /\ unallocated \subseteq problem.jobs
    /\ current \in Placements \cup {NoJob}

(***************************************************************************)
(* No time is given twice: allocations exclude one another, and those the  *)
(* pass makes consist of slots that were free, so that they avoid fixed    *)
(* events, protected blocks, buffers and kept allocations (SlotLedger).    *)
(* That takes windows which do not overlap.                                *)
(***************************************************************************)
NoDoubleBooking ==
    /\ \A a, b \in allocations : a # b => ~Overlaps(a, b)
    /\ \A a \in allocations : ~Kept(a) =>
          \A i \in DOMAIN problem.slots :
              Overlaps(problem.slots[i], a) => problem.slots[i].free

(***************************************************************************)
(* A job starts only when all jobs it waits for are placed fully, and      *)
(* after the end of every one of their allocations (start_gates).          *)
(***************************************************************************)
PredecessorsFirst ==
    \A a \in allocations : ~Kept(a) =>
        /\ problem.gates[a.job] \subseteq placed
        /\ \A b \in allocations : b.job \in problem.gates[a.job] => b.end <= a.start

\* The slots where the pass has put chunks of a job.
ChunksOf(j) == {Min(a.slots) : a \in {b \in AllocationsOf(j) : ~Kept(b)}}

\* Slot i is of a day that has all the chunks of the job it may have.
DayIsFull(j, i) == Cardinality(ChunksOn(ChunksOf(j), i)) >= MaxChunksPerDay

\* Slots i to k follow one another without a gap.
Adjoins(i, k) == i <= k /\ \A n \in i .. k - 1 : EndOf(n) = StartOf(n + 1)

\* A free stretch suits the job and, if it can be split, adjoins no full day.
CouldHaveMore(j) ==
    \E r \in Runs : \E f \in r[1] .. r[2] :
        /\ Suits(j, problem.need[j] - MinutesOf(j), ChunksOf(j), r, f)
        /\ problem.splittable[j] =>
              \A i \in DOMAIN problem.slots : Adjoins(i, r[1]) => ~DayIsFull(j, i)

(***************************************************************************)
(* No time is left idle: in what is still free when the pass ends, a job   *)
(* reported unallocated whose predecessors are all placed finds no stretch *)
(* it could use, for all of it or, if it can be split, for one more chunk. *)
(* The exception is what adjoins slots of a day that has all the chunks of *)
(* the job it may have: the limit is looked up for the day on which the    *)
(* free stretch begins (_place_task), and when the job was tried that may  *)
(* have been the earlier one.                                              *)
(***************************************************************************)
NothingMoreFits ==
    ScheduleDone =>
        \A j \in unallocated : problem.gates[j] \subseteq placed => ~CouldHaveMore(j)
=============================================================================
