------------------------------- MODULE Planner -------------------------------
(***************************************************************************)
(* One run of the planning passes (scheduling/passes.py): the graph is     *)
(* analysed, a provisional pass is made, the required tasks it left out    *)
(* are promoted once, and the base and the safety pass are made with the   *)
(* final priorities over slots of their own.                               *)
(***************************************************************************)
EXTENDS DependencyCycles, CriticalPath, Availability, SerialSchedule

CONSTANTS
    Inputs,             \* the inputs to be planned
    Review,             \* milestone -> its two synthetic tasks
    Submission

VARIABLES
    phase,
    promoted,   \* the tasks promoted to P0
    plans       \* pass -> its result

vars == <<input, phase, promoted, plans, slotVars, cycleVars, timingVars, scheduleVars>>

Passes == {"provisional", "base", "safety"}

BufferTasks == UNION {{Review[m], Submission[m]} : m \in Milestones}

PlannerAssumption ==
    /\ {Review, Submission} \subseteq [Milestones -> Nat]
    /\ Jobs = Tasks \cup BufferTasks
    /\ Tasks \cap BufferTasks = {}
    /\ \A m, n \in Milestones :
          m # n => {Review[m], Submission[m]} \cap {Review[n], Submission[n]} = {}
    /\ CapacityPercent \in 0 .. 100
    /\ MaxChunksPerDay \in Nat
ASSUME PlannerAssumption
-----------------------------------------------------------------------------
\* The mandatory buffer of a milestone with a deadline: its larger half for
\* review, the rest for submission.
Buffered(m) == Limit(m) # Never /\ input.buffer[m] > 0

ReviewMinutes(m) == (input.buffer[m] + 1) \div 2

BufferMinutes(b, m) ==
    IF b = Review[m] THEN ReviewMinutes(m) ELSE input.buffer[m] - ReviewMinutes(m)

BuffersOf(m) ==
    IF Buffered(m)
    THEN {b \in {Review[m], Submission[m]} : BufferMinutes(b, m) > 0}
    ELSE {}

MilestoneOf(b) == CHOOSE m \in Milestones : b \in {Review[m], Submission[m]}

JobsToPlan == Active \cup UNION {BuffersOf(m) : m \in Milestones}

PriorityClass(j) ==
    IF j \in promoted THEN 0
    ELSE IF j \in BufferTasks THEN 1
    ELSE IF input.timeKnown[j] /\ input.deadline[j] <= input.now THEN 0
    ELSE IF Required(j) THEN 1
    ELSE 2

\* The position of a task's first allocation in the earlier plan.
PriorPosition(t) ==
    LET at == {i \in DOMAIN input.priorPlan : input.priorPlan[i].job = t}
    IN  IF at = {} THEN Never ELSE Min(at)

\* priority_key: compared field by field, the smaller first.
PriorityKey(j) ==
    IF j \in BufferTasks
    THEN LET limit == Limit(MilestoneOf(j))
         IN  <<PriorityClass(j), limit, limit, 0, 0, 0, Never, 0, j>>
    ELSE <<PriorityClass(j),
           MustStartBy(j),
           IF input.timeKnown[j] THEN input.deadline[j] ELSE Never,
           -UnlockCount(j),
           IF j \in ExternallyBound THEN -1 ELSE 0,
           2,
           PriorPosition(j),
           1,
           j>>

Precedes(j, k) ==
    LET a == PriorityKey(j)
        b == PriorityKey(k)
    IN  \E i \in DOMAIN a : a[i] < b[i] /\ \A n \in 1 .. i - 1 : a[n] = b[n]

\* Start dependencies of active tasks; a predecessor that is done stays a gate.
Gates(j) ==
    IF j \in Active THEN {p \in Tasks : <<p, j>> \in input.blocksStart} ELSE {}

Need(pass, j) ==
    IF j \in BufferTasks THEN BufferMinutes(j, MilestoneOf(j))
    ELSE IF pass = "safety" THEN input.remainingSafety[j]
    ELSE input.remainingBase[j]

Problem(pass) ==
    [slots      |-> UniqueSlots,
     jobs       |-> JobsToPlan,
     need       |-> [j \in Jobs |-> Need(pass, j)],
     splittable |-> [j \in Jobs |-> j \in Tasks /\ input.splittable[j]],
     minChunk   |-> [j \in Jobs |-> IF j \in Tasks THEN input.minChunk[j] ELSE Need(pass, j)],
     startAfter |-> [j \in Jobs |-> IF j \in Tasks THEN input.startAfter[j] ELSE 0],
     gates      |-> [j \in Jobs |-> Gates(j)],
     rank       |-> [j \in Jobs |->
                        IF j \in JobsToPlan
                        THEN Cardinality({k \in JobsToPlan : Precedes(k, j)}) ELSE 0],
     kept       |-> input.preallocated]

NoProblem ==
    [slots |-> <<>>, jobs |-> {}, need |-> [j \in Jobs |-> 0],
     splittable |-> [j \in Jobs |-> FALSE], minChunk |-> [j \in Jobs |-> 0],
     startAfter |-> [j \in Jobs |-> 0], gates |-> [j \in Jobs |-> {}],
     rank |-> [j \in Jobs |-> 0], kept |-> {}]

PlannerInit ==
    /\ input \in Inputs
    /\ phase = "slots"
    /\ promoted = {}
    /\ plans = <<>>
    /\ SlotsInit
    /\ TarjanInit
    /\ TimingInit
    /\ problem = NoProblem
    /\ free = {}
    /\ allocations = {}
    /\ pending = {}
    /\ placed = {}
    /\ unallocated = {}
    /\ current = NoJob
-----------------------------------------------------------------------------
\* The slots depend on the input alone; every pass gets a copy of its own
\* (_fresh_slots), so that building them once is enough.
BuildSlots ==
    /\ phase = "slots"
    /\ SlotsNext
    /\ UNCHANGED <<input, phase, promoted, plans, cycleVars, timingVars, scheduleVars>>

SlotsBuilt ==
    /\ phase = "slots"
    /\ SlotsDone
    /\ phase' = "cycles"
    /\ UNCHANGED <<input, slotVars, promoted, plans, cycleVars, timingVars, scheduleVars>>

FindCycles ==
    /\ phase = "cycles"
    /\ TarjanNext
    /\ UNCHANGED <<input, slotVars, phase, promoted, plans, timingVars, scheduleVars>>

CyclesFound ==
    /\ phase = "cycles"
    /\ TarjanDone
    /\ phase' = "timing"
    /\ UNCHANGED <<input, slotVars, promoted, plans, cycleVars, timingVars, scheduleVars>>

ComputeTiming ==
    /\ phase = "timing"
    /\ TimingNext
    /\ UNCHANGED <<input, slotVars, phase, promoted, plans, cycleVars, scheduleVars>>

StartProvisional ==
    /\ phase = "timing"
    /\ TimingDone
    /\ phase' = "provisional"
    /\ Begin(Problem("provisional"))
    /\ UNCHANGED <<input, slotVars, promoted, plans, cycleVars, timingVars>>

Schedule ==
    /\ phase \in Passes
    /\ ScheduleNext
    /\ UNCHANGED <<input, slotVars, phase, promoted, plans, cycleVars, timingVars>>

Result == [allocations |-> allocations, unallocated |-> unallocated, free |-> free]

Record(pass) ==
    /\ phase = pass
    /\ ScheduleDone
    /\ plans' = [p \in DOMAIN plans \cup {pass} |-> IF p = pass THEN Result ELSE plans[p]]

\* Mutant of ToPromote: buffers are promoted, too.
ToPromoteAll == {j \in unallocated : PriorityClass(j) # 0}

\* The required tasks the provisional pass left out, unless they are P0 already.
ToPromote ==
    {t \in Active : t \in unallocated /\ PriorityClass(t) # 0 /\ Required(t)}

Promote ==
    /\ Record("provisional")
    /\ promoted' = ToPromote
    /\ phase' = "promoting"
    /\ UNCHANGED <<input, slotVars, cycleVars, timingVars, scheduleVars>>

StartBase ==
    /\ phase = "promoting"
    /\ phase' = "base"
    /\ Begin(Problem("base"))
    /\ UNCHANGED <<input, slotVars, promoted, plans, cycleVars, timingVars>>

StartSafety ==
    /\ Record("base")
    /\ phase' = "safety"
    /\ Begin(Problem("safety"))
    /\ UNCHANGED <<input, slotVars, promoted, cycleVars, timingVars>>

Deliver ==
    /\ Record("safety")
    /\ phase' = "done"
    /\ UNCHANGED <<input, slotVars, promoted, cycleVars, timingVars, scheduleVars>>

PlannerNext ==
    \/ BuildSlots \/ SlotsBuilt
    \/ FindCycles \/ CyclesFound
    \/ ComputeTiming \/ StartProvisional
    \/ Schedule
    \/ Promote \/ StartBase \/ StartSafety \/ Deliver

PlannerSpec == PlannerInit /\ [][PlannerNext]_vars
-----------------------------------------------------------------------------
Phases == {"slots", "cycles", "timing", "promoting", "done"} \cup Passes

PlannerTypeOK ==
    /\ phase \in Phases
    /\ promoted \subseteq Active
    /\ DOMAIN plans \subseteq Passes
    /\ index \in [Tasks -> 0 .. Cardinality(Tasks)]
    /\ lowlink \in [Tasks -> 0 .. Cardinality(Tasks)]
    /\ \A t \in Tasks : lowlink[t] <= index[t]
    /\ ToSet(stack) \subseteq Discovered
    /\ {w.node : w \in ToSet(work)} \subseteq ToSet(stack)
    /\ components \subseteq SUBSET Discovered
    /\ latestFinish \in [Resolved -> Int]
    /\ Resolved \cap ToSet(path) = {}
    /\ ScheduleTypeOK

\* The time of the slots in I that begin on a local day.
MinutesOn(day, I) == Minutes({problem.slots[i] : i \in {n \in I : LocalDay(StartOf(n)) = day}})

(***************************************************************************)
(* What a pass adds to the plan avoids the fixed events and the protected  *)
(* blocks, and leaves of every local day the share that is held back: no   *)
(* more than CapacityPercent of the time that these leave                  *)
(* (build_unique_slots, _apply_daily_capacity).                            *)
(***************************************************************************)
PlansRespectCalendar ==
    phase \in Passes /\ ScheduleDone =>
        LET busy == input.fixedEvents \cup input.protected
            used == UNION {a.slots : a \in allocations}
            open == {i \in DOMAIN problem.slots :
                        \A b \in busy : ~Overlaps(problem.slots[i], b)}
        IN  /\ \A a \in allocations, b \in busy : ~Kept(a) => ~Overlaps(a, b)
            /\ \A day \in SlotDays :
                  100 * MinutesOn(day, used) <= CapacityPercent * MinutesOn(day, open)

(***************************************************************************)
(* "A Blocks Start B" means that B can start once A is done (normative     *)
(* specification, 6.1): a task whose predecessors are all placed or done   *)
(* is left out only if nothing that is free suits it.                      *)
(***************************************************************************)
DoneTasksUnblock ==
    phase \in Passes /\ ScheduleDone =>
        \A j \in unallocated :
            (\A p \in Gates(j) : p \in placed \/ input.finished[p]) => ~CouldHaveMore(j)
=============================================================================
