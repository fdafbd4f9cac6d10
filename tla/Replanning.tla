----------------------------- MODULE Replanning -----------------------------
(***************************************************************************)
(* The planner as it is called (planner.py, replanning/): the input is     *)
(* validated; the passes are made once around the earlier plan and once    *)
(* without it; if that would move what may not be moved, they are made a   *)
(* third time with the protected allocations kept, and the moves are       *)
(* proposed instead.  What is delivered is stored and is the earlier plan  *)
(* of the next call, which comes after the canonical rows have changed     *)
(* (planning/service.py).                                                  *)
(***************************************************************************)
EXTENDS RiskAssessment, TodayPlan

CONSTANTS
    Scenarios,      \* [request: the first input, revisions: how it changes from call to call]
    FreezeWindow    \* 120 minutes

VARIABLES
    stage,          \* where the call is
    revisions,      \* the changes still to come
    proposals,      \* the moves that need an approval
    metrics,        \* stage -> the metrics of its passes
    output          \* the last valid output, which is stored

replanVars == <<vars, stage, revisions, proposals, metrics, output>>

InputFields ==
    {"now", "finished", "blocksStart", "blocksCompletion", "milestone", "limit", "buffer",
     "required", "dateOnly", "deadline", "timeKnown", "deliveries", "pinned", "priorPlan",
     "base", "safety", "remainingBase", "remainingSafety", "splittable", "minChunk",
     "startAfter", "windows", "fixedEvents", "protected", "preallocated"}

\* Windows that do not overlap; no instant is after Never.
Calendars ==
    {w \in Seq([start : Int, end : Int]) :
        /\ \A i \in DOMAIN w : w[i].end <= Never
        /\ \A i, k \in DOMAIN w : i # k => ~Overlaps(w[i], w[k])}

\* Allocations of an earlier plan, no two at the same time.
PriorPlans == {p \in Seq(KeptBlocks) : KeptApart(ToSet(p))}

\* The fields have their types; the dependencies are between the tasks, and
\* the windows and the earlier plan are as above.
WellFormed(i) ==
    /\ DOMAIN i = InputFields
    /\ i.finished \in [Tasks -> BOOLEAN]
    /\ i.blocksStart \cup i.blocksCompletion \subseteq Tasks \X Tasks
    /\ i.milestone \in [Tasks -> Milestones \cup {NoMilestone}]
    /\ {i.limit, i.buffer} \subseteq [Milestones -> Int]
    /\ {i.remainingBase, i.remainingSafety, i.minChunk, i.startAfter, i.safety, i.deadline}
          \subseteq [Tasks -> Int]
    /\ i.splittable \in [Tasks -> BOOLEAN]
    /\ i.windows \in Calendars
    /\ i.fixedEvents \cup i.protected \subseteq Spans
    /\ i.priorPlan \in PriorPlans

Revisions == [elapsed : Int, finished : SUBSET Tasks, pinned : SUBSET Tasks, windows : Calendars]

\* Windows that overlap, which nothing forbids, are outside this model.
ReplanningAssumption ==
    \A s \in Scenarios :
        /\ WellFormed(s.request)
        /\ s.request.preallocated = {}
        /\ s.revisions \in Seq(Revisions)
ASSUME ReplanningAssumption

\* validate_contract: the rules an input of this model can violate.
Violations ==
    {"DONE_TASK_HAS_REMAINING_TIME" : t \in
        {u \in Tasks : input.finished[u] /\ input.remainingBase[u] + input.remainingSafety[u] > 0}}
    \cup {"SAFETY_DURATION_BELOW_BASE" : t \in {u \in Tasks : input.safety[u] < input.base[u]}}
    \cup (IF Horizon <= input.now THEN {"HORIZON_MUST_END_AFTER_NOW"} ELSE {})
-----------------------------------------------------------------------------
Prior(i) == input.priorPlan[i]

Frozen(start) == start <= input.now + FreezeWindow

\* Mutant of Protected: what is frozen may be moved.
ProtectedIfPinned(a) == a.job \in input.pinned

\* An allocation of the earlier plan that may not be moved.
Protected(a) == a.job \in input.pinned \/ Frozen(a.start)

ProtectedPrior == {a \in ToSet(input.priorPlan) : Protected(a)}

\* The new allocations of a task; those of buffers are not compared.
Candidates(j) == {a \in plans["base"].allocations : a.job = j /\ j \in Tasks}

\* diff_from_prior: an allocation is unchanged if it is all its task has.
Unchanged(a) ==
    \E b \in Candidates(a.job) :
        Candidates(a.job) = {b} /\ b.start = a.start /\ b.end = a.end

Moved == {i \in DOMAIN input.priorPlan : Candidates(Prior(i).job) # {} /\ ~Unchanged(Prior(i))}

Removed == {i \in DOMAIN input.priorPlan : Candidates(Prior(i).job) = {}}

\* What needs a proposal: a protected allocation moves, or one is removed
\* of a job that has a protected allocation.
Disallowed ==
    {i \in Moved : Protected(Prior(i))}
    \cup {i \in Removed : \E a \in ProtectedPrior : a.job = Prior(i).job}

Proposals ==
    {<<Prior(i).job, IF Prior(i).job \in input.pinned THEN "USER_PINNED_MOVE_FORBIDDEN"
                     ELSE "FREEZE_WINDOW_MOVE_FORBIDDEN">> : i \in Disallowed}

NewStart(j) == Min({a.start : a \in Candidates(j)})

MoveCost(old, new) ==
    IF UtcDay(old) # UtcDay(new) THEN 40
    ELSE IF new - old >= FreezeWindow \/ old - new >= FreezeWindow THEN 10
    ELSE IF new = old THEN 0
    ELSE 2

ChangeCost ==
    MapThenSumSet(LAMBDA i : MoveCost(Prior(i).start, NewStart(Prior(i).job)), Moved \ Disallowed)
-----------------------------------------------------------------------------
PlannedMinutes(pass) == Minutes(plans[pass].allocations)

Level(level) == Cardinality({m \in Milestones : Risks[m] = level})

\* _metrics_from, without the fields that are always zero, compared in this
\* order.  Buffers count as planned in both passes, but as demand only in the
\* safety pass.
Metrics(violations, changeCost) ==
    [authorization |-> violations,
     critical      |-> Level("CRITICAL"),
     base          |-> Max({0, SumFunctionOnSet(input.remainingBase, Active)
                                 - PlannedMinutes("base")}),
     high          |-> Level("HIGH"),
     safety        |-> Max({0, SumFunctionOnSet(input.remainingSafety, Active)
                                 + MapThenSumSet(BufferDemand, Milestones)
                                 - PlannedMinutes("safety")}),
     change        |-> changeCost]
-----------------------------------------------------------------------------
NoOutput == [allocations |-> <<>>]

ReplanInit ==
    /\ \E s \in Scenarios : input = s.request /\ revisions = s.revisions
    /\ PlannerInit
    /\ stage = "called"
    /\ proposals = {}
    /\ metrics = <<>>
    /\ output = NoOutput

\* run_planning_passes is called.  Its graph analysis would repeat that of
\* the run before, since the tasks are the same, and is not made again.
Run(s, extraProtected, preallocated) ==
    /\ stage' = s
    /\ input' = [input EXCEPT !.protected = extraProtected, !.preallocated = preallocated]
    /\ phase' = "slots"
    /\ promoted' = {}
    /\ plans' = <<>>
    /\ capacityLeft' = <<>>
    /\ slots' = <<>>
    /\ UNCHANGED <<cycleVars, timingVars, scheduleVars, revisions, output>>

Validate ==
    /\ stage = "called"
    /\ IF Violations = {}
       THEN Run("before", {[start |-> a.start, end |-> a.end] : a \in ToSet(input.priorPlan)}, {})
       ELSE stage' = "rejected" /\ UNCHANGED <<vars, revisions, output>>
    /\ UNCHANGED <<proposals, metrics>>

MakePasses ==
    /\ stage \in {"before", "after", "kept"}
    /\ PlannerNext
    /\ UNCHANGED <<stage, revisions, proposals, metrics, output>>

RunFresh ==
    /\ stage = "before"
    /\ phase = "done"
    /\ metrics' = [before |-> Metrics(0, 0)]
    /\ Run("after", {}, {})
    /\ UNCHANGED proposals

\* The fresh passes are selected unless that would move what is protected.
SelectPasses ==
    /\ stage = "after"
    /\ phase = "done"
    /\ metrics' = [before |-> metrics.before,
                   after |-> Metrics(Cardinality(Disallowed), ChangeCost)]
    /\ proposals' = Proposals
    /\ IF Proposals = {}
       THEN stage' = "selected" /\ UNCHANGED <<vars, revisions, output>>
       ELSE Run("kept", {}, ProtectedPrior)

\* The base allocations without the slots they take, by start and job.
BaseBlocks == {[job |-> a.job, start |-> a.start, end |-> a.end] : a \in plans["base"].allocations}

Earlier(a, b) == a.start < b.start \/ (a.start = b.start /\ a.job < b.job)

Stored ==
    [i \in 1 .. Cardinality(BaseBlocks) |->
        CHOOSE a \in BaseBlocks : Cardinality({b \in BaseBlocks : Earlier(b, a)}) = i - 1]

DeliverPlan ==
    /\ stage \in {"selected", "kept"}
    /\ phase = "done"
    /\ stage' = "delivered"
    /\ output' = [allocations |-> Stored, risks |-> Risks, today |-> Today,
                  external |-> ExternalWarnings, cycles |-> Cycles, proposals |-> proposals]
    /\ UNCHANGED <<vars, revisions, proposals, metrics>>

\* A revision of the rows: time passes, tasks are finished, pinned and
\* unpinned, the availability changes.
Revised(r) ==
    [input EXCEPT !.now = @ + r.elapsed,
                  !.finished = [t \in Tasks |-> @[t] \/ t \in r.finished],
                  !.remainingBase = [t \in Tasks |-> IF t \in r.finished THEN 0 ELSE @[t]],
                  !.remainingSafety = [t \in Tasks |-> IF t \in r.finished THEN 0 ELSE @[t]],
                  !.pinned = r.pinned,
                  !.windows = r.windows,
                  !.priorPlan = output.allocations,
                  !.protected = {},
                  !.preallocated = {}]

\* create_plan is called again, with the stored plan as the earlier one.
CallAgain ==
    /\ stage \in {"rejected", "delivered"}
    /\ revisions # <<>>
    /\ stage' = "called"
    /\ revisions' = Tail(revisions)
    /\ input' = Revised(Head(revisions))
    /\ phase' = "slots"
    /\ promoted' = {}
    /\ plans' = <<>>
    /\ capacityLeft' = <<>>
    /\ slots' = <<>>
    /\ index' = [t \in Tasks |-> 0]
    /\ lowlink' = [t \in Tasks |-> 0]
    /\ stack' = <<>>
    /\ work' = <<>>
    /\ components' = {}
    /\ latestFinish' = <<>>
    /\ path' = <<>>
    /\ proposals' = {}
    /\ metrics' = <<>>
    /\ UNCHANGED <<scheduleVars, output>>

\* What a call does by itself, without waiting for anybody.
Proceed == Validate \/ MakePasses \/ RunFresh \/ SelectPasses \/ DeliverPlan

ReplanNext == Proceed \/ CallAgain

ReplanSpec == ReplanInit /\ [][ReplanNext]_replanVars

\* The planner is one sequential call: it takes its next step until it returns.
FairReplanSpec == ReplanSpec /\ WF_replanVars(Proceed)
-----------------------------------------------------------------------------
Delivered == stage = "delivered"

(***************************************************************************)
(* What is protected stays: every allocation of the earlier plan that is   *)
(* pinned or starts within the freeze window is an allocation of the plan  *)
(* delivered, for the same task at the same time (replan, plan).           *)
(***************************************************************************)
ProtectedStay ==
    Delivered =>
        \A i \in DOMAIN input.priorPlan :
            Prior(i).job \in input.pinned \/ Prior(i).start <= input.now + FreezeWindow =>
                Prior(i) \in ToSet(output.allocations)

ChunksBy(pass, j, limit) == {a \in plans[pass].allocations : a.job = j /\ a.end <= limit}

FinishedBy(pass, j, limit) ==
    Minutes(ChunksBy(pass, j, limit)) >= Need(pass, j)

NothingInExcess(pass) ==
    \A j \in JobsToPlan :
        Minutes({a \in plans[pass].allocations : a.job = j}) <= Need(pass, j)

(***************************************************************************)
(* A milestone that is not said to be at risk is not: as long as no job is *)
(* given more time than it needs (whole slots and kept allocations can),   *)
(* LOW and MEDIUM mean that both passes finish all of its tasks, and the   *)
(* safety pass its buffers, before the deadline (calculate_risks).         *)
(***************************************************************************)
RiskIsHonest ==
    Delivered /\ NothingInExcess("base") /\ NothingInExcess("safety") =>
        \A m \in Milestones : output.risks[m] \in {"LOW", "MEDIUM"} =>
            /\ \A t \in Members(m) : FinishedBy("base", t, Limit(m))
            /\ \A j \in Members(m) \cup BuffersOf(m) : FinishedBy("safety", j, Limit(m))

FreshToday(t) == \A a \in AllocatedToday(t) : ~Kept(a)

(***************************************************************************)
(* Today's list can be worked off in its order: of tasks that were not     *)
(* kept from the earlier plan, a later one does not start before an        *)
(* earlier one, and none starts before the active tasks it waits for have  *)
(* had all their time (build_today_plan).                                  *)
(***************************************************************************)
TodayIsDoable ==
    Delivered =>
        LET list == output.today.mustDo
        IN  \A i \in DOMAIN list : FreshToday(list[i]) =>
                /\ \A k \in 1 .. i - 1 : StartKey(list[k]) <= StartKey(list[i])
                /\ \A p \in Gates(list[i]) : FinishedBy("base", p, StartKey(list[i]))

(***************************************************************************)
(* Every call returns: with a plan, or with the rules the input violates.  *)
(***************************************************************************)
PlanIsDelivered == (stage = "called") ~> (stage \in {"rejected", "delivered"})
=============================================================================
