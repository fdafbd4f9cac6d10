--------------------------- MODULE RiskAssessment ---------------------------
(***************************************************************************)
(* What a finished set of passes says of the milestones and the external   *)
(* dependencies (risk/coverage.py, classify.py, external.py): demand       *)
(* against the time allocated up to the deadline, and the slack behind it. *)
(***************************************************************************)
EXTENDS Planner

CONSTANT MinimumSlack   \* 30 minutes

Members(m) == {t \in Active : input.milestone[t] = m}

BaseDemand(m) == SumFunctionOnSet(input.remainingBase, Members(m))

SafetyDemand(m) == SumFunctionOnSet(input.remainingSafety, Members(m))

BufferDemand(m) ==
    SumFunctionOnSet([b \in BuffersOf(m) |-> BufferMinutes(b, m)], BuffersOf(m))

\* Mutant of MinutesBy: a chunk counts although it ends after the limit.
MinutesStartedBy(pass, jobs, limit) ==
    Minutes({a \in plans[pass].allocations : a.job \in jobs /\ a.start <= limit})

\* What a pass gives to some jobs in chunks that end by the limit.
MinutesBy(pass, jobs, limit) ==
    Minutes({a \in plans[pass].allocations : a.job \in jobs /\ a.end <= limit})

BaseCovered(m) == MinutesBy("base", Members(m), Limit(m)) >= BaseDemand(m)

BuffersCovered(m) == MinutesBy("safety", BuffersOf(m), Limit(m)) >= BufferDemand(m)

SafetyCovered(m) ==
    MinutesBy("safety", Members(m) \cup BuffersOf(m), Limit(m))
        >= SafetyDemand(m) + BufferDemand(m)

\* The time the safety pass left free between now and the limit.
Slack(m) ==
    IF Limit(m) = Never \/ Limit(m) <= input.now THEN 0
    ELSE Minutes({problem.slots[i] : i \in {n \in plans["safety"].free :
                                              StartOf(n) >= input.now /\ EndOf(n) <= Limit(m)}})

\* A tenth of the demand in whole slots, and no less than MinimumSlack.
SlackWanted(m) ==
    LET demand == SafetyDemand(m) + BufferDemand(m)
        slotsOfTenth == (demand + 10 * SlotMinutes - 1) \div (10 * SlotMinutes)
    IN  Max({MinimumSlack, slotsOfTenth * SlotMinutes})

OnCycle(m) == Members(m) \cap UNION Cycles # {}

\* The rules are tried in this order (classify_milestone).
RiskLevel(m) ==
    IF OnCycle(m) THEN "CRITICAL"
    ELSE IF input.dateOnly[m] \/ Limit(m) = Never THEN "UNKNOWN"
    ELSE IF ~BaseCovered(m) THEN "CRITICAL"
    ELSE IF ~SafetyCovered(m) \/ ~BuffersCovered(m) THEN "HIGH"
    ELSE IF Slack(m) < SlackWanted(m) THEN "MEDIUM"
    ELSE "LOW"

Risks == [m \in Milestones |-> RiskLevel(m)]

\* When the first of the affected tasks must start, Never if there is none.
Handoff(d) == Min({Never} \cup {MustStartBy(t) : t \in d.affected})

ExternalLevel(d) ==
    IF Handoff(d) = Never \/ d.expected = Never THEN "UNKNOWN"
    ELSE IF input.now > Handoff(d) /\ ~d.fallback THEN "CRITICAL"
    ELSE IF d.expected > Handoff(d) THEN "HIGH"
    ELSE IF Handoff(d) - d.expected <= d.uncertainty THEN "MEDIUM"
    ELSE "LOW"

ExternalWarnings ==
    {<<d, ExternalLevel(d)>> : d \in {e \in input.deliveries : ExternalLevel(e) # "LOW"}}
=============================================================================
