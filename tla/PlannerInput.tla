---------------------------- MODULE PlannerInput ----------------------------
(***************************************************************************)
(* What the planner is given (contracts/input.py), and the readings of it  *)
(* that the graph analysis, the placement and the passes share.            *)
(*                                                                         *)
(* Instants and durations are integers in one unit; instant 0 is the       *)
(* beginning of the first UTC day.  Tasks and milestones are identified by *)
(* integers, ordered as the hex strings of their identifiers are.  A field *)
(* the input leaves empty is Never (an instant after every other) or, for  *)
(* a milestone, NoMilestone.                                               *)
(***************************************************************************)
EXTENDS Integers, FiniteSets

CONSTANTS
    Tasks,          \* all tasks of the workspace, done ones included
    Milestones,
    NoMilestone,
    Never,          \* datetime.max
    SlotMinutes,
    DayLength,
    TimezoneOffset  \* of the user's time zone, in the same unit

VARIABLE
    \* a record of the fields read below and in the modules that extend this one
    input

InputAssumption ==
    /\ Tasks \subseteq Nat /\ IsFiniteSet(Tasks)
    /\ Milestones \subseteq Nat /\ IsFiniteSet(Milestones)
    /\ NoMilestone \notin Milestones
    /\ SlotMinutes \in Nat \ {0}
    /\ DayLength \in Nat \ {0}
    /\ {Never, TimezoneOffset} \subseteq Int
ASSUME InputAssumption

\* Neither done nor cancelled: the only distinction of statuses the planner
\* makes (a draft, waiting, blocked or deferred task is planned like any other).
Active == {t \in Tasks : ~input.finished[t]}

StartSuccessors(t) == {s \in Tasks : <<t, s>> \in input.blocksStart}

ActiveSuccessors(t) == StartSuccessors(t) \cap Active

UtcDay(instant) == instant \div DayLength

LocalDay(instant) == (instant + TimezoneOffset) \div DayLength

\* The effective deadline of a milestone, Never if it has none.
Limit(m) == input.limit[m]

\* The tasks that wait for an external delivery.
ExternallyBound == UNION {d.affected : d \in input.deliveries}

\* A milestone whose deadline is hard or an external commitment.
Required(t) == /\ input.milestone[t] # NoMilestone
               /\ input.required[input.milestone[t]]
=============================================================================
