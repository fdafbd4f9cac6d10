---------------------------- MODULE Availability ----------------------------
(***************************************************************************)
(* The slots of a pass (availability/slots.py and capacity.py): windows    *)
(* are cut into slots, fixed events and protected blocks take theirs, and  *)
(* the end of every local day's free time is held back as a buffer.        *)
(***************************************************************************)
EXTENDS PlannerInput, Intervals, Sequences, SequencesExt

CONSTANT CapacityPercent   \* 80 on a normal day

VARIABLES
    capacityLeft,   \* local day -> the minutes still to be planned; <<>> at first
    slots           \* the slots decided so far, in the order of the windows

slotVars == <<capacityLeft, slots>>

\* The last slot of a window may be shorter than the others.
SplitWindow(window) ==
    LET pieces == (Length(window) + SlotMinutes - 1) \div SlotMinutes
    IN  [i \in 1 .. pieces |->
            [start |-> window.start + (i - 1) * SlotMinutes,
             end   |-> Min({window.start + i * SlotMinutes, window.end})]]

\* The slots of all windows, in the order the windows are stored in.
SplitSlots == FlattenSeq([i \in DOMAIN input.windows |-> SplitWindow(input.windows[i])])

\* Mutant of Reserved: protected focus blocks do not reserve their slots.
ReservedByEvents(slot) == \E busy \in input.fixedEvents : Overlaps(slot, busy)

Reserved(slot) == \E busy \in input.fixedEvents \cup input.protected : Overlaps(slot, busy)

\* The unreserved minutes of a local day.
RawFree(day) ==
    Minutes({slot \in ToSet(SplitSlots) : LocalDay(slot.start) = day /\ ~Reserved(slot)})

\* The minutes of a local day that may be planned, in whole slots.
PlannedCapacity(day) ==
    ((RawFree(day) * CapacityPercent) \div (100 * SlotMinutes)) * SlotMinutes

SlotDays == {LocalDay(SplitSlots[i].start) : i \in DOMAIN SplitSlots}

SlotsInit ==
    /\ capacityLeft = <<>>
    /\ slots = <<>>

MeasureDays ==
    /\ DOMAIN capacityLeft # SlotDays
    /\ capacityLeft' = [day \in SlotDays |-> PlannedCapacity(day)]
    /\ UNCHANGED slots

\* The next slot stays free if it is not reserved and fits what is left of
\* its day; an unreserved slot that does not fit becomes the day's buffer.
DecideSlot ==
    /\ DOMAIN capacityLeft = SlotDays
    /\ Len(slots) < Len(SplitSlots)
    /\ LET slot == SplitSlots[Len(slots) + 1]
           day  == LocalDay(slot.start)
           keep == ~Reserved(slot) /\ capacityLeft[day] >= Length(slot)
       IN  /\ slots' = Append(slots, [start |-> slot.start, end |-> slot.end,
                                      day |-> UtcDay(slot.start), free |-> keep])
           /\ capacityLeft' = [capacityLeft EXCEPT ![day] = IF keep THEN @ - Length(slot) ELSE @]

SlotsNext == MeasureDays \/ DecideSlot

SlotsDone == DOMAIN capacityLeft = SlotDays /\ Len(slots) = Len(SplitSlots)

\* The slots in the order of time, as SlotLedger sorts them.
UniqueSlots ==
    LET Before(slot) == {s \in ToSet(slots) : s.start < slot.start}
    IN  [i \in DOMAIN slots |->
            CHOOSE slot \in ToSet(slots) : Cardinality(Before(slot)) = i - 1]
=============================================================================
