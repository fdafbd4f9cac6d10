------------------------------ MODULE Intervals ------------------------------
(***************************************************************************)
(* Anything with a beginning and an end: windows, slots, events, blocks    *)
(* and allocations.  The end is exclusive.                                 *)
(***************************************************************************)
EXTENDS Integers, FiniteSetsExt

Overlaps(a, b) == a.start < b.end /\ b.start < a.end

\* What takes some time: nothing ends before it begins, or as it begins.
Spans == {a \in [start : Int, end : Int] : a.start < a.end}

Length(a) == a.end - a.start

\* The time of all intervals of a finite set together.
Minutes(A) == MapThenSumSet(LAMBDA a : a.end - a.start, A)
=============================================================================
