----------------------------- MODULE MCCalendar -----------------------------
(***************************************************************************)
(* Two events of the provider with three changes, synchronised by a        *)
(* recovery round and one webhook request at the same time.                *)
(***************************************************************************)
EXTENDS CalendarSync

CONSTANTS e1, e2, w1
=============================================================================
