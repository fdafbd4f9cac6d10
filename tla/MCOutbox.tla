----------------------------- MODULE MCOutbox -----------------------------
(***************************************************************************)
(* Small instances of Outbox: two commands, the first one older.           *)
(***************************************************************************)
EXTENDS Outbox

CONSTANTS c1, c2, w1, w2, w3

MCCreatedAt == [c \in Commands |-> IF c = c1 THEN 0 ELSE 1]
===========================================================================
