--------------------------- MODULE MCTaskRecords ---------------------------
(***************************************************************************)
(* One task, two titles, three concurrent request handlers.                *)
(***************************************************************************)
EXTENDS TaskRecords, TLC

CONSTANTS t1, a, b, h1, h2, h3

HandlerSymmetry == Permutations(Handlers)
============================================================================
