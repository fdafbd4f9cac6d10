--------------------------- MODULE MCFocusBlocks ---------------------------
(***************************************************************************)
(* Two proposals on one task and two or three concurrent requests.         *)
(***************************************************************************)
EXTENDS FocusBlocks, TLC

CONSTANTS p1, p2, t1, h1, h2, h3

Symmetry == Permutations(Handlers) \cup Permutations(Proposals)
============================================================================
