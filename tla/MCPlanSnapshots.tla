-------------------------- MODULE MCPlanSnapshots --------------------------
(***************************************************************************)
(* Three plans created by two overlapping calls, and one browser.          *)
(***************************************************************************)
EXTENDS Views, TLC

CONSTANTS s1, s2, s3, c1, c2, v1

Symmetry == Permutations(Callers) \cup Permutations(Plans)
============================================================================
