---------------------------- MODULE MCApprovals ----------------------------
(***************************************************************************)
(* One task, two proposals on it, two concurrent decisions next to the     *)
(* other writers of the task.                                              *)
(***************************************************************************)
EXTENDS Approvals, TLC

CONSTANTS t1, a, b, h1, h2, p1, p2, d1, d2

DeciderSymmetry == Permutations(Deciders)
============================================================================
