---------------------------- MODULE MCApprovals ----------------------------
(* Small instances of Approvals. *)
EXTENDS Approvals, TLC

Symmetry == Permutations(Handlers)
=============================================================================
