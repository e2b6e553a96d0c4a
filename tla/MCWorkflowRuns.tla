---------------------------- MODULE MCWorkflowRuns ----------------------------
(* WorkflowRuns for TLC: the actors as model values. *)
EXTENDS WorkflowRuns, TLC

Symmetry == Permutations(Workers)
=============================================================================
