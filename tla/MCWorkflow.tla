----------------------------- MODULE MCWorkflow -----------------------------
(* Small instances of Workflow. *)
EXTENDS Workflow, TLC

CONSTANTS c1, c2, r1, r2

CallerSymmetry == Permutations(Callers)
RunSymmetry == Permutations(Runs)
CallerAndRunSymmetry == CallerSymmetry \cup RunSymmetry
=============================================================================
