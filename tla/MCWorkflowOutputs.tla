--------------------------- MODULE MCWorkflowOutputs ---------------------------
(***************************************************************************)
(* Constant values for checking WorkflowOutputs: three calls.              *)
(***************************************************************************)
EXTENDS WorkflowOutputs, TLC

CONSTANTS c1, c2, c3

CallerSymmetry == Permutations(Callers)
===============================================================================
