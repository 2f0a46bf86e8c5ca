---------------------------- MODULE MCWorkflowRuns ----------------------------
(***************************************************************************)
(* Constant values for checking WorkflowRuns: two callers of one run, the  *)
(* race the Airflow retry and a second command line can get into.          *)
(***************************************************************************)
EXTENDS WorkflowRuns, TLC

CONSTANTS c1, c2, r1, v1, v2

OneRun == [c \in Callers |-> r1]
\* Version v2 of a specification names another fixture than v1 does.
NamedByVersion ==
  [v \in Versions \cup {None} |->
     [fixture |-> IF v = v2 THEN "other_assets" ELSE "assets", directory |-> "owners"]]
Initially == [f \in Files |-> IF f = "other_assets" THEN v2 ELSE v1]
Symmetry == Permutations(Callers)
===============================================================================
