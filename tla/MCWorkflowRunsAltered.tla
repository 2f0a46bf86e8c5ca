------------------------ MODULE MCWorkflowRunsAltered ------------------------
(***************************************************************************)
(* Constant values for checking WorkflowRunsAltered.  The assets may be    *)
(* edited from version v1 to v2, and whoever alters a run knows the digest *)
(* of v2, and the database and the report it would give.                   *)
(***************************************************************************)
EXTENDS WorkflowRunsAltered, TLC

CONSTANTS c1, c2, r1, v1, v2

OneRun == [c \in Callers |-> r1]
OneFixture == [v \in Versions \cup {None} |-> [fixture |-> "assets", directory |-> "owners"]]
AllFirst == [f \in Files |-> v1]
EditedAssets == {[[i \in Inputs |-> v1] EXCEPT !["fixture"] = v2]}
Symmetry == Permutations(Callers)

\* Bound: an edit of an input or a fault, not both, beside the alterations.
OneMishap == edits + faults <= 1
==============================================================================
