--------------------------- MODULE MCRestoreArchive ---------------------------
(***************************************************************************)
(* Constant values for checking RestoreArchive: two processes restore into *)
(* one new directory, a third into one that exists.                        *)
(***************************************************************************)
EXTENDS RestoreArchive

CONSTANTS p1, p2, p3, new, old

Targets == [p \in Restorers |-> IF p = p3 THEN old ELSE new]
===============================================================================
