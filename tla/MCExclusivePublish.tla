-------------------------- MODULE MCExclusivePublish --------------------------
(***************************************************************************)
(* Constant values for checking ExclusivePublish: three processes race for *)
(* one name; one of them does not sync the directory.                      *)
(***************************************************************************)
EXTENDS ExclusivePublish

CONSTANTS p1, p2, p3, receipt

OneName == [p \in Publishers |-> receipt]
===============================================================================
