---------------------------- MODULE MCEvidenceStore ----------------------------
(***************************************************************************)
(* Constant values for checking EvidenceStore.                             *)
(***************************************************************************)
EXTENDS EvidenceStore

CONSTANTS w1, w2, w3, r1, r2, a1, a2, k1, k2, k3, f1, f2, f3, d1, d2, d3, p1, p2, p3

Row(asset, keys, f, d, p, version, at) ==
  [asset |-> asset, keys |-> keys, observed |-> at, finding |-> f, decision |-> d, plan |-> p,
   version |-> version, created |-> at]

\* One discovery batch, an assessment of it, and bundles for the first asset: a new one,
\* one with the second asset's claim and the plan ID of the first bundle, and one meant
\* as a second plan version.  Times count half seconds: the bundle is written with a
\* fraction, so that the other two are refused or accepted by the text of their times.
Inventory == [op |-> "inventory", items |-> <<Row(a1, {k1}, None, None, None, 1, 0),
                                              Row(a2, {k2}, None, None, None, 1, 0)>>]
Assessment == [op |-> "assess", items |-> <<Row(a2, {k2}, f2, d2, p2, 1, 0),
                                            Row(a1, {k1}, f1, d1, p1, 1, 0)>>]
Bundle == [op |-> "bundle", items |-> <<Row(a1, {k3}, f3, d3, p3, 1, 3)>>]
SameClaim == [op |-> "bundle", items |-> <<Row(a1, {k2}, f2, d2, p3, 1, 2)>>]
NextVersion == [op |-> "bundle", items |-> <<Row(a1, {k3}, f1, d3, p3, 2, 2)>>]

StoreCalls == {Inventory, Assessment, Bundle, SameClaim, NextVersion}

\* An assessment racing with a new claim for its first asset.
OtherBundle == [op |-> "bundle", items |-> <<Row(a2, {k3}, f3, d3, p3, 1, 2)>>]
RacingCalls == {Inventory, Assessment, OtherBundle}

ReadersAsset == [r \in Readers |-> a1]
===============================================================================
