-------------------------- MODULE MCReviewHistory --------------------------
(* A small instance of ReviewHistory: four reviews of one discovery, one   *)
(* of another export under another model.  Two of the reviews disagree on  *)
(* the asset of a finding, so histories must fork, and three of them chain *)
(* although a history may hold two, so the bound is met.                   *)
EXTENDS ReviewHistory, TLC

Receipt(x, d, m, day, hour, items) ==
    [export |-> x, discovery |-> d, model |-> m, as_of |-> day, assessed_at |-> hour, items |-> items]

MCReceipts ==
    {Receipt("x1", "d1", "m1", 1, 1, [f1 |-> "s1"]),
     Receipt("x1", "d1", "m1", 1, 2, [f1 |-> "s1", f2 |-> "s2"]),
     Receipt("x1", "d1", "m1", 2, 2, [f2 |-> "s1"]),
     Receipt("x1", "d1", "m1", 2, 3, [f1 |-> "s1"]),
     Receipt("x2", "d2", "m2", 2, 3, [f1 |-> "s1"])}

Key(public, state, from, to) ==
    [public |-> public, state |-> state, not_before |-> from, not_after |-> to]

\* The second policy is a later one: k1 is retired and k2 names another key.
MCPolicies ==
    {[audience |-> "ops", maximum |-> 2,
      keys |-> [k1 |-> Key("p1", "active", 0, 2), k2 |-> Key("p2", "revoked", 0, 3)]],
     [audience |-> "ops", maximum |-> 3,
      keys |-> [k1 |-> Key("p1", "retired", 0, 3), k2 |-> Key("p3", "active", 1, 3)]]}
=============================================================================
