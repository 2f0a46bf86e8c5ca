---------------------------- MODULE EvidenceLedger -----------------------------
(***************************************************************************)
(* What the evidence repository promises: each call appends all its rows   *)
(* in one step, or none, and no row is ever changed or removed.            *)
(***************************************************************************)
CONSTANTS
  Writers,    \* the calls' processes
  None,       \* the call has not ended
  Calls,      \* the calls they may make
  RowsOf(_)   \* the rows a call appends

VARIABLES
  call,     \* call[w]: the call w makes
  rows,     \* the evidence
  outcome   \* outcome[w]: how the call of w ended

Init ==
  /\ call \in [Writers -> Calls]
  /\ rows = {}
  /\ outcome = [w \in Writers |-> None]

Append(w) ==
  /\ outcome[w] = None
  /\ RowsOf(call[w]) \cap rows = {}
  /\ rows' = rows \cup RowsOf(call[w])
  /\ outcome' = [outcome EXCEPT ![w] = "stored"]
  /\ UNCHANGED call

Refuse(w) ==
  /\ outcome[w] = None
  /\ outcome' = [outcome EXCEPT ![w] = "failed"]
  /\ UNCHANGED <<call, rows>>

Next == \E w \in Writers : Append(w) \/ Refuse(w)

Spec == Init /\ [][Next]_<<call, rows, outcome>>
===============================================================================
