------------------------------ MODULE WriteOnce ------------------------------
(***************************************************************************)
(* What the file-publishing parts of the repository promise, without the   *)
(* files.  Every key (a workflow run identifier, a receipt path) has at    *)
(* most one outcome.  The outcome is written by one step, never changes,   *)
(* and every client that is told about the key is told that outcome.       *)
(*                                                                         *)
(* WorkflowRuns and ExclusivePublish implement this specification.         *)
(***************************************************************************)
CONSTANTS
  Keys,      \* what is written once
  Clients,   \* the processes that write or ask
  KeyOf,     \* KeyOf[c]: the key client c works on
  Values,    \* the possible outcomes
  None       \* no outcome, or no answer yet

VARIABLES
  outcome,   \* outcome[k]: the outcome of key k, None before it is written
  answer     \* answer[c]: what client c was told, None before

vars == <<outcome, answer>>

Init ==
  /\ outcome = [k \in Keys |-> None]
  /\ answer = [c \in Clients |-> None]

\* Key k gets its outcome, any one of the possible ones.
Write(k) ==
  /\ outcome[k] = None
  /\ outcome'[k] \in Values
  /\ outcome' = [outcome EXCEPT ![k] = outcome'[k]]
  /\ UNCHANGED answer

\* Client c learns the outcome of its key.
Tell(c) ==
  /\ outcome[KeyOf[c]] # None
  /\ answer' = [answer EXCEPT ![c] = outcome[KeyOf[c]]]
  /\ UNCHANGED outcome

Next ==
  \/ \E k \in Keys : Write(k)
  \/ \E c \in Clients : Tell(c)

Spec == Init /\ [][Next]_vars

==============================================================================
