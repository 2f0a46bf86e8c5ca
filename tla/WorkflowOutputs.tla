---------------------------- MODULE WorkflowOutputs ----------------------------
(***************************************************************************)
(* run_workflow_to_sqlite of evidence_workflow.py called directly, without *)
(* the run directory of WorkflowRuns: several calls name the same database *)
(* and the same report.  Both names are looked up first; everything after  *)
(* that, the clean-up included, goes by name.                              *)
(*                                                                         *)
(* Files are identified by the call that created them, so that a name may  *)
(* come to denote another call's file.  SQLite (external, used by the      *)
(* calls): the database file is opened by the first statement of the       *)
(* schema; CREATE TABLE fails on a table that is there; a transaction that *)
(* starts to write fails when the name no longer denotes the open file; a  *)
(* transaction already writing commits into the file it has, named or not. *)
(***************************************************************************)
EXTENDS Naturals

CONSTANTS
  Callers,   \* the calls of run_workflow_to_sqlite
  None,      \* no file, no answer
  MaxKills   \* bound: processes killed

ASSUME NoneAssumption == None \notin Callers \cup {"success", "failed", "killed"}
ASSUME KillsAssumption == MaxKills \in Nat

VARIABLES
  db,        \* the call whose database file has the name, or None
  evidence,  \* the calls whose database file holds a committed bundle
  report,    \* the call whose report has the name, or None
  written,   \* the calls whose report is written out
  pc,        \* pc[c]: what call c does next
  answer,    \* answer[c]: how it ended
  overlap,   \* history: the calls that ran at the same time as another one
  kills      \* processes killed so far

files == <<db, evidence, report, written>>
vars == <<files, pc, answer, overlap, kills>>

Init ==
  /\ db = None /\ evidence = {}
  /\ report = None /\ written = {}
  /\ pc = [c \in Callers |-> "check"]
  /\ answer = [c \in Callers |-> None]
  /\ overlap = {}
  /\ kills = 0

Running == {c \in Callers : pc[c] \notin {"check", "done"}}
Step(c, from, to) == pc[c] = from /\ pc' = [pc EXCEPT ![c] = to]
End(c, how) == answer' = [answer EXCEPT ![c] = how]
Start(c) == overlap' = overlap \cup Running \cup {d \in {c} : Running # {}}

\* Mutant: nothing is looked up.
CheckNothing(c) ==
  /\ Step(c, "check", "schema") /\ Start(c)
  /\ UNCHANGED <<files, answer, kills>>

\* Neither name may exist.  The specification and the schema are read next; a
\* reading that fails leaves no trace.
Check(c) ==
  \/ /\ Step(c, "check", "done") /\ End(c, "failed")
     /\ UNCHANGED <<files, overlap, kills>>
  \/ /\ db = None /\ report = None
     /\ Step(c, "check", "schema") /\ Start(c)
     /\ UNCHANGED <<files, answer, kills>>

\* executescript opens the file that has the name, or creates it.
ApplySchema(c) ==
  /\ \/ db = None /\ db' = c /\ Step(c, "schema", "load")
     \/ db # None /\ UNCHANGED db /\ Step(c, "schema", "unlink")
  /\ UNCHANGED <<evidence, report, written, answer, overlap, kills>>

\* The rest of the schema, the fixture, the directory, the policies.
Load(c) ==
  /\ Step(c, "load", "store")
  /\ db = c
  /\ UNCHANGED <<files, answer, overlap, kills>>

\* The transaction of store_bundle starts to write ...
BeginBundle(c) ==
  /\ Step(c, "store", "commit")
  /\ db = c
  /\ UNCHANGED <<files, answer, overlap, kills>>

\* ... and is committed.
CommitBundle(c) ==
  /\ Step(c, "commit", "open")
  /\ evidence' = evidence \cup {c}
  /\ UNCHANGED <<db, report, written, answer, overlap, kills>>

\* report.write_text creates the file or truncates the one that is there.
OpenReport(c) ==
  /\ Step(c, "open", "write")
  /\ report' = c
  /\ UNCHANGED <<db, evidence, written, answer, overlap, kills>>

WriteReport(c) ==
  /\ Step(c, "write", "done")
  /\ written' = written \cup {c}
  /\ End(c, "success")
  /\ UNCHANGED <<db, evidence, report, overlap, kills>>

\* Mutant: the error is raised, the file left.
FailAtOnce(c) ==
  /\ pc[c] \in {"load", "store", "commit"}
  /\ pc' = [pc EXCEPT ![c] = "done"] /\ End(c, "failed")
  /\ UNCHANGED <<files, overlap, kills>>

\* An input or a policy rejected, a lost name, a disk error.
Fail(c) ==
  /\ \/ pc[c] \in {"load", "store", "commit"} /\ pc' = [pc EXCEPT ![c] = "unlink"]
     \/ pc[c] \in {"open", "write"} /\ pc' = [pc EXCEPT ![c] = "unlink both"]
  /\ UNCHANGED <<files, answer, overlap, kills>>

\* The clean-up: the names are unlinked, whatever they denote.
Unlink(c) ==
  /\ \/ Step(c, "unlink", "done") /\ End(c, "failed") /\ UNCHANGED report
     \/ Step(c, "unlink both", "unlink report") /\ UNCHANGED <<report, answer>>
  /\ db' = None
  /\ UNCHANGED <<evidence, written, overlap, kills>>

UnlinkReport(c) ==
  /\ Step(c, "unlink report", "done") /\ End(c, "failed")
  /\ report' = None
  /\ UNCHANGED <<db, evidence, written, overlap, kills>>

Kill(c) ==
  /\ c \in Running
  /\ kills < MaxKills
  /\ kills' = kills + 1
  /\ pc' = [pc EXCEPT ![c] = "done"] /\ End(c, "killed")
  /\ UNCHANGED <<files, overlap>>

Run(c) == \/ Check(c) \/ ApplySchema(c) \/ Load(c) \/ BeginBundle(c) \/ CommitBundle(c)
          \/ OpenReport(c) \/ WriteReport(c) \/ Fail(c) \/ Unlink(c) \/ UnlinkReport(c)

Next == \E c \in Callers : Run(c) \/ Kill(c)

Spec == Init /\ [][Next]_vars

-------------------------------------------------------------------------------
\* Every variable holds a value of its kind.
TypeOK ==
  /\ db \in Callers \cup {None}
  /\ evidence \in SUBSET Callers
  /\ report \in Callers \cup {None}
  /\ written \in SUBSET Callers
  /\ pc \in [Callers -> {"check", "schema", "load", "store", "commit", "open", "write",
                         "unlink", "unlink both", "unlink report", "done"}]
  /\ answer \in [Callers -> {None, "success", "failed", "killed"}]
  /\ overlap \in SUBSET Callers
  /\ kills \in 0..MaxKills

\* "a failed workflow removes its incomplete database rather than leaving partial
\* evidence" (docs/architecture.md), and so the report: what is incomplete belongs
\* to a call that is still running or was killed, however the calls overlap.
IncompleteIsExplained ==
  /\ db # None => db \in evidence \/ db \in Running \/ answer[db] = "killed"
  /\ report # None => report \in written \/ report \in Running \/ answer[report] = "killed"

\* A call that succeeded without ever overlapping another one has both its outputs,
\* and no later call takes them from it.
EarlierRunIsKept ==
  \A c \in Callers \ overlap : answer[c] = "success" =>
    db = c /\ c \in evidence /\ report = c /\ c \in written

\* While nobody overlaps, the names denote what the only running call made.
LoneCall ==
  \A c \in Callers \ overlap :
    /\ c \in Running => \A d \in Callers \ {c} : d \notin Running
    /\ pc[c] = "schema" => db = None /\ report = None
    /\ pc[c] \in {"load", "store", "commit", "unlink"} => db = c /\ report = None
    /\ pc[c] \in {"open", "unlink both"} => db = c /\ c \in evidence /\ report \in {None, c}
    /\ pc[c] = "open" => report = None
    /\ pc[c] = "write" => db = c /\ c \in evidence /\ report = c
    /\ pc[c] = "unlink report" => db = None /\ report \in {None, c}
    /\ answer[c] = "success" => \A d \in Callers : d \notin Running
    /\ answer[c] # None => pc[c] = "done"

\* Why IncompleteIsExplained holds: a call ends in "done", it has a report only once
\* its evidence is committed, and neither output before it created it.
OutputsFollowCall ==
  \A c \in Callers :
    /\ answer[c] = "killed" => pc[c] = "done"
    /\ pc[c] = "check" => db # c
    /\ pc[c] \in {"check", "schema", "load", "store", "commit", "unlink"} => report # c
    /\ pc[c] \in {"open", "write", "unlink both", "unlink report"} => c \in evidence

ExplainedInvariant == TypeOK /\ OutputsFollowCall /\ IncompleteIsExplained

\* Why EarlierRunIsKept holds: the inductive invariant.
OutputsInvariant == TypeOK /\ LoneCall /\ EarlierRunIsKept

\* "Create new local outputs without overwriting evidence from an earlier run": the
\* evidence of a finished call stays.  The clean-up of an overlapping call that fails
\* unlinks the database by name, though, so this does not hold.
FinishedRunIsKept ==
  [][\A c \in Callers : (answer[c] = "success" /\ db = c) => db' = c]_vars
===============================================================================
