---------------------------- MODULE RestoreArchive ----------------------------
(***************************************************************************)
(* restore_archive of ec2_history_archive.py and ec2_sequence_archive.py:  *)
(* several files are restored into one new directory, each published       *)
(* exclusively (staged, hard-linked, unstaged; see ExclusivePublish), and  *)
(* RESTORE.json last, as the completion record.  Whatever exception comes, *)
(* BaseException included, removes the whole directory and is raised       *)
(* again.  A process may also be killed, and the removal may itself fail.  *)
(*                                                                         *)
(* The files are numbered in the order they are published: history.sqlite  *)
(* and export.json, or the databases and exports of the batches, then the  *)
(* checkpoint and the coverage report; RESTORE.json is the last number.    *)
(***************************************************************************)
EXTENDS Naturals

CONSTANTS
  Restorers,  \* processes that call restore_archive, once each
  Dests,      \* destination directories
  DestOf,     \* DestOf[p]: the directory process p restores into
  Existing,   \* the directories that exist before
  DataFiles,  \* how many files are published before RESTORE.json
  None,       \* the call has not ended
  MaxFaults   \* bound: exceptions, kills and failing removals

Completion == DataFiles + 1
Files == 1..Completion

ASSUME DestOfAssumption == DestOf \in [Restorers -> Dests]
ASSUME ExistingAssumption == Existing \subseteq Dests
ASSUME CountAssumption == DataFiles \in Nat /\ MaxFaults \in Nat
ASSUME NoneAssumption == None \notin {"restored", "failed"}

VARIABLES
  made,     \* the destination directories that exist
  present,  \* present[d]: the files linked in directory d
  staging,  \* staging[d]: the processes with a staging file in directory d
  pc,       \* pc[p]: what process p does next
  at,       \* at[p]: the file process p publishes
  answer,   \* answer[p]: how the call ended
  broken,   \* history: directories whose removal was begun since they were made
  left,     \* history: directories whose creator was killed or could not remove
  faults    \* exceptions, kills and failing removals so far

contents == <<present, staging>>
history == <<broken, left>>
vars == <<made, contents, pc, at, answer, history, faults>>

Init ==
  /\ made = Existing
  /\ present = [d \in Dests |-> {}]
  /\ staging = [d \in Dests |-> {}]
  /\ pc = [p \in Restorers |-> "load"]
  /\ at = [p \in Restorers |-> 1]
  /\ answer = [p \in Restorers |-> None]
  /\ broken = {}
  /\ left = {}
  /\ faults = 0

\* p has made its directory and its call has not ended.
Creating(p) == pc[p] \in {"stage", "link", "unstage", "remove"}

Step(p, from, to) == pc[p] = from /\ pc' = [pc EXCEPT ![p] = to]
End(p, how) == answer' = [answer EXCEPT ![p] = how]

\* _load: the archive is captured once and verified under its pins before the
\* directory is made.
Load(p) ==
  /\ \/ Step(p, "load", "mkdir") /\ UNCHANGED answer
     \/ Step(p, "load", "done") /\ End(p, "failed")
  /\ UNCHANGED <<made, contents, at, history, faults>>

\* Mutant: mkdir(exist_ok = True).
MakeDirectoryExistOk(p) ==
  /\ Step(p, "mkdir", "stage")
  /\ made' = made \cup {DestOf[p]}
  /\ broken' = broken \ {DestOf[p]}
  /\ UNCHANGED <<contents, at, answer, left, faults>>

\* Exclusive: an existing directory is preserved.
MakeDirectory(p) ==
  /\ Step(p, "mkdir", "stage")
  /\ DestOf[p] \notin made
  /\ made' = made \cup {DestOf[p]}
  /\ broken' = broken \ {DestOf[p]}
  /\ UNCHANGED <<contents, at, answer, left, faults>>

DirectoryExists(p) ==
  /\ Step(p, "mkdir", "done")
  /\ DestOf[p] \in made
  /\ End(p, "failed")
  /\ UNCHANGED <<made, contents, at, history, faults>>

-------------------------------------------------------------------------------
(* _publish, for one file after the other.                                 *)

Stage(p) ==
  /\ Step(p, "stage", "link")
  /\ staging' = [staging EXCEPT ![DestOf[p]] = @ \cup {p}]
  /\ UNCHANGED <<made, present, at, answer, history, faults>>

\* Mutant: the files are published in the reverse order.
LinkReversed(p) ==
  /\ Step(p, "link", "unstage")
  /\ (Completion + 1 - at[p]) \notin present[DestOf[p]]
  /\ present' = [present EXCEPT ![DestOf[p]] = @ \cup {Completion + 1 - at[p]}]
  /\ UNCHANGED <<made, staging, at, answer, history, faults>>

\* The link is exclusive; PrefixIsPresent below shows that in a directory of one's
\* own it never finds the name taken.
Link(p) ==
  /\ Step(p, "link", "unstage")
  /\ at[p] \notin present[DestOf[p]]
  /\ present' = [present EXCEPT ![DestOf[p]] = @ \cup {at[p]}]
  /\ UNCHANGED <<made, staging, at, answer, history, faults>>

Unstage(p) ==
  /\ \/ /\ at[p] < Completion
        /\ Step(p, "unstage", "stage")
        /\ at' = [at EXCEPT ![p] = @ + 1]
        /\ UNCHANGED answer
     \/ /\ at[p] = Completion
        /\ Step(p, "unstage", "done")
        /\ End(p, "restored")
        /\ UNCHANGED at
  /\ staging' = [staging EXCEPT ![DestOf[p]] = @ \ {p}]
  /\ UNCHANGED <<made, present, history, faults>>

Restore(p) == \/ Load(p) \/ MakeDirectory(p) \/ DirectoryExists(p)
              \/ Stage(p) \/ Link(p) \/ Unstage(p)

-------------------------------------------------------------------------------
(* What goes wrong.                                                        *)

\* Mutant: an interrupt is not caught.
RaiseUncaught(p) ==
  /\ faults < MaxFaults
  /\ faults' = faults + 1
  /\ pc[p] \in {"stage", "link", "unstage"}
  /\ pc' = [pc EXCEPT ![p] = "done"]
  /\ staging' = [staging EXCEPT ![DestOf[p]] = @ \ {p}]
  /\ End(p, "failed")
  /\ UNCHANGED <<made, present, at, history>>

\* An exception or an interrupt.  The finally clause of _publish removes the
\* staging file, unless it is interrupted itself or the removal is what fails.
Raise(p) ==
  /\ faults < MaxFaults
  /\ faults' = faults + 1
  /\ pc[p] \in {"stage", "link", "unstage"}
  /\ pc' = [pc EXCEPT ![p] = "remove"]
  /\ staging' \in {staging, [staging EXCEPT ![DestOf[p]] = @ \ {p}]}
  /\ broken' = broken \cup {DestOf[p]}
  /\ UNCHANGED <<made, present, at, answer, left>>

\* shutil.rmtree: the entries in no particular order, then the directory.
RemoveEntry(p) ==
  /\ Step(p, "remove", "remove")
  /\ \/ /\ \E n \in present[DestOf[p]] : present' = [present EXCEPT ![DestOf[p]] = @ \ {n}]
        /\ UNCHANGED staging
     \/ /\ \E q \in staging[DestOf[p]] : staging' = [staging EXCEPT ![DestOf[p]] = @ \ {q}]
        /\ UNCHANGED present
  /\ UNCHANGED <<made, at, answer, history, faults>>

RemoveDirectory(p) ==
  /\ Step(p, "remove", "done")
  /\ present[DestOf[p]] = {} /\ staging[DestOf[p]] = {}
  /\ made' = made \ {DestOf[p]}
  /\ End(p, "failed")
  /\ UNCHANGED <<contents, at, history, faults>>

Remove(p) == RemoveEntry(p) \/ RemoveDirectory(p)

\* rmtree raises at the first entry it cannot remove, or the process is killed.
Stop(p) ==
  /\ Creating(p)
  /\ faults < MaxFaults
  /\ faults' = faults + 1
  /\ pc' = [pc EXCEPT ![p] = "done"]
  /\ End(p, "failed")
  /\ left' = left \cup {DestOf[p]}
  /\ UNCHANGED <<made, contents, at, broken>>

Next == \E p \in Restorers : Restore(p) \/ Raise(p) \/ Remove(p) \/ Stop(p)

Spec == Init /\ [][Next]_vars

-------------------------------------------------------------------------------
\* Every variable holds a value of its kind.
TypeOK ==
  /\ made \in SUBSET Dests
  /\ present \in [Dests -> SUBSET Files]
  /\ staging \in [Dests -> SUBSET Restorers]
  /\ pc \in [Restorers -> {"load", "mkdir", "stage", "link", "unstage", "remove", "done"}]
  /\ at \in [Restorers -> Files]
  /\ answer \in [Restorers -> {None, "restored", "failed"}]
  /\ broken \in SUBSET Dests
  /\ left \in SUBSET Dests
  /\ faults \in 0..MaxFaults

Complete(d) == present[d] = Files /\ staging[d] = {}

\* The completion record comes last: as long as no removal was begun, its presence
\* means that every file is there, even when the process is killed right then.
CompletionIsLast ==
  \A d \in Dests : (Completion \in present[d] /\ d \notin broken) => present[d] = Files

\* A successful restore is complete, without staging files, and stays so whatever
\* other restorers of the same directory do afterwards; and the completion record
\* is never there before the files it speaks for.
RestoredIsComplete ==
  /\ CompletionIsLast
  /\ \A p \in Restorers : answer[p] = "restored" => Complete(DestOf[p])

\* A directory that existed before, that a finished restore has filled, or that nobody
\* is creating is never changed or removed.
OthersAreKept ==
  [][\A d \in made :
       \/ d \in Existing
       \/ \E p \in Restorers : DestOf[p] = d /\ answer[p] = "restored"
       \/ \A p \in Restorers : DestOf[p] = d => ~Creating(p)
       => present'[d] = present[d] /\ staging'[d] = staging[d] /\ d \in made']_vars

\* A failed restore leaves no directory, unless it was killed or could not remove it.
FailureLeavesNothing ==
  \A d \in made \ Existing :
    \/ d \in left
    \/ \E p \in Restorers : DestOf[p] = d /\ (Creating(p) \/ answer[p] = "restored")

\* docs/ec2-history-archive.md calls RESTORE.json "the completion record".  But the
\* removal after an exception takes the entries in any order: if it stops halfway,
\* the record may be what is left, so this does not hold.
CompletionMeansComplete ==
  \A d \in Dests :
    (Completion \in present[d] /\ \A p \in Restorers : DestOf[p] = d => ~Creating(p)) =>
      present[d] = Files

-------------------------------------------------------------------------------
(* Why these hold.                                                         *)

\* One process creates a directory at a time, and it finds there what it put there.
CreatorsAreAlone ==
  \A p \in Restorers : Creating(p) =>
    /\ DestOf[p] \in made \ Existing
    /\ \A q \in Restorers \ {p} : DestOf[q] = DestOf[p] => ~Creating(q) /\ answer[q] # "restored"

PrefixIsPresent ==
  \A p \in Restorers :
    LET d == DestOf[p] IN
    /\ pc[p] \in {"load", "mkdir"} => at[p] = 1
    /\ pc[p] = "stage" => present[d] = 1..(at[p] - 1) /\ staging[d] = {}
    /\ pc[p] = "link" => present[d] = 1..(at[p] - 1) /\ staging[d] = {p}
    /\ pc[p] = "unstage" => present[d] = 1..at[p] /\ staging[d] = {p}
    /\ pc[p] = "remove" => d \in broken

RestoredAreDone ==
  \A p \in Restorers : answer[p] = "restored" =>
    pc[p] = "done" /\ DestOf[p] \in made /\ Complete(DestOf[p])

AbsentAreEmpty ==
  /\ Existing \subseteq made
  /\ \A d \in Dests : (d \notin made \/ d \in Existing) => present[d] = {} /\ staging[d] = {}

RestoreInvariant ==
  /\ CreatorsAreAlone
  /\ PrefixIsPresent
  /\ RestoredAreDone
  /\ AbsentAreEmpty
  /\ CompletionIsLast
===============================================================================
