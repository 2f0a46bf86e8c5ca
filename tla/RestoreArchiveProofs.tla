------------------------- MODULE RestoreArchiveProofs -------------------------
(***************************************************************************)
(* Proofs about RestoreArchive, for any number of processes, directories,  *)
(* files and faults.                                                       *)
(*                                                                         *)
(* RestoreInvariant is inductive together with TypeOK: the exclusive mkdir *)
(* makes a process the only one that works in its directory, so that it    *)
(* finds there the files 1..at it has published itself, and the completion *)
(* record is the last of them.                                             *)
(***************************************************************************)
EXTENDS RestoreArchive, TLAPS

\* The completion record is a file, and there is a first file.
LEMMA CompletionType == Completion \in Nat /\ Completion \in Files /\ 1 \in Files
  BY CountAssumption DEF Completion, Files

-------------------------------------------------------------------------------
\* Every reachable state is well typed.
THEOREM RestoreTypeCorrect == Spec => []TypeOK
<1>1. Init => TypeOK
  BY ExistingAssumption, CountAssumption, CompletionType DEF Init, TypeOK
<1>2. TypeOK /\ [Next]_vars => TypeOK'
  <2> SUFFICES ASSUME TypeOK, [Next]_vars PROVE TypeOK'
    OBVIOUS
  <2> USE DestOfAssumption, CompletionType, CountAssumption DEF TypeOK
  <2>1. ASSUME NEW p \in Restorers, Load(p) PROVE TypeOK'
    BY <2>1 DEF Load, Step, End, contents, history
  <2>2. ASSUME NEW p \in Restorers, MakeDirectory(p) PROVE TypeOK'
    BY <2>2 DEF MakeDirectory, Step, contents
  <2>3. ASSUME NEW p \in Restorers, DirectoryExists(p) PROVE TypeOK'
    BY <2>3 DEF DirectoryExists, Step, End, contents, history
  <2>4. ASSUME NEW p \in Restorers, Stage(p) PROVE TypeOK'
    BY <2>4 DEF Stage, Step, history
  <2>5. ASSUME NEW p \in Restorers, Link(p) PROVE TypeOK'
    BY <2>5 DEF Link, Step, history
  <2>6. ASSUME NEW p \in Restorers, Unstage(p) PROVE TypeOK'
    <3>1. at' \in [Restorers -> Files]
      BY <2>6 DEF Unstage, Files
    <3> QED BY <3>1, <2>6 DEF Unstage, Step, End, history
  <2>7. ASSUME NEW p \in Restorers, Raise(p) PROVE TypeOK'
    BY <2>7 DEF Raise
  <2>8. ASSUME NEW p \in Restorers, RemoveEntry(p) PROVE TypeOK'
    BY <2>8 DEF RemoveEntry, Step, history
  <2>9. ASSUME NEW p \in Restorers, RemoveDirectory(p) PROVE TypeOK'
    BY <2>9 DEF RemoveDirectory, Step, End, contents, history
  <2>10. ASSUME NEW p \in Restorers, Stop(p) PROVE TypeOK'
    BY <2>10 DEF Stop, End, contents
  <2>11. CASE UNCHANGED vars
    BY <2>11 DEF vars, contents, history
  <2> QED BY <2>1, <2>2, <2>3, <2>4, <2>5, <2>6, <2>7, <2>8, <2>9, <2>10, <2>11
          DEF Next, Restore, Remove
<1> QED BY <1>1, <1>2, PTL DEF Spec

-------------------------------------------------------------------------------
(* A step of p that leaves the other processes and directories alone keeps *)
(* what the invariant says of them; the lemma leaves p and DestOf[p].      *)

OnlyAt(p) ==
  /\ \A q \in Restorers \ {p} :
       pc'[q] = pc[q] /\ at'[q] = at[q] /\ answer'[q] = answer[q]
  /\ \A d \in Dests \ {DestOf[p]} :
       /\ present'[d] = present[d] /\ staging'[d] = staging[d]
       /\ d \in made' <=> d \in made
       /\ d \in broken' <=> d \in broken

\* What RestoreInvariant asks of p and of its directory.
InvariantAt(p) ==
  LET d == DestOf[p] IN
  /\ Creating(p) => d \in made \ Existing
  /\ pc[p] \in {"load", "mkdir"} => at[p] = 1
  /\ pc[p] = "stage" => present[d] = 1..(at[p] - 1) /\ staging[d] = {}
  /\ pc[p] = "link" => present[d] = 1..(at[p] - 1) /\ staging[d] = {p}
  /\ pc[p] = "unstage" => present[d] = 1..at[p] /\ staging[d] = {p}
  /\ pc[p] = "remove" => d \in broken
  /\ answer[p] = "restored" => pc[p] = "done" /\ d \in made /\ Complete(d)
  /\ d \in Existing => d \in made
  /\ (d \notin made \/ d \in Existing) => present[d] = {} /\ staging[d] = {}
  /\ Completion \in present[d] /\ d \notin broken => present[d] = Files

\* A step of one restorer in a directory of its own keeps the invariant.
LEMMA OwnStep ==
  ASSUME TypeOK, RestoreInvariant, NEW p \in Restorers, OnlyAt(p), InvariantAt(p)',
         Creating(p) \/ DestOf[p] \notin made
  PROVE  RestoreInvariant'
<1> DEFINE d == DestOf[p]
<1>1. d \in Dests /\ \A q \in Restorers : DestOf[q] \in Dests
  BY DestOfAssumption
<1>2. \A q \in Restorers \ {p} : DestOf[q] = d => ~Creating(q) /\ answer[q] # "restored"
  BY DEF RestoreInvariant, CreatorsAreAlone, RestoredAreDone
<1>3. \A q \in Restorers \ {p} :
        (Creating(q)' <=> Creating(q)) /\ pc'[q] = pc[q] /\ at'[q] = at[q] /\ answer'[q] = answer[q]
  BY DEF OnlyAt, Creating
<1>4. CreatorsAreAlone'
  <2>1. \A q \in Restorers : Creating(q)' => DestOf[q] \in (made \ Existing)'
    BY <1>1, <1>2, <1>3 DEF RestoreInvariant, CreatorsAreAlone, InvariantAt, OnlyAt
  <2>2. ASSUME NEW q \in Restorers, NEW r \in Restorers \ {q}, Creating(q)', DestOf[r] = DestOf[q]
        PROVE  ~Creating(r)' /\ answer'[r] # "restored"
    <3>1. CASE q = p
      BY <1>2, <1>3, <2>2, <3>1
    <3>2. CASE q # p
      <4>1. r # p /\ Creating(q)
        BY <1>2, <1>3, <2>2, <3>2
      <4> QED BY <1>3, <2>2, <3>2, <4>1 DEF RestoreInvariant, CreatorsAreAlone
    <3> QED BY <3>1, <3>2
  <2> QED BY <2>1, <2>2 DEF CreatorsAreAlone
<1>5. PrefixIsPresent'
  <2> SUFFICES ASSUME NEW q \in Restorers
               PROVE  LET e == DestOf[q] IN
                      /\ pc'[q] \in {"load", "mkdir"} => at'[q] = 1
                      /\ pc'[q] = "stage" => present'[e] = 1..(at'[q] - 1) /\ staging'[e] = {}
                      /\ pc'[q] = "link" => present'[e] = 1..(at'[q] - 1) /\ staging'[e] = {q}
                      /\ pc'[q] = "unstage" => present'[e] = 1..at'[q] /\ staging'[e] = {q}
                      /\ pc'[q] = "remove" => e \in broken'
    BY DEF PrefixIsPresent
  <2>1. CASE q = p
    BY <2>1 DEF InvariantAt
  <2>2. CASE q # p /\ DestOf[q] = d
    BY <1>2, <1>3, <2>2 DEF RestoreInvariant, PrefixIsPresent, Creating
  <2>3. CASE q # p /\ DestOf[q] # d
    <3> DEFINE e == DestOf[q]
    <3>1. e \in Dests \ {d} /\ q \in Restorers \ {p}
      BY <1>1, <2>3
    <3>2. /\ present'[e] = present[e] /\ staging'[e] = staging[e]
          /\ e \in broken' <=> e \in broken
      BY <3>1 DEF OnlyAt
    <3>3. pc'[q] = pc[q] /\ at'[q] = at[q]
      BY <1>3, <3>1
    <3>4. PrefixIsPresent
      BY DEF RestoreInvariant
    <3> HIDE DEF e
    <3> QED BY <3>2, <3>3, <3>4 DEF PrefixIsPresent, e
  <2> QED BY <2>1, <2>2, <2>3
<1>6. RestoredAreDone'
  <2> SUFFICES ASSUME NEW q \in Restorers, answer'[q] = "restored"
               PROVE  pc'[q] = "done" /\ DestOf[q] \in made' /\ Complete(DestOf[q])'
    BY DEF RestoredAreDone
  <2>1. CASE q = p
    BY <2>1 DEF InvariantAt
  <2>2. CASE q # p
    <3>1. answer[q] = "restored" /\ DestOf[q] # d
      BY <1>2, <1>3, <2>2
    <3> QED BY <1>1, <1>3, <2>2, <3>1 DEF RestoreInvariant, RestoredAreDone, OnlyAt, Complete
  <2> QED BY <2>1, <2>2
<1>7. AbsentAreEmpty'
  BY <1>1, ExistingAssumption DEF RestoreInvariant, AbsentAreEmpty, InvariantAt, OnlyAt
<1>8. CompletionIsLast'
  BY <1>1 DEF RestoreInvariant, CompletionIsLast, InvariantAt, OnlyAt
<1> QED BY <1>4, <1>5, <1>6, <1>7, <1>8 DEF RestoreInvariant

\* A step of one that has made no directory keeps it.
LEMMA WaitingStep ==
  ASSUME TypeOK, RestoreInvariant, NEW p \in Restorers, Load(p) \/ DirectoryExists(p)
  PROVE  RestoreInvariant'
<1>1. /\ pc[p] \in {"load", "mkdir"} /\ pc'[p] \in {"mkdir", "done"}
      /\ answer'[p] = answer[p] \/ answer'[p] = "failed"
      /\ \A q \in Restorers \ {p} : pc'[q] = pc[q] /\ answer'[q] = answer[q]
      /\ UNCHANGED <<made, present, staging, at, broken>>
  BY DEF TypeOK, Load, DirectoryExists, Step, End, contents, history
<1>2. ~Creating(p) /\ ~Creating(p)' /\ answer'[p] # "restored"
  <2>1. answer[p] # "restored"
    BY <1>1 DEF RestoreInvariant, RestoredAreDone
  <2> QED BY <1>1, <2>1 DEF Creating
<1>3. \A q \in Restorers : (Creating(q)' => Creating(q)) /\ (answer'[q] = "restored" => answer[q] = "restored")
  BY <1>1, <1>2 DEF Creating
<1>4. CreatorsAreAlone'
  BY <1>1, <1>3 DEF RestoreInvariant, CreatorsAreAlone
<1>5. PrefixIsPresent'
  BY <1>1 DEF RestoreInvariant, PrefixIsPresent
<1>6. RestoredAreDone'
  BY <1>1, <1>3 DEF RestoreInvariant, RestoredAreDone, Complete
<1>7. AbsentAreEmpty' /\ CompletionIsLast'
  BY <1>1 DEF RestoreInvariant, AbsentAreEmpty, CompletionIsLast
<1> QED BY <1>4, <1>5, <1>6, <1>7 DEF RestoreInvariant

\* A step of one that makes, fills or removes its directory keeps it.
LEMMA CreatingStep ==
  ASSUME TypeOK, TypeOK', RestoreInvariant, NEW p \in Restorers,
         \/ MakeDirectory(p) \/ Stage(p) \/ Link(p) \/ Unstage(p)
         \/ Raise(p) \/ Remove(p) \/ Stop(p)
  PROVE  RestoreInvariant'
<1> DEFINE d == DestOf[p]
<1>1. d \in Dests
  BY DestOfAssumption
<1>2. OnlyAt(p)
  BY DEF OnlyAt, TypeOK, MakeDirectory, Stage, Link, Unstage, Raise, Remove, RemoveEntry,
         RemoveDirectory, Stop, Step, End, contents, history
<1>3. Creating(p) => d \in made \ Existing
  BY DEF RestoreInvariant, CreatorsAreAlone
<1>4. Creating(p) => answer[p] # "restored"
  BY DEF RestoreInvariant, RestoredAreDone, Creating
<1>5. /\ d \in Existing => d \in made
      /\ (d \notin made \/ d \in Existing) => present[d] = {} /\ staging[d] = {}
  BY <1>1 DEF RestoreInvariant, AbsentAreEmpty
<1>6. /\ pc[p] \in {"load", "mkdir"} => at[p] = 1
      /\ pc[p] = "stage" => present[d] = 1..(at[p] - 1) /\ staging[d] = {}
      /\ pc[p] = "link" => present[d] = 1..(at[p] - 1) /\ staging[d] = {p}
      /\ pc[p] = "unstage" => present[d] = 1..at[p] /\ staging[d] = {p}
      /\ pc[p] = "remove" => d \in broken
  BY DEF RestoreInvariant, PrefixIsPresent
<1>7. Completion \in present[d] /\ d \notin broken => present[d] = Files
  BY <1>1 DEF RestoreInvariant, CompletionIsLast
<1>8. at[p] \in Nat /\ at[p] >= 1 /\ at[p] <= Completion /\ Completion \in Nat
  BY CompletionType DEF TypeOK, Files
<1>9. ASSUME MakeDirectory(p) PROVE RestoreInvariant'
  <2>1. d \notin made /\ d \notin Existing /\ present[d] = {} /\ staging[d] = {}
    BY <1>5, <1>9 DEF MakeDirectory
  <2>2. /\ pc'[p] = "stage" /\ d \in made' /\ present'[d] = {} /\ staging'[d] = {}
        /\ at'[p] = 1 /\ answer'[p] # "restored"
    BY <1>6, <1>9, <2>1 DEF MakeDirectory, Step, contents, TypeOK, RestoreInvariant, RestoredAreDone
  <2>3. 1..(at'[p] - 1) = {}
    BY <2>2
  <2>4. InvariantAt(p)'
    BY <2>1, <2>2, <2>3 DEF InvariantAt
  <2> QED BY <1>2, <2>1, <2>4, OwnStep
<1>10. ASSUME Stage(p) PROVE RestoreInvariant'
  <2>1. /\ pc[p] = "stage" /\ pc'[p] = "link" /\ UNCHANGED <<made, present, at, answer, broken>>
        /\ staging'[d] = {p} /\ Creating(p)
    BY <1>1, <1>6, <1>10 DEF Stage, Step, history, TypeOK, Creating
  <2>2. InvariantAt(p)'
    BY <1>3, <1>4, <1>5, <1>6, <1>7, <2>1 DEF InvariantAt
  <2> QED BY <1>2, <2>1, <2>2, OwnStep
<1>11. ASSUME Link(p) PROVE RestoreInvariant'
  <2>1. /\ pc[p] = "link" /\ pc'[p] = "unstage" /\ UNCHANGED <<made, staging, at, answer, broken>>
        /\ present'[d] = present[d] \cup {at[p]} /\ Creating(p)
    BY <1>1, <1>11 DEF Link, Step, history, TypeOK, Creating
  <2>2. present'[d] = 1..at[p]
    BY <1>6, <1>8, <2>1
  <2>3. Completion \in present'[d] => present'[d] = Files
    BY <1>8, <2>2 DEF Files
  <2>4. InvariantAt(p)'
    BY <1>3, <1>4, <1>5, <1>6, <2>1, <2>2, <2>3 DEF InvariantAt
  <2> QED BY <1>2, <2>1, <2>4, OwnStep
<1>12. ASSUME Unstage(p) PROVE RestoreInvariant'
  <2>1. /\ pc[p] = "unstage" /\ UNCHANGED <<made, present, broken>>
        /\ staging'[d] = {} /\ Creating(p) /\ present[d] = 1..at[p]
    BY <1>1, <1>6, <1>12 DEF Unstage, Step, history, TypeOK, Creating
  <2>2. CASE at[p] < Completion
    <3>1. pc'[p] = "stage" /\ at'[p] = at[p] + 1 /\ UNCHANGED answer
      BY <1>8, <1>12, <2>2 DEF Unstage, Step, TypeOK
    <3>2. at'[p] - 1 = at[p]
      BY <1>8, <3>1
    <3>3. InvariantAt(p)'
      BY <1>3, <1>4, <1>5, <1>7, <2>1, <3>1, <3>2 DEF InvariantAt
    <3> QED BY <1>2, <2>1, <3>3, OwnStep
  <2>3. CASE at[p] = Completion
    <3>1. pc'[p] = "done" /\ UNCHANGED at
      BY <1>8, <1>12, <2>3 DEF Unstage, Step, TypeOK
    <3>2. Complete(d)'
      BY <2>1, <2>3 DEF Complete, Files
    <3>3. InvariantAt(p)'
      BY <1>3, <1>5, <1>7, <2>1, <3>1, <3>2 DEF InvariantAt, Creating
    <3> QED BY <1>2, <2>1, <3>3, OwnStep
  <2> QED BY <1>8, <2>2, <2>3
<1>13. ASSUME Raise(p) PROVE RestoreInvariant'
  <2>1. /\ pc'[p] = "remove" /\ d \in broken' /\ UNCHANGED <<made, present, answer>> /\ Creating(p)
    BY <1>13 DEF Raise, TypeOK, Creating
  <2>2. InvariantAt(p)'
    BY <1>3, <1>4, <2>1 DEF InvariantAt
  <2> QED BY <1>2, <2>1, <2>2, OwnStep
<1>14. ASSUME RemoveEntry(p) PROVE RestoreInvariant'
  <2>1. /\ pc[p] = "remove" /\ pc'[p] = "remove" /\ UNCHANGED <<made, broken, answer>> /\ Creating(p)
    BY <1>14 DEF RemoveEntry, Step, TypeOK, Creating, history
  <2>2. InvariantAt(p)'
    BY <1>3, <1>4, <1>6, <2>1 DEF InvariantAt
  <2> QED BY <1>2, <2>1, <2>2, OwnStep
<1>15. ASSUME RemoveDirectory(p) PROVE RestoreInvariant'
  <2>1. /\ pc[p] = "remove" /\ pc'[p] = "done" /\ UNCHANGED <<present, staging, broken>>
        /\ answer'[p] = "failed" /\ Creating(p) /\ present[d] = {} /\ staging[d] = {}
    BY <1>15 DEF RemoveDirectory, Step, End, TypeOK, Creating, history, contents
  <2>2. InvariantAt(p)'
    BY <1>3, <1>6, <2>1 DEF InvariantAt, Creating
  <2> QED BY <1>2, <2>1, <2>2, OwnStep
<1>16. ASSUME Stop(p) PROVE RestoreInvariant'
  <2>1. /\ pc'[p] = "done" /\ UNCHANGED <<made, present, staging, broken>>
        /\ answer'[p] = "failed" /\ Creating(p)
    BY <1>16 DEF Stop, End, TypeOK, contents
  <2>2. InvariantAt(p)'
    BY <1>3, <1>5, <1>7, <2>1 DEF InvariantAt, Creating
  <2> QED BY <1>2, <2>1, <2>2, OwnStep
<1> QED BY <1>9, <1>10, <1>11, <1>12, <1>13, <1>14, <1>15, <1>16 DEF Remove

\* One process works in a directory at a time and finds there exactly what it has
\* published itself, the completion record last.
THEOREM RestoresAreAlone == Spec => []RestoreInvariant
<1>1. Init => RestoreInvariant
  BY NoneAssumption, CompletionType, ExistingAssumption, DestOfAssumption
     DEF Init, RestoreInvariant, CreatorsAreAlone, PrefixIsPresent, RestoredAreDone,
         AbsentAreEmpty, CompletionIsLast, Creating
<1>2. TypeOK /\ TypeOK' /\ RestoreInvariant /\ [Next]_vars => RestoreInvariant'
  <2> SUFFICES ASSUME TypeOK, TypeOK', RestoreInvariant, [Next]_vars PROVE RestoreInvariant'
    OBVIOUS
  <2>1. CASE Next
    BY <2>1, WaitingStep, CreatingStep DEF Next, Restore
  <2>2. CASE UNCHANGED vars
    BY <2>2 DEF vars, contents, history, RestoreInvariant, CreatorsAreAlone, PrefixIsPresent,
                RestoredAreDone, AbsentAreEmpty, CompletionIsLast, Creating, Complete
  <2> QED BY <2>1, <2>2
<1> QED BY <1>1, <1>2, RestoreTypeCorrect, PTL DEF Spec

\* A restore that reported success is complete, no other restore damages it later, and
\* RESTORE.json is never there before the files it speaks for.
THEOREM RestoresAreComplete == Spec => []RestoredIsComplete
<1>1. RestoreInvariant => RestoredIsComplete
  BY DEF RestoreInvariant, RestoredAreDone, RestoredIsComplete
<1> QED BY <1>1, RestoresAreAlone, PTL

\* A directory that existed before, that a finished restore has filled, or that nobody
\* is creating is never changed or removed.
THEOREM BystandersAreKept == Spec => OthersAreKept
<1> DEFINE Others(d) == \/ d \in Existing
                        \/ \E p \in Restorers : DestOf[p] = d /\ answer[p] = "restored"
                        \/ \A p \in Restorers : DestOf[p] = d => ~Creating(p)
           Kept == \A d \in made : Others(d) =>
                     present'[d] = present[d] /\ staging'[d] = staging[d] /\ d \in made'
<1>1. TypeOK /\ RestoreInvariant /\ [Next]_vars => [Kept]_vars
  <2> SUFFICES ASSUME TypeOK, RestoreInvariant, Next, NEW d \in made, Others(d)
               PROVE  present'[d] = present[d] /\ staging'[d] = staging[d] /\ d \in made'
    OBVIOUS
  <2>1. ASSUME NEW p \in Restorers, DestOf[p] = d PROVE ~Creating(p)
    <3>1. CASE d \in Existing
      BY <2>1, <3>1 DEF RestoreInvariant, CreatorsAreAlone
    <3>2. CASE \E q \in Restorers : DestOf[q] = d /\ answer[q] = "restored"
      <4>1. PICK q \in Restorers : DestOf[q] = d /\ answer[q] = "restored"
        BY <3>2
      <4>2. CASE q = p
        BY <4>1, <4>2 DEF RestoreInvariant, RestoredAreDone, Creating
      <4>3. CASE q # p
        BY <2>1, <4>1, <4>3 DEF RestoreInvariant, CreatorsAreAlone
      <4> QED BY <4>2, <4>3
    <3> QED BY <2>1, <3>1, <3>2
  <2>2. PICK p \in Restorers : Restore(p) \/ Raise(p) \/ Remove(p) \/ Stop(p)
    BY DEF Next
  <2>3. CASE Load(p) \/ DirectoryExists(p) \/ MakeDirectory(p) \/ Stop(p)
    BY <2>3 DEF Load, DirectoryExists, MakeDirectory, Stop, contents
  <2>4. CASE Stage(p) \/ Link(p) \/ Unstage(p) \/ Raise(p) \/ Remove(p)
    <3>1. Creating(p)
      BY <2>4 DEF Stage, Link, Unstage, Raise, Remove, RemoveEntry, RemoveDirectory, Step, Creating
    <3>2. DestOf[p] # d
      BY <2>1, <3>1
    <3> QED BY <2>4, <3>2 DEF Stage, Link, Unstage, Raise, Remove, RemoveEntry, RemoveDirectory,
                              contents, TypeOK
  <2> QED BY <2>2, <2>3, <2>4 DEF Restore
<1> QED BY <1>1, RestoreTypeCorrect, RestoresAreAlone, PTL DEF Spec, OthersAreKept

\* A restore that failed leaves no directory behind, except where its process was
\* killed or could not remove it.
THEOREM FailuresAreRemoved == Spec => []FailureLeavesNothing
<1> DEFINE Owned(d) == \E p \in Restorers : DestOf[p] = d /\ (Creating(p) \/ answer[p] = "restored")
<1>1. Init => FailureLeavesNothing
  BY DEF Init, FailureLeavesNothing
<1>2. TypeOK /\ RestoreInvariant /\ FailureLeavesNothing /\ [Next]_vars => FailureLeavesNothing'
  <2> SUFFICES ASSUME TypeOK, RestoreInvariant, FailureLeavesNothing, [Next]_vars,
                      NEW d \in made', d \notin Existing
               PROVE  d \in left' \/ Owned(d)'
    BY DEF FailureLeavesNothing
  <2>1. CASE UNCHANGED vars
    BY <2>1 DEF vars, contents, history, FailureLeavesNothing, Creating
  <2>2. ASSUME NEW p \in Restorers, MakeDirectory(p) PROVE d \in left' \/ Owned(d)'
    <3>1. CASE d = DestOf[p]
      BY <2>2, <3>1 DEF MakeDirectory, Step, TypeOK, Creating
    <3>2. CASE d # DestOf[p]
      <4>1. d \in left \/ Owned(d)
        BY <2>2, <3>2 DEF MakeDirectory, FailureLeavesNothing
      <4> QED BY <2>2, <3>2, <4>1 DEF MakeDirectory, Step, TypeOK, Creating
    <3> QED BY <3>1, <3>2
  <2>3. ASSUME NEW p \in Restorers, Load(p) \/ DirectoryExists(p) PROVE d \in left' \/ Owned(d)'
    <3>1. d \in left \/ Owned(d)
      BY <2>3 DEF Load, DirectoryExists, FailureLeavesNothing
    <3>2. answer[p] # "restored" /\ ~Creating(p)
      BY <2>3 DEF Load, DirectoryExists, Step, RestoreInvariant, RestoredAreDone, Creating
    <3>3. \A q \in Restorers \ {p} : pc'[q] = pc[q] /\ answer'[q] = answer[q]
      BY <2>3 DEF Load, DirectoryExists, Step, End, TypeOK
    <3>4. left' = left
      BY <2>3 DEF Load, DirectoryExists, history
    <3> QED BY <3>1, <3>2, <3>3, <3>4 DEF Creating
  <2>4. ASSUME NEW p \in Restorers, Stage(p) \/ Link(p) \/ Unstage(p) \/ Raise(p) \/ RemoveEntry(p)
        PROVE  d \in left' \/ Owned(d)'
    <3>1. d \in left \/ Owned(d)
      BY <2>4 DEF Stage, Link, Unstage, Raise, RemoveEntry, FailureLeavesNothing
    <3>2. Creating(p)' \/ answer'[p] = "restored"
      BY <2>4 DEF Stage, Link, Unstage, Raise, RemoveEntry, Step, End, TypeOK, Creating
    <3>3. \A q \in Restorers \ {p} : pc'[q] = pc[q] /\ answer'[q] = answer[q]
      BY <2>4 DEF Stage, Link, Unstage, Raise, RemoveEntry, Step, End, TypeOK
    <3>4. left' = left
      BY <2>4 DEF Stage, Link, Unstage, Raise, RemoveEntry, history
    <3> QED BY <3>1, <3>2, <3>3, <3>4 DEF Creating
  <2>5. ASSUME NEW p \in Restorers, RemoveDirectory(p) PROVE d \in left' \/ Owned(d)'
    <3>1. d # DestOf[p] /\ (d \in left \/ Owned(d))
      BY <2>5 DEF RemoveDirectory, FailureLeavesNothing
    <3>2. \A q \in Restorers \ {p} : pc'[q] = pc[q] /\ answer'[q] = answer[q]
      BY <2>5 DEF RemoveDirectory, Step, End, TypeOK
    <3> QED BY <2>5, <3>1, <3>2 DEF RemoveDirectory, history, Creating
  <2>6. ASSUME NEW p \in Restorers, Stop(p) PROVE d \in left' \/ Owned(d)'
    <3>1. d \in left \/ Owned(d)
      BY <2>6 DEF Stop, FailureLeavesNothing
    <3>2. \A q \in Restorers \ {p} : pc'[q] = pc[q] /\ answer'[q] = answer[q]
      BY <2>6 DEF Stop, End, TypeOK
    <3>3. left' = left \cup {DestOf[p]}
      BY <2>6 DEF Stop
    <3> QED BY <3>1, <3>2, <3>3 DEF Creating
  <2> QED BY <2>1, <2>2, <2>3, <2>4, <2>5, <2>6 DEF Next, Restore, Remove
<1> QED BY <1>1, <1>2, RestoreTypeCorrect, RestoresAreAlone, PTL DEF Spec
===============================================================================
