-------------------------- MODULE WorkflowRunsProofs --------------------------
(***************************************************************************)
(* Proofs about WorkflowRuns, and at the end about WorkflowRunsAltered: for *)
(* every set of callers, runs and versions, and for all bounds.            *)
(***************************************************************************)
EXTENDS WorkflowRunsAltered, TLAPS

-------------------------------------------------------------------------------
(* Type correctness.                                                       *)

\* Writing content of the right kind under a name keeps the disk well typed.
LEMMA PutType ==
  ASSUME TypeOK, NEW c \in Callers, NEW v
  PROVE  /\ v \in DatabaseFiles /\ Put(c, "db", v) => disk' \in [RunIds -> Directories]
         /\ v \in ReportFiles /\ Put(c, "report", v) => disk' \in [RunIds -> Directories]
         /\ v \in Manifests /\ Put(c, "tmp", v) => disk' \in [RunIds -> Directories]
<1>1. disk \in [RunIds -> Directories] /\ RunOf[c] \in RunIds
  BY RunOfAssumption DEF TypeOK
<1>2. ASSUME v \in DatabaseFiles, Put(c, "db", v) PROVE disk' \in [RunIds -> Directories]
  BY <1>1, <1>2 DEF Put, Directories
<1>3. ASSUME v \in ReportFiles, Put(c, "report", v) PROVE disk' \in [RunIds -> Directories]
  BY <1>1, <1>3 DEF Put, Directories
<1>4. ASSUME v \in Manifests, Put(c, "tmp", v) PROVE disk' \in [RunIds -> Directories]
  BY <1>1, <1>4 DEF Put, Directories
<1> QED BY <1>2, <1>3, <1>4

\* Whatever was parsed, every input is read from one of the files.
LEMMA FileOfType ==
  ASSUME NEW i \in Inputs, NEW v \in Versions \cup {None}
  PROVE  FileOf(i, v) \in Files
BY FileAssumption, NamedAssumption DEF FileOf, Inputs, Referred

\* The specification and the schema are always the same file.
LEMMA OwnFiles ==
  ASSUME NEW v
  PROVE  FileOf("spec", v) = "spec" /\ FileOf("schema", v) = "schema"
BY DEF FileOf, Referred

\* Where a caller looks for the inputs it hashes, and for those it uses.
LEMMA NotedFiles ==
  ASSUME TypeOK, NEW c \in Callers, NEW i \in Inputs
  PROVE  HashedFile(c, i) \in Files /\ UsedFile(c, i) \in Files
<1>1. parsed[c] \in Versions \cup {None} /\ loaded[c]["spec"] \in Versions \cup {None}
  BY DEF TypeOK, Digests, Inputs
<1> QED BY <1>1, FileOfType DEF HashedFile, UsedFile

\* Recording the version of one input keeps the loaded versions well typed.
LEMMA LoadType ==
  ASSUME TypeOK, NEW c \in Callers, NEW i \in Inputs, NEW f \in Files,
         loaded' = [loaded EXCEPT ![c][i] = file[f]]
  PROVE  loaded' \in [Callers -> Digests]
BY DEF TypeOK, Digests

\* The steps of run_workflow_once before a directory is created keep the types.
LEMMA HashingType ==
  ASSUME TypeOK, NEW c \in Callers,
         Begin(c) \/ CheckSpec(c) \/ HashInputs(c) \/ LookForRun(c) \/ MakeRun(c) \/ LoseRun(c)
  PROVE  TypeOK'
<1> USE RunOfAssumption DEF TypeOK, disks, memory, history
<1>1. CASE Begin(c)
  <2>1. hashes' \in [Callers -> Digests] /\ loaded' \in [Callers -> Digests]
    BY <1>1 DEF Begin, Unread, Digests
  <2>2. pc' \in [Callers -> Steps] /\ parsed' \in [Callers -> Versions \cup {None}]
    BY <1>1 DEF Begin, Step, Steps, Hashing
  <2>3. attempts' \in [Callers -> 0..MaxAttempts]
    BY <1>1, BoundsAssumption DEF Begin
  <2> QED BY <1>1, <2>1, <2>2, <2>3 DEF Begin
<1>2. CASE CheckSpec(c)
  <2>1. pc' \in [Callers -> Steps]
    BY <1>2 DEF CheckSpec, Step, Steps, Hashing
  <2>2. parsed' \in [Callers -> Versions \cup {None}]
    BY <1>2 DEF CheckSpec, Versions
  <2> QED BY <1>2, <2>1, <2>2 DEF CheckSpec
<1>3. CASE HashInputs(c)
  <2>1. ASSUME NEW i \in Inputs, NEW from, NEW to \in Steps, HashInput(c, i, from, to)
        PROVE  TypeOK'
    <3>1. file[HashedFile(c, i)] \in Versions
      BY NotedFiles
    <3>2. hashes' \in [Callers -> Digests]
      BY <2>1, <3>1 DEF HashInput, HashedFile, Digests
    <3> QED BY <2>1, <3>2 DEF HashInput, Step
  <2> QED BY <1>3, <2>1 DEF HashInputs, Inputs, Steps, Hashing
<1>4. CASE LookForRun(c)
  <2>1. pc' \in [Callers -> Steps]
    BY <1>4 DEF LookForRun, Step, Steps, Hashing, Verifying
  <2> QED BY <1>4, <2>1 DEF LookForRun
<1>5. CASE MakeRun(c)
  <2>1. pc' \in [Callers -> Steps]
    BY <1>5 DEF MakeRun, Step, Steps, Computing
  <2> QED BY <1>5, <2>1 DEF MakeRun
<1>6. CASE LoseRun(c)
  <2>1. pc' \in [Callers -> Steps]
    BY <1>6 DEF LoseRun, Step, Steps, Verifying
  <2> QED BY <1>6, <2>1 DEF LoseRun
<1> QED BY <1>1, <1>2, <1>3, <1>4, <1>5, <1>6

\* The steps that fill a new directory keep the types.
LEMMA CreatingType ==
  ASSUME TypeOK, NEW c \in Callers,
         \/ LoadSpec(c) \/ ReadSchema(c) \/ LoadFixture(c) \/ LoadDirectory(c)
         \/ ApplySchema(c) \/ CommitBundle(c) \/ OpenReport(c) \/ WriteReport(c)
         \/ WriteTmp(c) \/ Publish(c) \/ ReturnFresh(c)
  PROVE  TypeOK'
<1> USE RunOfAssumption DEF TypeOK, disks, memory, history
<1>0. /\ disk[RunOf[c]] \in Directories
      /\ loaded[c] \in Digests /\ hashes[c] \in Digests
      /\ ReportOf(loaded[c]) \in Reports
      /\ DatabaseOf(loaded[c]) \in Databases
  BY DEF ReportOf, Reports, DatabaseOf, Databases, Digests, Inputs
<1>1. CASE LoadSpec(c) \/ ReadSchema(c) \/ LoadFixture(c) \/ LoadDirectory(c)
  <2>1. pc' \in [Callers -> Steps]
    BY <1>1 DEF LoadSpec, ReadSchema, LoadFixture, LoadDirectory, Step, Steps, Computing
  <2>2. loaded' \in [Callers -> Digests]
    <3>1. /\ {"spec", "schema", UsedFile(c, "fixture"), UsedFile(c, "directory")} \subseteq Files
          /\ {"spec", "schema", "fixture", "directory"} \subseteq Inputs
      BY FileAssumption, NotedFiles DEF Inputs
    <3> QED BY <1>1, <3>1, LoadType DEF LoadSpec, ReadSchema, LoadFixture, LoadDirectory, UsedFile
  <2> QED BY <1>1, <2>1, <2>2 DEF LoadSpec, ReadSchema, LoadFixture, LoadDirectory
<1>2. CASE ApplySchema(c) \/ CommitBundle(c) \/ OpenReport(c) \/ WriteReport(c)
  <2>1. pc' \in [Callers -> Steps]
    BY <1>2 DEF ApplySchema, CommitBundle, OpenReport, WriteReport, Step, Steps, Computing, Finishing
  <2>2. disk' \in [RunIds -> Directories]
    BY <1>0, <1>2, PutType DEF ApplySchema, CommitBundle, OpenReport, WriteReport,
                               DatabaseFiles, ReportFiles
  <2> QED BY <1>2, <2>1, <2>2 DEF ApplySchema, CommitBundle, OpenReport, WriteReport
<1>3. CASE WriteTmp(c) \/ Publish(c)
  <2>1. pc' \in [Callers -> Steps]
    BY <1>3 DEF WriteTmp, Publish, Step, Steps, Finishing
  <2>2. CASE WriteTmp(c)
    <3>1. [inputs |-> hashes[c], db |-> disk[RunOf[c]]["db"],
           report |-> disk[RunOf[c]]["report"]] \in Manifests
      BY <1>0 DEF Directories, Manifests
    <3> QED BY <2>1, <2>2, <3>1, PutType DEF WriteTmp
  <2>3. CASE Publish(c)
    <3>1. disk' \in [RunIds -> Directories]
      BY <1>0, <2>3 DEF Publish, Directories
    <3> QED BY <2>1, <2>3, <3>1 DEF Publish
  <2> QED BY <1>3, <2>2, <2>3
<1>4. CASE ReturnFresh(c)
  <2>1. pc' \in [Callers -> Steps]
    BY <1>4 DEF ReturnFresh, Step, Steps
  <2>2. result' \in [Callers -> Results \cup {None}]
    BY <1>0, <1>4 DEF ReturnFresh, Results, ReportFiles
  <2> QED BY <1>4, <2>1, <2>2 DEF ReturnFresh
<1> QED BY <1>1, <1>2, <1>3, <1>4

\* The steps of _load_retry keep the types.
LEMMA VerifyingType ==
  ASSUME TypeOK, NEW c \in Callers,
         LookForFiles(c) \/ ReadManifest(c) \/ CheckDatabase(c) \/ CheckReport(c) \/ LoadReport(c)
  PROVE  TypeOK'
<1> USE RunOfAssumption DEF TypeOK, disks, memory, history
<1>0. disk[RunOf[c]] \in Directories /\ hashes[c] \in Digests
  OBVIOUS
<1>1. CASE LookForFiles(c) \/ CheckDatabase(c) \/ CheckReport(c)
  <2>1. pc' \in [Callers -> Steps]
    BY <1>1 DEF LookForFiles, LookForFile, CheckDatabase, CheckReport, Step, Steps, Verifying
  <2> QED BY <1>1, <2>1 DEF LookForFiles, LookForFile, CheckDatabase, CheckReport
<1>2. CASE ReadManifest(c)
  <2>1. pc' \in [Callers -> Steps]
    BY <1>2 DEF ReadManifest, Step, Steps, Verifying
  <2>2. saved' \in [Callers -> Manifests \cup {None}]
    BY <1>0, <1>2 DEF ReadManifest, Directories
  <2> QED BY <1>2, <2>1, <2>2 DEF ReadManifest
<1>3. CASE LoadReport(c)
  <2>1. pc' \in [Callers -> Steps]
    BY <1>3 DEF LoadReport, Step, Steps
  <2>2. result' \in [Callers -> Results \cup {None}]
    BY <1>0, <1>3 DEF LoadReport, Results, Directories
  <2> QED BY <1>3, <2>1, <2>2 DEF LoadReport
<1> QED BY <1>1, <1>2, <1>3

\* Exceptions, cleaning up, kills and edits keep the types.
LEMMA FailingType ==
  ASSUME TypeOK, NEW c \in Callers,
         Reject(c) \/ IoError(c) \/ CleanUp(c) \/ GiveUpRemoving(c) \/ Kill(c)
  PROVE  TypeOK'
<1> USE RunOfAssumption, BoundsAssumption DEF TypeOK, disks, memory, history
<1>0. disk[RunOf[c]] \in Directories
  OBVIOUS
<1>1. CASE Reject(c) \/ IoError(c)
  <2>1. pc' \in [Callers -> Steps]
    BY <1>1 DEF Reject, IoError, Raise, Steps, Cleaning
  <2>2. faults' \in 0..MaxFaults
    BY <1>1 DEF Reject, IoError
  <2> QED BY <1>1, <2>1, <2>2 DEF Reject, IoError, Raise
<1>2. CASE UnlinkOutputs(c)
  <2>1. pc' \in [Callers -> Steps]
    BY <1>2 DEF UnlinkOutputs, Step, Steps, Cleaning
  <2>2. disk' \in [RunIds -> Directories]
    BY <1>0, <1>2 DEF UnlinkOutputs, Directories, DatabaseFiles, ReportFiles
  <2> QED BY <1>2, <2>1, <2>2 DEF UnlinkOutputs
<1>3. CASE RemoveRun(c)
  <2>1. pc' \in [Callers -> Steps]
    BY <1>3 DEF RemoveRun, Step, Steps
  <2> QED BY <1>3, <2>1 DEF RemoveRun
<1>4. ASSUME NEW n \in Names, RemoveEntry(c, n) PROVE TypeOK'
  <2>1. pc' \in [Callers -> Steps]
    BY <1>4 DEF RemoveEntry, Step, Steps, Cleaning
  <2>2. disk' \in [RunIds -> Directories]
    BY <1>0, <1>4 DEF RemoveEntry, Put, Names, Directories, DatabaseFiles, ReportFiles
  <2> QED BY <1>4, <2>1, <2>2 DEF RemoveEntry
<1>5. CASE GiveUpRemoving(c) \/ Kill(c)
  <2>1. pc' \in [Callers -> Steps]
    BY <1>5 DEF GiveUpRemoving, Kill, Step, Steps
  <2>2. faults' \in 0..MaxFaults /\ abandoned' \in SUBSET RunIds
    BY <1>5 DEF GiveUpRemoving, Kill
  <2> QED BY <1>5, <2>1, <2>2 DEF GiveUpRemoving, Kill
<1> QED BY <1>1, <1>2, <1>3, <1>4, <1>5 DEF CleanUp

\* Every variable always holds a value of its kind.
THEOREM TypeCorrect == Spec => []TypeOK
<1>1. Init => TypeOK
  BY RunOfAssumption, FileAssumption, BoundsAssumption
     DEF Init, TypeOK, Unread, EmptyDir, Digests, Directories, Names, Steps, DatabaseFiles, ReportFiles
<1>2. TypeOK /\ [Next]_vars => TypeOK'
  <2> SUFFICES ASSUME TypeOK, [Next]_vars PROVE TypeOK'
    OBVIOUS
  <2>1. CASE UNCHANGED vars
    BY <2>1 DEF TypeOK, vars, disks, memory, history
  <2>2. ASSUME NEW c \in Callers, Begin(c) \/ Work(c) PROVE TypeOK'
    BY <2>2, HashingType, CreatingType, VerifyingType DEF Work
  <2>3. ASSUME NEW c \in Callers,
               Reject(c) \/ CleanUp(c) \/ IoError(c) \/ GiveUpRemoving(c) \/ Kill(c)
        PROVE TypeOK'
    BY <2>3, FailingType
  <2>4. ASSUME NEW f \in Files, NEW v \in Versions, Edit(f, v) PROVE TypeOK'
    BY <2>4, BoundsAssumption DEF Edit, TypeOK, disks, memory
  <2> QED BY <2>1, <2>2, <2>3, <2>4 DEF Next
<1> QED BY <1>1, <1>2, PTL DEF Spec

-------------------------------------------------------------------------------
(* The inductive invariant.                                                *)

\* A step of caller c that leaves the disk and the results alone, and does not
\* take c to a step that claims anything, keeps the invariant.
LEMMA QuietStep ==
  ASSUME TypeOK, RunInvariant, NEW c \in Callers, NEW to \in Steps,
         pc' = [pc EXCEPT ![c] = to],
         UNCHANGED <<disk, made, result>>,
         \A d \in Callers \ {c} : hashes'[d] = hashes[d] /\ loaded'[d] = loaded[d] /\ saved'[d] = saved[d],
         result[c] = None, ~Creating(c), pc[c] # "return",
         to \in {"idle"} \cup Hashing \cup {"look_db", "look_report", "look_manifest", "read_manifest"}
  PROVE  RunInvariant'
<1> USE DEF TypeOK, Creating, Computing, Finishing, Cleaning, Hashing, Steps, Verifying
<1>1. CreatorsAreAlone'
  BY DEF RunInvariant, CreatorsAreAlone, Published, Manifest
<1>2. FilesFollowCreator'
  BY DEF RunInvariant, FilesFollowCreator, ManifestOf
<1>3. VerifiersHoldManifest'
  BY DEF RunInvariant, VerifiersHoldManifest, Published, Manifest
<1>4. ResultsRepeatManifest'
  BY DEF RunInvariant, ResultsRepeatManifest, Published, Manifest, HasCreated
<1>5. ManifestIsComplete'
  BY DEF RunInvariant, ManifestIsComplete, Published, Manifest
<1> QED BY <1>1, <1>2, <1>3, <1>4, <1>5 DEF RunInvariant

\* A call that ends without a result, and without touching the disk, keeps it too.
LEMMA StopStep ==
  ASSUME TypeOK, RunInvariant, NEW c \in Callers,
         pc' = [pc EXCEPT ![c] = "idle"],
         UNCHANGED <<disk, made, result, hashes, loaded, saved>>
  PROVE  RunInvariant'
<1> USE DEF TypeOK, Creating, Computing, Finishing, Cleaning, Steps
<1>1. CreatorsAreAlone'
  BY DEF RunInvariant, CreatorsAreAlone, Published, Manifest
<1>2. FilesFollowCreator'
  BY DEF RunInvariant, FilesFollowCreator, ManifestOf
<1>3. VerifiersHoldManifest'
  BY DEF RunInvariant, VerifiersHoldManifest, Published, Manifest
<1>4. ResultsRepeatManifest'
  BY DEF RunInvariant, ResultsRepeatManifest, Published, Manifest, HasCreated
<1>5. ManifestIsComplete'
  BY DEF RunInvariant, ManifestIsComplete, Published, Manifest
<1> QED BY <1>1, <1>2, <1>3, <1>4, <1>5 DEF RunInvariant

\* While a run has a creator it is unpublished, and nobody else has a claim on it.
LEMMA CreatorsClaim ==
  ASSUME TypeOK, RunInvariant, NEW c \in Callers, Creating(c),
         NEW d \in Callers \ {c}, RunOf[d] = RunOf[c]
  PROVE  /\ disk[RunOf[c]]["manifest"] = None
         /\ ~Creating(d)
         /\ pc[d] \notin {"return", "check_db", "check_report", "load_report"}
         /\ result[d] = None
<1>1. disk[RunOf[c]]["manifest"] = None /\ ~Creating(d)
  BY DEF RunInvariant, CreatorsAreAlone, Published, Manifest
<1>2. pc[d] \notin {"check_db", "check_report", "load_report"} /\ result[d] = None
  BY <1>1 DEF RunInvariant, VerifiersHoldManifest, ResultsRepeatManifest, Published, Manifest
<1>3. ManifestOf(d) \in Manifests
  BY DEF TypeOK, ManifestOf, Manifests, Digests, Inputs, DatabaseFiles, ReportFiles,
         DatabaseOf, ReportOf, Databases, Reports
<1>4. pc[d] # "return"
  BY <1>1, <1>3, AbsenceAssumption DEF RunInvariant, FilesFollowCreator
<1> QED BY <1>1, <1>2, <1>4

\* A step of the creator on its own directory that does not publish it.
LEMMA CreatorStep ==
  ASSUME TypeOK, RunInvariant, NEW c \in Callers, NEW to \in Steps, Creating(c),
         pc' = [pc EXCEPT ![c] = to],
         disk' \in [RunIds -> Directories],
         \A r \in RunIds \ {RunOf[c]} : disk'[r] = disk[r],
         disk'[RunOf[c]]["manifest"] = None,
         \/ to \in Computing \cup Finishing \cup Cleaning /\ made' = made
         \/ to = "idle" /\ made' = made \ {RunOf[c]},
         UNCHANGED <<hashes, saved, result>>,
         \A d \in Callers \ {c} : loaded'[d] = loaded[d],
         LET dir == disk'[RunOf[c]] IN
         /\ to \in {"open_report", "write_report"} \cup Finishing => dir["db"] = DatabaseOf(loaded'[c])
         /\ to \in Finishing => dir["report"] = ReportOf(loaded'[c])
         /\ to = "publish" => dir["tmp"] = ManifestOf(c)'
  PROVE  RunInvariant'
<1> USE RunOfAssumption
<1>0. \A d \in Callers \ {c} : RunOf[d] = RunOf[c] =>
        /\ ~Creating(d)
        /\ pc[d] \notin {"return", "check_db", "check_report", "load_report"}
        /\ result[d] = None
  BY CreatorsClaim
<1>1. /\ RunOf[c] \in RunIds /\ RunOf[c] \in made
      /\ pc'[c] = to
      /\ \A d \in Callers \ {c} : pc'[d] = pc[d] /\ (Creating(d)' <=> Creating(d))
      /\ to \notin {"return", "check_db", "check_report", "load_report"}
      /\ pc[c] # "idle"
  BY DEF TypeOK, RunInvariant, CreatorsAreAlone, Creating, Computing, Finishing, Cleaning
<1>2. CreatorsAreAlone'
  BY <1>0, <1>1 DEF RunInvariant, CreatorsAreAlone, Creating, Published, Manifest, Computing, Finishing, Cleaning
<1>3. FilesFollowCreator'
  BY <1>0, <1>1 DEF RunInvariant, FilesFollowCreator, ManifestOf, Creating, Computing, Finishing
<1>4. VerifiersHoldManifest'
  BY <1>0, <1>1 DEF RunInvariant, VerifiersHoldManifest, Published, Manifest
<1>5. ResultsRepeatManifest'
  BY <1>0, <1>1 DEF RunInvariant, ResultsRepeatManifest, Published, Manifest, HasCreated
<1>6. ManifestIsComplete'
  BY <1>1 DEF RunInvariant, ManifestIsComplete, Published, Manifest
<1> QED BY <1>2, <1>3, <1>4, <1>5, <1>6 DEF RunInvariant

\* Hashing the inputs, and looking for the directory of the run.
LEMMA HashingKeepsInvariant ==
  ASSUME TypeOK, RunInvariant, NEW c \in Callers,
         \/ Begin(c) \/ CheckSpec(c) \/ HashInputs(c) \/ LookForRun(c) \/ LoseRun(c)
         \/ LookForFiles(c)
  PROVE  RunInvariant'
<1>1. /\ pc[c] \in {"idle"} \cup Hashing \cup {"look_db", "look_report", "look_manifest"}
      /\ UNCHANGED <<disk, made, result>>
      /\ \A d \in Callers \ {c} : hashes'[d] = hashes[d] /\ loaded'[d] = loaded[d] /\ saved'[d] = saved[d]
  BY DEF Begin, CheckSpec, HashInputs, HashInput, LookForRun, LoseRun, LookForFiles, LookForFile,
         Step, TypeOK, Hashing, disks, memory
<1>2. PICK to \in {"idle"} \cup Hashing \cup {"look_db", "look_report", "look_manifest", "read_manifest"} :
        pc' = [pc EXCEPT ![c] = to]
  BY DEF Begin, CheckSpec, HashInputs, HashInput, LookForRun, LoseRun, LookForFiles, LookForFile,
         Step, Hashing
<1>3. result[c] = None
  BY <1>1 DEF Begin, CheckSpec, HashInputs, HashInput, LookForRun, LoseRun, LookForFiles, LookForFile,
              Step, RunInvariant, ResultsRepeatManifest
<1>4. ~Creating(c) /\ pc[c] # "return" /\ to \in Steps
  BY <1>1 DEF Creating, Hashing, Computing, Finishing, Cleaning, Steps, Verifying
<1> QED BY <1>1, <1>2, <1>3, <1>4, QuietStep

\* mkdir succeeds only where no run is published and nobody else creates one.
LEMMA MakeRunKeepsInvariant ==
  ASSUME TypeOK, RunInvariant, NEW c \in Callers, MakeRun(c)
  PROVE  RunInvariant'
<1> USE RunOfAssumption DEF TypeOK, Creating, Computing, Finishing, Cleaning, MakeRun, Step, memory
<1>1. /\ ~Published(RunOf[c])
      /\ \A d \in Callers : RunOf[d] = RunOf[c] => ~Creating(d)
  BY DEF RunInvariant, CreatorsAreAlone, ManifestIsComplete
<1>2. CreatorsAreAlone'
  BY <1>1 DEF RunInvariant, CreatorsAreAlone, Published, Manifest
<1>3. FilesFollowCreator'
  BY DEF RunInvariant, FilesFollowCreator, ManifestOf
<1>4. VerifiersHoldManifest'
  BY DEF RunInvariant, VerifiersHoldManifest, Published, Manifest
<1>5. ResultsRepeatManifest'
  BY DEF RunInvariant, ResultsRepeatManifest, Published, Manifest, HasCreated
<1>6. ManifestIsComplete'
  BY DEF RunInvariant, ManifestIsComplete, Published, Manifest
<1> QED BY <1>2, <1>3, <1>4, <1>5, <1>6 DEF RunInvariant

\* Filling the directory, up to and including the temporary manifest.
LEMMA FillingKeepsInvariant ==
  ASSUME TypeOK, TypeOK', RunInvariant, NEW c \in Callers,
         \/ LoadSpec(c) \/ ReadSchema(c) \/ ApplySchema(c) \/ LoadFixture(c) \/ LoadDirectory(c)
         \/ CommitBundle(c) \/ OpenReport(c) \/ WriteReport(c) \/ WriteTmp(c)
  PROVE  RunInvariant'
<1> USE RunOfAssumption
<1>1. /\ pc[c] \in Computing \cup {"write_tmp"} /\ Creating(c)
      /\ UNCHANGED <<made, hashes, saved, result>>
      /\ \A d \in Callers \ {c} : loaded'[d] = loaded[d]
  BY DEF LoadSpec, ReadSchema, ApplySchema, LoadFixture, LoadDirectory, CommitBundle, OpenReport,
         WriteReport, WriteTmp, Step, Creating, Computing, Finishing, TypeOK, disks, memory
<1>2. /\ RunOf[c] \in RunIds
      /\ disk' \in [RunIds -> Directories]
      /\ disk[RunOf[c]]["manifest"] = None
  BY <1>1 DEF TypeOK, RunInvariant, CreatorsAreAlone, Published, Manifest
<1>3. /\ \A r \in RunIds \ {RunOf[c]} : disk'[r] = disk[r]
      /\ disk'[RunOf[c]]["manifest"] = None
  <2>1. ASSUME NEW n \in {"db", "report", "tmp"}, NEW v, Put(c, n, v) PROVE <1>3
    BY <1>2, <2>1 DEF Put, TypeOK, Directories
  <2> QED BY <1>2, <2>1 DEF LoadSpec, ReadSchema, ApplySchema, LoadFixture, LoadDirectory,
        CommitBundle, OpenReport, WriteReport, WriteTmp, disks
<1>4. PICK to \in (Computing \ {"load_spec"}) \cup Finishing : pc' = [pc EXCEPT ![c] = to]
  BY DEF LoadSpec, ReadSchema, ApplySchema, LoadFixture, LoadDirectory, CommitBundle, OpenReport,
         WriteReport, WriteTmp, Step, Computing, Finishing
<1>5. /\ to \in {"open_report", "write_report"} \cup Finishing => disk'[RunOf[c]]["db"] = DatabaseOf(loaded'[c])
      /\ to \in Finishing => disk'[RunOf[c]]["report"] = ReportOf(loaded'[c])
      /\ to = "publish" => disk'[RunOf[c]]["tmp"] = ManifestOf(c)'
  <2> USE <1>2, <1>4 DEF TypeOK, Directories, Step, Put, Finishing, memory
  <2>1. pc'[c] = to
    OBVIOUS
  <2>2. CASE LoadSpec(c) \/ ReadSchema(c) \/ ApplySchema(c) \/ LoadFixture(c) \/ LoadDirectory(c)
    BY <2>1, <2>2 DEF LoadSpec, ReadSchema, ApplySchema, LoadFixture, LoadDirectory
  <2>3. CASE CommitBundle(c)
    BY <2>1, <2>3 DEF CommitBundle
  <2>4. CASE OpenReport(c)
    BY <2>1, <2>4 DEF OpenReport, RunInvariant, FilesFollowCreator
  <2>5. CASE WriteReport(c)
    BY <2>1, <2>5 DEF WriteReport, RunInvariant, FilesFollowCreator
  <2>6. CASE WriteTmp(c)
    BY <2>1, <2>6 DEF WriteTmp, ManifestOf, RunInvariant, FilesFollowCreator
  <2> QED BY <2>2, <2>3, <2>4, <2>5, <2>6
<1>8. to \in Computing \cup Finishing \cup Cleaning /\ to \in Steps
  BY DEF Steps
<1> QED BY <1>1, <1>2, <1>3, <1>4, <1>5, <1>8, CreatorStep

\* Cleaning up a directory, and failing while creating or cleaning.
LEMMA CleaningKeepsInvariant ==
  ASSUME TypeOK, TypeOK', RunInvariant, NEW c \in Callers,
         \/ CleanUp(c)
         \/ Raise(c) /\ pc[c] \in Computing \cup Finishing
  PROVE  RunInvariant'
<1> USE RunOfAssumption
<1>1. /\ Creating(c)
      /\ UNCHANGED <<hashes, saved, result, loaded>>
  BY DEF CleanUp, UnlinkOutputs, RemoveEntry, RemoveRun, Raise, Step, Creating, Cleaning, memory
<1>2. /\ RunOf[c] \in RunIds
      /\ disk' \in [RunIds -> Directories]
      /\ disk[RunOf[c]]["manifest"] = None
  BY <1>1 DEF TypeOK, RunInvariant, CreatorsAreAlone, Published, Manifest
<1>3. /\ \A r \in RunIds \ {RunOf[c]} : disk'[r] = disk[r]
      /\ disk'[RunOf[c]]["manifest"] = None
  <2> USE <1>2 DEF TypeOK, Directories, disks
  <2>1. CASE UnlinkOutputs(c)
    BY <2>1 DEF UnlinkOutputs
  <2>2. ASSUME NEW n \in Names, RemoveEntry(c, n) PROVE <1>3
    BY <2>2 DEF RemoveEntry, Put, Names
  <2>3. CASE RemoveRun(c) \/ Raise(c)
    BY <2>3 DEF RemoveRun, Raise
  <2> QED BY <2>1, <2>2, <2>3 DEF CleanUp
<1>4. PICK to \in {"idle", "unlink", "rmtree"} :
        /\ pc' = [pc EXCEPT ![c] = to]
        /\ \/ to \in Cleaning /\ made' = made
           \/ to = "idle" /\ made' = made \ {RunOf[c]}
  BY DEF CleanUp, UnlinkOutputs, RemoveEntry, RemoveRun, Raise, Step, Cleaning, disks,
         Hashing, Verifying, Computing, Finishing
<1>5. to \in Steps /\ to \notin {"open_report", "write_report"} \cup Finishing
  BY DEF Steps, Cleaning, Finishing
<1> QED BY <1>1, <1>2, <1>3, <1>4, <1>5, CreatorStep

\* Whatever else ends a call leaves the disk alone.
LEMMA StoppingKeepsInvariant ==
  ASSUME TypeOK, RunInvariant, NEW c \in Callers,
         \/ Raise(c) /\ pc[c] \in Hashing \cup Verifying
         \/ GiveUpRemoving(c)
         \/ Kill(c)
  PROVE  RunInvariant'
<1>1. pc' = [pc EXCEPT ![c] = "idle"] /\ UNCHANGED <<disk, made, result, hashes, loaded, saved>>
  BY DEF Raise, GiveUpRemoving, Kill, Step, disks, memory, Hashing, Verifying, Computing, Finishing
<1> QED BY <1>1, StopStep

\* Publication: the manifest that appears describes the files beside it.
LEMMA PublishKeepsInvariant ==
  ASSUME TypeOK, TypeOK', RunInvariant, NEW c \in Callers, Publish(c)
  PROVE  RunInvariant'
<1>1. /\ Creating(c) /\ RunOf[c] \in RunIds /\ RunOf[c] \in made
      /\ disk[RunOf[c]] \in Directories
      /\ disk[RunOf[c]]["db"] = DatabaseOf(loaded[c])
      /\ disk[RunOf[c]]["report"] = ReportOf(loaded[c])
      /\ disk[RunOf[c]]["tmp"] = ManifestOf(c)
  BY RunOfAssumption DEF Publish, Step, TypeOK, RunInvariant, CreatorsAreAlone, FilesFollowCreator,
                         Creating, Finishing
<1>2. /\ \A r \in RunIds \ {RunOf[c]} : disk'[r] = disk[r]
      /\ disk'[RunOf[c]]["db"] = disk[RunOf[c]]["db"]
      /\ disk'[RunOf[c]]["report"] = disk[RunOf[c]]["report"]
      /\ disk'[RunOf[c]]["manifest"] = ManifestOf(c)
  BY <1>1 DEF Publish, TypeOK, Directories
<1>3. DatabaseOf(loaded[c]) \in Databases /\ ManifestOf(c) \in Manifests /\ ManifestOf(c) # None
  BY AbsenceAssumption DEF TypeOK, ManifestOf, Manifests, Digests, Inputs, DatabaseFiles, ReportFiles,
         DatabaseOf, ReportOf, Databases, Reports
<1>4. \A d \in Callers \ {c} : RunOf[d] = RunOf[c] =>
        /\ ~Creating(d)
        /\ pc[d] \notin {"return", "check_db", "check_report", "load_report"}
        /\ result[d] = None
  BY <1>1, CreatorsClaim
<1>5. /\ pc'[c] = "return" /\ pc[c] = "publish"
      /\ \A d \in Callers \ {c} : pc'[d] = pc[d]
      /\ \A d \in Callers : RunOf[d] \in RunIds
      /\ UNCHANGED <<made, hashes, loaded, saved, result>>
      /\ ManifestOf(c)' = ManifestOf(c)
  BY RunOfAssumption DEF Publish, Step, TypeOK, memory, ManifestOf
<1>6. CreatorsAreAlone'
  BY <1>2, <1>4, <1>5 DEF RunInvariant, CreatorsAreAlone, Creating, Published, Manifest,
                          Computing, Finishing, Cleaning, TypeOK
<1>7. FilesFollowCreator'
  <2>1. ASSUME NEW d \in Callers \ {c}, pc'[d] \in {"open_report", "write_report", "return"} \cup Finishing
        PROVE  RunOf[d] # RunOf[c]
    BY <1>4, <1>5, <2>1 DEF Creating, Computing, Finishing
  <2> QED BY <1>2, <1>5, <2>1 DEF RunInvariant, FilesFollowCreator, ManifestOf, Finishing
<1>8. VerifiersHoldManifest'
  BY <1>2, <1>4, <1>5 DEF RunInvariant, VerifiersHoldManifest, Published, Manifest
<1>9. ResultsRepeatManifest'
  BY <1>2, <1>4, <1>5 DEF RunInvariant, ResultsRepeatManifest, Published, Manifest, HasCreated
<1>10. ManifestIsComplete'
  <2>1. ASSUME NEW r \in RunIds \ {RunOf[c]}
        PROVE  Manifest(r)' = Manifest(r) /\ disk'[r] = disk[r]
    BY <1>2 DEF Manifest
  <2>2. /\ ManifestOf(c).db = DatabaseOf(loaded[c])
        /\ ManifestOf(c).report = ReportOf(loaded[c])
        /\ ManifestOf(c).db.used = loaded[c]
    BY DEF ManifestOf, DatabaseOf
  <2>3. /\ Manifest(RunOf[c])' = ManifestOf(c) /\ RunOf[c] \in made'
        /\ disk'[RunOf[c]]["db"] = DatabaseOf(loaded[c])
        /\ disk'[RunOf[c]]["report"] = ReportOf(loaded[c])
    BY <1>1, <1>2, <1>5 DEF Manifest
  <2> QED BY <1>3, <1>5, <2>1, <2>2, <2>3 DEF RunInvariant, ManifestIsComplete, Published
<1> QED BY <1>6, <1>7, <1>8, <1>9, <1>10 DEF RunInvariant

\* Verification reads only: the manifest it compares with stays the published one.
LEMMA VerifyingKeepsInvariant ==
  ASSUME TypeOK, RunInvariant, NEW c \in Callers,
         ReadManifest(c) \/ CheckDatabase(c) \/ CheckReport(c)
  PROVE  RunInvariant'
<1> USE RunOfAssumption DEF ReadManifest, CheckDatabase, CheckReport, Step
<1>1. /\ pc[c] \in {"read_manifest", "check_db", "check_report"}
      /\ pc'[c] \in {"check_db", "check_report", "load_report"}
      /\ \A d \in Callers \ {c} : pc'[d] = pc[d] /\ saved'[d] = saved[d]
      /\ UNCHANGED <<made, disk, hashes, loaded, result>>
  BY DEF TypeOK, memory, disks
<1>2. CreatorsAreAlone'
  BY <1>1 DEF RunInvariant, CreatorsAreAlone, Creating, Published, Manifest, Computing, Finishing, Cleaning
<1>3. FilesFollowCreator'
  BY <1>1 DEF RunInvariant, FilesFollowCreator, ManifestOf, Finishing
<1>4. VerifiersHoldManifest'
  <2>1. Published(RunOf[c]) /\ saved'[c] = Manifest(RunOf[c]) /\ saved'[c].inputs = hashes[c]
    BY DEF TypeOK, RunInvariant, VerifiersHoldManifest, Published, Manifest, Has, memory
  <2> QED BY <1>1, <2>1 DEF RunInvariant, VerifiersHoldManifest, Published, Manifest
<1>5. ResultsRepeatManifest'
  BY <1>1 DEF RunInvariant, ResultsRepeatManifest, Published, Manifest, HasCreated
<1>6. ManifestIsComplete'
  BY <1>1 DEF RunInvariant, ManifestIsComplete, Published, Manifest
<1> QED BY <1>2, <1>3, <1>4, <1>5, <1>6 DEF RunInvariant

\* What a call returns is what the manifest says, whether it created or verified it.
LEMMA ReturningKeepsInvariant ==
  ASSUME TypeOK, TypeOK', RunInvariant, NEW c \in Callers, ReturnFresh(c) \/ LoadReport(c)
  PROVE  RunInvariant'
<1> USE RunOfAssumption
<1>1. /\ pc[c] \in {"return", "load_report"}
      /\ pc'[c] = "idle"
      /\ \A d \in Callers \ {c} : pc'[d] = pc[d] /\ result'[d] = result[d]
      /\ UNCHANGED <<made, disk, hashes, loaded, saved>>
      /\ RunOf[c] \in RunIds
  BY DEF TypeOK, memory, disks, ReturnFresh, LoadReport, Step
<1>2. CreatorsAreAlone'
  BY <1>1 DEF RunInvariant, CreatorsAreAlone, Creating, Published, Manifest, Computing, Finishing, Cleaning
<1>3. FilesFollowCreator'
  BY <1>1 DEF RunInvariant, FilesFollowCreator, ManifestOf, Finishing
<1>4. VerifiersHoldManifest'
  BY <1>1 DEF RunInvariant, VerifiersHoldManifest, Published, Manifest
<1>5. ResultsRepeatManifest'
  <2>1. CASE ReturnFresh(c)
    <3>1. Manifest(RunOf[c]) = ManifestOf(c)
      BY <2>1 DEF ReturnFresh, Step, RunInvariant, FilesFollowCreator, Manifest
    <3>2. ManifestOf(c) \in Manifests
      BY DEF TypeOK, ManifestOf, Manifests, Digests, Inputs, DatabaseFiles, ReportFiles,
             DatabaseOf, ReportOf, Databases, Reports
    <3>3. Published(RunOf[c])
      BY <3>1, <3>2, AbsenceAssumption DEF Published
    <3>4. result'[c] = [reused |-> FALSE, inputs |-> hashes[c], report |-> ReportOf(loaded[c])]
      BY <2>1 DEF ReturnFresh, TypeOK
    <3>5. result'[c].inputs = Manifest(RunOf[c]).inputs /\ result'[c].report = Manifest(RunOf[c]).report
      BY <3>1, <3>4 DEF ManifestOf
    <3>6. HasCreated(c) /\ \A d \in Callers : HasCreated(d)' => HasCreated(d)
      BY <1>1, <2>1 DEF HasCreated, ReturnFresh, Step
    <3> QED BY <1>1, <3>3, <3>5, <3>6 DEF RunInvariant, ResultsRepeatManifest, Published, Manifest
  <2>2. CASE LoadReport(c)
    <3>1. /\ Published(RunOf[c])
          /\ saved[c] = Manifest(RunOf[c])
          /\ saved[c].inputs = hashes[c]
      BY <2>2 DEF LoadReport, Step, RunInvariant, VerifiersHoldManifest
    <3>2. disk[RunOf[c]]["report"] = Manifest(RunOf[c]).report
      BY <1>1, <3>1 DEF RunInvariant, ManifestIsComplete
    <3>3. result'[c] = [reused |-> TRUE, inputs |-> hashes[c], report |-> disk[RunOf[c]]["report"]]
      BY <2>2 DEF LoadReport, TypeOK
    <3>4. result'[c].inputs = Manifest(RunOf[c]).inputs /\ result'[c].report = Manifest(RunOf[c]).report
      BY <3>1, <3>2, <3>3
    <3>5. ~HasCreated(c)' /\ \A d \in Callers : HasCreated(d)' => HasCreated(d)
      BY <1>1, <3>3 DEF HasCreated
    <3> QED BY <1>1, <3>1, <3>4, <3>5 DEF RunInvariant, ResultsRepeatManifest, Published, Manifest
  <2> QED BY <2>1, <2>2
<1>6. ManifestIsComplete'
  BY <1>1 DEF RunInvariant, ManifestIsComplete, Published, Manifest
<1> QED BY <1>2, <1>3, <1>4, <1>5, <1>6 DEF RunInvariant

\* The invariant mentions neither the input files nor the counters.
LEMMA FramedInvariant ==
  ASSUME RunInvariant, UNCHANGED <<made, disk, pc, memory, result>>
  PROVE  RunInvariant'
BY DEF RunInvariant, CreatorsAreAlone, FilesFollowCreator, VerifiersHoldManifest, ResultsRepeatManifest,
       ManifestIsComplete, Creating, Published, Manifest, ManifestOf, HasCreated, memory

\* At every moment a run directory belongs to at most one creating caller and is
\* then unpublished; a published one matches its manifest; whoever verifies it
\* holds that manifest; and every returned result repeats it.
THEOREM RunsAreCoherent == Spec => []RunInvariant
<1>1. Init => RunInvariant
  BY RunOfAssumption
     DEF Init, RunInvariant, CreatorsAreAlone, FilesFollowCreator, VerifiersHoldManifest,
         ResultsRepeatManifest, ManifestIsComplete, Creating, Computing, Finishing, Cleaning,
         Published, Manifest, HasCreated, EmptyDir, Names
<1>2. TypeOK /\ TypeOK' /\ RunInvariant /\ [Next]_vars => RunInvariant'
  <2> SUFFICES ASSUME TypeOK, TypeOK', RunInvariant, [Next]_vars PROVE RunInvariant'
    OBVIOUS
  <2>1. CASE UNCHANGED vars
    BY <2>1, FramedInvariant DEF vars, disks
  <2>2. ASSUME NEW c \in Callers, Begin(c) \/ Work(c) PROVE RunInvariant'
    BY <2>2, HashingKeepsInvariant, MakeRunKeepsInvariant, FillingKeepsInvariant,
       PublishKeepsInvariant, VerifyingKeepsInvariant, ReturningKeepsInvariant DEF Work
  <2>3. ASSUME NEW c \in Callers, Reject(c) \/ IoError(c) PROVE RunInvariant'
    BY <2>3, CleaningKeepsInvariant, StoppingKeepsInvariant DEF Reject, IoError, Raise
  <2>4. ASSUME NEW c \in Callers, CleanUp(c) \/ GiveUpRemoving(c) \/ Kill(c) PROVE RunInvariant'
    BY <2>4, CleaningKeepsInvariant, StoppingKeepsInvariant
  <2>5. ASSUME NEW f \in Files, NEW v \in Versions, Edit(f, v) PROVE RunInvariant'
    BY <2>5, FramedInvariant DEF Edit, disks
  <2> QED BY <2>1, <2>2, <2>3, <2>4, <2>5 DEF Next
<1> QED BY <1>1, <1>2, TypeCorrect, PTL DEF Spec

-------------------------------------------------------------------------------
(* What follows from it.                                                   *)

\* A manifest is found only beside the finished files it describes.
THEOREM ManifestsAreComplete == Spec => []ManifestIsComplete
<1>1. RunInvariant => ManifestIsComplete
  BY DEF RunInvariant
<1> QED BY <1>1, RunsAreCoherent, PTL

\* All callers that succeed on a run are told the same, and one of them computed it.
THEOREM AllSuccessesAgree == Spec => []SuccessesAgree
<1>1. RunInvariant => SuccessesAgree
  BY DEF RunInvariant, ResultsRepeatManifest, HasCreated, SuccessesAgree
<1> QED BY <1>1, RunsAreCoherent, PTL

\* Only Publish makes a manifest appear, and no step disturbs a published directory.
LEMMA PublishedFrame ==
  ASSUME TypeOK, TypeOK', RunInvariant, [Next]_vars, NEW r \in RunIds
  PROVE  /\ Published(r) => disk'[r] = disk[r] /\ r \in made'
         /\ (\A c \in Callers : ~Publish(c)) => Manifest(r)' = Manifest(r)
<1> DEFINE Kept == /\ Published(r) => disk'[r] = disk[r] /\ r \in made'
                   /\ Manifest(r)' = Manifest(r)
<1>1. Published(r) => r \in made
  BY DEF RunInvariant, ManifestIsComplete
<1>2. UNCHANGED disk /\ (UNCHANGED made \/ \E q \in RunIds : made' = made \cup {q}) => Kept
  BY <1>1 DEF Manifest
<1>3. ASSUME NEW c \in Callers, Creating(c), disk'[RunOf[c]]["manifest"] = None,
             \A q \in RunIds \ {RunOf[c]} : disk'[q] = disk[q],
             made' = made \/ made' = made \ {RunOf[c]}
      PROVE  Kept
  BY <1>1, <1>3 DEF RunInvariant, CreatorsAreAlone, Published, Manifest
<1>4. CASE UNCHANGED vars
  BY <1>2, <1>4 DEF vars, disks
<1>5. ASSUME NEW c \in Callers, Begin(c) \/ Work(c), ~Publish(c) PROVE Kept
  <2> USE RunOfAssumption DEF TypeOK, disks
  <2>1. CASE \/ Begin(c) \/ CheckSpec(c) \/ HashInputs(c) \/ LookForRun(c) \/ MakeRun(c) \/ LoseRun(c)
             \/ LookForFiles(c) \/ ReadManifest(c) \/ CheckDatabase(c) \/ CheckReport(c) \/ LoadReport(c)
             \/ LoadSpec(c) \/ ReadSchema(c) \/ LoadFixture(c) \/ LoadDirectory(c) \/ ReturnFresh(c)
    BY <1>2, <2>1 DEF Begin, CheckSpec, HashInputs, HashInput, LookForRun, MakeRun, LoseRun,
       LookForFiles, LookForFile, ReadManifest, CheckDatabase, CheckReport, LoadReport,
       LoadSpec, ReadSchema, LoadFixture, LoadDirectory, ReturnFresh
  <2>2. CASE ApplySchema(c) \/ CommitBundle(c) \/ OpenReport(c) \/ WriteReport(c) \/ WriteTmp(c)
    <3>1. Creating(c) /\ UNCHANGED made
      BY <2>2 DEF ApplySchema, CommitBundle, OpenReport, WriteReport, WriteTmp, Step, Creating,
                  Computing, Finishing
    <3>2. disk[RunOf[c]]["manifest"] = None
      BY <3>1 DEF RunInvariant, CreatorsAreAlone, Published, Manifest
    <3>3. ASSUME NEW n \in {"db", "report", "tmp"}, NEW v, Put(c, n, v)
          PROVE  /\ disk'[RunOf[c]]["manifest"] = None
                 /\ \A q \in RunIds \ {RunOf[c]} : disk'[q] = disk[q]
      BY <3>2, <3>3 DEF Put, Directories
    <3> QED BY <1>3, <2>2, <3>1, <3>3 DEF ApplySchema, CommitBundle, OpenReport, WriteReport, WriteTmp
  <2> QED BY <1>5, <2>1, <2>2 DEF Work
<1>6. ASSUME NEW c \in Callers, Reject(c) \/ IoError(c) \/ GiveUpRemoving(c) \/ Kill(c) PROVE Kept
  BY <1>2, <1>6 DEF Reject, IoError, Raise, GiveUpRemoving, Kill, disks
<1>7. ASSUME NEW c \in Callers, CleanUp(c) PROVE Kept
  <2> USE RunOfAssumption DEF TypeOK, disks, Directories
  <2>1. Creating(c) /\ (made' = made \/ made' = made \ {RunOf[c]})
    BY <1>7 DEF CleanUp, UnlinkOutputs, RemoveEntry, RemoveRun, Step, Creating, Cleaning
  <2>2. disk[RunOf[c]]["manifest"] = None
    BY <2>1 DEF RunInvariant, CreatorsAreAlone, Published, Manifest
  <2>3. /\ disk'[RunOf[c]]["manifest"] = None
        /\ \A q \in RunIds \ {RunOf[c]} : disk'[q] = disk[q]
    <3>1. CASE UnlinkOutputs(c) \/ RemoveRun(c)
      BY <2>2, <3>1 DEF UnlinkOutputs, RemoveRun
    <3>2. ASSUME NEW n \in Names, RemoveEntry(c, n) PROVE <2>3
      BY <2>2, <3>2 DEF RemoveEntry, Put, Names
    <3> QED BY <1>7, <3>1, <3>2 DEF CleanUp
  <2> QED BY <1>3, <2>1, <2>3
<1>8. ASSUME NEW f \in Files, NEW v \in Versions, Edit(f, v) PROVE Kept
  BY <1>2, <1>8 DEF Edit, disks
<1>9. ASSUME NEW c \in Callers, Publish(c)
      PROVE  Published(r) => disk'[r] = disk[r] /\ r \in made'
  <2>1. RunOf[c] \in RunIds /\ ~Published(RunOf[c]) /\ UNCHANGED made
    BY <1>9, RunOfAssumption DEF Publish, Step, RunInvariant, CreatorsAreAlone, Creating, Finishing
  <2> QED BY <1>1, <1>9, <2>1 DEF Publish, TypeOK
<1> QED BY <1>4, <1>5, <1>6, <1>7, <1>8, <1>9 DEF Next

\* No step ever changes a file of a published run or removes its directory.
THEOREM PublishedRunsAreKept == Spec => PublishedRunIsKept
<1>1. TypeOK /\ TypeOK' /\ RunInvariant /\ [Next]_vars
        => [\A r \in RunIds : Published(r) => disk'[r] = disk[r] /\ r \in made']_vars
  BY PublishedFrame
<1> QED BY <1>1, TypeCorrect, RunsAreCoherent, PTL DEF Spec, PublishedRunIsKept

-------------------------------------------------------------------------------
(* The refinement.                                                         *)

\* A run identifier is published once and every success repeats that outcome.
THEOREM RunsAreWrittenOnce == Spec => ImplementsWriteOnce
<1> USE RunOfAssumption, AbsenceAssumption
<1> DEFINE written == [r \in RunIds |-> IF Published(r) THEN Outcome(Manifest(r)) ELSE None]
           told == [c \in Callers |-> IF result[c] # None THEN Outcome(result[c]) ELSE None]
<1>1. Init => Abstract!Init
  BY DEF Init, Abstract!Init, Published, Manifest, EmptyDir, Names
<1>2. TypeOK /\ TypeOK' /\ RunInvariant /\ RunInvariant' /\ [Next]_vars => [Abstract!Next]_(Abstract!vars)
  <2> SUFFICES ASSUME TypeOK, TypeOK', RunInvariant, RunInvariant', [Next]_vars
               PROVE  [Abstract!Next]_(Abstract!vars)
    OBVIOUS
  <2>1. CASE (\A c \in Callers : ~Publish(c)) /\ result' = result
    <3>1. \A r \in RunIds : Manifest(r)' = Manifest(r)
      BY <2>1, PublishedFrame
    <3>2. written' = written /\ told' = told
      BY <2>1, <3>1 DEF Published, Outcome
    <3> QED BY <3>2 DEF Abstract!vars
  <2>2. ASSUME NEW c \in Callers, Publish(c) PROVE Abstract!Write(RunOf[c])
    <3>1. /\ RunOf[c] \in RunIds /\ ~Published(RunOf[c])
          /\ disk[RunOf[c]] \in Directories
          /\ disk[RunOf[c]]["tmp"] = ManifestOf(c)
      BY <2>2 DEF Publish, Step, RunInvariant, CreatorsAreAlone, FilesFollowCreator, Creating,
                  Finishing, TypeOK
    <3>2. ManifestOf(c) \in Manifests
      BY DEF TypeOK, ManifestOf, Manifests, Digests, Inputs, DatabaseFiles, ReportFiles,
             DatabaseOf, ReportOf, Databases, Reports
    <3>3. /\ Manifest(RunOf[c])' = ManifestOf(c)
          /\ \A r \in RunIds \ {RunOf[c]} : Manifest(r)' = Manifest(r)
      BY <2>2, <3>1 DEF Publish, Manifest, TypeOK, Directories
    <3>4. written[RunOf[c]] = None /\ written'[RunOf[c]] = Outcome(ManifestOf(c))
      BY <3>1, <3>2, <3>3 DEF Published
    <3>5. Outcome(ManifestOf(c)) \in Outcomes
      BY <3>2 DEF Outcome, Outcomes, Manifests
    <3>6. written' = [written EXCEPT ![RunOf[c]] = written'[RunOf[c]]]
      BY <3>1, <3>3 DEF Published
    <3>7. told' = told
      BY <2>2 DEF Publish, Outcome
    <3> QED BY <3>4, <3>5, <3>6, <3>7 DEF Abstract!Write
  <2>3. ASSUME NEW c \in Callers, ReturnFresh(c) \/ LoadReport(c) PROVE Abstract!Tell(c)
    <3>1. \A d \in Callers : ~Publish(d)
      BY <2>3 DEF ReturnFresh, LoadReport, Publish, Step, disks, TypeOK
    <3>2. \A r \in RunIds : Manifest(r)' = Manifest(r)
      BY <3>1, PublishedFrame
    <3>3. written' = written
      BY <3>2 DEF Published
    <3>4. /\ result'[c] # None /\ Published(RunOf[c])'
          /\ result'[c].inputs = Manifest(RunOf[c])'.inputs
          /\ result'[c].report = Manifest(RunOf[c])'.report
      <4>1. result'[c] # None
        <5>1. \/ result'[c] = [reused |-> FALSE, inputs |-> hashes[c], report |-> ReportOf(loaded[c])]
              \/ result'[c] = [reused |-> TRUE, inputs |-> hashes[c], report |-> disk[RunOf[c]]["report"]]
          BY <2>3 DEF ReturnFresh, LoadReport, TypeOK
        <5>2. ReportOf(loaded[c]) \in ReportFiles /\ disk[RunOf[c]]["report"] \in ReportFiles
          BY DEF TypeOK, Digests, Inputs, ReportOf, ReportFiles, Reports, Directories
        <5>3. hashes[c] \in Digests
          BY DEF TypeOK
        <5>4. result'[c] \in Results
          <6>1. ASSUME NEW b \in BOOLEAN, NEW x \in ReportFiles
                PROVE  [reused |-> b, inputs |-> hashes[c], report |-> x] \in Results
            BY <5>3, <6>1 DEF Results
          <6> QED BY <5>1, <5>2, <6>1
        <5> QED BY <5>4
      <4> QED BY <4>1 DEF RunInvariant, ResultsRepeatManifest
    <3>5. RunOf[c] \in RunIds
      OBVIOUS
    <3>6. written'[RunOf[c]] = Outcome(result'[c]) /\ written[RunOf[c]] # None
      <4>1. written'[RunOf[c]] = Outcome(Manifest(RunOf[c])')
        BY <3>4, <3>5 DEF Published, Manifest, Outcome
      <4>2. Outcome(Manifest(RunOf[c])') = Outcome(result'[c])
        BY <3>4 DEF Outcome
      <4>3. Manifest(RunOf[c])' \in Manifests
        BY <3>4, <3>5 DEF TypeOK, Directories, Manifest, Published
      <4>4. Outcome(Manifest(RunOf[c])') \in Outcomes
        BY <4>3 DEF Outcome, Outcomes, Manifests
      <4> QED BY <3>3, <4>1, <4>2, <4>4
    <3>7. told' = [told EXCEPT ![c] = Outcome(result'[c])]
      BY <2>3, <3>4 DEF ReturnFresh, LoadReport, TypeOK, Outcome
    <3> QED BY <3>3, <3>6, <3>7 DEF Abstract!Tell
  <2>4. ASSUME \A c \in Callers : ~Publish(c) /\ ~ReturnFresh(c) /\ ~LoadReport(c)
        PROVE  result' = result
    BY <2>4 DEF Next, Work, Begin, CheckSpec, HashInputs, HashInput, LookForRun, MakeRun, LoseRun,
       LookForFiles, LookForFile, ReadManifest, CheckDatabase, CheckReport,
       LoadSpec, ReadSchema, LoadFixture, LoadDirectory, ApplySchema, CommitBundle, OpenReport,
       WriteReport, WriteTmp, Reject, IoError, Raise, GiveUpRemoving, Kill,
       CleanUp, UnlinkOutputs, RemoveEntry, RemoveRun, Edit, vars
  <2> QED BY <2>1, <2>2, <2>3, <2>4 DEF Abstract!Next
<1> QED BY <1>1, <1>2, TypeCorrect, RunsAreCoherent, PTL DEF Spec, Abstract!Spec, ImplementsWriteOnce

-------------------------------------------------------------------------------
(* No unexplained debris.                                                  *)

\* A step of caller c leaves no unexplained directory behind if c's own directory,
\* where it still exists, is published, abandoned, or c's to finish or to remove.
LEMMA DebrisStep ==
  ASSUME TypeOK, DebrisIsExplained, CreatorsAreAlone', NEW c \in Callers,
         \A d \in Callers \ {c} : pc'[d] = pc[d],
         \A r \in RunIds : Published(r) => Published(r)',
         abandoned \subseteq abandoned',
         made' \subseteq made \cup {RunOf[c]},
         RunOf[c] \in made' => \/ Published(RunOf[c])' \/ RunOf[c] \in abandoned' \/ Creating(c)'
                               \/ RunOf[c] \in made /\ ~Creating(c)
  PROVE  DebrisIsExplained'
<1> DEFINE Explained(r) == Published(r) \/ r \in abandoned \/ \E d \in Callers : RunOf[d] = r /\ Creating(d)
<1>1. \A r \in made : r \in RunIds /\ Explained(r)
  BY DEF TypeOK, DebrisIsExplained
<1>2. \A d \in Callers \ {c} : Creating(d)' <=> Creating(d)
  BY DEF Creating
<1>3. \A r \in made' : Explained(r)'
  <2> SUFFICES ASSUME NEW r \in made' PROVE Explained(r)'
    OBVIOUS
  <2>1. CASE r = RunOf[c] /\ ~(r \in made /\ ~Creating(c))
    BY <2>1
  <2>2. CASE r \in made /\ ~(r = RunOf[c] /\ Creating(c))
    BY <1>1, <1>2, <2>2
  <2> QED BY <2>1, <2>2
<1> QED BY <1>3 DEF DebrisIsExplained, CreatorsAreAlone

\* Every step of a caller leaves directories explained.
LEMMA CallerKeepsDebris ==
  ASSUME TypeOK, TypeOK', RunInvariant, RunInvariant', [Next]_vars, DebrisIsExplained, NEW c \in Callers,
         \/ Begin(c) \/ Work(c) \/ Reject(c) \/ CleanUp(c) \/ IoError(c) \/ GiveUpRemoving(c) \/ Kill(c)
  PROVE  DebrisIsExplained'
<1> USE RunOfAssumption DEF TypeOK, Step, disks, memory, history
<1>1. CreatorsAreAlone' /\ \A r \in RunIds : Published(r) => Published(r)'
  BY PublishedFrame DEF RunInvariant, Published, Manifest
<1>2. \A d \in Callers \ {c} : pc'[d] = pc[d]
  BY DEF Begin, Work, CheckSpec, HashInputs, HashInput, LookForRun, MakeRun, LoseRun, LoadSpec, ReadSchema,
         ApplySchema, LoadFixture, LoadDirectory, CommitBundle, OpenReport, WriteReport, WriteTmp, Publish,
         ReturnFresh, LookForFiles, LookForFile, ReadManifest, CheckDatabase, CheckReport, LoadReport,
         Reject, IoError, Raise, CleanUp, UnlinkOutputs, RemoveEntry, RemoveRun, GiveUpRemoving, Kill
<1>3. CASE \/ Begin(c) \/ CheckSpec(c) \/ HashInputs(c) \/ LookForRun(c) \/ LoseRun(c) \/ ReturnFresh(c)
           \/ LookForFiles(c) \/ ReadManifest(c) \/ CheckDatabase(c) \/ CheckReport(c) \/ LoadReport(c)
  <2>1. ~Creating(c) /\ made' = made /\ abandoned' = abandoned
    BY <1>3 DEF Begin, CheckSpec, HashInputs, HashInput, LookForRun, LoseRun, ReturnFresh, LookForFiles,
       LookForFile, ReadManifest, CheckDatabase, CheckReport, LoadReport,
       Creating, Computing, Finishing, Cleaning
  <2> QED BY <1>1, <1>2, <2>1, DebrisStep
<1>4. CASE MakeRun(c) \/ LoadSpec(c) \/ ReadSchema(c) \/ ApplySchema(c) \/ LoadFixture(c) \/ LoadDirectory(c)
           \/ CommitBundle(c) \/ OpenReport(c) \/ WriteReport(c) \/ WriteTmp(c)
  <2>1. Creating(c)' /\ made' \subseteq made \cup {RunOf[c]} /\ abandoned' = abandoned
    BY <1>4 DEF MakeRun, LoadSpec, ReadSchema, ApplySchema, LoadFixture, LoadDirectory, CommitBundle,
       OpenReport, WriteReport, WriteTmp, Creating, Computing, Finishing
  <2> QED BY <1>1, <1>2, <2>1, DebrisStep
<1>5. CASE Publish(c)
  <2>1. made' = made /\ abandoned' = abandoned /\ pc'[c] = "return" /\ RunOf[c] \in RunIds
    BY <1>5 DEF Publish
  <2>2. ManifestOf(c)' \in Manifests
    BY DEF ManifestOf, Manifests, Digests, Inputs, DatabaseFiles, ReportFiles,
           DatabaseOf, ReportOf, Databases, Reports
  <2>3. Published(RunOf[c])'
    BY <2>1, <2>2, AbsenceAssumption DEF RunInvariant, FilesFollowCreator, Published, Manifest
  <2> QED BY <1>1, <1>2, <2>1, <2>3, DebrisStep
<1>6. CASE Reject(c) \/ IoError(c)
  <2>1. made' = made /\ abandoned' = abandoned /\ (Creating(c) => Creating(c)')
    BY <1>6 DEF Reject, IoError, Raise, Hashing, Verifying, Creating, Computing, Finishing, Cleaning
  <2> QED BY <1>1, <1>2, <2>1, DebrisStep
<1>7. CASE UnlinkOutputs(c) \/ \E n \in Names : RemoveEntry(c, n)
  <2>1. Creating(c)' /\ made' = made /\ abandoned' = abandoned
    BY <1>7 DEF UnlinkOutputs, RemoveEntry, Creating, Cleaning
  <2> QED BY <1>1, <1>2, <2>1, DebrisStep
<1>8. CASE RemoveRun(c)
  <2>1. made' = made \ {RunOf[c]} /\ abandoned' = abandoned
    BY <1>8 DEF RemoveRun
  <2> QED BY <1>1, <1>2, <2>1, DebrisStep
<1>9. CASE GiveUpRemoving(c) \/ Kill(c)
  <2>1. /\ made' = made /\ abandoned \subseteq abandoned'
        /\ Creating(c) => RunOf[c] \in abandoned'
    BY <1>9 DEF GiveUpRemoving, Kill
  <2> QED BY <1>1, <1>2, <2>1, DebrisStep
<1> QED BY <1>3, <1>4, <1>5, <1>6, <1>7, <1>8, <1>9 DEF Work, CleanUp

\* An unfinished run directory is being finished or removed by exactly one caller,
\* unless that caller was killed or could not remove it.
THEOREM UnfinishedRunsAreExplained == Spec => []DebrisIsExplained
<1>1. Init => DebrisIsExplained
  BY DEF Init, DebrisIsExplained
<1>2. TypeOK /\ TypeOK' /\ RunInvariant /\ RunInvariant' /\ DebrisIsExplained /\ [Next]_vars
        => DebrisIsExplained'
  <2> SUFFICES ASSUME TypeOK, TypeOK', RunInvariant, RunInvariant', DebrisIsExplained, [Next]_vars
               PROVE  DebrisIsExplained'
    OBVIOUS
  <2>1. CASE UNCHANGED vars \/ \E f \in Files, v \in Versions : Edit(f, v)
    BY <2>1 DEF vars, disks, history, Edit, DebrisIsExplained, Published, Manifest, Creating
  <2> QED BY <2>1, CallerKeepsDebris DEF Next
<1> QED BY <1>1, <1>2, TypeCorrect, RunsAreCoherent, PTL DEF Spec

-------------------------------------------------------------------------------
(* Hashing, then loading.                                                  *)

\* What ReadsFollowInputs says of one caller: of the specification and of input i.
SpecFollows(c) ==
  pc[c] \in Hashed["spec"] \cup {"hash_spec", "exists", "mkdir"} \cup Computing \cup Finishing
    /\ "spec" \notin moved[c] => parsed[c] = file["spec"]
HashFollows(c, i) ==
  pc[c] \in Hashed[i] \cup {"exists", "mkdir"} \cup Computing \cup Finishing
    /\ HashedFile(c, i) \notin moved[c] => hashes[c][i] = file[HashedFile(c, i)]
LoadFollows(c, i) ==
  pc[c] \in Read[i] \cup Finishing
    /\ UsedFile(c, i) \notin moved[c] => loaded[c][i] = file[UsedFile(c, i)]

\* A step of caller c leaves the files, and the notes of the others, alone.
LEMMA NotesStep ==
  ASSUME TypeOK, ReadsFollowInputs, NEW c \in Callers,
         \A d \in Callers \ {c} : /\ pc'[d] = pc[d] /\ hashes'[d] = hashes[d] /\ loaded'[d] = loaded[d]
                                  /\ parsed'[d] = parsed[d] /\ moved'[d] = moved[d],
         UNCHANGED file,
         SpecFollows(c)', \A i \in Inputs : HashFollows(c, i)' /\ LoadFollows(c, i)'
  PROVE  ReadsFollowInputs'
<1>1. ASSUME NEW d \in Callers
      PROVE  SpecFollows(d) /\ \A i \in Inputs : HashFollows(d, i) /\ LoadFollows(d, i)
  BY DEF ReadsFollowInputs, SpecFollows, HashFollows, LoadFollows
<1>2. ASSUME NEW d \in Callers \ {c}
      PROVE  SpecFollows(d)' /\ \A i \in Inputs : HashFollows(d, i)' /\ LoadFollows(d, i)'
  BY <1>1 DEF SpecFollows, HashFollows, LoadFollows, HashedFile, UsedFile
<1>3. ASSUME NEW d \in Callers
      PROVE  SpecFollows(d)' /\ \A i \in Inputs : HashFollows(d, i)' /\ LoadFollows(d, i)'
  BY <1>2
<1> QED BY <1>3 DEF ReadsFollowInputs, SpecFollows, HashFollows, LoadFollows

\* Every step of a caller keeps what it has read in line with the files.
LEMMA CallerKeepsNotes ==
  ASSUME TypeOK, ReadsFollowInputs, NEW c \in Callers,
         \/ Begin(c) \/ Work(c) \/ Reject(c) \/ CleanUp(c) \/ IoError(c) \/ GiveUpRemoving(c) \/ Kill(c)
  PROVE  ReadsFollowInputs'
<1> USE DEF TypeOK, Step, disks, memory, history
<1>1. /\ \A d \in Callers \ {c} : /\ pc'[d] = pc[d] /\ hashes'[d] = hashes[d] /\ loaded'[d] = loaded[d]
                                  /\ parsed'[d] = parsed[d] /\ moved'[d] = moved[d]
      /\ UNCHANGED file
  BY DEF Begin, Work, CheckSpec, HashInputs, HashInput, LookForRun, MakeRun, LoseRun, LoadSpec, ReadSchema,
         ApplySchema, LoadFixture, LoadDirectory, CommitBundle, OpenReport, WriteReport, WriteTmp, Publish,
         ReturnFresh, LookForFiles, LookForFile, ReadManifest, CheckDatabase, CheckReport, LoadReport,
         Reject, IoError, Raise, CleanUp, UnlinkOutputs, RemoveEntry, RemoveRun, GiveUpRemoving, Kill
<1>2. SpecFollows(c) /\ \A i \in Inputs : HashFollows(c, i) /\ LoadFollows(c, i)
  BY DEF ReadsFollowInputs, SpecFollows, HashFollows, LoadFollows
<1>3. ASSUME NEW i \in Inputs PROVE SpecFollows(c)' /\ HashFollows(c, i)' /\ LoadFollows(c, i)'
  <2>1. CASE \/ Begin(c) \/ LoseRun(c) \/ Publish(c) \/ ReturnFresh(c) \/ LookForFiles(c)
             \/ ReadManifest(c) \/ CheckDatabase(c) \/ CheckReport(c) \/ LoadReport(c) \/ Reject(c)
             \/ CleanUp(c) \/ IoError(c) \/ GiveUpRemoving(c) \/ Kill(c)
    <3>1. pc'[c] \in {"check_spec", "look_db", "return", "look_report", "look_manifest",
                      "read_manifest", "check_db", "check_report", "load_report", "idle"} \cup Cleaning
      BY <2>1 DEF Begin, LoseRun, Publish, ReturnFresh, LookForFiles, LookForFile, ReadManifest,
         CheckDatabase, CheckReport, LoadReport, Reject, IoError, Raise, CleanUp, UnlinkOutputs,
         RemoveEntry, RemoveRun, GiveUpRemoving, Kill, Cleaning
    <3> QED BY <3>1 DEF SpecFollows, HashFollows, LoadFollows, Hashed, Read, Inputs, Computing, Finishing,
                        Cleaning
  <2>2. CASE CheckSpec(c)
    <3>1. pc'[c] = "hash_spec" /\ parsed'[c] = file["spec"]
      BY <2>2 DEF CheckSpec
    <3> QED BY <1>1, <3>1 DEF SpecFollows, HashFollows, LoadFollows, Hashed, Read, Inputs, Computing, Finishing
  <2>3. CASE HashInputs(c)
    <3>1. ASSUME NEW j \in Inputs, NEW from, NEW to, HashInput(c, j, from, to)
          PROVE  /\ pc[c] = from /\ pc'[c] = to /\ loaded'[c] = loaded[c] /\ moved'[c] = moved[c]
                 /\ parsed'[c] = parsed[c]
                 /\ hashes'[c][i] = IF i = j THEN file[HashedFile(c, i)] ELSE hashes[c][i]
      BY <3>1 DEF HashInput, HashedFile, Digests
    <3> HIDE DEF TypeOK
    <3>2. PICK j \in Inputs, from \in Hashing, to \in Hashing :
            /\ HashInput(c, j, from, to)
            /\ <<j, from, to>> \in {<<"spec", "hash_spec", "hash_schema">>,
                                    <<"schema", "hash_schema", "hash_fixture">>,
                                    <<"fixture", "hash_fixture", "hash_directory">>,
                                    <<"directory", "hash_directory", "exists">>}
      BY <2>3 DEF HashInputs, Inputs, Hashing
    <3>3. /\ pc[c] = from /\ pc'[c] = to /\ loaded'[c] = loaded[c] /\ moved'[c] = moved[c]
          /\ parsed'[c] = parsed[c]
          /\ hashes'[c][i] = IF i = j THEN file[HashedFile(c, i)] ELSE hashes[c][i]
          /\ HashedFile(c, i)' = HashedFile(c, i)
      BY <3>1, <3>2 DEF HashedFile
    <3>4. pc'[c] \notin Read[i] \cup Finishing
      BY <3>2, <3>3 DEF Read, Inputs, Computing, Finishing
    <3>5. pc'[c] \in Hashed[i] \cup {"exists"} => i = j \/ pc[c] \in Hashed[i]
      BY <3>2, <3>3 DEF Hashed, Inputs
    <3>6. pc[c] \in Hashed["spec"] \cup {"hash_spec"} /\ pc'[c] \in Hashed["spec"] \cup {"exists"}
      BY <3>2, <3>3 DEF Hashed
    <3>7. SpecFollows(c)'
      BY <1>1, <1>2, <3>3, <3>6 DEF SpecFollows
    <3>8. HashFollows(c, i)'
      BY <1>1, <1>2, <3>2, <3>3, <3>5 DEF HashFollows, Computing, Finishing, Hashing
    <3> QED BY <3>4, <3>7, <3>8 DEF LoadFollows
  <2>4. CASE LookForRun(c) \/ MakeRun(c)
    BY <1>1, <1>2, <2>4 DEF LookForRun, MakeRun, SpecFollows, HashFollows, LoadFollows, HashedFile, UsedFile,
       Hashed, Read, Inputs, Computing, Finishing
  <2>5. CASE LoadSpec(c) \/ ReadSchema(c) \/ LoadFixture(c) \/ LoadDirectory(c)
    <3>1. /\ loaded \in [Callers -> Digests] /\ loaded[c] \in [Inputs -> Versions \cup {None}]
          /\ "spec" \in Inputs /\ "schema" \in Inputs /\ "fixture" \in Inputs /\ "directory" \in Inputs
      BY DEF Digests, Inputs
    <3>2. {"spec", "schema", "fixture", "directory"} \subseteq Inputs
      BY DEF Inputs
    <3>3. /\ pc[c] \in Computing /\ pc'[c] \in Computing \ {"load_spec"}
          /\ hashes' = hashes /\ moved' = moved /\ parsed' = parsed
          /\ pc'[c] \in Read[i] =>
               \/ loaded'[c][i] = file[UsedFile(c, i)']
               \/ pc[c] \in Read[i] /\ loaded'[c][i] = loaded[c][i] /\ UsedFile(c, i)' = UsedFile(c, i)
      <4>1. CASE LoadSpec(c)
        <5>1. \A k \in Inputs : loaded'[c][k] = IF k = "spec" THEN file["spec"] ELSE loaded[c][k]
          BY <3>1, <4>1 DEF LoadSpec
        <5>2. UsedFile(c, "spec")' = "spec"
          BY OwnFiles DEF UsedFile
        <5> QED BY <4>1, <5>1, <5>2 DEF LoadSpec, Read, Inputs, Computing
      <4>2. CASE ReadSchema(c)
        <5>1. \A k \in Inputs : loaded'[c][k] = IF k = "schema" THEN file["schema"] ELSE loaded[c][k]
          BY <3>1, <4>2 DEF ReadSchema
        <5>2. UsedFile(c, "schema")' = "schema" /\ UsedFile(c, i)' = UsedFile(c, i)
          BY <3>2, <5>1, OwnFiles DEF UsedFile
        <5> QED BY <4>2, <5>1, <5>2 DEF ReadSchema, Read, Inputs, Computing
      <4>3. CASE LoadFixture(c)
        <5>1. \A k \in Inputs : loaded'[c][k] = IF k = "fixture" THEN file[UsedFile(c, "fixture")] ELSE loaded[c][k]
          BY <3>1, <4>3 DEF LoadFixture, UsedFile
        <5>2. UsedFile(c, i)' = UsedFile(c, i)
          BY <3>2, <5>1 DEF UsedFile
        <5> QED BY <4>3, <5>1, <5>2 DEF LoadFixture, Read, Inputs, Computing
      <4>4. CASE LoadDirectory(c)
        <5>1. \A k \in Inputs : loaded'[c][k] = IF k = "directory" THEN file[UsedFile(c, "directory")] ELSE loaded[c][k]
          BY <3>1, <4>4 DEF LoadDirectory, UsedFile
        <5>2. UsedFile(c, i)' = UsedFile(c, i)
          BY <3>2, <5>1 DEF UsedFile
        <5> QED BY <4>4, <5>1, <5>2 DEF LoadDirectory, Read, Inputs, Computing
      <4> QED BY <2>5, <4>1, <4>2, <4>3, <4>4
    <3>4. SpecFollows(c)' /\ HashFollows(c, i)'
      BY <1>1, <1>2, <3>3 DEF SpecFollows, HashFollows, HashedFile
    <3>5. LoadFollows(c, i)'
      BY <1>1, <1>2, <3>3 DEF LoadFollows, Computing, Finishing
    <3> QED BY <3>4, <3>5
  <2>6. CASE ApplySchema(c) \/ CommitBundle(c) \/ OpenReport(c) \/ WriteReport(c) \/ WriteTmp(c)
    BY <1>1, <1>2, <2>6 DEF ApplySchema, CommitBundle, OpenReport, WriteReport, WriteTmp, SpecFollows,
       HashFollows, LoadFollows, HashedFile, UsedFile, Hashed, Read, Inputs, Computing, Finishing
  <2> QED BY <2>1, <2>2, <2>3, <2>4, <2>5, <2>6 DEF Work
<1>4. "spec" \in Inputs
  BY DEF Inputs
<1> QED BY <1>1, <1>3, <1>4, NotesStep

\* What is read between hashing and publication is what was hashed, edits aside: an
\* edit of a file unsettles what was read of it, and one of the specification the
\* names that are followed.
THEOREM ReadsFollow == Spec => []ReadsFollowInputs
<1>1. Init => ReadsFollowInputs
  <2> SUFFICES ASSUME Init PROVE ReadsFollowInputs
    OBVIOUS
  <2>1. \A c \in Callers : pc[c] = "idle"
    BY DEF Init
  <2>2. /\ "idle" \notin {"hash_spec", "exists", "mkdir"} \cup Computing \cup Finishing
        /\ "spec" \in Inputs /\ \A i \in Inputs : "idle" \notin Hashed[i] \cup Read[i]
    BY DEF Hashed, Read, Inputs, Computing, Finishing
  <2> QED BY <2>1, <2>2 DEF ReadsFollowInputs
<1>2. TypeOK /\ ReadsFollowInputs /\ [Next]_vars => ReadsFollowInputs'
  <2> SUFFICES ASSUME TypeOK, ReadsFollowInputs, [Next]_vars PROVE ReadsFollowInputs'
    OBVIOUS
  <2>1. CASE UNCHANGED vars
    BY <2>1 DEF vars, memory, history, ReadsFollowInputs, HashedFile, UsedFile
  <2>2. ASSUME NEW f \in Files, NEW v \in Versions, Edit(f, v) PROVE ReadsFollowInputs'
    <3>1. /\ UNCHANGED <<pc, parsed, hashes, loaded>>
          /\ \A c \in Callers : moved'[c] = moved[c] \cup {f}
          /\ \A g \in Files \ {f} : file'[g] = file[g]
          /\ "spec" \in Files
      BY <2>2, FileAssumption DEF Edit, TypeOK, memory
    <3>2. ASSUME NEW c \in Callers, NEW i \in Inputs
          PROVE  /\ HashedFile(c, i) \in Files /\ HashedFile(c, i)' = HashedFile(c, i)
                 /\ UsedFile(c, i) \in Files /\ UsedFile(c, i)' = UsedFile(c, i)
      BY <3>1, NotedFiles DEF HashedFile, UsedFile
    <3> QED BY <3>1, <3>2 DEF ReadsFollowInputs
  <2> QED BY <2>1, <2>2, CallerKeepsNotes DEF Next
<1> QED BY <1>1, <1>2, TypeCorrect, PTL DEF Spec

\* The manifest about to be published gives, for every input that is settled, the
\* digest of the version the database was computed from.
THEOREM DigestsBindInputs == Spec => []DigestsBindUnmovedInputs
<1>1. TypeOK /\ RunInvariant /\ ReadsFollowInputs => DigestsBindUnmovedInputs
  <2> SUFFICES ASSUME TypeOK, RunInvariant, ReadsFollowInputs, NEW c \in Callers, pc[c] = "publish",
                      NEW i \in Inputs, Settled(c, i)
               PROVE  /\ HashedFile(c, i) = UsedFile(c, i)
                      /\ hashes[c][i] = loaded[c][i]
                      /\ disk[RunOf[c]]["tmp"].db.used[i] = disk[RunOf[c]]["tmp"].inputs[i]
    BY DEF DigestsBindUnmovedInputs
  <2>1. "spec" \notin moved[c] => parsed[c] = file["spec"] /\ loaded[c]["spec"] = file["spec"]
    <3>1. UsedFile(c, "spec") = "spec" /\ "spec" \in Inputs
      BY OwnFiles DEF UsedFile, Inputs
    <3> QED BY <3>1 DEF ReadsFollowInputs, Finishing
  <2>2. HashedFile(c, i) = UsedFile(c, i) /\ UsedFile(c, i) \notin moved[c]
    BY <2>1 DEF Settled, HashedFile, UsedFile
  <2>3. hashes[c][i] = loaded[c][i]
    BY <2>2 DEF ReadsFollowInputs, Finishing
  <2>4. disk[RunOf[c]]["tmp"] = ManifestOf(c)
    BY DEF RunInvariant, FilesFollowCreator
  <2>5. ManifestOf(c).db.used = loaded[c] /\ ManifestOf(c).inputs = hashes[c]
    BY DEF ManifestOf, DatabaseOf
  <2> QED BY <2>2, <2>3, <2>4, <2>5
<1> QED BY <1>1, TypeCorrect, RunsAreCoherent, ReadsFollow, PTL

-------------------------------------------------------------------------------
(* Runs that somebody alters.                                              *)

\* What the steps of caller c leave to the others.
OthersKeep(c) ==
  /\ \A d \in Callers \ {c} : /\ pc'[d] = pc[d] /\ hashes'[d] = hashes[d] /\ loaded'[d] = loaded[d]
                              /\ saved'[d] = saved[d] /\ result'[d] = result[d]
                              /\ stood'[d] = stood[d] /\ swapped'[d] = swapped[d]
  /\ UNCHANGED altered

\* Who meets an altered run neither creates it nor has created it.
LEMMA DoubtersCreateNothing ==
  ASSUME AlteredInvariant, NEW c \in Callers, stood[c] # None
  PROVE  RunOf[c] \in altered /\ RunOf[c] \in made /\ ~Creating(c) /\ pc[c] # "return"
BY RunOfAssumption DEF AlteredInvariant, AlteredTypeOK, DoubtersStand, DoubtOf, CreatorsStand, CreatorOf,
   IssuesStand, IssuedOf

\* What a step of caller c has to keep, when it leaves altered runs alone.
LEMMA AlteredStep ==
  ASSUME AlteredInvariant, AlteredTypeOK', NEW c \in Callers,
         OthersKeep(c),
         \A r \in RunIds \ {RunOf[c]} : /\ disk'[r] = disk[r] /\ issued'[r] = issued[r]
                                        /\ (r \in made' <=> r \in made),
         \/ Creating(c)
         \/ /\ disk'[RunOf[c]] = disk[RunOf[c]] /\ issued'[RunOf[c]] = issued[RunOf[c]]
            /\ RunOf[c] \in made => RunOf[c] \in made',
         Creating(c)' => Creating(c) \/ RunOf[c] \notin made,
         CreatorOf(c)', VerifierOf(c)',
         stood'[c] # None => DoubtOf(c)',
         Creating(c) /\ Published(RunOf[c])' => IssuedOf(RunOf[c])'
  PROVE  AlteredInvariant'
<1> USE RunOfAssumption DEF OthersKeep
<1>1. /\ RunOf[c] \in RunIds
      /\ Creating(c) => RunOf[c] \notin altered /\ ~Published(RunOf[c])
      /\ \A r \in altered : r \in made /\ r \in RunIds
  BY DEF AlteredInvariant, AlteredTypeOK, CreatorsStand, CreatorOf, IssuesStand, IssuedOf
<1>2. ASSUME NEW d \in Callers \ {c} PROVE Creating(d)' <=> Creating(d)
  BY DEF Creating
<1>3. IssuesStand'
  <2> SUFFICES ASSUME NEW r \in RunIds, Published(r)' \/ r \in altered
               PROVE  IssuedOf(r)'
    BY DEF IssuesStand
  <2>1. Published(r) \/ r \in altered => IssuedOf(r)
    BY DEF AlteredInvariant, IssuesStand
  <2>2. CASE disk'[r] = disk[r] /\ issued'[r] = issued[r] /\ (r \in made => r \in made')
    BY <2>1, <2>2 DEF IssuedOf, Published, Manifest
  <2>3. CASE r = RunOf[c] /\ Creating(c)
    BY <1>1, <2>3
  <2> QED BY <2>2, <2>3
<1>4. ASSUME NEW d \in Callers \ {c} PROVE CreatorOf(d)'
  <2>1. CreatorOf(d)
    BY DEF AlteredInvariant, CreatorsStand
  <2>2. CASE Creating(d)
    <3>1. RunOf[d] # RunOf[c] \/ (~Creating(c) /\ RunOf[c] \in made)
      BY <2>1, <2>2 DEF AlteredInvariant, CreatorsStand, CreatorOf
    <3>2. disk'[RunOf[d]] = disk[RunOf[d]] /\ (RunOf[d] \in made => RunOf[d] \in made') /\ RunOf[d] \in RunIds
      BY <3>1
    <3> QED BY <1>2, <2>1, <3>2 DEF CreatorOf, ManifestOf, Published, Manifest
  <2>3. CASE ~Creating(d)
    BY <1>2, <2>3 DEF CreatorOf, Creating, Computing, Finishing
  <2> QED BY <2>2, <2>3
<1>5. CreatorsStand'
  <2>1. \A d \in Callers \ {c} : Creating(d) => RunOf[d] \in made
    BY DEF AlteredInvariant, CreatorsStand, CreatorOf
  <2>2. ASSUME NEW d \in Callers, NEW e \in Callers, Creating(d)', Creating(e)', RunOf[d] = RunOf[e] PROVE d = e
    BY <1>2, <2>1, <2>2 DEF AlteredInvariant, CreatorsStand
  <2> QED BY <1>4, <2>2 DEF CreatorsStand
<1>6. ASSUME NEW d \in Callers \ {c} PROVE VerifierOf(d)'
  <2>1. VerifierOf(d) /\ RunOf[d] \in RunIds
    BY DEF AlteredInvariant, VerifiersStand
  <2>2. CASE pc[d] \in Holding
    <3>1. disk'[RunOf[d]] = disk[RunOf[d]]
      BY <1>1, <2>1, <2>2 DEF VerifierOf
    <3> QED BY <2>1, <3>1 DEF VerifierOf, Published, Manifest
  <2>3. CASE pc[d] \notin Holding
    BY <2>1, <2>3 DEF VerifierOf, Holding
  <2> QED BY <2>2, <2>3
<1>7. ASSUME NEW d \in Callers \ {c}, stood[d] # None PROVE DoubtOf(d)'
  <2>1. DoubtOf(d) /\ RunOf[d] \in altered /\ RunOf[d] \in RunIds
    BY <1>7 DEF AlteredInvariant, DoubtersStand, DoubtOf
  <2>2. disk'[RunOf[d]] = disk[RunOf[d]]
    BY <1>1, <2>1
  <2> QED BY <2>1, <2>2 DEF DoubtOf
<1>8. VerifiersStand' /\ DoubtersStand'
  BY <1>6, <1>7 DEF VerifiersStand, DoubtersStand
<1> QED BY <1>3, <1>5, <1>8 DEF AlteredInvariant

\* A step of caller c that writes nothing and creates nothing.
LEMMA AlteredQuietStep ==
  ASSUME AlteredInvariant, AlteredTypeOK', NEW c \in Callers,
         OthersKeep(c), UNCHANGED <<disk, made, issued>>,
         ~Creating(c)', VerifierOf(c)',
         stood'[c] # None => DoubtOf(c)'
  PROVE  AlteredInvariant'
<1>1. CreatorOf(c)'
  BY DEF CreatorOf, Creating, Computing, Finishing
<1>2. Creating(c) => ~Published(RunOf[c])'
  BY DEF AlteredInvariant, CreatorsStand, CreatorOf, Published, Manifest
<1> QED BY <1>1, <1>2, AlteredStep

\* Nobody else's notes change in a step of caller c, and the alterations do not.
LEMMA OthersKeepTheirs ==
  ASSUME AlteredInvariant, NEW c \in Callers, Call(c) \/ Proceed(c)
  PROVE  OthersKeep(c) /\ UNCHANGED file
BY DEF OthersKeep, AlteredInvariant, AlteredTypeOK, Step, disks, memory, history, Proceed,
       Call, Begin, Work, CheckSpec, HashInputs, HashInput, LookForRun, MakeRun, LoseRun, LoadSpec, ReadSchema,
       ApplySchema, LoadFixture, LoadDirectory, CommitBundle, OpenReport, WriteReport, WriteTmp, Publish,
       ReturnFresh, LookForFiles, LookForFile, ReadManifest, CheckDatabase, CheckReport, LoadReport,
       Reject, IoError, Raise, CleanUp, UnlinkOutputs, RemoveEntry, RemoveRun, GiveUpRemoving, Kill

\* The steps that only look, hash or fail.
Quiet(c) ==
  \/ CheckSpec(c) \/ HashInputs(c) \/ LookForRun(c) \/ MakeRun(c) \/ LoseRun(c)
  \/ LoadSpec(c) \/ ReadSchema(c) \/ LoadFixture(c) \/ LoadDirectory(c) \/ ReturnFresh(c)
  \/ LookForFiles(c) \/ ReadManifest(c) \/ CheckDatabase(c) \/ CheckReport(c) \/ LoadReport(c)
  \/ Reject(c) \/ IoError(c) \/ RemoveRun(c) \/ GiveUpRemoving(c) \/ Kill(c)

\* They leave the types and the disk alone.
LEMMA QuietTypes ==
  ASSUME AlteredInvariant, NEW c \in Callers, Call(c) \/ (Quiet(c) /\ Proceed(c))
  PROVE  AlteredTypeOK' /\ UNCHANGED <<disk, issued>>
<1> USE RunOfAssumption DEF AlteredInvariant, AlteredTypeOK, Step, disks, memory, history, Quiet
<1>1. UNCHANGED <<disk, altered, file>>
  BY DEF Call, Proceed, Begin, CheckSpec, HashInputs, HashInput, LookForRun, MakeRun, LoseRun, LoadSpec,
         ReadSchema, LoadFixture, LoadDirectory, ReturnFresh, LookForFiles, LookForFile, ReadManifest,
         CheckDatabase, CheckReport, LoadReport, Reject, IoError, Raise, RemoveRun, GiveUpRemoving, Kill
<1>2. made' \in SUBSET RunIds
  BY DEF Call, Begin, CheckSpec, HashInputs, HashInput, LookForRun, MakeRun, LoseRun, LoadSpec, ReadSchema,
         LoadFixture, LoadDirectory, ReturnFresh, LookForFiles, LookForFile, ReadManifest, CheckDatabase,
         CheckReport, LoadReport, Reject, IoError, Raise, RemoveRun, GiveUpRemoving, Kill
<1>3. pc' \in [Callers -> Steps]
  <2>1. \E to \in Steps : pc' = [pc EXCEPT ![c] = to]
    BY DEF Call, Begin, CheckSpec, HashInputs, HashInput, LookForRun, MakeRun, LoseRun, LoadSpec, ReadSchema,
         LoadFixture, LoadDirectory, ReturnFresh, LookForFiles, LookForFile, ReadManifest, CheckDatabase,
         CheckReport, LoadReport, Reject, IoError, Raise, RemoveRun, GiveUpRemoving, Kill,
         Steps, Hashing, Computing, Finishing, Cleaning, Verifying
  <2> QED BY <2>1
<1>4. /\ HashedFile(c, "spec") \in Files /\ HashedFile(c, "schema") \in Files
      /\ HashedFile(c, "fixture") \in Files /\ HashedFile(c, "directory") \in Files
      /\ UsedFile(c, "fixture") \in Files /\ UsedFile(c, "directory") \in Files
      /\ "spec" \in Files /\ "schema" \in Files
  <2>1. parsed[c] \in Versions \cup {None} /\ loaded[c]["spec"] \in Versions \cup {None}
    BY DEF Digests, Inputs
  <2> QED BY <2>1, FileAssumption, FileOfType DEF HashedFile, UsedFile, Inputs
<1>5. hashes' \in [Callers -> Digests]
  <2>1. \/ hashes' = hashes \/ hashes' = [hashes EXCEPT ![c] = Unread]
        \/ \E i \in Inputs : \E f \in Files : hashes' = [hashes EXCEPT ![c][i] = file[f]]
    <3>1. CASE HashInputs(c)
      <4>1. ASSUME NEW i \in Inputs, NEW from, NEW to, HashInput(c, i, from, to), HashedFile(c, i) \in Files
            PROVE  \E f \in Files : hashes' = [hashes EXCEPT ![c][i] = file[f]]
        BY <4>1 DEF HashInput, HashedFile
      <4> QED BY <1>4, <3>1, <4>1 DEF HashInputs, Inputs
    <3>2. CASE ~HashInputs(c)
      BY <3>2 DEF Call, Begin, CheckSpec, LookForRun, MakeRun, LoseRun, LoadSpec, ReadSchema,
         LoadFixture, LoadDirectory, ReturnFresh, LookForFiles, LookForFile, ReadManifest, CheckDatabase,
         CheckReport, LoadReport, Reject, IoError, Raise, RemoveRun, GiveUpRemoving, Kill
    <3> QED BY <3>1, <3>2
  <2>2. Unread \in Digests /\ \A f \in Files : file[f] \in Versions
    BY DEF Digests, Unread
  <2>3. ASSUME NEW i \in Inputs, NEW f \in Files, hashes' = [hashes EXCEPT ![c][i] = file[f]]
        PROVE  hashes' \in [Callers -> Digests]
    BY <2>2, <2>3 DEF Digests
  <2> QED BY <2>1, <2>2, <2>3
<1>6. loaded' \in [Callers -> Digests]
  <2>1. \/ loaded' = loaded \/ loaded' = [loaded EXCEPT ![c] = Unread]
        \/ \E i \in Inputs : \E f \in Files : loaded' = [loaded EXCEPT ![c][i] = file[f]]
    <3>1. CASE LoadSpec(c) \/ ReadSchema(c) \/ LoadFixture(c) \/ LoadDirectory(c)
      BY <1>4, <3>1 DEF LoadSpec, ReadSchema, LoadFixture, LoadDirectory, UsedFile, Inputs
    <3>2. CASE ~(LoadSpec(c) \/ ReadSchema(c) \/ LoadFixture(c) \/ LoadDirectory(c))
      BY <3>2 DEF Call, Begin, CheckSpec, HashInputs, HashInput, LookForRun, MakeRun, LoseRun,
         ReturnFresh, LookForFiles, LookForFile, ReadManifest, CheckDatabase,
         CheckReport, LoadReport, Reject, IoError, Raise, RemoveRun, GiveUpRemoving, Kill
    <3> QED BY <3>1, <3>2
  <2>2. Unread \in Digests /\ \A f \in Files : file[f] \in Versions
    BY DEF Digests, Unread
  <2>3. ASSUME NEW i \in Inputs, NEW f \in Files, loaded' = [loaded EXCEPT ![c][i] = file[f]]
        PROVE  loaded' \in [Callers -> Digests]
    BY <2>2, <2>3 DEF Digests
  <2> QED BY <2>1, <2>2, <2>3
<1>7. parsed' \in [Callers -> Versions \cup {None}]
  BY <1>4 DEF Call, Begin, CheckSpec, HashInputs, HashInput, LookForRun, MakeRun, LoseRun, LoadSpec, ReadSchema,
         LoadFixture, LoadDirectory, ReturnFresh, LookForFiles, LookForFile, ReadManifest, CheckDatabase,
         CheckReport, LoadReport, Reject, IoError, Raise, RemoveRun, GiveUpRemoving, Kill
<1>8. DOMAIN saved' = Callers /\ DOMAIN result' = Callers
  BY DEF Call, Begin, CheckSpec, HashInputs, HashInput, LookForRun, MakeRun, LoseRun, LoadSpec, ReadSchema,
         LoadFixture, LoadDirectory, ReturnFresh, LookForFiles, LookForFile, ReadManifest, CheckDatabase,
         CheckReport, LoadReport, Reject, IoError, Raise, RemoveRun, GiveUpRemoving, Kill
<1>9. DOMAIN stood' = Callers /\ swapped' \in [Callers -> BOOLEAN] /\ issued' = issued
  <2>1. CASE Call(c)
    BY <2>1 DEF Call
  <2>2. CASE Quiet(c) /\ Proceed(c)
    <3>1. ~(pc[c] = "publish" /\ pc'[c] = "return")
      BY <2>2 DEF CheckSpec, HashInputs, HashInput, LookForRun, MakeRun, LoseRun, LoadSpec, ReadSchema,
         LoadFixture, LoadDirectory, ReturnFresh, LookForFiles, LookForFile, ReadManifest, CheckDatabase,
         CheckReport, LoadReport, Reject, IoError, Raise, RemoveRun, GiveUpRemoving, Kill, Finishing, Hashing,
         Verifying, Computing
    <3> QED BY <2>2, <3>1 DEF Proceed
  <2> QED BY <2>1, <2>2
<1> QED BY <1>1, <1>2, <1>3, <1>5, <1>6, <1>7, <1>8, <1>9

\* Calls begin, hash and look for the directory.
LEMMA LookingKeepsAltered ==
  ASSUME AlteredInvariant, NEW c \in Callers,
         \/ Call(c)
         \/ Proceed(c) /\ (CheckSpec(c) \/ HashInputs(c) \/ LookForRun(c) \/ LoseRun(c) \/ ReturnFresh(c))
  PROVE  AlteredInvariant'
<1>1. AlteredTypeOK' /\ UNCHANGED <<disk, issued>> /\ OthersKeep(c)
  BY QuietTypes, OthersKeepTheirs DEF Quiet
<1>2. /\ pc'[c] \in {"idle", "look_db"} \cup Hashing
      /\ made' = made
      /\ ~ReturnFresh(c) => result'[c] = result[c] /\ pc'[c] # "idle"
  BY DEF Call, Begin, CheckSpec, HashInputs, HashInput, LookForRun, LoseRun, ReturnFresh, Step,
         AlteredInvariant, AlteredTypeOK, Hashing, disks
<1>3. ~Creating(c)' /\ pc'[c] \notin Holding \cup {"return"}
  BY <1>2 DEF Creating, Computing, Finishing, Cleaning, Hashing, Holding
<1>4. VerifierOf(c)'
  <2>1. CASE ReturnFresh(c)
    <3>1. pc'[c] = "idle" /\ result'[c].reused = FALSE
      BY <2>1 DEF ReturnFresh, Step, AlteredInvariant, AlteredTypeOK
    <3> QED BY <1>3, <3>1 DEF VerifierOf, Holding
  <2>2. CASE ~ReturnFresh(c)
    <3>1. result[c] = None
      BY <2>2 DEF Call, Begin, CheckSpec, HashInputs, HashInput, LookForRun, LoseRun, Step,
         AlteredInvariant, VerifiersStand, VerifierOf
    <3> QED BY <1>2, <1>3, <2>2, <3>1 DEF VerifierOf, Holding
  <2> QED BY <2>1, <2>2
<1>5. stood'[c] # None => DoubtOf(c)'
  <2>1. CASE Call(c)
    <3>1. /\ stood'[c] = (IF RunOf[c] \in altered THEN disk[RunOf[c]] ELSE None)
          /\ result'[c] = None
      BY <2>1 DEF Call, Begin, AlteredInvariant, AlteredTypeOK
    <3> QED BY <1>1, <1>3, <3>1 DEF DoubtOf, OthersKeep, Holding
  <2>2. CASE ~Call(c)
    <3> SUFFICES ASSUME stood'[c] # None PROVE DoubtOf(c)'
      OBVIOUS
    <3>1. stood' = stood /\ DoubtOf(c)
      BY <2>2 DEF Proceed, AlteredInvariant, DoubtersStand
    <3>2. ~ReturnFresh(c) /\ pc[c] # "idle"
      BY <2>2, <3>1 DEF DoubtOf, ReturnFresh, CheckSpec, HashInputs, HashInput, LookForRun, LoseRun, Step
    <3> QED BY <1>1, <1>2, <1>3, <3>1, <3>2 DEF DoubtOf, OthersKeep, Holding
  <2> QED BY <2>1, <2>2
<1> QED BY <1>1, <1>2, <1>3, <1>4, <1>5, AlteredQuietStep

\* A verification compares before it returns.
LEMMA VerifyingKeepsAltered ==
  ASSUME AlteredInvariant, NEW c \in Callers, Proceed(c),
         LookForFiles(c) \/ ReadManifest(c) \/ CheckDatabase(c) \/ CheckReport(c) \/ LoadReport(c)
  PROVE  AlteredInvariant'
<1>1. /\ AlteredTypeOK' /\ UNCHANGED <<disk, issued, stood, swapped, altered>> /\ OthersKeep(c)
  BY QuietTypes, OthersKeepTheirs DEF Quiet, Proceed
<1>2. /\ pc'[c] \in Verifying \cup {"idle"}
      /\ made' = made
      /\ ~Creating(c)'
  BY DEF LookForFiles, LookForFile, ReadManifest, CheckDatabase, CheckReport, LoadReport, Step,
         AlteredInvariant, AlteredTypeOK, Verifying, disks, Creating, Computing, Finishing, Cleaning
<1> USE DEF Step, memory, Has, AlteredTypeOK
<1>3. VerifierOf(c) /\ AlteredTypeOK /\ (stood[c] # None => DoubtOf(c)) /\ result[c] = None
  BY DEF AlteredInvariant, VerifiersStand, DoubtersStand, VerifierOf, LookForFiles, LookForFile, ReadManifest,
         CheckDatabase, CheckReport, LoadReport
<1>4. VerifierOf(c)'
  <2>1. CASE LookForFiles(c)
    BY <1>1, <1>3, <2>1 DEF LookForFiles, LookForFile, VerifierOf, Holding
  <2>2. CASE ReadManifest(c)
    BY <1>1, <1>3, <2>2 DEF ReadManifest, VerifierOf, Holding, Published, Manifest
  <2>3. CASE CheckDatabase(c)
    BY <1>1, <1>3, <2>3 DEF CheckDatabase, VerifierOf, Holding, Published, Manifest
  <2>4. CASE CheckReport(c)
    BY <1>1, <1>3, <2>4 DEF CheckReport, VerifierOf, Holding, Published, Manifest
  <2>5. CASE LoadReport(c)
    BY <1>1, <1>3, <2>5 DEF LoadReport, VerifierOf, Holding
  <2> QED BY <2>1, <2>2, <2>3, <2>4, <2>5
<1>5. ASSUME stood[c] # None PROVE DoubtOf(c)'
  <2>1. DoubtOf(c) /\ RunOf[c] \in altered
    BY <1>3, <1>5 DEF DoubtOf
  <2>2. CASE LookForFiles(c)
    BY <1>1, <1>3, <2>1, <2>2 DEF LookForFiles, LookForFile, DoubtOf, Holding
  <2>3. CASE ReadManifest(c)
    BY <1>1, <1>3, <2>1, <2>3 DEF ReadManifest, DoubtOf, Holding
  <2>4. CASE CheckDatabase(c)
    BY <1>1, <1>3, <2>1, <2>4 DEF CheckDatabase, DoubtOf, Holding
  <2>5. CASE CheckReport(c)
    BY <1>1, <1>3, <2>1, <2>5 DEF CheckReport, DoubtOf, Holding
  <2>6. CASE LoadReport(c)
    <3>1. /\ stood[c]["manifest"] = saved[c] /\ saved[c] # None /\ saved[c].inputs = hashes[c]
          /\ stood[c]["db"] = saved[c].db /\ stood[c]["report"] = saved[c].report
          /\ disk[RunOf[c]] = stood[c]
      BY <1>3, <2>1, <2>6 DEF LoadReport, DoubtOf, VerifierOf, Holding
    <3>2. /\ result'[c].inputs = hashes[c] /\ result'[c].report = disk[RunOf[c]]["report"]
          /\ pc'[c] = "idle"
      BY <1>3, <2>6 DEF LoadReport
    <3> QED BY <1>1, <2>1, <3>1, <3>2 DEF DoubtOf, Holding
  <2> QED BY <2>2, <2>3, <2>4, <2>5, <2>6
<1> QED BY <1>1, <1>2, <1>4, <1>5, AlteredQuietStep

\* A call that is stopped leaves everything where it is.
LEMMA StoppingKeepsAltered ==
  ASSUME AlteredInvariant, NEW c \in Callers, Proceed(c),
         \/ Reject(c) /\ pc[c] \in Hashing \cup Verifying
         \/ IoError(c) /\ pc[c] \in Hashing \cup Verifying
         \/ GiveUpRemoving(c)
         \/ Kill(c)
  PROVE  AlteredInvariant'
<1>1. /\ AlteredTypeOK' /\ UNCHANGED <<disk, issued, stood, swapped, altered>> /\ OthersKeep(c)
  BY QuietTypes, OthersKeepTheirs DEF Quiet, Proceed
<1>2. pc'[c] = "idle" /\ UNCHANGED <<made, result, saved>>
  BY DEF Reject, IoError, Raise, GiveUpRemoving, Kill, Step, AlteredInvariant, AlteredTypeOK, disks, memory,
         Hashing, Verifying, Computing, Finishing
<1>3. ~Creating(c)'
  BY <1>2 DEF Creating, Computing, Finishing, Cleaning
<1>4. VerifierOf(c)'
  BY <1>1, <1>2 DEF AlteredInvariant, VerifiersStand, VerifierOf, Holding
<1>5. stood'[c] # None => DoubtOf(c)'
  BY <1>1, <1>2 DEF AlteredInvariant, DoubtersStand, DoubtOf, Holding
<1> QED BY <1>1, <1>2, <1>3, <1>4, <1>5, AlteredQuietStep

\* mkdir succeeds only for a run that was never published, so never altered.
LEMMA MakeRunKeepsAltered ==
  ASSUME AlteredInvariant, NEW c \in Callers, MakeRun(c), Proceed(c)
  PROVE  AlteredInvariant'
<1>1. /\ AlteredTypeOK' /\ UNCHANGED <<disk, issued, stood, swapped, altered>> /\ OthersKeep(c)
  BY QuietTypes, OthersKeepTheirs DEF Quiet, Proceed
<1>2. /\ RunOf[c] \in RunIds /\ RunOf[c] \notin made /\ RunOf[c] \notin altered /\ ~Published(RunOf[c])
      /\ made' = made \cup {RunOf[c]} /\ pc'[c] = "load_spec" /\ result'[c] = None
      /\ stood[c] = None /\ ~Creating(c)
  BY RunOfAssumption, DoubtersCreateNothing
     DEF MakeRun, Step, AlteredInvariant, AlteredTypeOK, IssuesStand, IssuedOf, VerifiersStand, VerifierOf,
         Creating, Computing, Finishing, Cleaning
<1>3. CreatorOf(c)' /\ VerifierOf(c)'
  BY <1>1, <1>2 DEF CreatorOf, VerifierOf, Published, Manifest, Computing, Finishing, Holding
<1> QED BY <1>1, <1>2, <1>3, AlteredStep

\* A creator writes into its own, unpublished and unaltered directory.
LEMMA CreatorWrites ==
  ASSUME AlteredInvariant, NEW c \in Callers, Creating(c)
  PROVE  /\ RunOf[c] \in RunIds /\ RunOf[c] \in made \ altered /\ stood[c] = None /\ result[c] = None
         /\ disk[RunOf[c]] \in Directories /\ disk[RunOf[c]]["manifest"] = None
         /\ \A n \in {"db", "report", "tmp"} : \A v : Put(c, n, v) =>
              /\ DOMAIN disk' = RunIds
              /\ \A r \in RunIds \ {RunOf[c]} : disk'[r] = disk[r]
              /\ \A m \in Names : disk'[RunOf[c]][m] = IF m = n THEN v ELSE disk[RunOf[c]][m]
              /\ \/ n = "db" /\ v \in DatabaseFiles
                 \/ n = "report" /\ v \in ReportFiles
                 \/ n = "tmp" /\ v \in Manifests
                 => disk'[RunOf[c]] \in Directories
<1>1. RunOf[c] \in RunIds /\ RunOf[c] \in made \ altered /\ ~Published(RunOf[c])
  BY RunOfAssumption DEF AlteredInvariant, CreatorsStand, CreatorOf
<1>2. stood[c] = None /\ result[c] = None
  BY DoubtersCreateNothing DEF AlteredInvariant, VerifiersStand, VerifierOf, Creating, Computing, Finishing,
     Cleaning
<1>3. disk[RunOf[c]] \in Directories /\ DOMAIN disk = RunIds
  BY <1>1 DEF AlteredInvariant, AlteredTypeOK
<1> DEFINE Kind(n, v) == \/ n = "db" /\ v \in DatabaseFiles
                         \/ n = "report" /\ v \in ReportFiles
                         \/ n = "tmp" /\ v \in Manifests
           Filled(n, v) == [disk[RunOf[c]] EXCEPT ![n] = v]
<1>4. ASSUME NEW n \in {"db", "report", "tmp"}, NEW v, Put(c, n, v)
      PROVE  /\ DOMAIN disk' = RunIds
             /\ \A r \in RunIds \ {RunOf[c]} : disk'[r] = disk[r]
             /\ disk'[RunOf[c]] = Filled(n, v)
  BY <1>1, <1>3, <1>4 DEF Put
<1>5. \A n \in {"db", "report", "tmp"} : \A v : \A m \in Names :
        Filled(n, v)[m] = IF m = n THEN v ELSE disk[RunOf[c]][m]
  BY <1>3 DEF Directories, Names
<1>6. \A n \in {"db", "report", "tmp"} : \A v : Kind(n, v) => Filled(n, v) \in Directories
  BY <1>3 DEF Directories
<1>7. ASSUME NEW n \in {"db", "report", "tmp"}, NEW v, Put(c, n, v)
      PROVE  /\ DOMAIN disk' = RunIds
             /\ \A r \in RunIds \ {RunOf[c]} : disk'[r] = disk[r]
             /\ \A m \in Names : disk'[RunOf[c]][m] = IF m = n THEN v ELSE disk[RunOf[c]][m]
             /\ Kind(n, v) => disk'[RunOf[c]] \in Directories
  <2> HIDE DEF Filled, Kind
  <2> QED BY <1>4, <1>5, <1>6, <1>7
<1>8. disk[RunOf[c]]["manifest"] = None
  BY <1>1 DEF Published, Manifest
<1> QED BY <1>1, <1>2, <1>3, <1>7, <1>8

\* A creator that stays one, or stops being one, has nothing to verify.
LEMMA CreatorVerifiesNothing ==
  ASSUME AlteredInvariant, NEW c \in Callers, Creating(c), result'[c] = result[c], pc'[c] \notin Holding
  PROVE  VerifierOf(c)'
BY CreatorWrites DEF VerifierOf, Holding

\* The types once a creator has written a directory of the right kind.
LEMMA WrittenTypes ==
  ASSUME AlteredInvariant, NEW c \in Callers,
         UNCHANGED <<altered, file, parsed, hashes, loaded, saved, result, stood, swapped>>,
         pc' \in [Callers -> Steps], made' \in SUBSET RunIds, DOMAIN issued' = RunIds,
         DOMAIN disk' = RunIds, RunOf[c] \in RunIds,
         \A r \in RunIds \ {RunOf[c]} : disk'[r] = disk[r],
         disk'[RunOf[c]] \in Directories
  PROVE  AlteredTypeOK'
<1>1. DOMAIN disk'[RunOf[c]] = Names
  BY DEF Directories, Names
<1>2. \A r \in RunIds : DOMAIN disk'[r] = Names /\ (r \notin altered => disk'[r] \in Directories)
  BY <1>1 DEF AlteredInvariant, AlteredTypeOK
<1> QED BY <1>2 DEF AlteredInvariant, AlteredTypeOK

\* Filling the directory, up to and including the temporary manifest.
LEMMA FillingKeepsAltered ==
  ASSUME AlteredInvariant, NEW c \in Callers, Proceed(c),
         \/ LoadSpec(c) \/ ReadSchema(c) \/ ApplySchema(c) \/ LoadFixture(c) \/ LoadDirectory(c)
         \/ CommitBundle(c) \/ OpenReport(c) \/ WriteReport(c) \/ WriteTmp(c)
  PROVE  AlteredInvariant'
<1> DEFINE dir == disk[RunOf[c]]
<1>1. Creating(c)
  BY DEF LoadSpec, ReadSchema, ApplySchema, LoadFixture, LoadDirectory, CommitBundle, OpenReport,
         WriteReport, WriteTmp, Step, Creating, Computing, Finishing
<1>2. /\ RunOf[c] \in RunIds /\ RunOf[c] \in made \ altered /\ stood[c] = None
      /\ dir \in Directories /\ dir["manifest"] = None
      /\ CreatorOf(c)
      /\ loaded[c] \in Digests /\ hashes[c] \in Digests /\ pc \in [Callers -> Steps]
      /\ DatabaseOf(loaded[c]) \in Databases /\ ReportOf(loaded[c]) \in Reports
  <2>1. loaded[c] \in Digests /\ hashes[c] \in Digests /\ pc \in [Callers -> Steps] /\ CreatorOf(c)
    BY DEF AlteredInvariant, AlteredTypeOK, CreatorsStand
  <2>2. DatabaseOf(loaded[c]) \in Databases /\ ReportOf(loaded[c]) \in Reports
    BY <2>1 DEF DatabaseOf, Databases, ReportOf, Reports, Digests, Inputs
  <2> QED BY <1>1, <2>1, <2>2, CreatorWrites
<1>3. OthersKeep(c) /\ UNCHANGED <<altered, stood, swapped, file>>
  BY OthersKeepTheirs DEF Proceed
<1>4. CASE LoadSpec(c) \/ ReadSchema(c) \/ LoadFixture(c) \/ LoadDirectory(c)
  <2>1. AlteredTypeOK' /\ UNCHANGED <<disk, issued>>
    BY <1>4, QuietTypes DEF Quiet
  <2>2. made' = made /\ result' = result /\ pc'[c] \in Computing \ {"load_spec", "open_report", "write_report"}
    BY <1>2, <1>4 DEF LoadSpec, ReadSchema, LoadFixture, LoadDirectory, Step, disks, Computing
  <2>3. CreatorOf(c)'
    BY <1>2, <1>3, <2>1, <2>2 DEF CreatorOf, Published, Manifest, Creating, Computing, Finishing
  <2>4. Creating(c)' /\ ~Published(RunOf[c])'
    BY <1>2, <2>1, <2>2 DEF Creating, Published, Manifest
  <2>5. VerifierOf(c)'
    BY <1>1, <2>2, CreatorVerifiesNothing DEF Computing, Holding
  <2> QED BY <1>1, <1>2, <1>3, <2>1, <2>2, <2>3, <2>4, <2>5, AlteredStep
<1>5. CASE ApplySchema(c) \/ CommitBundle(c) \/ OpenReport(c) \/ WriteReport(c) \/ WriteTmp(c)
  <2>1. /\ UNCHANGED <<made, parsed, hashes, loaded, saved, result, issued>>
        /\ pc'[c] \in (Computing \ {"load_spec"}) \cup Finishing
        /\ pc' \in [Callers -> Steps]
        /\ pc[c] \in (Computing \ {"load_spec"}) \cup Finishing
    BY <1>2, <1>5 DEF ApplySchema, CommitBundle, OpenReport, WriteReport, WriteTmp, Step, memory, Proceed,
                      Computing, Finishing, Steps
  <2>2. [inputs |-> hashes[c], db |-> dir["db"], report |-> dir["report"]] \in Manifests
    BY <1>2 DEF Manifests, Directories
  <2>3. /\ DOMAIN disk' = RunIds
        /\ \A r \in RunIds \ {RunOf[c]} : disk'[r] = disk[r]
        /\ disk'[RunOf[c]] \in Directories
        /\ disk'[RunOf[c]]["manifest"] = None
    <3>1. CASE ApplySchema(c) \/ CommitBundle(c)
      <4>1. PICK v \in DatabaseFiles : Put(c, "db", v)
        BY <1>2, <3>1 DEF ApplySchema, CommitBundle, DatabaseFiles
      <4> QED BY <1>1, <1>2, <4>1, CreatorWrites DEF Names
    <3>2. CASE OpenReport(c) \/ WriteReport(c)
      <4>1. PICK v \in ReportFiles : Put(c, "report", v)
        BY <1>2, <3>2 DEF OpenReport, WriteReport, ReportFiles
      <4> QED BY <1>1, <1>2, <4>1, CreatorWrites DEF Names
    <3>3. CASE WriteTmp(c)
      <4>1. PICK v \in Manifests : Put(c, "tmp", v)
        BY <2>2, <3>3 DEF WriteTmp
      <4> QED BY <1>1, <1>2, <4>1, CreatorWrites DEF Names
    <3> QED BY <1>5, <3>1, <3>2, <3>3
  <2>4. AlteredTypeOK'
    <3>1. made \in SUBSET RunIds /\ DOMAIN issued = RunIds
      BY DEF AlteredInvariant, AlteredTypeOK
    <3> QED BY <1>2, <1>3, <2>1, <2>3, <3>1, WrittenTypes
  <2>5. /\ pc'[c] \in {"open_report", "write_report"} \cup Finishing => disk'[RunOf[c]]["db"] = DatabaseOf(loaded[c])
        /\ pc'[c] \in Finishing => disk'[RunOf[c]]["report"] = ReportOf(loaded[c])
        /\ pc'[c] = "publish" => disk'[RunOf[c]]["tmp"] = ManifestOf(c)
    <3> USE <1>2 DEF CreatorOf, Step, Finishing
    <3>1. CASE ApplySchema(c)
      BY <3>1 DEF ApplySchema
    <3>2. CASE CommitBundle(c)
      BY <1>1, <3>2, CreatorWrites DEF CommitBundle, Names
    <3>3. CASE OpenReport(c)
      BY <1>1, <3>3, CreatorWrites DEF OpenReport, Names
    <3>4. CASE WriteReport(c)
      BY <1>1, <3>4, CreatorWrites DEF WriteReport, Names
    <3>5. CASE WriteTmp(c)
      BY <1>1, <3>5, CreatorWrites DEF WriteTmp, Names, ManifestOf
    <3> QED BY <1>5, <3>1, <3>2, <3>3, <3>4, <3>5
  <2>6. CreatorOf(c)'
    BY <1>2, <1>3, <2>1, <2>3, <2>5 DEF CreatorOf, ManifestOf, Published, Manifest
  <2>7. ~Published(RunOf[c])'
    BY <2>3 DEF Published, Manifest
  <2>8. VerifierOf(c)'
    BY <1>1, <2>1, CreatorVerifiesNothing DEF Computing, Finishing, Holding
  <2> QED BY <1>1, <1>2, <1>3, <2>1, <2>3, <2>4, <2>6, <2>7, <2>8, AlteredStep
<1> QED BY <1>4, <1>5

\* Publication: the manifest that appears describes the files beside it.
LEMMA PublishKeepsAltered ==
  ASSUME AlteredInvariant, NEW c \in Callers, Publish(c), Proceed(c)
  PROVE  AlteredInvariant'
<1>1. Creating(c) /\ pc[c] = "publish"
  BY DEF Publish, Step, Creating, Finishing
<1>2. /\ RunOf[c] \in RunIds /\ RunOf[c] \in made \ altered /\ stood[c] = None
      /\ disk[RunOf[c]] \in Directories
      /\ loaded[c] \in Digests /\ hashes[c] \in Digests
      /\ disk[RunOf[c]]["db"] = DatabaseOf(loaded[c])
      /\ disk[RunOf[c]]["report"] = ReportOf(loaded[c])
      /\ disk[RunOf[c]]["tmp"] = ManifestOf(c)
  BY <1>1, CreatorWrites DEF AlteredInvariant, AlteredTypeOK, CreatorsStand, CreatorOf, Finishing
<1>3. DatabaseOf(loaded[c]) \in Databases /\ ManifestOf(c) \in Manifests
  BY <1>2 DEF ManifestOf, Manifests, Digests, Inputs, DatabaseFiles, ReportFiles,
         DatabaseOf, ReportOf, Databases, Reports
<1>4. /\ DOMAIN disk' = RunIds
      /\ \A r \in RunIds \ {RunOf[c]} : disk'[r] = disk[r]
      /\ disk'[RunOf[c]] \in Directories
      /\ disk'[RunOf[c]]["db"] = DatabaseOf(loaded[c])
      /\ disk'[RunOf[c]]["report"] = ReportOf(loaded[c])
      /\ disk'[RunOf[c]]["manifest"] = ManifestOf(c)
  <2>1. DOMAIN disk = RunIds
    BY DEF AlteredInvariant, AlteredTypeOK
  <2>2. /\ DOMAIN disk' = RunIds
        /\ \A r \in RunIds \ {RunOf[c]} : disk'[r] = disk[r]
        /\ disk'[RunOf[c]] = [disk[RunOf[c]] EXCEPT !["manifest"] = ManifestOf(c), !["tmp"] = None]
    BY <1>2, <2>1 DEF Publish
  <2> QED BY <1>2, <1>3, <2>2 DEF Directories
<1>5. OthersKeep(c) /\ UNCHANGED <<altered, stood, swapped, file>>
  BY OthersKeepTheirs DEF Proceed, Work
<1>6. /\ UNCHANGED <<made, file, parsed, hashes, loaded, saved, result>>
      /\ pc' \in [Callers -> Steps] /\ pc'[c] = "return"
  BY DEF Publish, Step, memory, AlteredInvariant, AlteredTypeOK, Steps
<1>7. /\ DOMAIN issued' = RunIds
      /\ \A r \in RunIds \ {RunOf[c]} : issued'[r] = issued[r]
      /\ issued'[RunOf[c]] = disk'[RunOf[c]]
  <2>1. DOMAIN issued = RunIds
    BY DEF AlteredInvariant, AlteredTypeOK
  <2>2. issued' = [issued EXCEPT ![RunOf[c]] = disk'[RunOf[c]]]
    BY <1>1, <1>6 DEF Proceed
  <2> QED BY <1>2, <2>1, <2>2
<1>8. AlteredTypeOK'
  <2>1. made \in SUBSET RunIds
    BY DEF AlteredInvariant, AlteredTypeOK
  <2> QED BY <1>2, <1>4, <1>5, <1>6, <1>7, <2>1, WrittenTypes
<1>9. CreatorOf(c)' /\ ~Creating(c)' /\ VerifierOf(c)'
  <2>1. CreatorOf(c)' /\ ~Creating(c)'
    BY <1>6 DEF CreatorOf, Creating, Computing, Finishing, Cleaning
  <2>2. VerifierOf(c)'
    BY <1>1, <1>6, CreatorVerifiesNothing DEF Holding
  <2> QED BY <2>1, <2>2
<1>10. IssuedOf(RunOf[c])'
  <2>1. ManifestOf(c).db = DatabaseOf(loaded[c]) /\ ManifestOf(c).report = ReportOf(loaded[c])
    BY DEF ManifestOf
  <2> QED BY <1>2, <1>4, <1>6, <1>7, <2>1 DEF IssuedOf
<1> QED BY <1>1, <1>2, <1>4, <1>5, <1>6, <1>7, <1>8, <1>9, <1>10, AlteredStep

\* Cleaning up a directory, and failing while creating it or cleaning it.
LEMMA CleaningKeepsAltered ==
  ASSUME AlteredInvariant, NEW c \in Callers, Proceed(c),
         \/ CleanUp(c)
         \/ (Reject(c) \/ IoError(c)) /\ pc[c] \in Computing \cup Finishing
  PROVE  AlteredInvariant'
<1>1. Creating(c)
  BY DEF CleanUp, UnlinkOutputs, RemoveEntry, RemoveRun, Step, Creating, Cleaning
<1>2. /\ RunOf[c] \in RunIds /\ RunOf[c] \in made \ altered /\ stood[c] = None
      /\ disk[RunOf[c]] \in Directories /\ disk[RunOf[c]]["manifest"] = None
  BY <1>1, CreatorWrites
<1>3. OthersKeep(c) /\ UNCHANGED <<altered, stood, swapped, file>>
  BY OthersKeepTheirs DEF Proceed
<1>4. /\ DOMAIN disk' = RunIds
      /\ \A r \in RunIds \ {RunOf[c]} : disk'[r] = disk[r]
      /\ disk'[RunOf[c]] \in Directories
      /\ disk'[RunOf[c]]["manifest"] = None
  <2>1. DOMAIN disk = RunIds
    BY DEF AlteredInvariant, AlteredTypeOK
  <2>2. CASE disk' = disk
    BY <1>2, <2>1, <2>2
  <2>3. CASE UnlinkOutputs(c)
    <3>1. disk'[RunOf[c]] = [disk[RunOf[c]] EXCEPT !["db"] = None, !["report"] = None]
      BY <1>2, <2>1, <2>3 DEF UnlinkOutputs
    <3> QED BY <1>2, <2>1, <2>3, <3>1 DEF UnlinkOutputs, Directories, DatabaseFiles, ReportFiles
  <2>4. ASSUME NEW n \in Names, RemoveEntry(c, n) PROVE <1>4
    <3>1. disk'[RunOf[c]] = [disk[RunOf[c]] EXCEPT ![n] = None]
      BY <1>2, <2>1, <2>4 DEF RemoveEntry, Put
    <3> QED BY <1>2, <2>1, <2>4, <3>1 DEF RemoveEntry, Put, Names, Directories, DatabaseFiles, ReportFiles
  <2> QED BY <2>2, <2>3, <2>4 DEF CleanUp, RemoveRun, Reject, IoError, Raise, disks
<1>5. /\ \/ pc'[c] \in Cleaning /\ made' = made
         \/ pc'[c] = "idle" /\ made' = made \ {RunOf[c]}
      /\ UNCHANGED <<parsed, hashes, loaded, saved, result>>
      /\ pc' \in [Callers -> Steps]
  BY DEF CleanUp, UnlinkOutputs, RemoveEntry, RemoveRun, Reject, IoError, Raise, Step, disks, memory,
         AlteredInvariant, AlteredTypeOK, Steps, Cleaning, Hashing, Verifying, Computing, Finishing
<1>6. issued' = issued
  BY <1>5 DEF Proceed, Cleaning
<1>7. AlteredTypeOK'
  <2>1. made \in SUBSET RunIds /\ DOMAIN issued = RunIds
    BY DEF AlteredInvariant, AlteredTypeOK
  <2> QED BY <1>2, <1>3, <1>4, <1>5, <1>6, <2>1, WrittenTypes
<1>8. CreatorOf(c)' /\ VerifierOf(c)'
  <2>1. CreatorOf(c)'
    BY <1>2, <1>3, <1>4, <1>5 DEF CreatorOf, Published, Manifest, Creating, Computing, Finishing, Cleaning
  <2>2. VerifierOf(c)'
    BY <1>1, <1>5, CreatorVerifiesNothing DEF Cleaning, Holding
  <2> QED BY <2>1, <2>2
<1>9. ~Published(RunOf[c])' /\ \A r \in RunIds \ {RunOf[c]} : r \in made' <=> r \in made
  BY <1>4, <1>5 DEF Published, Manifest
<1> QED BY <1>1, <1>2, <1>3, <1>4, <1>6, <1>7, <1>8, <1>9, AlteredStep

\* An alteration finds no creator, and spoils the claims only of the calls it overtakes.
LEMMA AlterKeepsAltered ==
  ASSUME AlteredInvariant, NEW r \in RunIds, NEW n \in {"db", "report", "manifest"}, Alter(r, n)
  PROVE  AlteredInvariant'
<1> USE RunOfAssumption
<1>1. /\ Published(r) \/ r \in altered
      /\ altered' = altered \cup {r}
      /\ UNCHANGED <<file, made, pc, parsed, hashes, loaded, saved, result, issued>>
  BY DEF Alter, memory
<1>2. DOMAIN disk = RunIds /\ \A q \in RunIds : DOMAIN disk[q] = Names
  BY DEF AlteredInvariant, AlteredTypeOK
<1>3. /\ DOMAIN disk' = RunIds /\ \A q \in RunIds \ {r} : disk'[q] = disk[q]
      /\ DOMAIN disk'[r] = Names /\ \A m \in Names \ {n} : disk'[r][m] = disk[r][m]
  <2>1. PICK x : disk' = [disk EXCEPT ![r][n] = x]
    BY DEF Alter
  <2> QED BY <1>2, <2>1 DEF Names
<1>4. /\ DOMAIN stood' = Callers
      /\ \A c \in Callers : stood'[c] = IF RunOf[c] = r /\ pc[c] # "idle" THEN None ELSE stood[c]
  BY DEF Alter
<1>5. /\ swapped' \in [Callers -> BOOLEAN]
      /\ \A c \in Callers : ~swapped'[c] =>
           ~swapped[c] /\ ~(RunOf[c] = r /\ n = "report" /\ pc[c] = "load_report")
  <2>1. swapped' = [c \in Callers |-> swapped[c] \/ (RunOf[c] = r /\ n = "report" /\ pc[c] = "load_report")]
    BY DEF Alter
  <2>2. \A c \in Callers :
          (swapped[c] \/ (RunOf[c] = r /\ n = "report" /\ pc[c] = "load_report")) \in BOOLEAN
    OBVIOUS
  <2>3. swapped' \in [Callers -> BOOLEAN]
    BY <2>1, <2>2, Zenon
  <2> QED BY <2>1, <2>3
<1>6. AlteredTypeOK'
  BY <1>1, <1>3, <1>4, <1>5 DEF AlteredInvariant, AlteredTypeOK
<1>7. IssuesStand'
  <2>1. IssuedOf(r)
    BY <1>1 DEF AlteredInvariant, IssuesStand
  <2>2. IssuedOf(r)'
    BY <1>1, <2>1 DEF IssuedOf
  <2>3. ASSUME NEW q \in RunIds \ {r}, Published(q)' \/ q \in altered' PROVE IssuedOf(q)'
    BY <1>1, <1>3, <2>3 DEF AlteredInvariant, IssuesStand, IssuedOf, Published, Manifest
  <2> QED BY <2>2, <2>3 DEF IssuesStand
<1>8. CreatorsStand'
  <2>1. ASSUME NEW c \in Callers PROVE CreatorOf(c)'
    <3>1. CreatorOf(c) /\ RunOf[c] \in RunIds
      BY DEF AlteredInvariant, CreatorsStand
    <3>2. CASE RunOf[c] = r
      <4>1. ~Creating(c)
        BY <1>1, <3>1, <3>2 DEF CreatorOf
      <4> QED BY <1>1, <4>1 DEF CreatorOf, Creating, Computing, Finishing, Cleaning
    <3>3. CASE RunOf[c] # r
      BY <1>1, <1>3, <3>1, <3>3 DEF CreatorOf, Creating, ManifestOf, Published, Manifest
    <3> QED BY <3>2, <3>3
  <2> QED BY <1>1, <2>1 DEF AlteredInvariant, CreatorsStand, Creating
<1>9. VerifiersStand'
  <2>1. ASSUME NEW c \in Callers PROVE VerifierOf(c)'
    <3>1. VerifierOf(c) /\ RunOf[c] \in RunIds
      BY DEF AlteredInvariant, VerifiersStand
    <3>2. pc[c] \in Holding => (Published(RunOf[c])' \/ RunOf[c] \in altered') /\ saved'[c].inputs = hashes'[c]
      BY <1>1, <1>3, <3>1 DEF VerifierOf, Published, Manifest
    <3>3. ASSUME pc[c] = "load_report", ~swapped'[c] PROVE disk'[RunOf[c]]["report"] = saved'[c].report
      <4>1. disk'[RunOf[c]]["report"] = disk[RunOf[c]]["report"]
        BY <1>3, <1>5, <3>1, <3>3 DEF Names
      <4> QED BY <1>1, <1>5, <3>1, <3>3, <4>1 DEF VerifierOf
    <3> QED BY <1>1, <1>5, <3>1, <3>2, <3>3 DEF VerifierOf
  <2> QED BY <2>1 DEF VerifiersStand
<1>10. DoubtersStand'
  <2>1. ASSUME NEW c \in Callers, stood'[c] # None PROVE DoubtOf(c)'
    <3>1. stood'[c] = stood[c] /\ stood[c] # None /\ (RunOf[c] # r \/ pc[c] = "idle")
      BY <1>4, <2>1
    <3>2. DoubtOf(c) /\ RunOf[c] \in altered /\ RunOf[c] \in RunIds
      BY <3>1 DEF AlteredInvariant, DoubtersStand, DoubtOf
    <3>3. CASE RunOf[c] # r
      BY <1>1, <1>3, <3>1, <3>2, <3>3 DEF DoubtOf
    <3>4. CASE pc[c] = "idle"
      BY <1>1, <3>1, <3>2, <3>4 DEF DoubtOf, Holding
    <3> QED BY <3>1, <3>3, <3>4
  <2> QED BY <2>1 DEF DoubtersStand
<1> QED BY <1>6, <1>7, <1>8, <1>9, <1>10 DEF AlteredInvariant

\* Nothing that is said of runs and calls changes when only an input is edited.
LEMMA AlteredFrame ==
  ASSUME AlteredInvariant, file' \in [Files -> Versions],
         UNCHANGED <<made, disk, pc, parsed, hashes, loaded, saved, result, altered, issued, stood, swapped>>
  PROVE  AlteredInvariant'
BY DEF AlteredInvariant, AlteredTypeOK, IssuesStand, IssuedOf, CreatorsStand, CreatorOf, Creating, ManifestOf,
   VerifiersStand, VerifierOf, DoubtersStand, DoubtOf, Published, Manifest

\* Whatever is altered, whenever and how often: an altered run has no creator and never
\* gets one, what was issued can still be compared with it, and whoever verifies it has
\* compared what it holds.
THEOREM AlteredRunsAreVerified == AlteredSpec => []AlteredInvariant
<1>1. AlteredInit => AlteredInvariant
  <2> SUFFICES ASSUME AlteredInit PROVE AlteredInvariant
    OBVIOUS
  <2>1. AlteredTypeOK
    BY RunOfAssumption, FileAssumption DEF AlteredInit, Init, AlteredTypeOK, Unread, EmptyDir, Digests,
       Directories, Names, Steps, DatabaseFiles, ReportFiles
  <2>2. IssuesStand /\ VerifiersStand /\ DoubtersStand
    BY DEF AlteredInit, Init, IssuesStand, VerifiersStand, VerifierOf, Holding, DoubtersStand, Published,
       Manifest, EmptyDir, Names
  <2>3. CreatorsStand
    BY DEF AlteredInit, Init, CreatorsStand, CreatorOf, Creating, Computing, Finishing, Cleaning
  <2> QED BY <2>1, <2>2, <2>3 DEF AlteredInvariant
<1>2. AlteredInvariant /\ [AlteredNext]_alteredVars => AlteredInvariant'
  <2> SUFFICES ASSUME AlteredInvariant, [AlteredNext]_alteredVars PROVE AlteredInvariant'
    OBVIOUS
  <2>1. CASE UNCHANGED alteredVars
    BY <2>1, AlteredFrame DEF alteredVars, notes, vars, disks, memory, AlteredInvariant, AlteredTypeOK
  <2>2. ASSUME NEW c \in Callers, Call(c) PROVE AlteredInvariant'
    BY <2>2, LookingKeepsAltered
  <2>3. ASSUME NEW c \in Callers, Proceed(c) PROVE AlteredInvariant'
    <3>1. CASE Work(c)
      BY <2>3, <3>1, LookingKeepsAltered, MakeRunKeepsAltered, FillingKeepsAltered, PublishKeepsAltered,
         VerifyingKeepsAltered DEF Work
    <3>2. CASE Reject(c) \/ CleanUp(c) \/ IoError(c) \/ GiveUpRemoving(c) \/ Kill(c)
      BY <2>3, <3>2, StoppingKeepsAltered, CleaningKeepsAltered DEF Reject, IoError, Raise
    <3> QED BY <2>3, <3>1, <3>2 DEF Proceed
  <2>4. CASE EditInput
    BY <2>4, AlteredFrame DEF EditInput, Edit, notes, disks, memory, AlteredInvariant, AlteredTypeOK
  <2>5. ASSUME NEW r \in RunIds, NEW n \in {"db", "report", "manifest"}, Alter(r, n) PROVE AlteredInvariant'
    BY <2>5, AlterKeepsAltered
  <2> QED BY <2>1, <2>2, <2>3, <2>4, <2>5 DEF AlteredNext
<1> QED BY <1>1, <1>2, PTL DEF AlteredSpec

\* A retry on an altered run succeeds only where a digest and what it is taken of were
\* changed together.
THEOREM OneSidedChangesAreRefused == AlteredSpec => []OneSidedChangeIsRefused
<1>1. AlteredInvariant => OneSidedChangeIsRefused
  <2> SUFFICES ASSUME AlteredInvariant, NEW c \in Callers, stood[c] # None, result[c] # None
               PROVE  LET now == stood[c]
                          then == issued[RunOf[c]]
                      IN /\ now["manifest"] # None
                         /\ now["db"] = then["db"] <=> now["manifest"].db = then["manifest"].db
                         /\ now["report"] = then["report"] <=> now["manifest"].report = then["manifest"].report
                         /\ result[c].inputs = then["manifest"].inputs
                              <=> now["manifest"].inputs = then["manifest"].inputs
                         /\ result[c].report = now["report"]
    BY DEF OneSidedChangeIsRefused
  <2>1. DoubtOf(c) /\ RunOf[c] \in altered /\ RunOf[c] \in RunIds
    BY RunOfAssumption DEF AlteredInvariant, DoubtersStand, DoubtOf
  <2>2. IssuedOf(RunOf[c])
    BY <2>1 DEF AlteredInvariant, IssuesStand
  <2> QED BY <2>1, <2>2 DEF DoubtOf, IssuedOf
<1> QED BY <1>1, AlteredRunsAreVerified, PTL

\* What a retry returns it has compared with the manifest it holds, unless the report
\* was changed between that comparison and the second reading of it.
THEOREM ReturnedReportsWereCompared == AlteredSpec => []ReturnedReportWasCompared
<1>1. AlteredInvariant => ReturnedReportWasCompared
  BY DEF AlteredInvariant, VerifiersStand, VerifierOf, ReturnedReportWasCompared
<1> QED BY <1>1, AlteredRunsAreVerified, PTL

\* The alterations are counted.
AlteredNumbers == alterations \in Nat

\* Nobody but whoever alters it writes into an altered directory, or removes it.
THEOREM AlteredRunsAreLeftAlone == AlteredSpec => AlteredRunIsLeftAlone
<1>1. AlteredInvariant /\ AlteredInvariant' /\ AlteredNumbers /\ [AlteredNext]_alteredVars
        => [UNCHANGED alterations => \A r \in altered : disk'[r] = disk[r] /\ r \in made']_alteredVars
  <2> SUFFICES ASSUME AlteredInvariant, AlteredInvariant', AlteredNumbers, AlteredNext,
                      UNCHANGED alterations, NEW r \in altered
               PROVE  disk'[r] = disk[r] /\ r \in made'
    OBVIOUS
  <2>1. ASSUME NEW q \in RunIds, NEW n \in {"db", "report", "manifest"}, Alter(q, n) PROVE FALSE
    BY <2>1 DEF Alter, AlteredNumbers
  <2>2. r \in RunIds /\ r \in altered'
    <3>1. altered \subseteq altered'
      BY <2>1, OthersKeepTheirs DEF AlteredNext, EditInput, OthersKeep
    <3> QED BY <3>1 DEF AlteredInvariant, AlteredTypeOK
  <2>3. r \in made'
    BY <2>2 DEF AlteredInvariant, IssuesStand, IssuedOf
  <2>4. ASSUME NEW c \in Callers, Creating(c) PROVE RunOf[c] # r
    BY <2>4 DEF AlteredInvariant, CreatorsStand, CreatorOf
  <2>5. disk'[r] = disk[r]
    <3>1. DOMAIN disk = RunIds
      BY DEF AlteredInvariant, AlteredTypeOK
    <3>2. CASE EditInput
      BY <3>2 DEF EditInput, Edit, disks
    <3>3. ASSUME NEW c \in Callers, Call(c) PROVE disk' = disk
      BY <3>3 DEF Call, Begin, disks
    <3>4. ASSUME NEW c \in Callers, Proceed(c) PROVE disk'[r] = disk[r]
      <4>1. CASE \/ ApplySchema(c) \/ CommitBundle(c) \/ OpenReport(c) \/ WriteReport(c)
                 \/ WriteTmp(c) \/ Publish(c) \/ UnlinkOutputs(c) \/ \E n \in Names : RemoveEntry(c, n)
        <5>1. Creating(c)
          BY <4>1 DEF ApplySchema, CommitBundle, OpenReport, WriteReport, WriteTmp, Publish, UnlinkOutputs,
                      RemoveEntry, Step, Creating, Computing, Finishing, Cleaning
        <5> QED BY <2>2, <2>4, <3>1, <4>1, <5>1 DEF ApplySchema, CommitBundle, OpenReport, WriteReport,
                      WriteTmp, Publish, UnlinkOutputs, RemoveEntry, Put
      <4>2. CASE ~(\/ ApplySchema(c) \/ CommitBundle(c) \/ OpenReport(c) \/ WriteReport(c)
                   \/ WriteTmp(c) \/ Publish(c) \/ UnlinkOutputs(c) \/ \E n \in Names : RemoveEntry(c, n))
        <5>1. Quiet(c)
          BY <3>4, <4>2 DEF Proceed, Work, CleanUp, Quiet
        <5> QED BY <3>4, <5>1, QuietTypes
      <4> QED BY <4>1, <4>2
    <3> QED BY <2>1, <3>2, <3>3, <3>4 DEF AlteredNext
  <2> QED BY <2>3, <2>5
<1>2. AlteredSpec => []AlteredNumbers
  <2>1. AlteredInit => AlteredNumbers
    BY DEF AlteredInit, AlteredNumbers
  <2>2. AlteredNumbers /\ [AlteredNext]_alteredVars => AlteredNumbers'
    BY DEF AlteredNumbers, AlteredNext, alteredVars, Call, Proceed, EditInput, Alter
  <2> QED BY <2>1, <2>2, PTL DEF AlteredSpec
<1> QED BY <1>1, <1>2, AlteredRunsAreVerified, PTL DEF AlteredSpec, AlteredRunIsLeftAlone
===============================================================================
