----------------------------- MODULE WorkflowRuns -----------------------------
(***************************************************************************)
(* engine/workflow_runs.py: run_workflow_once, called by several processes *)
(* (Airflow tasks, their retries, the command line) on one output root.    *)
(*                                                                         *)
(* A caller hashes the four inputs, then either creates the directory of   *)
(* its run and fills it (database, report, manifest last), or finds the    *)
(* directory and verifies what is in it.  The asset fixture and the        *)
(* ownership directory are the files the specification names.  The         *)
(* workflow reads the specification a second time, after the inputs were   *)
(* hashed, and follows the names it then finds; any file may be edited in  *)
(* between.  A caller may be killed at any point; an exception makes it    *)
(* clean up.  Every step is one access to the file system.                 *)
(*                                                                         *)
(* Contents are abstract: a version stands for the bytes of an input file, *)
(* a SHA-256 digest for the bytes it was taken of, and a database or a     *)
(* report for the input versions it was computed from.                     *)
(***************************************************************************)
EXTENDS Naturals

CONSTANTS
  Callers,      \* processes that call run_workflow_once
  RunIds,       \* run identifiers; the directory name is a hash of one
  RunOf,        \* RunOf[c]: the run identifier caller c passes
  Good,         \* versions of an input file that the workflow accepts
  Bad,          \* content that the workflow rejects (malformed, no such asset)
  Missing,      \* the input file cannot be read
  Files,        \* the files below allowed_root that inputs are read from
  Named,        \* Named[v][i]: the file a specification of version v names as input i
  InitialFile,  \* the input files at the start
  None,         \* no such file; not known yet
  Partial,      \* a file that was created and not finished
  MaxAttempts,  \* bound: calls a caller makes (the DAG sets retries = 1)
  MaxEdits,     \* bound: edits of the input files
  MaxFaults     \* bound: kills and I/O errors

Inputs == {"spec", "schema", "fixture", "directory"}
Referred == {"fixture", "directory"}
Names == {"db", "report", "tmp", "manifest"}
Versions == Good \cup {Bad, Missing}

ASSUME NoneAssumption == None \notin Versions /\ Partial \notin Versions
ASSUME RunOfAssumption == RunOf \in [Callers -> RunIds]
ASSUME FileAssumption == {"spec", "schema"} \subseteq Files /\ InitialFile \in [Files -> Versions]
\* What Named says of content that is no specification is never used.
ASSUME NamedAssumption == Named \in [Versions \cup {None} -> [Referred -> Files]]
ASSUME BoundsAssumption == MaxAttempts \in Nat /\ MaxEdits \in Nat /\ MaxFaults \in Nat

VARIABLES
  file,       \* file[f]: the current content of file f
  made,       \* the runs whose directory exists
  disk,       \* disk[r][n]: the file n in the directory of run r
  pc,         \* pc[c]: what caller c does next
  parsed,     \* parsed[c]: the specification c parsed to find the files to hash
  hashes,     \* hashes[c][i]: the digest caller c took of input i
  loaded,     \* loaded[c][i]: the content of input i its workflow used
  saved,      \* saved[c]: the manifest a verifying caller has read
  result,     \* result[c]: what the call returned, None if nothing yet
  attempts,   \* attempts[c]: calls made so far
  edits,      \* edits of input files so far
  faults,     \* kills and I/O errors so far
  abandoned,  \* history: runs whose creator was killed or could not clean up
  moved       \* history: moved[c] = files edited since c's call began

disks == <<made, disk>>
memory == <<parsed, hashes, loaded, saved>>
history == <<abandoned, moved>>
vars == <<file, disks, pc, memory, result, attempts, edits, faults, history>>

\* The file that input i is read from by whoever has parsed version v.
FileOf(i, v) == IF i \in Referred THEN Named[v][i] ELSE i

Unread == [i \in Inputs |-> None]
EmptyDir == [n \in Names |-> None]

\* The database depends on all four inputs, the report on all but the schema.
DatabaseOf(u) == [used |-> u]
ReportOf(u) == [spec |-> u["spec"], fixture |-> u["fixture"], directory |-> u["directory"]]

Digests == [Inputs -> Versions \cup {None}]
Databases == [used : Digests]
Reports == [spec : Versions \cup {None}, fixture : Versions \cup {None},
            directory : Versions \cup {None}]

Step(c, from, to) == pc[c] = from /\ pc' = [pc EXCEPT ![c] = to]

Put(c, n, content) == disk' = [disk EXCEPT ![RunOf[c]][n] = content]
Has(c, n) == disk[RunOf[c]][n] # None

\* run_workflow_once holds a directory it created and has not finished.
Computing == {"load_spec", "read_schema", "apply_schema", "load_fixture",
              "load_directory", "commit", "open_report", "write_report"}
Finishing == {"write_tmp", "publish"}
Cleaning == {"unlink", "rmtree"}
Creating(c) == pc[c] \in Computing \cup Finishing \cup Cleaning

Hashing == {"check_spec", "hash_spec", "hash_schema", "hash_fixture",
            "hash_directory", "exists", "mkdir"}
Verifying == {"look_db", "look_report", "look_manifest", "read_manifest",
              "check_db", "check_report", "load_report"}

Init ==
  /\ file = InitialFile
  /\ made = {}
  /\ disk = [r \in RunIds |-> EmptyDir]
  /\ pc = [c \in Callers |-> "idle"]
  /\ parsed = [c \in Callers |-> None]
  /\ hashes = [c \in Callers |-> Unread]
  /\ loaded = [c \in Callers |-> Unread]
  /\ saved = [c \in Callers |-> None]
  /\ result = [c \in Callers |-> None]
  /\ attempts = [c \in Callers |-> 0]
  /\ edits = 0
  /\ faults = 0
  /\ abandoned = {}
  /\ moved = [c \in Callers |-> {}]

-------------------------------------------------------------------------------
(* The call begins: hash the inputs, look for the run directory.           *)

Begin(c) ==
  /\ Step(c, "idle", "check_spec")
  /\ result[c] = None
  /\ attempts[c] < MaxAttempts
  /\ attempts' = [attempts EXCEPT ![c] = @ + 1]
  /\ parsed' = [parsed EXCEPT ![c] = None]
  /\ hashes' = [hashes EXCEPT ![c] = Unread]
  /\ loaded' = [loaded EXCEPT ![c] = Unread]
  /\ saved' = [saved EXCEPT ![c] = None]
  /\ moved' = [moved EXCEPT ![c] = {}]
  /\ UNCHANGED <<file, disks, result, edits, faults, abandoned>>

\* _input_hashes parses the specification before it hashes anything, and hashes
\* the files that this one names.
CheckSpec(c) ==
  /\ Step(c, "check_spec", "hash_spec")
  /\ file["spec"] \in Good
  /\ parsed' = [parsed EXCEPT ![c] = file["spec"]]
  /\ UNCHANGED <<file, disks, hashes, loaded, saved, result, attempts, edits, faults, history>>

\* Each digest is a read of its own.
HashInput(c, i, from, to) ==
  /\ Step(c, from, to)
  /\ file[FileOf(i, parsed[c])] # Missing
  /\ hashes' = [hashes EXCEPT ![c][i] = file[FileOf(i, parsed[c])]]
  /\ UNCHANGED <<file, disks, parsed, loaded, saved, result, attempts, edits, faults, history>>

\* Mutant: the directory digest is taken of the fixture.
HashFixtureTwice(c) ==
  \/ HashInput(c, "spec", "hash_spec", "hash_schema")
  \/ HashInput(c, "schema", "hash_schema", "hash_fixture")
  \/ HashInput(c, "fixture", "hash_fixture", "hash_directory")
  \/ /\ Step(c, "hash_directory", "exists")
     /\ file[FileOf("fixture", parsed[c])] # Missing
     /\ hashes' = [hashes EXCEPT ![c]["directory"] = file[FileOf("fixture", parsed[c])]]
     /\ UNCHANGED <<file, disks, parsed, loaded, saved, result, attempts, edits, faults, history>>

HashInputs(c) ==
  \/ HashInput(c, "spec", "hash_spec", "hash_schema")
  \/ HashInput(c, "schema", "hash_schema", "hash_fixture")
  \/ HashInput(c, "fixture", "hash_fixture", "hash_directory")
  \/ HashInput(c, "directory", "hash_directory", "exists")

\* Mutant: a directory without a manifest is resumed.
ResumeUnfinished(c) ==
  /\ \/ RunOf[c] \in made /\ Has(c, "manifest") /\ Step(c, "exists", "look_db")
     \/ RunOf[c] \in made /\ ~Has(c, "manifest") /\ Step(c, "exists", "read_schema")
     \/ RunOf[c] \notin made /\ Step(c, "exists", "mkdir")
  /\ UNCHANGED <<file, disks, memory, result, attempts, edits, faults, history>>

LookForRun(c) ==
  /\ \/ RunOf[c] \in made /\ Step(c, "exists", "look_db")
     \/ RunOf[c] \notin made /\ Step(c, "exists", "mkdir")
  /\ UNCHANGED <<file, disks, memory, result, attempts, edits, faults, history>>

\* Mutant: mkdir(exist_ok = True).
MakeRunExistOk(c) ==
  /\ Step(c, "mkdir", "load_spec")
  /\ made' = made \cup {RunOf[c]}
  /\ UNCHANGED <<file, disk, memory, result, attempts, edits, faults, history>>

\* mkdir is exclusive: the loser of a race verifies instead.
MakeRun(c) ==
  /\ Step(c, "mkdir", "load_spec")
  /\ RunOf[c] \notin made
  /\ made' = made \cup {RunOf[c]}
  /\ UNCHANGED <<file, disk, memory, result, attempts, edits, faults, history>>

LoseRun(c) ==
  /\ Step(c, "mkdir", "look_db")
  /\ RunOf[c] \in made
  /\ UNCHANGED <<file, disks, memory, result, attempts, edits, faults, history>>

-------------------------------------------------------------------------------
(* run_workflow_to_sqlite inside the new directory.                        *)

\* Both output paths must be new; then the inputs are read again, the specification first.
LoadSpec(c) ==
  /\ Step(c, "load_spec", "read_schema")
  /\ ~Has(c, "db") /\ ~Has(c, "report")
  /\ file["spec"] \in Good
  /\ loaded' = [loaded EXCEPT ![c]["spec"] = file["spec"]]
  /\ UNCHANGED <<file, disks, parsed, hashes, saved, result, attempts, edits, faults, history>>

ReadSchema(c) ==
  /\ Step(c, "read_schema", "apply_schema")
  /\ file["schema"] # Missing
  /\ loaded' = [loaded EXCEPT ![c]["schema"] = file["schema"]]
  /\ UNCHANGED <<file, disks, parsed, hashes, saved, result, attempts, edits, faults, history>>

\* sqlite3.connect and executescript: tables, no evidence yet.
ApplySchema(c) ==
  /\ Step(c, "apply_schema", "load_fixture")
  /\ loaded[c]["schema"] \in Good
  /\ Put(c, "db", Partial)
  /\ UNCHANGED <<file, made, memory, result, attempts, edits, faults, history>>

\* run_fixture_workflow follows the names of the specification read last.
LoadFixture(c) ==
  /\ Step(c, "load_fixture", "load_directory")
  /\ file[FileOf("fixture", loaded[c]["spec"])] \in Good
  /\ loaded' = [loaded EXCEPT ![c]["fixture"] = file[FileOf("fixture", loaded[c]["spec"])]]
  /\ UNCHANGED <<file, disks, parsed, hashes, saved, result, attempts, edits, faults, history>>

LoadDirectory(c) ==
  /\ Step(c, "load_directory", "commit")
  /\ file[FileOf("directory", loaded[c]["spec"])] \in Good
  /\ loaded' = [loaded EXCEPT ![c]["directory"] = file[FileOf("directory", loaded[c]["spec"])]]
  /\ UNCHANGED <<file, disks, parsed, hashes, saved, result, attempts, edits, faults, history>>

\* store_bundle commits the one transaction of the run.
CommitBundle(c) ==
  /\ Step(c, "commit", "open_report")
  /\ Put(c, "db", DatabaseOf(loaded[c]))
  /\ UNCHANGED <<file, made, memory, result, attempts, edits, faults, history>>

\* write_text creates the report, then fills it.
OpenReport(c) ==
  /\ Step(c, "open_report", "write_report")
  /\ Put(c, "report", Partial)
  /\ UNCHANGED <<file, made, memory, result, attempts, edits, faults, history>>

WriteReport(c) ==
  /\ Step(c, "write_report", "write_tmp")
  /\ Put(c, "report", ReportOf(loaded[c]))
  /\ UNCHANGED <<file, made, memory, result, attempts, edits, faults, history>>

-------------------------------------------------------------------------------
(* The manifest is written last, under a temporary name.                   *)

\* Mutant: the two artifact digests are swapped.
WriteTmpSwapped(c) ==
  /\ Step(c, "write_tmp", "publish")
  /\ Has(c, "db") /\ Has(c, "report")
  /\ Put(c, "tmp", [inputs |-> hashes[c],
                    db |-> disk[RunOf[c]]["report"],
                    report |-> disk[RunOf[c]]["db"]])
  /\ UNCHANGED <<file, made, memory, result, attempts, edits, faults, history>>

\* The input digests are those taken before the workflow ran.
WriteTmp(c) ==
  /\ Step(c, "write_tmp", "publish")
  /\ Has(c, "db") /\ Has(c, "report")
  /\ Put(c, "tmp", [inputs |-> hashes[c],
                    db |-> disk[RunOf[c]]["db"],
                    report |-> disk[RunOf[c]]["report"]])
  /\ UNCHANGED <<file, made, memory, result, attempts, edits, faults, history>>

\* temporary.replace(manifest_path)
Publish(c) ==
  /\ Step(c, "publish", "return")
  /\ Has(c, "tmp")
  /\ disk' = [disk EXCEPT ![RunOf[c]]["manifest"] = disk[RunOf[c]]["tmp"],
                          ![RunOf[c]]["tmp"] = None]
  /\ UNCHANGED <<file, made, memory, result, attempts, edits, faults, history>>

ReturnFresh(c) ==
  /\ Step(c, "return", "idle")
  /\ result' = [result EXCEPT ![c] = [reused |-> FALSE, inputs |-> hashes[c],
                                      report |-> ReportOf(loaded[c])]]
  /\ UNCHANGED <<file, disks, memory, attempts, edits, faults, history>>

-------------------------------------------------------------------------------
(* _load_retry: verify a directory that was already there.                 *)

LookForFile(c, n, from, to) ==
  /\ Step(c, from, to)
  /\ Has(c, n)
  /\ UNCHANGED <<file, disks, memory, result, attempts, edits, faults, history>>

LookForFiles(c) ==
  \/ LookForFile(c, "db", "look_db", "look_report")
  \/ LookForFile(c, "report", "look_report", "look_manifest")
  \/ LookForFile(c, "manifest", "look_manifest", "read_manifest")

\* Mutant: the saved input digests are not compared.
ReadManifestUnchecked(c) ==
  /\ Step(c, "read_manifest", "check_db")
  /\ Has(c, "manifest")
  /\ saved' = [saved EXCEPT ![c] = disk[RunOf[c]]["manifest"]]
  /\ UNCHANGED <<file, disks, parsed, hashes, loaded, result, attempts, edits, faults, history>>

\* The saved input digests must be the ones this call has just taken.
ReadManifest(c) ==
  /\ Step(c, "read_manifest", "check_db")
  /\ Has(c, "manifest")
  /\ disk[RunOf[c]]["manifest"].inputs = hashes[c]
  /\ saved' = [saved EXCEPT ![c] = disk[RunOf[c]]["manifest"]]
  /\ UNCHANGED <<file, disks, parsed, hashes, loaded, result, attempts, edits, faults, history>>

\* Mutant: the database is not compared.
CheckDatabaseNot(c) ==
  /\ Step(c, "check_db", "check_report")
  /\ UNCHANGED <<file, disks, memory, result, attempts, edits, faults, history>>

CheckDatabase(c) ==
  /\ Step(c, "check_db", "check_report")
  /\ disk[RunOf[c]]["db"] = saved[c].db
  /\ UNCHANGED <<file, disks, memory, result, attempts, edits, faults, history>>

\* Mutant: the report is not compared.
CheckReportNot(c) ==
  /\ Step(c, "check_report", "load_report")
  /\ UNCHANGED <<file, disks, memory, result, attempts, edits, faults, history>>

CheckReport(c) ==
  /\ Step(c, "check_report", "load_report")
  /\ disk[RunOf[c]]["report"] = saved[c].report
  /\ UNCHANGED <<file, disks, memory, result, attempts, edits, faults, history>>

\* The report is opened once more, parsed (_validate_report), and returned.
LoadReport(c) ==
  /\ Step(c, "load_report", "idle")
  /\ disk[RunOf[c]]["report"] \in Reports
  /\ result' = [result EXCEPT ![c] = [reused |-> TRUE, inputs |-> hashes[c],
                                      report |-> disk[RunOf[c]]["report"]]]
  /\ UNCHANGED <<file, disks, memory, attempts, edits, faults, history>>

Work(c) ==
  \/ CheckSpec(c) \/ HashInputs(c) \/ LookForRun(c) \/ MakeRun(c) \/ LoseRun(c)
  \/ LoadSpec(c) \/ ReadSchema(c) \/ ApplySchema(c) \/ LoadFixture(c) \/ LoadDirectory(c)
  \/ CommitBundle(c) \/ OpenReport(c) \/ WriteReport(c)
  \/ WriteTmp(c) \/ Publish(c) \/ ReturnFresh(c)
  \/ LookForFiles(c) \/ ReadManifest(c) \/ CheckDatabase(c) \/ CheckReport(c) \/ LoadReport(c)

-------------------------------------------------------------------------------
(* Failures.                                                               *)

\* The code's own checks stop the call where the next step is not possible.
InputRejected(c) ==
  \/ pc[c] \in {"check_spec", "load_spec"} /\ file["spec"] \notin Good
  \/ pc[c] = "load_spec" /\ (Has(c, "db") \/ Has(c, "report"))
  \/ pc[c] = "load_fixture" /\ file[FileOf("fixture", loaded[c]["spec"])] \notin Good
  \/ pc[c] = "load_directory" /\ file[FileOf("directory", loaded[c]["spec"])] \notin Good
  \/ pc[c] = "apply_schema" /\ loaded[c]["schema"] \notin Good
  \/ pc[c] = "read_schema" /\ file["schema"] = Missing
  \/ \E i \in Inputs : file[FileOf(i, parsed[c])] = Missing /\ pc[c] =
       [spec |-> "hash_spec", schema |-> "hash_schema",
        fixture |-> "hash_fixture", directory |-> "hash_directory"][i]

\* Mutant: a retry waits for the manifest instead of giving up.
RunRejectedButWaits(c) ==
  \/ pc[c] = "look_db" /\ ~Has(c, "db")
  \/ pc[c] = "look_report" /\ ~Has(c, "report")
  \/ pc[c] = "read_manifest" /\ ~Has(c, "manifest")
  \/ pc[c] = "read_manifest" /\ Has(c, "manifest")
       /\ disk[RunOf[c]]["manifest"].inputs # hashes[c]
  \/ pc[c] = "check_db" /\ disk[RunOf[c]]["db"] # saved[c].db
  \/ pc[c] = "check_report" /\ disk[RunOf[c]]["report"] # saved[c].report
  \/ pc[c] = "load_report" /\ disk[RunOf[c]]["report"] \notin Reports

RunRejected(c) ==
  \/ pc[c] = "look_db" /\ ~Has(c, "db")
  \/ pc[c] = "look_report" /\ ~Has(c, "report")
  \/ pc[c] \in {"look_manifest", "read_manifest"} /\ ~Has(c, "manifest")
  \/ pc[c] = "read_manifest" /\ Has(c, "manifest")
       /\ disk[RunOf[c]]["manifest"].inputs # hashes[c]
  \/ pc[c] = "check_db" /\ disk[RunOf[c]]["db"] # saved[c].db
  \/ pc[c] = "check_report" /\ disk[RunOf[c]]["report"] # saved[c].report
  \/ pc[c] = "load_report" /\ disk[RunOf[c]]["report"] \notin Reports

\* Mutant: a failed verification removes the directory too.
RaiseAlwaysRemoves(c) ==
  /\ \/ pc[c] \in Hashing /\ pc' = [pc EXCEPT ![c] = "idle"]
     \/ pc[c] \in Computing /\ pc' = [pc EXCEPT ![c] = "unlink"]
     \/ pc[c] \in Finishing \cup Verifying /\ pc' = [pc EXCEPT ![c] = "rmtree"]
  /\ UNCHANGED <<file, disks, memory, result, attempts, edits, history>>

\* Mutant: the try block of run_workflow_once ends before the manifest is written.
RaiseKeepsUnfinished(c) ==
  /\ \/ pc[c] \in Hashing \cup Verifying \cup Finishing /\ pc' = [pc EXCEPT ![c] = "idle"]
     \/ pc[c] \in Computing /\ pc' = [pc EXCEPT ![c] = "unlink"]
  /\ UNCHANGED <<file, disks, memory, result, attempts, edits, history>>

\* An exception: run_workflow_to_sqlite removes its outputs, run_workflow_once
\* the directory it created; nothing is removed before that or while verifying.
Raise(c) ==
  /\ \/ pc[c] \in Hashing \cup Verifying /\ pc' = [pc EXCEPT ![c] = "idle"]
     \/ pc[c] \in Computing /\ pc' = [pc EXCEPT ![c] = "unlink"]
     \/ pc[c] \in Finishing /\ pc' = [pc EXCEPT ![c] = "rmtree"]
  /\ UNCHANGED <<file, disks, memory, result, attempts, edits, history>>

Reject(c) ==
  /\ InputRejected(c) \/ RunRejected(c)
  /\ Raise(c)
  /\ UNCHANGED faults

IoError(c) ==
  /\ faults < MaxFaults
  /\ faults' = faults + 1
  /\ Raise(c)

UnlinkOutputs(c) ==
  /\ Step(c, "unlink", "rmtree")
  /\ disk' = [disk EXCEPT ![RunOf[c]]["db"] = None, ![RunOf[c]]["report"] = None]
  /\ UNCHANGED <<file, made, memory, result, attempts, edits, faults, history>>

\* shutil.rmtree removes the entries in no particular order, then the directory.
RemoveEntry(c, n) ==
  /\ Step(c, "rmtree", "rmtree")
  /\ Has(c, n)
  /\ Put(c, n, None)
  /\ UNCHANGED <<file, made, memory, result, attempts, edits, faults, history>>

RemoveRun(c) ==
  /\ Step(c, "rmtree", "idle")
  /\ \A n \in Names : ~Has(c, n)
  /\ made' = made \ {RunOf[c]}
  /\ UNCHANGED <<file, disk, memory, result, attempts, edits, faults, history>>

CleanUp(c) == UnlinkOutputs(c) \/ RemoveRun(c) \/ \E n \in Names : RemoveEntry(c, n)

\* ignore_errors = True: what cannot be removed stays.
GiveUpRemoving(c) ==
  /\ Step(c, "rmtree", "idle")
  /\ faults < MaxFaults
  /\ faults' = faults + 1
  /\ abandoned' = abandoned \cup {RunOf[c]}
  /\ UNCHANGED <<file, disks, memory, result, attempts, edits, moved>>

\* The process is killed (or interrupted: only Exception is caught).
Kill(c) ==
  /\ pc[c] # "idle"
  /\ faults < MaxFaults
  /\ faults' = faults + 1
  /\ pc' = [pc EXCEPT ![c] = "idle"]
  /\ abandoned' = IF Creating(c) THEN abandoned \cup {RunOf[c]} ELSE abandoned
  /\ UNCHANGED <<file, disks, memory, result, attempts, edits, moved>>

\* Somebody edits, breaks or removes an input file.
Edit(f, v) ==
  /\ edits < MaxEdits
  /\ file[f] # v
  /\ file' = [file EXCEPT ![f] = v]
  /\ edits' = edits + 1
  /\ moved' = [c \in Callers |-> moved[c] \cup {f}]
  /\ UNCHANGED <<disks, pc, memory, result, attempts, faults, abandoned>>

-------------------------------------------------------------------------------
Next ==
  \/ \E c \in Callers : \/ Begin(c) \/ Work(c) \/ Reject(c) \/ CleanUp(c)
                        \/ IoError(c) \/ GiveUpRemoving(c) \/ Kill(c)
  \/ \E f \in Files, v \in Versions : Edit(f, v)

Spec == Init /\ [][Next]_vars

\* A process that was started and is not killed is scheduled again and again.
Fairness == \A c \in Callers : WF_vars(Work(c) \/ Reject(c) \/ CleanUp(c))

FairSpec == Spec /\ Fairness

-------------------------------------------------------------------------------
(* Types.                                                                  *)

Steps == {"idle", "return"} \cup Hashing \cup Computing \cup Finishing \cup Cleaning \cup Verifying
DatabaseFiles == Databases \cup {None, Partial}
ReportFiles == Reports \cup {None, Partial}
Manifests == [inputs : Digests, db : DatabaseFiles, report : ReportFiles]
Directories == [db : DatabaseFiles, report : ReportFiles,
                tmp : Manifests \cup {None}, manifest : Manifests \cup {None}]
Results == [reused : BOOLEAN, inputs : Digests, report : ReportFiles]
Outcomes == [inputs : Digests, report : ReportFiles]

ASSUME AbsenceAssumption == None \notin Manifests \cup Results \cup Outcomes

\* Every variable holds a value of its kind; the counters respect their bounds.
TypeOK ==
  /\ file \in [Files -> Versions]
  /\ made \in SUBSET RunIds
  /\ disk \in [RunIds -> Directories]
  /\ pc \in [Callers -> Steps]
  /\ parsed \in [Callers -> Versions \cup {None}]
  /\ hashes \in [Callers -> Digests]
  /\ loaded \in [Callers -> Digests]
  /\ saved \in [Callers -> Manifests \cup {None}]
  /\ result \in [Callers -> Results \cup {None}]
  /\ attempts \in [Callers -> 0..MaxAttempts]
  /\ edits \in 0..MaxEdits
  /\ faults \in 0..MaxFaults
  /\ abandoned \in SUBSET RunIds
  /\ moved \in [Callers -> SUBSET Files]

-------------------------------------------------------------------------------
(* What a run directory promises.                                          *)

Manifest(r) == disk[r]["manifest"]
Published(r) == Manifest(r) # None

\* A manifest appears last: whenever one is there, the database and the report
\* are there too, finished, unchanged since they were hashed, and computed from
\* the same input versions.  (workflow_runs.py writes run-manifest.json last and
\* _load_retry takes its presence for completeness.)
ManifestIsComplete ==
  \A r \in RunIds : Published(r) =>
    /\ r \in made
    /\ disk[r]["db"] = Manifest(r).db
    /\ disk[r]["report"] = Manifest(r).report
    /\ Manifest(r).db \in Databases
    /\ Manifest(r).report = ReportOf(Manifest(r).db.used)

\* Whoever is told that the run succeeded, now or by a retry, is told the same:
\* one report, for the input digests this caller took itself; and only one of
\* them computed it.
SuccessesAgree ==
  \A c, d \in Callers :
    (result[c] # None /\ result[d] # None /\ RunOf[c] = RunOf[d]) =>
      /\ result[c].report = result[d].report
      /\ result[c].inputs = result[d].inputs
      /\ (~result[c].reused /\ ~result[d].reused) => c = d

\* A published run is never touched again: no caller, failing or cleaning up or
\* late for the race, changes or removes any file of it.
PublishedRunIsKept ==
  [][\A r \in RunIds : Published(r) => disk'[r] = disk[r] /\ r \in made']_vars

\* Without a kill or an obstinate file there is no debris: an unfinished run
\* directory always has exactly one caller that is still creating it or removing it.
DebrisIsExplained ==
  \A r \in made : \/ Published(r)
                  \/ r \in abandoned
                  \/ \E c \in Callers :
                       /\ RunOf[c] = r /\ Creating(c)
                       /\ \A d \in Callers \ {c} : RunOf[d] = r => ~Creating(d)

\* Input i is settled for caller c: nobody edited the file its workflow read it from,
\* and that is the file that was hashed unless the specification was edited to name
\* another one.  (An edit of the specification alone can make the workflow use a
\* fixture that nobody hashed.)
HashedFile(c, i) == FileOf(i, parsed[c])
UsedFile(c, i) == FileOf(i, loaded[c]["spec"])
Settled(c, i) ==
  /\ UsedFile(c, i) \notin moved[c]
  /\ "spec" \in moved[c] => HashedFile(c, i) = UsedFile(c, i)

\* The digests about to be published are those of the versions the workflow
\* used, for every input that is settled: the two readings of the specification,
\* of the files it names and of the schema are of the
\* same bytes unless somebody edited them.
DigestsBindUnmovedInputs ==
  \A c \in Callers : pc[c] = "publish" =>
    \A i \in Inputs : Settled(c, i) =>
      /\ HashedFile(c, i) = UsedFile(c, i)
      /\ hashes[c][i] = loaded[c][i]
      /\ disk[RunOf[c]]["tmp"].db.used[i] = disk[RunOf[c]]["tmp"].inputs[i]

\* docs/architecture.md: the manifest binds the run to hashes of the inputs.  The
\* code hashes the inputs and then reads them again, so an edit in between makes
\* it bind digests of files the database was not computed from; an edit of the
\* specification is enough, when it names another fixture.
ManifestBindsUsedInputs ==
  \A r \in RunIds : Published(r) => Manifest(r).inputs = Manifest(r).db.used

\* The digests a call would take of the files as they are.
CurrentInputs == [i \in Inputs |-> file[FileOf(i, file["spec"])]]

\* Every call that is made ends: it returns, raises, or its process is killed.
EveryCallEnds == \A c \in Callers : (pc[c] # "idle") ~> (pc[c] = "idle")

\* Once a run is published, a call whose inputs still have the published digests
\* returns the saved report, unless an input is edited or something fails meanwhile.
PublishedRunIsReusable ==
  \A c \in Callers, n \in 0..(MaxEdits + MaxFaults) :
    (/\ pc[c] = "check_spec" /\ edits + faults = n
     /\ Published(RunOf[c]) /\ Manifest(RunOf[c]).inputs = CurrentInputs)
      ~> (result[c] # None \/ edits + faults > n)

-------------------------------------------------------------------------------
(* Why these hold: what every caller may rely on at each step.             *)

\* Whoever creates or cleans up a run directory does so alone, before publication.
CreatorsAreAlone ==
  \A c \in Callers : Creating(c) =>
    /\ RunOf[c] \in made
    /\ ~Published(RunOf[c])
    /\ \A d \in Callers \ {c} : RunOf[d] = RunOf[c] => ~Creating(d)

\* What the creator has put on the disk so far, until its call returns.
ManifestOf(c) == [inputs |-> hashes[c], db |-> DatabaseOf(loaded[c]), report |-> ReportOf(loaded[c])]

FilesFollowCreator ==
  \A c \in Callers :
    LET dir == disk[RunOf[c]] IN
    /\ pc[c] \in {"open_report", "write_report"} \cup Finishing => dir["db"] = DatabaseOf(loaded[c])
    /\ pc[c] \in Finishing => dir["report"] = ReportOf(loaded[c])
    /\ pc[c] = "publish" => dir["tmp"] = ManifestOf(c)
    /\ pc[c] = "return" => dir["manifest"] = ManifestOf(c)

\* Who has read the manifest to verify it holds the one that is there.
VerifiersHoldManifest ==
  \A c \in Callers : pc[c] \in {"check_db", "check_report", "load_report"} =>
    /\ Published(RunOf[c])
    /\ saved[c] = Manifest(RunOf[c])
    /\ saved[c].inputs = hashes[c]

\* A result repeats the manifest, and only one caller of a run is its creator.
HasCreated(c) == pc[c] = "return" \/ (result[c] # None /\ ~result[c].reused)

ResultsRepeatManifest ==
  /\ \A c \in Callers : result[c] # None =>
       /\ pc[c] = "idle"
       /\ Published(RunOf[c])
       /\ result[c].inputs = Manifest(RunOf[c]).inputs
       /\ result[c].report = Manifest(RunOf[c]).report
  /\ \A c, d \in Callers :
       (HasCreated(c) /\ HasCreated(d) /\ RunOf[c] = RunOf[d]) => c = d

RunInvariant ==
  /\ CreatorsAreAlone
  /\ FilesFollowCreator
  /\ VerifiersHoldManifest
  /\ ResultsRepeatManifest
  /\ ManifestIsComplete

\* The steps at which a caller has hashed, and at which its workflow has read, an input.
Hashed == [spec |-> {"hash_schema", "hash_fixture", "hash_directory"},
           schema |-> {"hash_fixture", "hash_directory"},
           fixture |-> {"hash_directory"},
           directory |-> {}]
Read == [spec |-> Computing \ {"load_spec"},
         schema |-> Computing \ {"load_spec", "read_schema"},
         fixture |-> Computing \ {"load_spec", "read_schema", "apply_schema", "load_fixture"},
         directory |-> {"commit", "open_report", "write_report"}]

\* What a caller has read of an input, each time, is still in the file it read it
\* from unless that one was edited; and it has parsed the same specification twice
\* unless that one was.
ReadsFollowInputs ==
  \A c \in Callers :
    /\ pc[c] \in Hashed["spec"] \cup {"hash_spec", "exists", "mkdir"} \cup Computing \cup Finishing
         /\ "spec" \notin moved[c] => parsed[c] = file["spec"]
    /\ \A i \in Inputs :
         /\ pc[c] \in Hashed[i] \cup {"exists", "mkdir"} \cup Computing \cup Finishing
              /\ HashedFile(c, i) \notin moved[c] => hashes[c][i] = file[HashedFile(c, i)]
         /\ pc[c] \in Read[i] \cup Finishing
              /\ UsedFile(c, i) \notin moved[c] => loaded[c][i] = file[UsedFile(c, i)]

-------------------------------------------------------------------------------
(* The abstract specification: a run identifier has one outcome.           *)

Outcome(m) == [inputs |-> m.inputs, report |-> m.report]

Abstract == INSTANCE WriteOnce WITH
  Keys <- RunIds,
  Clients <- Callers,
  KeyOf <- RunOf,
  Values <- Outcomes,
  outcome <- [r \in RunIds |-> IF Published(r) THEN Outcome(Manifest(r)) ELSE None],
  answer <- [c \in Callers |-> IF result[c] # None THEN Outcome(result[c]) ELSE None]

ImplementsWriteOnce == Abstract!Spec
===============================================================================
