# Formal models of the asset evidence tools

This directory holds TLA+ models of the program: what its processes do to the file system
and to the SQLite evidence database, which promises hold however they interleave, fail or
are killed, and proofs that the promises do not depend on the small instances TLC explores.

- `tlc -config X.cfg M` checks module `M`; the table under *Runs* lists the pairs.
- `tlapm M.tla` checks the proofs of a `...Proofs` module.
- `PROJECT.json` maps every definition to the source lines it models, every property to the
  change of the code that would break it, and lists the findings and the hazards.

## 1. Inventory

The program is a set of command-line tools and one Airflow DAG. No server and no thread is
part of it; concurrency comes from several processes (scheduler retries, a second terminal)
that meet in a directory or in one SQLite file. State lives in files only.

### Evidence workflow and runs (`src/engine`)

| Component | State | Operations | Hard behaviour | What makes it correct |
|---|---|---|---|---|
| Workflow runs: `workflow_runs.py`, `workflow_cli.py`, `airflow/dags/asset_discovery_dag.py` | one directory per run ID: database, report, `run-manifest.json` | `run_workflow_once`: hash the inputs; create the directory and fill it, or verify and reuse it | two calls of one run; a retry after a kill; inputs edited under way; clean-up entry by entry while others verify | one creator per directory; a manifest means complete outputs; all successes agree; published runs are never touched |
| Evidence workflow: `evidence_workflow.py` | the database and the report of one workflow | `run_workflow_to_sqlite` | the existence checks, the writes and the clean-up all go by name | nothing incomplete is left; evidence of an earlier run stays |
| Policies: `risk.py`, `remediation.py`, `ownership.py`, `work_queue.py` and CLIs | none | score, prioritise, own, queue | clamps and cuts composed; equally specific rules | worse never means less urgent; every finding is in the one queue its rules decide |
| Correlation: `correlation/asset_graph.py`, `models.py`, `discovery/fixture_discovery.py` | none (union-find inside one call) | group claims that share an identifier | long chains of merges, order of the input | the groups are the connected components, whatever the order |

### Evidence database (`src/database`)

| Component | State | Operations | Hard behaviour | What makes it correct |
|---|---|---|---|---|
| Repository and schema: `repository.py`, `schema.sql`, `schema_check.py` | five tables: assets, observations, findings, decisions, plans | `store_inventory`, `store_bundle`, `store_assessments` | several connections; an INSERT that fails after others succeeded; a SELECT before the implicit BEGIN | each call is atomic; the lineage asset - claims - finding - decision - plan is linked; nothing is removed |
| Reader and diff: `evidence_reader.py`, `evidence_diff.py` and CLIs | none | one snapshot of an asset, by one SELECT per table; compare two snapshots | commits between two SELECTs | the snapshot is committed data and follows the lineage |
| Inventory: `inventory_*.py`, `assessment_model.py`, `inventory_queue_cli.py`, `discovery_queue_cli.py` | export, receipt, review files; a private SQLite file | collect, export, assess, verify, compare, review | several artifacts vouch for one another and could be altered together | what is verified is what could have been retained; a review names one batch |
| EC2 discovery and assessment: `ec2_inventory*.py`, `ec2_assessment*.py`, `discovery/aws_discovery.py` | a batch and its receipt, in SQLite files of their own | store, read, assess, compare | the whole result is reproduced by every reader | the same; instances stay apart |
| EC2 review history, enrollment, approval: `ec2_review_history.py`, `ec2_history_*.py` | a hash-chained SQLite history; the revisions of a selection; approvals | retain a review, advance the selection, approve a revision | long sequences of legal calls by several people; histories that fork; at most 32 reviews; windows within windows | each revision extends the one before; an approval names one history, during one window |
| EC2 timeline and checkpoint: `ec2_observation_timeline.py`, `ec2_timeline_checkpoint.py`, `ec2_sequence_archive.py` | a checkpoint document, an archive | fold a sequence of batches; match it with a checkpoint | assets that leave and come back; substituted batches | steps agree with comparisons; satisfied means exactly the expected batches |
| Archives: `ec2_history_archive.py`, `ec2_sequence_archive.py` | an archive directory or file | create, verify, `restore_archive` | several files in one directory, removal after an exception | a restore is complete or absent |
| Assessment backup and archive: `assessment_backup.py`, `assessment_archive.py` | a copy of a closed database | capture, publish, compare | a writer while the file is copied | the copy is one state of the database |
| Snapshot authentication: `evidence_auth.py`, `evidence_auth_cli.py`, `evidence_keyring.py` | keys with states and windows; authentication manifests | create and verify a manifest | the ends of a window, retired keys | only a key allowed at that moment creates or verifies; a manifest fits one snapshot |
| Exclusive publication: `_publish` and the functions that repeat it | a staging name and the published name | stage, write, fsync, link, unstage, (fsync the directory) | collisions, kills, power loss | complete files only, never replaced, acknowledged ones kept |
| osquery collection: `osquery_collector.py` | one output file | run, normalise, publish | as exclusive publication | as exclusive publication |
| Demonstrations, lab, deployment: `demo_inventory.py`, `lab/`, `docker-compose.yml` | none of their own | call the components in a fixed order | - | - |

### How the components meet

`asset_discovery_dag.py` and `workflow_cli.py` call `run_workflow_once`, which calls
`run_workflow_to_sqlite`, which applies `schema.sql` and calls
`EvidenceRepository.store_bundle`. The reader, the diff, the authentication and the inventory
commands read the database afterwards, over connections of their own. Every command that
produces a file does so by exclusive publication; strict readers
(`os.lstat`, `st_nlink != 1`) refuse a file whose staging name is still there. The EC2
history commands call each other's verifiers and publish by the same protocol.

## 2. The modules

| Module | Models |
|---|---|
| `WriteOnce` | abstract: a key gets one outcome, in one step, and whoever is told is told that outcome |
| `WorkflowRuns` | `run_workflow_once` with all its callers; implements `WriteOnce` |
| `WorkflowRunsAltered` | `WorkflowRuns` composed with somebody who writes other content, and other digests, into a published run |
| `ExclusivePublish` | the publication protocol, with the file system's volatile and durable state; implements `WriteOnce` |
| `RestoreArchive` | `restore_archive` of both archives, with each link of `ExclusivePublish` as a step |
| `WorkflowOutputs` | `run_workflow_to_sqlite` called directly, several times on the same names |
| `EvidenceLedger` | abstract: a repository call appends all its rows at once, or none, and rows stay |
| `EvidenceStore` | repository, schema and reader over SQLite transactions; implements `EvidenceLedger` |
| `ReviewHistory` | `retain_history`, the enrollment and the approval of a history, by anybody, from any artifact ever published |
| `ClosedCapture` | the copy of a closed database (`_closed_bytes`, backup, restore) beside a SQLite writer |
| `ObservationTimeline` | comparing batches, timelines, checkpoints, the sequence archive |
| `RetainedAssessments` | import, receipt, assessment, verification, comparison and review of a batch |
| `SnapshotEvidence` | the diff of two snapshots, the manifest of one under a keyring |
| `Correlation` | identity keys, union-find, and the observations made of an EC2 export |
| `Policies` | score, priority, due date, ownership, queues and the commands that compose them |
| `Documents` | the pure algorithms as one system: which inputs the reading code lets through to them, and what the algorithms promise of each |
| `WorkflowRunsProofs`, `ExclusivePublishProofs`, `RestoreArchiveProofs`, `WorkflowOutputsProofs`, `EvidenceStoreProofs`, `ReviewHistoryProofs`, `ClosedCaptureProofs`, `DocumentProofs` | the theorems |
| `MC...` | values of the constants for TLC; `MCDocuments` also chooses the inputs of `Documents` |

`ExclusivePublish` and `WorkflowRuns` implement the same abstract `WriteOnce`. The modules
above it build on that promise: in `ReviewHistory` an artifact is published in one step and
never changes, because publishing it is exclusive publication.

### State and steps, and the code they stand for

**WorkflowRuns.** `pc[c]` is the position of caller `c` in `run_workflow_once` (a step is one
access to the file system), `parsed[c]` the specification `_input_hashes` parsed, `hashes[c]` the
dictionary it returned, `loaded[c]` what `run_workflow_to_sqlite` read when it opened the inputs
again, `saved[c]` the manifest `_load_retry` parsed, `disk[r]` the run's directory with its
database, report, manifest and the manifest's temporary name. The asset fixture and the ownership
directory are not fixed files: `Named` says which files a version of the specification names, and
`FileOf` follows it, once from the version parsed for the digests and once from the version the
workflow loads, so an edited specification leads to another file. Contents are abstract: a digest
is the version it was taken of, a database is the four input versions it was computed from, a
report the three it depends on. `Good`, `Bad` and `Missing` are the classes of input content
the code tells apart. `Kill` is a killed process and an interrupt (the code catches
`Exception`, not `BaseException`), `IoError` any operation that raises, `GiveUpRemoving` an
entry that `shutil.rmtree(ignore_errors=True)` leaves behind, `Edit` an editor.

**WorkflowRunsAltered.** `Alter` replaces a file of a published run by anything in
`Replacements`: nothing, an incomplete file, or a well-formed one of other inputs; a field of the
manifest becomes unreadable or another digest, which may be the right one of an altered or edited
file. Nothing in the code vouches for the manifest, so a manifest rewritten to match is accepted, in
the model as in `_load_retry`; what must not pass is a change of one side only. `issued` remembers
what was published, `stood` the altered directory a call found and had to itself, `swapped` that the
report was exchanged between its digest (line 166) and the second reading (line 169).

**ExclusivePublish.** `staged` holds the staging names and `remains` those of them the disk has,
`body` and `stored` what of a file has been written and what of it has reached the disk, `entry`
and `durable` the directory entry in memory and on disk. `WriteBackBody`, `WriteBackStaging` and
`WriteBackEntry` are the system's own write-back, which may come at any time; `PowerLoss` resets
the volatile to the durable part. `SyncsDir` are the publishers that also fsync the directory
(`_write_new_json` of `evidence_auth_cli.py`); the others do not. The fsync comes before the
unlink, so it makes the staging names of the directory durable (`Beside`), and nothing makes their
removal durable: an outage may bring one back.

**RestoreArchive.** Files are numbered in the order they are published, `RESTORE.json` last.
`Raise` is any exception or interrupt after `mkdir` (the code catches `BaseException`),
`RemoveEntry` one step of `shutil.rmtree`, in no particular order, `Stop` a kill or a removal
that itself raises. `staging` matters because an interrupted `finally` may leave a second
link behind.

**WorkflowOutputs.** A file is identified by the call that created it, so that a name can
come to denote the file of another call. `Check` is the pair of `exists()` tests, `Unlink`
and `UnlinkReport` the clean-up by name.

**EvidenceStore.** `db` holds the committed rows of the five tables, `work` what the
transaction under way sees, `lock` whose transaction it is. A writer makes one call and does
one statement per step; the first INSERT takes the write lock and begins the transaction (the
default of Python's `sqlite3`), a SELECT does not. `Allowed` operators are the primary keys,
unique constraints, references and the CHECK of `schema.sql`; timestamps count half seconds
and `TextLeq` compares them as the schema does, as text. Whatever fails rolls back. A reader
does one SELECT per table (`_read_asset`) and then applies its checks.

**ReviewHistory.** The state is what has been published: `histories` (the receipts of one
SQLite file and its `form`, for two files with the same rows may differ in bytes),
`enrollments` and `approvals`, and the `model` deployed now, the digest `current_model()`
takes of the sources. An action is one call of `retain_history`, `enroll_history`,
`advance_enrollment` or `approve_history`, with every verification it makes and with whatever
artifacts the caller holds, however old; verification is an operator, since it changes nothing.
A call is one step although it takes time: the files it reads do not change, and a
deployment in the middle is one after the step. `Deploy` goes forwards and back. `HeadOf` is
the chain of digests: a node binds its number, the node before it and its receipt. A
signature is the public key that verifies it.

**ClosedCapture.** The pages of the database, its `-journal`, and a copier that looks for
the sidecar file, opens, reads page by page in any order, compares size and times (`Restat`), looks
again (`LookAgain`), compares a pin and replays. The replay (`verify_assessment`, `verify_history`)
compares the rows it knows and not the bytes, so which captured bytes it accepts is the constant
`Replayed`, and they may well mix transactions: the looks around the copy have to prevent it. A writer
may begin, write, commit, roll back or die
at any moment (a writer that takes no more steps is dead; the next to open recovers by
`RollBackPage`). A write may leave the times as they were, within a tick of the clock: then it is
`hidden`. A transaction under way at the second fstat may end before the second look: `ended`.

**Documents.** The other modules are operators, for the code is functions of documents:
`ObservationTimeline` (`BuildTimeline`, `CompareInventories`, `AssessSequence`, `LoadArchive`),
`RetainedAssessments` (`StoreExport`, `RetainAssessment`, `VerifyAssessment`, `ReviewRecord`,
...), `SnapshotEvidence` (`CompareSnapshots`, `CreateManifest`, `VerifyManifest`),
`Correlation` (`Halve`, `Find`, `Union`, `Correlate`, `ConvertExport`) and `Policies` (from
`ScoreFinding` to `PlanDiscovery`). An exception is the value `Rejected`. Texts that differ
only by what `strip` removes are pairs `<<value, padding>>`, since ID collisions after
stripping are one of the error paths, and a field of a snapshot's asset is a pair
`<<value, text>>`, since Python's `!=` compares its value and the digest covers its text. `RetainedAssessments` leaves urgency to `Policies`.
`Documents` puts them together: a step reads one input, and `InputOK` says what inputs there
are (lists are lists, dates and times are whole numbers, severities are those of the tables, a
database has the tables of a retained assessment), which is what the code that reads the
documents has checked by the time it calls an algorithm. A loop of the code is a function on
`0..n`, the state after each round, defined from the round before: the batches of a timeline
(`Step`), the rounds of a `find` (`Halve`), the observations that are linked (`LinkKeys`) and those whose
root is looked up. A `find` that has reached the root stays there, and since a round goes
down the indices, as many rounds as there are observations are enough. The order of a queue is
the one in which priority, due date and identifier grow (`SortedItems`); an identifier is a
number there, for of the order of texts only matters that it is one.

## 3. Runs

| Run | Configuration | What it shows |
|---|---|---|
| `workflow_runs_safety` | `MCWorkflowRuns_safety` | all safety properties of runs; `WorkflowRuns` implements `WriteOnce` |
| `workflow_runs_liveness` | `MCWorkflowRuns_live` | every call ends; a published run is returned to a retry |
| `workflow_runs_altered` | `MCWorkflowRunsAltered` | a change of one side of an altered run (files, inputs or manifest) is refused; what is returned was compared |
| `workflow_runs_inputs` | `MCWorkflowRuns_inputs` | finding: the manifest can name input versions that were not used |
| `exclusive_publish` | `MCExclusivePublish` | complete files only, never replaced, acknowledged ones kept, staging names left by kills, failed removals and outages only; implements `WriteOnce` |
| `restore` | `MCRestoreArchive` | a restore is complete or absent, its completion record comes last; bystanders are untouched |
| `workflow_outputs` | `MCWorkflowOutputs` | incomplete outputs have a running or killed owner; runs that never overlap keep their evidence |
| `evidence_store` | `MCEvidenceStore` | calls are atomic, the lineage is linked, snapshots follow it; implements `EvidenceLedger` |
| `evidence_snapshot` | `MCEvidenceStore_snapshot` | finding: a snapshot can have a bundle's finding without its observations |
| `review_history` | `MCReviewHistory` | histories stay valid however they fork; selections follow one lineage; an approval stands for one history, exactly during its window |
| `closed_capture` | `MCClosedCapture` | a copy that is published is one state of the database, but for two windows a writer can use |
| `documents` | `MCDocuments` | the pure algorithms, each against a definition that does not follow its steps |

The type invariants and the inductive invariants are not invariants of these runs: they are
theorems, checked with TLC before they were proved.

### Bounds, and why they are enough

- `MaxAttempts = 2` (`WorkflowRuns`): the DAG sets `retries = 1`, a first call and a retry.
  Two callers give a winner and a loser of the race for `mkdir`; the code has no step
  that involves more than one other process, and the safety properties are proved for any
  number of callers and attempts. `MaxFaults = 2` lets a kill and a failing clean-up fall in
  one behaviour; `MaxEdits = 1` is what the finding needs. The second version of the specification
  names another fixture than the first, with other assets in it.
- `MaxAlterations = 2`, an edit of the assets or a fault (`WorkflowRunsAltered`): a file and its
  digest can be changed together, in either order, or the digest of an input and the input. What is
  written into a run are parts, and the database, the report and the digests of the edited assets
  (`Foreign`). `OneMishap` bounds edits and faults together. Proved for any number.
- `MaxFaults = 3`, three publishers and one name (`ExclusivePublish`): one is published,
  one collides, one comes after a power loss; two of them sync the directory and one does not, so that
  a sync of one can make the staging name of another durable. Proved for
  any number.
- Three restorers, one pair on a new directory and one on an existing one, three data files
  (`RestoreArchive`): an exception may fall before, between and after data files;
  three faults allow an exception, a stopped removal and a kill. Proved for any number.
- Three calls and one kill (`WorkflowOutputs`): two that overlap and one that comes later.
  `EarlierRunIsKept` is proved for any number.
- Three writers with any of five calls, one reader (`EvidenceStore`): the five calls are an
  inventory of two assets, its assessment in the other order, a bundle with a new claim, a
  bundle with a claim and a plan ID others use, and one meant as a second plan version.
  Each constraint of the schema accepts and refuses some of them, also after
  others committed, and three commits fall into one snapshot.
- Five receipts of two exports under two models, `MAX_REVIEWS = 2`, three histories, two
  selections, one approval, two policies that share a key in different states, times 0 to 3
  (`ReviewHistory`): two receipts assign a finding to different assets so that histories must
  fork, three chain so that the bound on reviews is met, two forms make two files with one
  head, and every end of each window is an instant. Proved for any number.
- Three pages and three transactions, a backup or either of two pins (`ClosedCapture`): a copy
  can mix pages of a commit, of a rollback and of a journal left behind. The replay compares two of
  the pages, the third is free or another table's, so it accepts mixtures. Proved for any number,
  and for any replay.
- One input per step (`MCDocuments`), every one of its kind up to a size and each of them one
  that `InputOK` allows: sequences of up to
  four batches of two assets, one over `MAX_BATCHES`; up to three slots, with equal times
  and exchanged exports; five observations over two names and one identifier, enough for
  chains that need path halving; all combinations of risk factors on days within and past the
  service levels; two records with up to three rules; snapshots of two items, with a field that is
  absent, `null`, 1, `true` or 2; a
  keyring entry at each instant around its window; databases of two or three payloads
  spliced in every way with one that was retained otherwise. There is no other behaviour: the state
  is the input, so these are checks of functions.
- Symmetry is used only in runs without liveness properties, over callers that the
  constants treat alike.
- `CHECK_DEADLOCK FALSE` everywhere: the processes make a bounded number of calls and stop.

### Fairness

Only `workflow_runs_liveness` needs it. `FairSpec` asks for weak fairness of each caller's
next step, its own work, its exceptions and its clean-up: a process that runs and is not killed is
scheduled again and again, and no step of the code waits for another process (a loser of the
race verifies once and raises). No fairness is assumed of `Begin`, `Kill`, `IoError`,
`GiveUpRemoving` or `Edit`.

## 4. Findings

Two disagreements of the code with a document are shown by runs and described in
`PROJECT.json` with the lines on both sides.

1. `workflow_runs.py` hashes the inputs and lets `run_workflow_to_sqlite` open them again: an
   edit in between makes the manifest name a version nobody used (`ManifestBindsUsedInputs`). An edit of
   the specification is enough, if it names another fixture: then the digest is of a file nobody read.
   For inputs whose file nobody edits during the call, under a specification that names the same
   file both times, the digests are right (`DigestsBindUnmovedInputs`).
2. `EvidenceReader` selects from five tables without a transaction: a bundle committed
   in between is in the snapshot without its observations (`SnapshotIsWhole`). Since the tables are
   read in the order they are filled, the reverse cannot happen
   (`SnapshotFollowsLineage`).
Five more are written down in the modules as formulas that do not hold, beside those that
do; TLC finds the counterexample when one is added to the configuration.

- `CompletionMeansComplete` (`RestoreArchive`): `restore_archive` removes a partly restored
  directory in no particular order, so a removal that stops can leave `RESTORE.json` without
  the files. Before a removal has begun its presence means completeness.
- `FinishedRunIsKept` (`WorkflowOutputs`): of two direct calls of `run_workflow_to_sqlite` that
  overlap, the failing one unlinks the finished database of the other. `run_workflow_once` gives
  each run a directory of its own and is not affected.
- `AssessmentsMatch` (`EvidenceStore`): `store_assessments` compares the first item before
  `sqlite3` begins the transaction; the later items are compared inside it (`LaterItemsMatch`).
- `NewVersionIsAccepted` (`EvidenceStore`): "Corrections require a new evidence identifier or plan
  version" (`docs/architecture.md`), and the schema has room for a second version of a finding's plan,
  but `_store_decisions` inserts the finding again, which its primary key refuses. `EvidenceIsLinked`
  therefore says nothing of how many plans a finding has.
- `AssetFieldChangesAreListed` (`Documents`): "Asset field changes are listed separately"
  (`docs/architecture.md`), but `compare_snapshots` compares the fields of the asset with Python's
  `!=`, under which 1, 1.0 and true are equal: two snapshots with different digests, whose field went from 1 to
  true, are "unchanged". Items of the sections are compared as texts (`UnchangedMeansSameEvidence`).

Observations that contradict no document: `updated_at` can precede
`created_at` by less than a second, because a fraction sorts before `Z`; `read_receipt` with an
export compares assets and payloads as separate lists, so that two payloads which changed
places between assets pass it, and only `verify_assessment` notices; a bad record leaves the output of
`remediation_cli` with the plans before it; the manifest of a run is not signed, so an altered file
whose new digest was written into it is accepted; a report exchanged between its digest and its second
reading is returned (`swapped`); after a power loss a published file may have its staging name
again as a second link, and every reader that asks for a single link refuses it until that is
removed; `_closed_bytes` looks but does not lock (`docs/assessment-backup.md` says so) and compares
the times before it looks for sidecars again, so a transaction that was under way at the second fstat
and has ended by the second look, or a write within a clock tick, can get a mixture of transactions past the looks,
and past the replay if the rows are not touched.

## 5. Proofs

All theorems hold for every value of the constants, under the `ASSUME`s of the modules:
`None` and the other markers are not values, the functions have their types, the bounds are
naturals. TLC evaluates each assumption in the runs. Four theorems of `DocumentProofs` have a
hypothesis besides, `Distinct`: the marker of a refusal or of an absent document is not itself
a document. It quantifies over all documents, so TLC cannot evaluate it; in the code it is the
difference between an exception or Python's `None` and a dictionary. Every safety property, action
property and refinement the passing runs check is a theorem; only liveness is left to TLC.

**`WorkflowRunsProofs`.** `TypeCorrect` first. The safety properties are not inductive alone:
that a manifest describes complete outputs depends on the creator being the only writer and
on the files being the ones it just made. `RunInvariant` is the strengthening:
`CreatorsAreAlone` (between `mkdir` and the end of its call, one creator per directory,
not yet published), `FilesFollowCreator` (the directory holds exactly what the creator's
progress says), `VerifiersHoldManifest` (a verifying caller holds the published manifest),
`ResultsRepeatManifest` and `ManifestIsComplete`. Each action has one step per
conjunct it can disturb. From it follow `ManifestsAreComplete`, `AllSuccessesAgree`,
`PublishedRunsAreKept` (an action property) and `RunsAreWrittenOnce`: initial states map to
initial states, and each step to `Write`, `Tell` or a stutter of `WriteOnce`.

`DebrisIsExplained` needs no strengthening beyond `RunInvariant`: an unfinished directory has its
creator, or one that was killed or could not remove it, and the step that ends a call is one
of these or takes the directory away. For the digests, `ReadsFollowInputs` says that as long as
nobody edits a file during a call, what the call hashed of it, what it loaded and what is in it
are one version, and that the specification parsed for the digests is the one loaded unless it was
edited; `DigestsBindUnmovedInputs` follows, for each input that is `Settled`.

For the composition with somebody who alters files there is a second invariant,
`AlteredInvariant`, since `RunInvariant` is about directories nobody alters. It says that what was issued
described itself and stands until it is altered (`IssuesStand`), that an altered run has no creator and,
being occupied, never gets one (`CreatorsStand`), that who holds a manifest has compared its inputs
(`VerifiersStand`), and that what a call on an altered run has compared so far is still there, as long
as nobody alters it again (`DoubtersStand`). Since the issued manifest agreed with its files, the same
comparison passes afterwards only if both sides of it changed or neither did: this is
`OneSidedChangeIsRefused`. `ReturnedReportWasCompared` follows too, and so does the action property
`AlteredRunIsLeftAlone`: no call touches an altered run (no run of its own checks that, it
is `PublishedRunIsKept` for altered runs). Nothing is assumed of what is written into the files.

**`RestoreArchiveProofs`.** The invariant `RestoreInvariant` says who is alone in a directory,
that exactly the files before position `at` are present (`PrefixIsPresent`), that restored
directories have no creator and that absent ones are empty. It gives
`RestoresAreComplete`, `BystandersAreKept` and `FailuresAreRemoved`.

**`WorkflowOutputsProofs`.** `OutputsInvariant` describes what the names denote as long as a call has
not overlapped; its core is that the only running call is the owner of both names.
`EarlierRunsAreKept` follows. `IncompleteIsExplained` is about calls that do overlap and take files
from one another, so it has an invariant of its own, `ExplainedInvariant`: a call creates neither
output before its step for it and no report before its evidence is committed, and
only its last step ends it (`OutputsFollowCall`).

**`ExclusivePublishProofs`.** `PublishInvariant`: a body is linked only when all of it is on the
disk (`BodiesFollow`, which is where the fsync before the link matters), a name shows a body
that was linked to it, and a name on the disk is the one memory shows (`NamesAreLinked`), so
a power loss never turns a name back into another; `OwnNames` says what a process knows
between link and return; `StagingIsOwn` that a staging name, in memory or on the disk, belongs to a
call that has begun and, in memory, is gone when the call is over unless it was killed, failed to unlink or
was struck by an outage. The four properties and the refinement of `WriteOnce` follow.

**`ReviewHistoryProofs`.** Two arguments meet. About data: the head of a chain determines all
its receipts (`HeadsAreInjective`), and receipts whose neighbours are in order are in order.
Both are inductions on positions. They are not made with the library's induction theorem
but with `LeastElement`, proved from the well-foundedness of finite sets under inclusion: if
the claim failed anywhere it would fail at a least position. About steps: `ReviewInvariant`
says that what is published was validated when it was (`ArtifactsAreChecked`,
`ApprovalsAreGrounded`), which publications, forks and deployments keep. So a selection's head
and count fix a prefix (`OneLineage`), two histories accepted for one approval have one
head and hence the same receipts (`OneHistoryIsApproved`), and everything `verify_approval` asks
except the clock already held when the approval was signed (`WindowIsExact`).

**`ClosedCaptureProofs`.** `CaptureInvariant`: the journal goes back to what is committed
(`WriterIsCoherent`), the pages read are those of the file while no write is seen in the times or
hidden by the clock, and once the copier has looked again, what it read was at rest at the second fstat
unless a transaction ended in between (`ReadsAreSeen`). No part of it speaks of the replay, and
`CopiesAreOneState` follows for every `Replayed`.

**`EvidenceStoreProofs`.** The invariant `StoreInvariant` ties the transaction to the call:
`LockedWhenWriting` (a writer without the lock is at its first statements, with nothing
written) and `WorkIsCallSoFar` (the working copy is the database plus `SoFar`, the
rows the call has added up to the present statement, none of which the database had). It is
needed because atomicity is a statement about the commit alone: that the commit appends *all*
rows of the call, and only new ones, has to be carried through every INSERT, every refused
one and the statements of the other writers. `StoreIsLedger` (the refinement of
`EvidenceLedger`), `SnapshotsAreGrounded` and `AllAssetsAreKept` follow. `CallsAssumption`
asks for calls of at least one item: `store_inventory` refuses an empty batch, and an empty
tuple of assessments writes nothing.

The lineage is a second invariant, `LineageInvariant`, proved from the first. Inside a transaction
the rows are not linked: a finding is there before its decision, an asset before its
claims. So `LinkedWithin` states the links of the working copy with exactly the exceptions the present
statement allows, and the last statement of an item closes them; a commit happens only after
the last. `ComparedWithin` keeps what the later items were compared with, and `ReadersFollow` what a reader
has fetched: it reads the tables in the order in which they are filled, so whatever it
finds in one has its counterpart in those it has yet to read. That every item has at least one
claim (`ClaimsAssumption`) is checked by the repository before it writes.
`EvidenceIsLinked`, `SnapshotFollowsLineage` and `LaterItemsMatch` follow.

**`DocumentProofs`.** The state is an input, so invariance is short: whatever is read satisfies
`InputOK`, and each property has a lemma that proves it for one such input. The lemmas are the
content. Urgency: scores are sums of points that grow with each factor, bands are cuts of a
score, and clamping a larger number never gives a smaller one, through two clamps and the
earlier of two dates. Review dates: two plans of one record differ exactly when the due date lies
between the days. Snapshots: unchanged sections have the same items in any order, which
with distinct stripped names makes the sets of items equal, and fields that compare as equal have
equal values. Manifests: a keyring of one
entry authorises at an instant exactly by the state and the window. Checkpoints: the times of a
timeline grow strictly, and two growing lists over the same times are the same list
(`SameTimes`, by the least place where they differ), so a satisfied checkpoint has all the
batches and no other, and an archive with a batch removed or exchanged does not load.
Assessments: a verifier rebuilds the record from the fields it takes as given; the rebuilt
record equals the presented one exactly when these were retained together, and the rows of a
batch determine its payloads (`RowsOf`).

Three results are about loops. The library's induction takes an operator as a parameter, which the
provers cannot instantiate, so each of these proofs goes over a set instead: the rounds in which the
claim fails are a set of naturals and, unless empty, have a least one (`LeastElement`), which is not the
first round and not after one at which the claim holds; for folds over sets, a set that is minimal
under inclusion plays that part. That the loop has a state after each round at all (`LoopExists`,
`WalkExists`, `LinkLoopExists`, `FindLoopExists`, `FlattenLoopExists`, `SortedExists`) is proved the same
way, since `CHOOSE` says nothing of what does not exist.

- *Timelines* (`TimelinesAgree`). `LoopReaches` is the loop invariant: after `n` batches, `last` has the
  assets of the first `n` batches, each with the number and the claims of the latest that has it,
  `previous` is the last of them (`Reached`), and the assets that came are those that are there
  and those that went (`Counted`). What a step reports is then what `CompareInventories` computes of two
  neighbours on its own, and the balance of the totals is the invariant after the last batch.
- *Correlation* (`GroupsAreConnected`). The forest is described by the root of each observation: parents
  are at or below their children (`Forest`), and a function `f` is the root of everything (`Rooted`). A round
  of path halving keeps `f` (`HalveKeeps`); a union turns one root into another, the lesser (`UnionIs`). That
  nothing is united without reason is the other half: a set of observations closed under sharing
  keys stays closed under taking parents through every `Link`. So two observations have one root
  exactly if no closed set separates them (`CorrelateIs`), which is what being a component means.
  `ExportsStayApart`: the keys of two instances of an accepted export differ, so all singletons are closed.
- *Queues* (`EveryFindingIsQueued`). A set of items with distinct keys that are ordered
  lexicographically has one order, by the number of items below each (`SortedIs`); so a queue has as many
  entries as items and lists each once (`QueueIs`). A record is resolved to the team of its strongest
  matching rules exactly if that team wins (`ResolvedIs`). The lengths of the queues add up to the number
  of records (`LengthsAdd`, with `FoldIs` for the sum over the teams). If no plan is refused
  here none is refused when the records are planned one by one for the same owners (`WritesAll`).

The hypotheses of these are in `InputOK` too: lists of batches with finitely many assets each, of
observations, of reservations, of rules that ask for finitely many tags each, and finding
identifiers that have an order.

Only model-checked, and why:

- Liveness (`EveryCallEnds`, `PublishedRunIsReusable`), which the prover does not handle under
  fairness.
- The two violated properties, which have counterexamples.

## 6. Not modelled, and plan

Left out, and why:

- Parsing and formatting of JSON and of text reports, field formats, byte and record limits
  of documents, permission and ownership checks of files: one call, no state. For the same reason
  the archives of assessments and of histories are modelled by their publication and restoration
  and not by the document they build; the sequence archive, whose loading replays its
  batches, is modelled in full.
- `schema_check.py`, `storage_probe.py` and `sqlite_probe.py`: they look at one database or
  exercise the file system calls of `ExclusivePublish`, and keep nothing.
- `evidence_diff_cli.py` checks that its output does not exist and writes it later, without
  exclusive publication: a hazard that is listed, with no property, as nothing promises otherwise.
- The AWS and osquery calls, the demonstrations, the lab script and the container settings.

What a next step could be: `assessment_archive.py` and `ec2_history_archive.py` build and parse their
documents without state, and their loaders could be stated as operators like `LoadArchive`, with
the theorem that an archive loads exactly if it was created of what it names. Of what is modelled,
no safety property is left without a theorem.
