--------------------------- MODULE ExclusivePublish ---------------------------
(***************************************************************************)
(* How the repository publishes a new file: stage it under a private name  *)
(* in the destination directory, write, fsync, hard-link it to its name    *)
(* (a link never replaces), and unlink the staging name in any case.       *)
(* _publish in osquery_collector.py and assessment_backup.py,              *)
(* _write_new_json in evidence_auth_cli.py (which also fsyncs the          *)
(* directory) and the mkstemp ... os.link endings of store_export,         *)
(* store_ec2, retain_assessment and retain_history are this protocol.      *)
(*                                                                         *)
(* Several processes publish, possibly to one name.  A process may get an  *)
(* I/O error, may be killed, and the machine may lose power: then only     *)
(* what reached the disk is left.  The system writes data and directory    *)
(* entries, made or removed, back when it likes, or when fsync asks for it.*)
(***************************************************************************)
EXTENDS Naturals

CONSTANTS
  Publishers,  \* processes, one publication each; also the name of its file body
  Paths,       \* destination names
  PathOf,      \* PathOf[p]: the name process p publishes to
  SyncsDir,    \* the publishers that fsync the directory after the link
  None,        \* no file, no answer
  MaxFaults    \* bound: I/O errors, kills and power losses

ASSUME PathOfAssumption == PathOf \in [Publishers -> Paths]
ASSUME SyncsDirAssumption == SyncsDir \subseteq Publishers
ASSUME NoneAssumption == None \notin Publishers \cup {"ok", "error"}
ASSUME FaultsAssumption == MaxFaults \in Nat

VARIABLES
  pc,       \* pc[p]: what process p does next
  staged,   \* the processes whose staging name exists
  remains,  \* the processes whose staging name exists on the disk itself
  body,     \* body[p]: what of the file body of p has been written
  stored,   \* stored[p]: what of that body is on the disk itself
  entry,    \* entry[q]: whose body the name q shows, None if there is no such file
  durable,  \* durable[q]: the same, on the disk itself
  answer,   \* answer[p]: "ok" or "error" once the call is over
  stuck,    \* history: processes killed, or unable to unlink their staging name
  struck,   \* history: processes that had begun when the power was lost
  faults    \* I/O errors, kills and power losses so far

files == <<staged, remains, body, stored, entry, durable>>
history == <<stuck, struck>>
vars == <<pc, files, answer, history, faults>>

Written == {"empty", "partial", "complete"}
Running == {"write", "fsync", "link", "sync_dir", "unlink", "unlink_raise"}

Init ==
  /\ pc = [p \in Publishers |-> "create"]
  /\ staged = {}
  /\ remains = {}
  /\ body = [p \in Publishers |-> "empty"]
  /\ stored = [p \in Publishers |-> "empty"]
  /\ entry = [q \in Paths |-> None]
  /\ durable = [q \in Paths |-> None]
  /\ answer = [p \in Publishers |-> None]
  /\ stuck = {}
  /\ struck = {}
  /\ faults = 0

Step(p, from, to) == pc[p] = from /\ pc' = [pc EXCEPT ![p] = to]

-------------------------------------------------------------------------------
(* One publication.                                                        *)

\* tempfile.NamedTemporaryFile(delete = False), or mkstemp
Stage(p) ==
  /\ Step(p, "create", "write")
  /\ staged' = staged \cup {p}
  /\ UNCHANGED <<remains, body, stored, entry, durable, answer, history, faults>>

\* Writing may take more than one system call.
Write(p) ==
  /\ \/ Step(p, "write", "write") /\ body' = [body EXCEPT ![p] = "partial"]
     \/ Step(p, "write", "fsync") /\ body' = [body EXCEPT ![p] = "complete"]
  /\ UNCHANGED <<staged, remains, stored, entry, durable, answer, history, faults>>

\* Mutant: flush without fsync.
FlushOnly(p) ==
  /\ Step(p, "fsync", "link")
  /\ UNCHANGED <<staged, remains, body, stored, entry, durable, answer, history, faults>>

Fsync(p) ==
  /\ Step(p, "fsync", "link")
  /\ stored' = [stored EXCEPT ![p] = body[p]]
  /\ UNCHANGED <<staged, remains, body, entry, durable, answer, history, faults>>

\* Mutant: os.replace instead of os.link.
ReplaceName(p) ==
  /\ Step(p, "link", IF p \in SyncsDir THEN "sync_dir" ELSE "unlink")
  /\ entry' = [entry EXCEPT ![PathOf[p]] = p]
  /\ UNCHANGED <<staged, remains, body, stored, durable, answer, history, faults>>

\* os.link makes the name or fails: it never replaces a file.
Link(p) ==
  /\ Step(p, "link", IF p \in SyncsDir THEN "sync_dir" ELSE "unlink")
  /\ entry[PathOf[p]] = None
  /\ entry' = [entry EXCEPT ![PathOf[p]] = p]
  /\ UNCHANGED <<staged, remains, body, stored, durable, answer, history, faults>>

\* Mutant: the collision returns without the finally clause.
CollideAtOnce(p) ==
  /\ Step(p, "link", "done")
  /\ entry[PathOf[p]] # None
  /\ answer' = [answer EXCEPT ![p] = "error"]
  /\ UNCHANGED <<files, history, faults>>

\* FileExistsError
Collide(p) ==
  /\ Step(p, "link", "unlink_raise")
  /\ entry[PathOf[p]] # None
  /\ UNCHANGED <<files, answer, history, faults>>

\* Mutant: the directory is opened and not synced.
SyncNothing(p) ==
  /\ Step(p, "sync_dir", "unlink")
  /\ UNCHANGED <<files, answer, history, faults>>

\* The processes whose staging names are in the directory of p's name.
Beside(p) == {r \in Publishers : PathOf[r] = PathOf[p]}

\* _fsync_directory: what the directory holds now, p's staging name among it,
\* is on the disk.
SyncDir(p) ==
  /\ Step(p, "sync_dir", "unlink")
  /\ durable' = [durable EXCEPT ![PathOf[p]] = entry[PathOf[p]]]
  /\ remains' = (remains \ Beside(p)) \cup (staged \cap Beside(p))
  /\ UNCHANGED <<staged, body, stored, entry, answer, history, faults>>

\* finally: temporary.unlink(missing_ok = True), then return or re-raise.  No
\* directory is synced after it: the name may stay on the disk.
Unlink(p) ==
  /\ \/ Step(p, "unlink", "done") /\ answer' = [answer EXCEPT ![p] = "ok"]
     \/ Step(p, "unlink_raise", "done") /\ answer' = [answer EXCEPT ![p] = "error"]
  /\ staged' = staged \ {p}
  /\ UNCHANGED <<remains, body, stored, entry, durable, history, faults>>

Publish(p) == \/ Stage(p) \/ Write(p) \/ Fsync(p) \/ Link(p) \/ Collide(p)
              \/ SyncDir(p) \/ Unlink(p)

-------------------------------------------------------------------------------
(* What goes wrong.                                                        *)

\* An exception: the finally clause still unlinks the staging name.
IoError(p) ==
  /\ faults < MaxFaults
  /\ faults' = faults + 1
  /\ pc[p] \in {"write", "fsync", "link", "sync_dir"}
  /\ pc' = [pc EXCEPT ![p] = "unlink_raise"]
  /\ UNCHANGED <<files, answer, history>>

\* The process is killed, or cannot unlink: nobody removes the staging name.
Kill(p) ==
  /\ faults < MaxFaults
  /\ faults' = faults + 1
  /\ pc[p] \in Running
  /\ pc' = [pc EXCEPT ![p] = "done"]
  /\ answer' = [answer EXCEPT ![p] = "error"]
  /\ stuck' = stuck \cup {p}
  /\ UNCHANGED <<files, struck>>

\* The system writes a file body, or a directory entry, to the disk on its own.
WriteBackBody(p) ==
  /\ stored[p] # body[p]
  /\ stored' = [stored EXCEPT ![p] = body[p]]
  /\ UNCHANGED <<pc, staged, remains, body, entry, durable, answer, history, faults>>

WriteBackStaging(p) ==
  /\ (p \in remains) # (p \in staged)
  /\ remains' = IF p \in staged THEN remains \cup {p} ELSE remains \ {p}
  /\ UNCHANGED <<pc, staged, body, stored, entry, durable, answer, history, faults>>

WriteBackEntry(q) ==
  /\ durable[q] # entry[q]
  /\ durable' = [durable EXCEPT ![q] = entry[q]]
  /\ UNCHANGED <<pc, staged, remains, body, stored, entry, answer, history, faults>>

\* Every running process is gone, and so is what was not on the disk; a staging
\* name whose removal was not is back.  Processes not yet started run after the
\* restart.
PowerLoss ==
  /\ faults < MaxFaults
  /\ faults' = faults + 1
  /\ pc' = [p \in Publishers |-> IF pc[p] \in Running THEN "done" ELSE pc[p]]
  /\ answer' = [p \in Publishers |-> IF pc[p] \in Running THEN "error" ELSE answer[p]]
  /\ struck' = {p \in Publishers : pc[p] # "create"}
  /\ staged' = remains
  /\ body' = stored
  /\ entry' = durable
  /\ UNCHANGED <<remains, stored, durable, stuck>>

Next ==
  \/ \E p \in Publishers : Publish(p) \/ IoError(p) \/ Kill(p) \/ WriteBackBody(p) \/ WriteBackStaging(p)
  \/ \E q \in Paths : WriteBackEntry(q)
  \/ PowerLoss

Spec == Init /\ [][Next]_vars

-------------------------------------------------------------------------------
\* Every variable holds a value of its kind.
TypeOK ==
  /\ pc \in [Publishers -> {"create", "done"} \cup Running]
  /\ staged \in SUBSET Publishers
  /\ remains \in SUBSET Publishers
  /\ body \in [Publishers -> Written]
  /\ stored \in [Publishers -> Written]
  /\ entry \in [Paths -> Publishers \cup {None}]
  /\ durable \in [Paths -> Publishers \cup {None}]
  /\ answer \in [Publishers -> {None, "ok", "error"}]
  /\ stuck \in SUBSET Publishers
  /\ struck \in SUBSET Publishers
  /\ faults \in 0..MaxFaults

\* A destination name never shows an unfinished file: not while it is written,
\* not after a kill, and not after a power loss that kept the name (the fsync
\* comes before the link).
PublishedIsComplete ==
  \A q \in Paths : entry[q] # None => body[entry[q]] = "complete"

\* A call that returned success keeps its name: until the power is lost, and after
\* that too if it synced the directory.  So two successes never share it.
AcknowledgedIsKept ==
  \A p \in Publishers :
    (answer[p] = "ok" /\ (p \in SyncsDir \/ p \notin struck)) => entry[PathOf[p]] = p

\* A name once made is never given another body; only a power loss can take it
\* away, and then only if it had not reached the disk.
NeverReplaced ==
  [][\A q \in Paths : entry[q] # None =>
       \/ entry'[q] = entry[q]
       \/ entry[q] \in struck' /\ durable[q] = None /\ entry'[q] = None]_vars

\* Success, collision or error, the staging name is gone when the call is over
\* (finally: unlink), unless the process was killed, could not unlink it, or the
\* power was lost after it began: no directory is synced after the unlink, so an
\* outage may bring the name back.  Of a call that had returned success it is then
\* one more link to the whole file, which every reader that asks for a single link
\* (st_nlink = 1) refuses until somebody removes it.
StagingIsRemoved ==
  \A p \in staged : pc[p] = "done" =>
    p \in stuck \cup struck /\ (answer[p] = "ok" => body[p] = "complete")

-------------------------------------------------------------------------------
\* What is on the disk is written once, and a success of a publisher that syncs
\* the directory tells what is on the disk.
Abstract == INSTANCE WriteOnce WITH
  Keys <- Paths,
  Clients <- Publishers,
  KeyOf <- PathOf,
  Values <- Publishers,
  outcome <- durable,
  answer <- [p \in Publishers |-> IF answer[p] = "ok" /\ p \in SyncsDir THEN p ELSE None]

ImplementsWriteOnce == Abstract!Spec
===============================================================================
