-------------------------- MODULE WorkflowRunsAltered --------------------------
(***************************************************************************)
(* WorkflowRuns with one more actor: somebody who changes or removes files *)
(* of a published run directory, the manifest included, at any time and    *)
(* more than once.  _load_retry is there to notice it.  The manifest is    *)
(* not signed: whoever changes a file can also write its new digest.       *)
(***************************************************************************)
EXTENDS WorkflowRuns

CONSTANTS
  Foreign,        \* the versions of the four inputs that other content is made of
  MaxAlterations  \* bound: files changed

ASSUME ForeignAssumption == Foreign \subseteq Digests /\ MaxAlterations \in Nat

VARIABLES
  altered,      \* the published runs of which a file was changed
  alterations,  \* files changed so far
  issued,       \* history: issued[r] = the directory of r when it was published
  stood,        \* history: stood[c] = the altered directory that c's call found and that
                \* was not altered further before the call ended; None if there is none
  swapped       \* history: swapped[c] = the report was changed after c had compared it

notes == <<issued, stood, swapped>>
alteredVars == <<vars, altered, alterations, notes>>

AlteredInit ==
  /\ Init
  /\ altered = {}
  /\ alterations = 0
  /\ issued = [r \in RunIds |-> None]
  /\ stood = [c \in Callers |-> None]
  /\ swapped = [c \in Callers |-> FALSE]

\* What somebody may leave in place of file n of run r: nothing, an incomplete file,
\* or a well-formed one of other inputs; of the manifest, one with another value in
\* one of its fields, which may be a digest as good as any.
Replacements(r, n) ==
  LET databases == {Partial} \cup {DatabaseOf(u) : u \in Foreign}
      reports == {Partial} \cup {ReportOf(u) : u \in Foreign}
  IN {None} \cup
     CASE n = "db" -> databases
       [] n = "report" -> reports
       [] n = "manifest" ->
            IF ~Published(r) THEN {}
            ELSE {[Manifest(r) EXCEPT !.inputs = x] : x \in {Partial} \cup Foreign}
                   \cup {[Manifest(r) EXCEPT !.db = x] : x \in databases}
                   \cup {[Manifest(r) EXCEPT !.report = x] : x \in reports}

Alter(r, n) ==
  /\ Published(r) \/ r \in altered
  /\ alterations < MaxAlterations
  /\ alterations' = alterations + 1
  /\ \E x \in Replacements(r, n) : disk' = [disk EXCEPT ![r][n] = x]
  /\ altered' = altered \cup {r}
  /\ stood' = [c \in Callers |-> IF RunOf[c] = r /\ pc[c] # "idle" THEN None ELSE stood[c]]
  /\ swapped' = [c \in Callers |-> swapped[c] \/ (RunOf[c] = r /\ n = "report" /\ pc[c] = "load_report")]
  /\ UNCHANGED <<file, made, pc, memory, result, attempts, edits, faults, history, issued>>

Call(c) ==
  /\ Begin(c)
  /\ stood' = [stood EXCEPT ![c] = IF RunOf[c] \in altered THEN disk[RunOf[c]] ELSE None]
  /\ swapped' = [swapped EXCEPT ![c] = FALSE]
  /\ UNCHANGED <<altered, alterations, issued>>

\* Every other step of a call; publication is what the alterations are compared with.
Proceed(c) ==
  /\ Work(c) \/ Reject(c) \/ CleanUp(c) \/ IoError(c) \/ GiveUpRemoving(c) \/ Kill(c)
  /\ issued' = IF pc[c] = "publish" /\ pc'[c] = "return"
               THEN [issued EXCEPT ![RunOf[c]] = disk'[RunOf[c]]] ELSE issued
  /\ UNCHANGED <<altered, alterations, stood, swapped>>

EditInput ==
  /\ \E f \in Files, v \in Versions : Edit(f, v)
  /\ UNCHANGED <<altered, alterations, notes>>

AlteredNext ==
  \/ \E c \in Callers : Call(c) \/ Proceed(c)
  \/ EditInput
  \/ \E r \in RunIds, n \in {"db", "report", "manifest"} : Alter(r, n)

AlteredSpec == AlteredInit /\ [][AlteredNext]_alteredVars

\* docs/architecture.md: "Changed input, artifact tampering, or a partially created
\* directory stops the retry for review."  A call that finds an altered run succeeds
\* only if each digest of the manifest and what it is taken of (the database, the
\* report, the inputs this caller has) are both as published or were both changed.
\* So a change of the artifacts alone, of the inputs alone or of the manifest alone is
\* refused, however often and in whatever order files were changed and calls ran.  A
\* manifest rewritten to match is accepted: nothing else vouches for its digests.
OneSidedChangeIsRefused ==
  \A c \in Callers : (stood[c] # None /\ result[c] # None) =>
    LET now == stood[c]
        then == issued[RunOf[c]]
    IN /\ now["manifest"] # None
       /\ now["db"] = then["db"] <=> now["manifest"].db = then["manifest"].db
       /\ now["report"] = then["report"] <=> now["manifest"].report = then["manifest"].report
       /\ result[c].inputs = then["manifest"].inputs <=> now["manifest"].inputs = then["manifest"].inputs
       /\ result[c].report = now["report"]

\* A retry hashes the report and then opens it again to return it.  What it returns is
\* what it hashed, and goes with the inputs it hashed, in all calls, also those that
\* were overtaken by an alteration; unless the report itself was changed between those
\* two readings, which nothing notices.
ReturnedReportWasCompared ==
  \A c \in Callers : (result[c] # None /\ result[c].reused /\ ~swapped[c]) =>
    result[c].report = saved[c].report /\ result[c].inputs = saved[c].inputs

\* What is changed from outside is left as it is for that review: no caller
\* repairs, completes or removes any file of an altered run.
AlteredRunIsLeftAlone ==
  [][UNCHANGED alterations => \A r \in altered : disk'[r] = disk[r] /\ r \in made']_alteredVars

-------------------------------------------------------------------------------
(* Why these hold.                                                         *)

\* What was issued matched its own manifest, and is still there until it is altered.
IssuedOf(r) ==
  /\ r \in made
  /\ issued[r]["db"] = issued[r]["manifest"].db
  /\ issued[r]["report"] = issued[r]["manifest"].report
  /\ r \notin altered => disk[r] = issued[r]

IssuesStand == \A r \in RunIds : Published(r) \/ r \in altered => IssuedOf(r)

\* An altered run has no creator, now or later.
CreatorOf(c) ==
  LET dir == disk[RunOf[c]] IN
  /\ Creating(c) => RunOf[c] \in made \ altered /\ ~Published(RunOf[c])
  /\ pc[c] \in {"open_report", "write_report"} \cup Finishing => dir["db"] = DatabaseOf(loaded[c])
  /\ pc[c] \in Finishing => dir["report"] = ReportOf(loaded[c])
  /\ pc[c] = "publish" => dir["tmp"] = ManifestOf(c)

CreatorsStand ==
  /\ \A c \in Callers : CreatorOf(c)
  /\ \A c, d \in Callers : (Creating(c) /\ Creating(d) /\ RunOf[c] = RunOf[d]) => c = d

\* Who holds a manifest has compared it; nobody creates the run it is of.
Holding == {"check_db", "check_report", "load_report"}

VerifierOf(c) ==
  /\ pc[c] \in Holding =>
       /\ Published(RunOf[c]) \/ RunOf[c] \in altered
       /\ saved[c].inputs = hashes[c]
  /\ pc[c] = "load_report" /\ ~swapped[c] => disk[RunOf[c]]["report"] = saved[c].report
  /\ result[c] # None =>
       /\ pc[c] = "idle"
       /\ result[c].reused /\ ~swapped[c] =>
            result[c].report = saved[c].report /\ result[c].inputs = saved[c].inputs

VerifiersStand == \A c \in Callers : VerifierOf(c)

\* What a call on an altered run has found so far is still there.
DoubtOf(c) ==
  LET now == stood[c] IN
  /\ RunOf[c] \in altered
  /\ pc[c] # "return"
  /\ pc[c] # "idle" => disk[RunOf[c]] = now
  /\ pc[c] \in Holding => saved[c] = now["manifest"] /\ saved[c] # None
  /\ pc[c] \in {"check_report", "load_report"} => now["db"] = saved[c].db
  /\ pc[c] = "load_report" => now["report"] = saved[c].report
  /\ result[c] # None =>
       /\ now["manifest"] # None
       /\ result[c].inputs = now["manifest"].inputs
       /\ now["db"] = now["manifest"].db
       /\ now["report"] = now["manifest"].report
       /\ result[c].report = now["report"]

DoubtersStand == \A c \in Callers : stood[c] # None => DoubtOf(c)

\* The types, as far as an alteration leaves them: an altered file has none.
AlteredTypeOK ==
  /\ file \in [Files -> Versions]
  /\ made \in SUBSET RunIds /\ altered \in SUBSET RunIds
  /\ DOMAIN disk = RunIds /\ DOMAIN issued = RunIds
  /\ \A r \in RunIds : DOMAIN disk[r] = Names /\ (r \notin altered => disk[r] \in Directories)
  /\ pc \in [Callers -> Steps]
  /\ parsed \in [Callers -> Versions \cup {None}]
  /\ hashes \in [Callers -> Digests] /\ loaded \in [Callers -> Digests]
  /\ DOMAIN saved = Callers /\ DOMAIN result = Callers /\ DOMAIN stood = Callers
  /\ swapped \in [Callers -> BOOLEAN]

AlteredInvariant ==
  AlteredTypeOK /\ IssuesStand /\ CreatorsStand /\ VerifiersStand /\ DoubtersStand
================================================================================
