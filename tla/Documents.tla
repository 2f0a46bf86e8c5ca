------------------------------ MODULE Documents ------------------------------
(***************************************************************************)
(* The pure algorithms as one system: a step takes an input of some kind,  *)
(* and each property looks at the inputs of its kind.                      *)
(***************************************************************************)
EXTENDS ObservationTimeline

CONSTANTS None, Null, AssetOf, Missing, Invalid, ReviewTags

P == INSTANCE Policies
S == INSTANCE SnapshotEvidence
R == INSTANCE RetainedAssessments
C == INSTANCE Correlation

VARIABLE input

-----------------------------------------------------------------------------
(* What an input is *)

IsList(s) == Len(s) \in Nat /\ s = [i \in 1..Len(s) |-> s[i]]

\* A list of batches, each of finitely many assets.
BatchesOK ==
    /\ IsList(input.batches)
    /\ \A i \in DOMAIN input.batches :
          input.batches[i].observed_at \in Int /\ IsFiniteSet(Observed(input.batches[i]))

\* Lists of observations, of reservations, of instances and of tags.
ObservationsOK == IsList(input.items)
ExportOK ==
    /\ IsList(input.export.reservations)
    /\ \A r \in DOMAIN input.export.reservations :
          LET instances == input.export.reservations[r].instances IN
          IsList(instances) /\ \A i \in DOMAIN instances : IsList(instances[i].tags)

FindingOK(f) ==
    /\ f.severity \in DOMAIN P!SEVERITY_POINTS /\ f.exposure \in DOMAIN P!EXPOSURE_POINTS
    /\ f.exploit \in DOMAIN P!EXPLOIT_POINTS   /\ f.control \in DOMAIN P!CONTROL_POINTS

\* A finding opened on day 0 is planned on that day or later.
UrgencyOK ==
    /\ FindingOK(input.milder) /\ FindingOK(input.worse)
    /\ input.as_of \in Nat /\ input.later \in Nat /\ input.requested \in Nat \cup {None}

RecordOK(r) == r.opened \in Int /\ r.requested \in Int \cup {None}
DatesOK ==
    /\ IsList(input.records)
    /\ \A i \in DOMAIN input.records : RecordOK(input.records[i])
    /\ input.as_of \in Int /\ input.baseline \in Int \ {None}

\* Identifiers are ordered, here as numbers are, and a rule asks for finitely many tags.
RuleOK(r) == r = [id |-> r.id, team |-> r.team, tags |-> r.tags] /\ IsFiniteSet(DOMAIN r.tags)
QueuesOK ==
    /\ IsList(input.records) /\ input.as_of \in Int
    /\ \A i \in DOMAIN input.records : RecordOK(input.records[i]) /\ input.records[i].finding.id[1] \in Int
    /\ IsList(input.directory.rules)
    /\ \A i \in DOMAIN input.directory.rules : RuleOK(input.directory.rules[i])

\* Sections are lists, and every snapshot has the same ones.
SnapshotsOK ==
    /\ DOMAIN input.base.sections = DOMAIN input.current.sections
    /\ \A s \in {input.base, input.current} : \A name \in DOMAIN s.sections :
          IsList(s.sections[name])

\* The key of the entry is verified while it is active or retired.
ManifestOK ==
    /\ input.entry \in [key_id : {input.entry.key_id}, state : {input.entry.state},
                        activate : Int, verify_until : Int]
    /\ input.now \in {"active", "retired"}
    /\ input.at \in Int /\ input.later \in Int

\* Lists of batches and of slots, each slot with its time and its export.
CheckpointOK ==
    /\ IsList(input.batches)
    /\ \A i \in DOMAIN input.batches : input.batches[i].observed_at \in Int
    /\ LET slots == input.checkpoint.slots IN
       /\ IsList(slots)
       /\ \A j \in DOMAIN slots :
             /\ slots[j].observed_at \in Int
             /\ slots[j] = [observed_at |-> slots[j].observed_at, input |-> slots[j].input]

\* A database has the tables of a retained assessment.
DatabaseOK(db) ==
    /\ db = [receipt |-> [payload |-> db.receipt.payload, digest |-> db.receipt.digest], scope |-> db.scope,
             observed_at |-> db.observed_at, rows |-> db.rows, decisions |-> db.decisions,
             input |-> [findings |-> db.input.findings, directory |-> db.input.directory,
                        as_of |-> db.input.as_of, assessed_at |-> db.input.assessed_at],
             digests |-> db.digests, binding |-> db.binding, model |-> db.model]
    /\ db.binding.checked \in BOOLEAN

\* One that retain_assessment made of the export its receipt and its payloads are those of.
MadeOK(made) ==
    \E from \in {[bytes |-> made.receipt.payload.input, payloads |-> {r.payload : r \in made.rows}]} :
    \E first \in {R!StoreExport(from, made.scope, made.observed_at)} :
        /\ IsFiniteSet(from.payloads) /\ from.payloads # {} /\ from # None
        /\ made = R!RetainAssessment(first, made.input.findings, made.input.directory, made.input.as_of,
                                     made.input.assessed_at, IF made.binding.checked THEN from ELSE None,
                                     made.model)

\* Two exports with one digest are one export.
AssessmentOK ==
    /\ DatabaseOK(input.made) /\ DatabaseOK(input.altered) /\ MadeOK(input.made)
    /\ input.made # Rejected
    /\ input.made.receipt.payload.input = input.export.bytes =>
          {r.payload : r \in input.made.rows} = input.export.payloads
    /\ input.export # None /\ input.model # None

ReceiptsOK == input.previous # Rejected /\ input.current # Rejected

ReviewOK ==
    /\ input.bind \in BOOLEAN
    /\ \A db \in {input.base, input.current} : \A r \in db.rows : r = [asset |-> r.asset, payload |-> r.payload]

\* Every input is one the reading code lets through to the algorithm.
InputOK ==
    /\ input.kind = "batches" => BatchesOK
    /\ input.kind = "observations" => ObservationsOK
    /\ input.kind = "export" => ExportOK
    /\ input.kind = "queues" => QueuesOK
    /\ input.kind = "checkpoint" => CheckpointOK
    /\ input.kind = "urgency" => UrgencyOK
    /\ input.kind = "dates" => DatesOK
    /\ input.kind = "snapshots" => SnapshotsOK
    /\ input.kind = "manifest" => ManifestOK
    /\ input.kind = "assessment" => AssessmentOK
    /\ input.kind = "receipts" => ReceiptsOK
    /\ input.kind = "review" => ReviewOK

Init == input = [kind |-> "none"]
Read == input.kind = "none" /\ InputOK'
Spec == Init /\ [][Read]_input

-----------------------------------------------------------------------------
(* Properties *)

\* Each step of a timeline tells what comparing two batches tells, and its events add up.
TimelineAgreesWithComparisons ==
    input.kind = "batches" => AgreesWithComparisons(input.batches) /\ Balances(input.batches)

\* A checkpoint is satisfied by exactly the batches it expects.
SatisfiedMeansExact ==
    input.kind = "checkpoint" => ExactWhenSatisfied(input.batches, input.checkpoint)

\* Assets are the connected components of sharing an identity key, and instances stay apart.
GroupsAreComponents ==
    /\ input.kind = "observations" => C!AreComponents(input.items)
    /\ input.kind = "export" => C!StayApart(input.export, "us", "region")

\* Worse factors, a missing owner or a later day never make a finding less urgent.
UrgencyIsMonotone ==
    input.kind = "urgency" =>
        P!NeverLessUrgent(input.milder, input.worse, input.owner, input.requested, input.as_of, input.later)

\* Every accepted finding is queued once, with the team of its most specific rule.
EveryFindingHasItsQueue ==
    input.kind = "queues" => P!QueuedOnce(input.assets, input.records, input.directory, input.as_of)

\* Comparing two review dates lists the items that became overdue between them.
ChangesAreNewlyOverdue ==
    input.kind = "dates" =>
        P!NewlyOverdue(input.assets, input.records, input.directory, input.as_of, input.baseline)

\* A changed field of the asset is listed, also when it equals the other one to
\* Python.  This does not hold.
AssetFieldChangesAreListed == input.kind = "snapshots" => S!ListsFieldChanges(input.base, input.current)

\* "Unchanged" is said of the same evidence only.
UnchangedMeansSameEvidence == input.kind = "snapshots" => S!SameEvidence(input.base, input.current)

\* A manifest verifies for its snapshot and key, through the key's window, and for no other.
ManifestSealsOneSnapshot ==
    input.kind = "manifest" =>
        S!SealsOneSnapshot(input.snapshot, input.other, input.key, input.used, input.entry.key_id,
                           input.entry, input.now, input.at, input.later)

\* A verifier accepts what the retaining command made of that export, and nothing else.
VerifiedIsWhatIsRetained ==
    /\ input.kind = "assessment" =>
          R!OnlyWhatIsRetained(input.made, input.altered, input.export, input.model, input.required)
    /\ input.kind = "receipts" =>
          R!ReceiptsCompare(input.previous, input.current, input.export, input.model)
    /\ input.kind = "review" =>
          R!ReviewsNameOneBatch(input.base, input.current, input.export, input.bind)
=============================================================================
