------------------------- MODULE RetainedAssessments -------------------------
(***************************************************************************)
(* From a saved export to a retained assessment and back: importing a      *)
(* batch (inventory_cli.py, ec2_inventory.py), reconciling it              *)
(* (inventory_receipt.py, inventory_export_cli.py), retaining a first      *)
(* assessment of it (inventory_assessment_cli.py, ec2_assessment.py),      *)
(* verifying one by doing all of that again                                *)
(* (inventory_assessment_verify.py), comparing two batches                 *)
(* (inventory_diff_cli.py) or assessments (ec2_assessment_compare.py), and *)
(* recording a review of a batch (inventory_review_verify.py).             *)
(*                                                                         *)
(* An export is [bytes, payloads], a row of a database [asset, payload].   *)
(* A digest is the value it digests.  A day has two instants.  How urgent  *)
(* a finding is, is the module Policies' business: here it has a team, a   *)
(* due day and is overdue or not.  A result is a value, or Rejected where  *)
(* the code raises.                                                        *)
(***************************************************************************)
EXTENDS Naturals, FiniteSets

CONSTANTS AssetOf, \* the asset correlation makes of each payload
          None, Rejected

Day(instant) == instant \div 2
Rows(payloads) == {[asset |-> AssetOf[p], payload |-> p] : p \in payloads}
Assets(rows) == {r.asset : r \in rows}

-----------------------------------------------------------------------------
(* A batch in a database of its own; export = None where none is supplied *)

StoreExport(export, scope, observed) ==
    LET receipt == [scope |-> scope, observed_at |-> observed, input |-> export.bytes,
                    assets |-> Assets(Rows(export.payloads)), count |-> Cardinality(export.payloads)]
    IN  IF export.payloads = {} THEN Rejected
        ELSE [receipt |-> [payload |-> receipt, digest |-> receipt], scope |-> scope,
              observed_at |-> observed, rows |-> Rows(export.payloads), decisions |-> {}]

\* The payloads and the assets are compared with the export, each list on its own.
ReadReceipt(db, export) ==
    LET receipt == db.receipt.payload
        payloads(rows) == [p \in {r.payload : r \in rows} |-> Cardinality({r \in rows : r.payload = p})]
    IN  /\ db.receipt.digest = receipt
        /\ db.rows # {} /\ receipt.assets = Assets(db.rows)
        /\ receipt.count = Cardinality(db.rows)
        /\ db.scope = receipt.scope /\ db.observed_at = receipt.observed_at
        /\ export # None => /\ export.bytes = receipt.input
                            /\ Assets(Rows(export.payloads)) = Assets(db.rows)
                            /\ payloads(Rows(export.payloads)) = payloads(db.rows)

ExportInventory(db, export) ==
    IF ~ReadReceipt(db, export) THEN Rejected
    ELSE [receipt |-> db.receipt.payload, checked |-> export # None,
          rows |-> db.rows, decisions |-> db.decisions]

CompareInventories(base, current) ==
    LET claims(db, x) == {r.payload : r \in {s \in db.rows : s.asset = x}}
        old == Assets(base.rows)
        new == Assets(current.rows)
    IN  IF \/ ~ReadReceipt(base, None) \/ ~ReadReceipt(current, None)
           \/ base.scope # current.scope \/ current.observed_at < base.observed_at
        THEN Rejected
        ELSE [added |-> new \ old, not_observed |-> old \ new,
              changed |-> {x \in old \cap new : claims(base, x) # claims(current, x)}]

-----------------------------------------------------------------------------
(* A review of a batch, bound to its coverage or to all of it *)

CoverageSummary(inventory) ==
    [assets |-> Cardinality(Assets(inventory.rows)), observations |-> Cardinality(inventory.rows),
     checked |-> inventory.checked,
     assessed |-> Cardinality({d.plan.asset : d \in inventory.decisions})]

ReviewRecord(inventory, reviewed_at, bind) ==
    IF inventory = Rejected THEN Rejected
    ELSE [reviewed_at |-> reviewed_at, summary |-> CoverageSummary(inventory),
          batch |-> IF bind THEN inventory ELSE None]

VerifyReview(db, record, export, required) ==
    /\ required => record.batch # None
    /\ ReviewRecord(ExportInventory(db, export), record.reviewed_at, record.batch # None) = record

-----------------------------------------------------------------------------
(* A finding is [id, asset, opened, due], a directory the team of each asset *)

Plan(rows, findings, directory, as_of) ==
    IF \/ \E f \in findings : f.asset \notin Assets(rows) \/ f.opened > as_of
       \/ \E f, g \in findings : f.id = g.id /\ f # g
       \/ findings = {}
    THEN Rejected
    ELSE {[id |-> f.id, asset |-> f.asset, team |-> directory[f.asset], due |-> f.due,
           overdue |-> f.due < as_of] : f \in findings}

-----------------------------------------------------------------------------
(* An osquery assessment: the batch again, its decisions, inputs and model *)

RetainAssessment(db, findings, directory, as_of, assessed, export, model) ==
    LET original  == ExportInventory(db, export)
        decisions == Plan(db.rows, findings, directory, as_of)
    IN  IF original = Rejected THEN Rejected
        ELSE IF \/ original.decisions # {} \/ assessed < db.observed_at
                \/ db.rows # Rows({r.payload : r \in db.rows})
                \/ decisions = Rejected
        THEN Rejected
        ELSE [receipt |-> db.receipt, scope |-> db.scope, observed_at |-> db.observed_at, rows |-> db.rows,
              decisions |-> {[plan |-> d, at |-> assessed] : d \in decisions},
              input |-> [findings |-> findings, directory |-> directory, as_of |-> as_of, assessed_at |-> assessed],
              digests |-> <<findings, directory>>, binding |-> original, model |-> model]

\* A database from before models were retained has None for one.
ReadModel(db, model, required) == IF db.model = None THEN ~required ELSE db.model = model

\* Mutant: the decisions made again are not compared with those retained.
VerifyInputs(db, export, model, required) ==
    LET input == db.input
        first == StoreExport(export, db.receipt.payload.scope, db.receipt.payload.observed_at)
    IN  /\ ReadModel(db, model, required)
        /\ db.digests = <<input.findings, input.directory>>
        /\ ExportInventory(db, export) # Rejected /\ first # Rejected
        /\ RetainAssessment(first, input.findings, input.directory, input.as_of,
                            input.assessed_at, export, model) # Rejected
        /\ db.binding = [ExportInventory(first, export) EXCEPT !.checked = db.binding.checked]

\* Everything is made again of the export and the retained inputs, and compared.
VerifyAssessment(db, export, model, required) ==
    LET input    == db.input
        retained == ExportInventory(db, export)
        first    == StoreExport(export, db.receipt.payload.scope, db.receipt.payload.observed_at)
        initial  == [ExportInventory(first, export) EXCEPT !.checked = db.binding.checked]
        rebuilt  == RetainAssessment(first, input.findings, input.directory, input.as_of,
                                     input.assessed_at, export, model)
    IN  /\ ReadModel(db, model, required)
        /\ db.digests = <<input.findings, input.directory>>
        /\ retained # Rejected /\ first # Rejected
        /\ rebuilt # Rejected
        /\ db.binding = initial
        /\ retained = ExportInventory(rebuilt, export)

-----------------------------------------------------------------------------
(* An EC2 batch is read only together with its export, an assessment is one document *)

Prepare(export, context) == [context EXCEPT !.input = export.bytes, !.projection = export.payloads]

StoreEc2(export, context) ==
    IF export.payloads = {} THEN Rejected
    ELSE [context |-> Prepare(export, context), rows |-> Rows(export.payloads)]

ReproduceEc2(db, export) == db = StoreEc2(export, db.context)

BuildEc2(db, findings, directory, export, as_of, assessed, model) ==
    LET decisions == Plan(db.rows, findings, directory, as_of)
        observed  == db.context.observed_at
    IN  IF \/ ~ReproduceEc2(db, export)
           \/ assessed < observed
           \/ as_of < Day(observed) \/ Day(assessed) < as_of
           \/ decisions = Rejected
        THEN Rejected
        ELSE [model |-> model, as_of |-> as_of, assessed_at |-> assessed, discovery |-> db,
              findings |-> findings, directory |-> directory, decisions |-> decisions]

VerifyEc2Assessment(record, export, model) ==
    LET db == StoreEc2(export, record.discovery.context) IN
    /\ record.model = model
    /\ db # Rejected
    /\ record = BuildEc2(db, record.findings, record.directory, export,
                         record.as_of, record.assessed_at, model)

RetainEc2(db, findings, directory, export, as_of, assessed, model) ==
    LET record == BuildEc2(db, findings, directory, export, as_of, assessed, model) IN
    IF record = Rejected THEN Rejected
    ELSE IF VerifyEc2Assessment(record, export, model) THEN record ELSE Rejected

CompareAssessments(previous, current, export, model) ==
    LET of(record, id) == CHOOSE d \in record.decisions : d.id = id
        old == {d.id : d \in previous.decisions}
        new == {d.id : d \in current.decisions}
        common == old \cap new
    IN  IF \/ ~VerifyEc2Assessment(previous, export, model) \/ ~VerifyEc2Assessment(current, export, model)
           \/ previous.discovery # current.discovery
           \/ current.as_of < previous.as_of \/ current.assessed_at < previous.assessed_at
           \/ \E x \in common : of(previous, x).asset # of(current, x).asset
        THEN Rejected
        ELSE [added |-> new \ old, omitted |-> old \ new,
              changed |-> {x \in common : of(previous, x) # of(current, x)}]

-----------------------------------------------------------------------------
(* Properties *)

\* What retain_assessment makes, verify_assessment accepts as long as the model is the
\* same, and an accepted database is one that was made of that export with the inputs it
\* shows: whatever is altered afterwards, its rows, decisions, inputs, digests or model,
\* even together, is noticed or leaves a database that could have been retained.
OnlyWhatIsRetained(made, altered, export, model, required) ==
    LET first == StoreExport(export, altered.scope, altered.observed_at)
        input == altered.input
        again == RetainAssessment(first, input.findings, input.directory, input.as_of, input.assessed_at,
                                  IF altered.binding.checked THEN export ELSE None, model)
    IN  /\ made.model = model /\ made.receipt.payload.input = export.bytes =>
              VerifyAssessment(made, export, model, required)
        /\ VerifyAssessment(altered, export, model, required) =>
              /\ again # Rejected /\ altered = [again EXCEPT !.model = altered.model]
              /\ altered.model = model \/ (altered.model = None /\ ~required)

\* The same of an EC2 receipt (_verified), and two that are accepted can be compared only
\* as reviews of one batch; added, omitted and common findings tell the whole difference.
ReceiptsCompare(previous, current, export, model) ==
    LET comparison == CompareAssessments(previous, current, export, model)
        ids(record) == {d.id : d \in record.decisions}
    IN  comparison # Rejected =>
          /\ previous.discovery = StoreEc2(export, current.discovery.context)
          /\ (ids(previous) \ comparison.omitted) \cup comparison.added = ids(current)
          /\ comparison.added = {} /\ comparison.omitted = {} /\ comparison.changed = {}
               <=> previous.decisions = current.decisions

\* A review bound to its batch is accepted for that batch only, down to every payload and
\* decision, where the summary alone would pass others; and two batches that compare with
\* no addition, loss or change hold the same rows.
ReviewsNameOneBatch(base, current, export, bind) ==
    LET inventory  == ExportInventory(base, export)
        record     == ReviewRecord(inventory, 5, bind)
        comparison == CompareInventories(base, current)
    IN  /\ inventory # Rejected => VerifyReview(base, record, export, bind)
        /\ inventory # Rejected /\ VerifyReview(current, record, export, TRUE) =>
              ExportInventory(current, export) = inventory
        /\ comparison # Rejected =>
              (comparison.added = {} /\ comparison.not_observed = {} /\ comparison.changed = {}
                 <=> base.rows = current.rows)
=============================================================================
