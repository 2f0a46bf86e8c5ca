----------------------------- MODULE EvidenceStore -----------------------------
(***************************************************************************)
(* The SQLite evidence database: EvidenceRepository of repository.py       *)
(* writes it, EvidenceReader of evidence_reader.py reads it, schema.sql    *)
(* constrains it.  Each writer and reader has a connection of its own.     *)
(*                                                                         *)
(* A call is a record with op "inventory", "bundle" or "assess" and its    *)
(* items, a sequence of records with the fields of EvidenceBundle that the *)
(* constraints and properties tell apart:                                  *)
(*   asset, keys (the claims, by source and record), observed (when),      *)
(*   finding, decision, plan (identifiers), version, created (when).       *)
(* All calls have passed validate().                                       *)
(*                                                                         *)
(* SQLite (external, as the connections use it): a statement sees what is  *)
(* committed and what its own transaction did; the first INSERT begins a   *)
(* transaction and takes the only write lock; SELECT takes none.  Python's *)
(* sqlite3 begins no transaction before a SELECT.                          *)
(***************************************************************************)
EXTENDS Naturals, Sequences

CONSTANTS
  Writers,       \* processes that make one repository call each
  Readers,       \* processes that read one snapshot each
  Calls,         \* the calls the writers may make
  AssetOf,       \* AssetOf[r]: the asset reader r asks for
  Strict,        \* the readers that call read_asset, the others read_inventory
  None           \* no lock, no result

ASSUME NoneAssumption == None \notin Writers \cup {"stored", "failed", "read"}
ASSUME StrictAssumption == Strict \subseteq Readers /\ Writers \cap Readers = {}

\* store_inventory refuses an empty batch; an empty tuple of assessments does nothing.
ASSUME CallsAssumption ==
  \A c \in Calls : /\ c.op \in {"inventory", "bundle", "assess"}
                   /\ Len(c.items) \in Nat \ {0}
                   /\ DOMAIN c.items = 1..Len(c.items)

\* "inventory must retain source observations"; validate() asks the same of a bundle.
ASSUME ClaimsAssumption ==
  \A c \in Calls : \A i \in DOMAIN c.items : c.items[i].keys # {}

VARIABLES
  db,      \* the committed rows, by table
  work,    \* the rows as the transaction under way sees them
  lock,    \* the writer whose transaction is under way
  call,    \* call[w]: the call writer w makes
  pc,      \* pc[w]: the next statement of writer w
  item,    \* item[w]: the item of the call writer w is at
  next,    \* next[r]: which table reader r selects from next
  snap,    \* snap[r]: the rows reader r has fetched, by table
  result   \* result[x]: how the call of x ended

reading == <<next, snap>>
vars == <<db, work, lock, call, pc, item, reading, result>>

\* The tables, in the order EvidenceReader selects from them.
Tables == <<"assets", "observations", "findings", "decisions", "plans">>

\* Mutant: plans before findings.
TablesPlansFirst == <<"assets", "observations", "plans", "decisions", "findings">>

ReadOrder == Tables

\* The tables whose rows no trigger lets anybody change or remove.
Appended == {"observations", "findings", "decisions", "plans"}
Empty == [assets |-> {}, observations |-> {}, findings |-> {}, decisions |-> {}, plans |-> {}]

-------------------------------------------------------------------------------
(* Rows.                                                                   *)

ObservationRows(b) == {[asset |-> b.asset, key |-> k, at |-> b.observed] : k \in b.keys}
FindingRow(b) == [finding |-> b.finding, asset |-> b.asset]
DecisionRow(b) == [decision |-> b.decision, asset |-> b.asset]
PlanRow(b) == [plan |-> b.plan, finding |-> b.finding, version |-> b.version]

\* Timestamps are compared as text.  Times count half seconds: an even time is
\* written "...:05Z", the odd one after it "...:05.500000Z", and '.' sorts before 'Z'.
TextLeq(s, t) ==
  \/ s \div 2 < t \div 2
  \/ s \div 2 = t \div 2 /\ s % 2 >= t % 2

HasAsset(d, a) == \E row \in d.assets : row.asset = a
RetainedOf(d, a) == {o \in d.observations : o.asset = a}

\* Mutant: INSERT OR REPLACE.
UpsertReplaces(d, b) ==
  [d EXCEPT !.assets = {row \in @ : row.asset # b.asset}
                       \cup {[asset |-> b.asset, created |-> b.created, updated |-> b.created]}]

\* INSERT ... ON CONFLICT(asset_id) DO UPDATE.
Upsert(d, b) ==
  IF HasAsset(d, b.asset)
  THEN [d EXCEPT !.assets = {IF row.asset = b.asset THEN [row EXCEPT !.updated = b.created]
                             ELSE row : row \in @}]
  ELSE [d EXCEPT !.assets = @ \cup {[asset |-> b.asset, created |-> b.created,
                                     updated |-> b.created]}]

\* CHECK (updated_at >= created_at)
UpsertAllowed(d, b) == \A row \in d.assets : row.asset = b.asset => TextLeq(row.created, b.created)

\* PRIMARY KEY, UNIQUE and REFERENCES of the other tables.
ObservationsAllowed(d, b) ==
  HasAsset(d, b.asset) /\ \A row \in d.observations : row.key \notin b.keys
FindingAllowed(d, b) ==
  HasAsset(d, b.asset) /\ \A row \in d.findings : row.finding # b.finding
DecisionAllowed(d, b) ==
  HasAsset(d, b.asset) /\ \A row \in d.decisions : row.decision # b.decision
PlanAllowed(d, b) ==
  /\ \E row \in d.findings : row.finding = b.finding
  /\ \A row \in d.plans :
       row.plan # b.plan /\ (row.finding = b.finding => row.version # b.version)

-------------------------------------------------------------------------------
Init ==
  /\ db = Empty /\ work = Empty /\ lock = None
  /\ call \in [Writers -> Calls]
  /\ pc = [w \in Writers |-> "begin"]
  /\ item = [w \in Writers |-> 1]
  /\ next = [r \in Readers |-> 1]
  /\ snap = [r \in Readers |-> Empty]
  /\ result = [x \in Writers \cup Readers |-> None]

Now(w) == call[w].items[item[w]]
Seen(w) == IF lock = w THEN work ELSE db
Goto(w, label) == pc' = [pc EXCEPT ![w] = label]
End(x, how) == result' = [result EXCEPT ![x] = how]

First(w) == IF call[w].op = "assess" THEN "select" ELSE "asset"

Begin(w) ==
  /\ pc[w] = "begin"
  /\ Goto(w, First(w))
  /\ UNCHANGED <<db, work, lock, call, item, reading, result>>

\* An INSERT of w succeeds and leaves d; the first one takes the lock.
Inserted(w, d) ==
  /\ lock \in {None, w} /\ lock' = w
  /\ work' = d
  /\ UNCHANGED <<db, call, reading, result>>

NextItem(w) ==
  IF item[w] < Len(call[w].items)
  THEN item' = [item EXCEPT ![w] = @ + 1] /\ Goto(w, First(w))
  ELSE UNCHANGED item /\ Goto(w, "commit")

\* store_inventory inserts a new asset, store_bundle may update the one it has.
AssetAllowed(w) ==
  IF call[w].op = "inventory" THEN ~HasAsset(Seen(w), Now(w).asset)
  ELSE UpsertAllowed(Seen(w), Now(w))

InsertAsset(w) ==
  /\ pc[w] = "asset" /\ AssetAllowed(w)
  /\ Inserted(w, Upsert(Seen(w), Now(w)))
  /\ Goto(w, "observations") /\ UNCHANGED item

InsertObservations(w) ==
  /\ pc[w] = "observations" /\ ObservationsAllowed(Seen(w), Now(w))
  /\ Inserted(w, [Seen(w) EXCEPT !.observations = @ \cup ObservationRows(Now(w))])
  /\ IF call[w].op = "inventory" THEN NextItem(w) ELSE Goto(w, "finding") /\ UNCHANGED item

\* Mutant: the retained observations are not compared.
SelectUnchecked(w) ==
  /\ pc[w] = "select"
  /\ Goto(w, "finding")
  /\ UNCHANGED <<db, work, lock, call, item, reading, result>>

\* store_assessments compares the retained observations, in the transaction for the
\* second item and later, before it for the first.
SelectObservations(w) ==
  /\ pc[w] = "select"
  /\ RetainedOf(Seen(w), Now(w).asset) = ObservationRows(Now(w))
  /\ Goto(w, "finding")
  /\ UNCHANGED <<db, work, lock, call, item, reading, result>>

\* Mutant: the statement is committed at once.
InsertFindingCommits(w) ==
  /\ pc[w] = "finding" /\ FindingAllowed(Seen(w), Now(w))
  /\ lock \in {None, w} /\ lock' = w
  /\ work' = [Seen(w) EXCEPT !.findings = @ \cup {FindingRow(Now(w))}]
  /\ db' = work'
  /\ Goto(w, "decision")
  /\ UNCHANGED <<call, item, reading, result>>

InsertFinding(w) ==
  /\ pc[w] = "finding" /\ FindingAllowed(Seen(w), Now(w))
  /\ Inserted(w, [Seen(w) EXCEPT !.findings = @ \cup {FindingRow(Now(w))}])
  /\ Goto(w, "decision") /\ UNCHANGED item

InsertDecision(w) ==
  /\ pc[w] = "decision" /\ DecisionAllowed(Seen(w), Now(w))
  /\ Inserted(w, [Seen(w) EXCEPT !.decisions = @ \cup {DecisionRow(Now(w))}])
  /\ Goto(w, "plan") /\ UNCHANGED item

\* Mutant: INSERT OR IGNORE.
InsertPlanOrIgnore(w) ==
  /\ pc[w] = "plan"
  /\ Inserted(w, IF PlanAllowed(Seen(w), Now(w))
                 THEN [Seen(w) EXCEPT !.plans = @ \cup {PlanRow(Now(w))}] ELSE Seen(w))
  /\ NextItem(w)

InsertPlan(w) ==
  /\ pc[w] = "plan" /\ PlanAllowed(Seen(w), Now(w))
  /\ Inserted(w, [Seen(w) EXCEPT !.plans = @ \cup {PlanRow(Now(w))}])
  /\ NextItem(w)

Commit(w) ==
  /\ pc[w] = "commit"
  /\ db' = work /\ lock' = None
  /\ Goto(w, "done") /\ End(w, "stored")
  /\ UNCHANGED <<work, call, item, reading>>

\* A constraint, the comparison, a lock waited for too long, a full disk, a kill:
\* the transaction is rolled back.
Fail(w) ==
  /\ pc[w] \notin {"begin", "done"}
  /\ Goto(w, "done") /\ End(w, "failed")
  /\ IF lock = w THEN work' = db /\ lock' = None ELSE UNCHANGED <<work, lock>>
  /\ UNCHANGED <<db, call, item, reading>>

Write(w) ==
  \/ Begin(w) \/ InsertAsset(w) \/ InsertObservations(w) \/ SelectObservations(w)
  \/ InsertFinding(w) \/ InsertDecision(w) \/ InsertPlan(w) \/ Commit(w) \/ Fail(w)

-------------------------------------------------------------------------------
(* EvidenceReader._read_asset: one SELECT per table, each on its own.      *)

\* The plans are joined with the findings.
RowsFor(d, t, a) ==
  IF t = "plans"
  THEN {p \in d.plans : \E f \in d.findings : f.finding = p.finding /\ f.asset = a}
  ELSE {row \in d[t] : row.asset = a}

\* Mutant: the reader sees what is not committed.
SelectDirty(r) ==
  LET t == ReadOrder[next[r]]
      rows == RowsFor(work, t, AssetOf[r])
  IN /\ result[r] = None /\ next[r] <= Len(ReadOrder)
     /\ t = "assets" => rows # {}
     /\ snap' = [snap EXCEPT ![r] = [@ EXCEPT ![t] = rows]]
     /\ next' = [next EXCEPT ![r] = @ + 1]
     /\ UNCHANGED <<db, work, lock, call, pc, item, result>>

Select(r) ==
  LET t == ReadOrder[next[r]]
      rows == RowsFor(db, t, AssetOf[r])
  IN /\ result[r] = None /\ next[r] <= Len(ReadOrder)
     /\ t = "assets" => rows # {}
     /\ snap' = [snap EXCEPT ![r] = [@ EXCEPT ![t] = rows]]
     /\ next' = [next EXCEPT ![r] = @ + 1]
     /\ UNCHANGED <<db, work, lock, call, pc, item, result>>

Acceptable(r) ==
  LET s == snap[r] IN
  /\ s.observations # {}
  /\ r \in Strict => s.findings # {} /\ s.decisions # {} /\ s.plans # {}
  /\ \A p \in s.plans : \E f \in s.findings : f.finding = p.finding

Accept(r) ==
  /\ result[r] = None /\ next[r] > Len(ReadOrder)
  /\ Acceptable(r)
  /\ End(r, "read")
  /\ UNCHANGED <<db, work, lock, call, pc, item, reading>>

\* No such asset, a check that fails, a database that is locked.
Reject(r) ==
  /\ result[r] = None
  /\ End(r, "failed")
  /\ UNCHANGED <<db, work, lock, call, pc, item, reading>>

Read(r) == Select(r) \/ Accept(r) \/ Reject(r)

Next == (\E w \in Writers : Write(w)) \/ (\E r \in Readers : Read(r))

Spec == Init /\ [][Next]_vars

-------------------------------------------------------------------------------
Items == UNION {{c.items[i] : i \in DOMAIN c.items} : c \in Calls}
Moments == {b.created : b \in Items}
Stores ==
  [assets : SUBSET {[asset |-> b.asset, created |-> s, updated |-> t] :
                      b \in Items, s \in Moments, t \in Moments},
   observations : SUBSET UNION {ObservationRows(b) : b \in Items},
   findings : SUBSET {FindingRow(b) : b \in Items},
   decisions : SUBSET {DecisionRow(b) : b \in Items},
   plans : SUBSET {PlanRow(b) : b \in Items}]

\* Every variable holds a value of its kind; outside a transaction there is no working
\* copy that differs from the database.
TypeOK ==
  /\ db \in Stores /\ work \in Stores
  /\ lock \in Writers \cup {None}
  /\ lock = None => work = db
  /\ call \in [Writers -> Calls]
  /\ pc \in [Writers -> {"begin", "asset", "observations", "select", "finding", "decision",
                         "plan", "commit", "done"}]
  /\ item \in [Writers -> Nat \ {0}]
  /\ \A w \in Writers : item[w] <= Len(call[w].items)
  /\ next \in [Readers -> 1..(Len(Tables) + 1)]
  /\ snap \in [Readers -> Stores]
  /\ result \in [Writers \cup Readers -> {None, "stored", "failed", "read"}]

\* The lineage of docs/architecture.md: every asset has retained claims, every claim
\* belongs to one asset, every finding has its asset, a decision about that asset and a
\* plan, and every plan its finding.
EvidenceIsLinked ==
  /\ \A row \in db.assets : RetainedOf(db, row.asset) # {}
  /\ \A o1, o2 \in db.observations : o1.key = o2.key => o1 = o2
  /\ \A row \in db.observations \cup db.decisions : HasAsset(db, row.asset)
  /\ \A f \in db.findings :
       /\ HasAsset(db, f.asset) /\ \E row \in db.decisions : row.asset = f.asset
       /\ \E p \in db.plans : p.finding = f.finding
  /\ \A p \in db.plans : \E f \in db.findings : f.finding = p.finding

\* w is at the finding of a correction: the finding is retained as it is, the decision is
\* new, and so is the version of the plan (UNIQUE (finding_id, plan_version)).
Corrects(w) ==
  /\ pc[w] = "finding" /\ lock \in {None, w}
  /\ FindingRow(Now(w)) \in Seen(w).findings
  /\ DecisionAllowed(Seen(w), Now(w)) /\ PlanAllowed(Seen(w), Now(w))

\* "Corrections require a new evidence identifier or plan version" (docs/architecture.md):
\* the plan of a retained finding can be corrected by a new version of it.
\* But _store_decisions inserts the finding again, which its primary key refuses, so this
\* does not hold.
NewVersionIsAccepted ==
  \A w \in Writers : Corrects(w) => ENABLED InsertFinding(w)

\* An asset is updated, never removed or given another creation time.
KeepsAssets(d, e) ==
  \A row \in d.assets : \E new \in e.assets : new.asset = row.asset /\ new.created = row.created

AssetsAreKept == [][KeepsAssets(db, db')]_vars

\* What a reader has fetched of the append-only tables is committed, now and later.
SnapshotIsGrounded ==
  \A r \in Readers, t \in Appended :
    snap[r][t] \subseteq db[t]

\* Although a snapshot is read in five steps, a finding in it comes with its plan and a
\* decision, and an observation with the finding of its bundle: the later SELECTs see at
\* least the commits the earlier ones saw.
SnapshotFollowsLineage ==
  \A r \in Readers : result[r] = "read" =>
    /\ \A f \in snap[r].findings : \E p \in snap[r].plans : p.finding = f.finding
    /\ snap[r].findings # {} => snap[r].decisions # {}
    /\ \A w \in Writers : (result[w] = "stored" /\ call[w].op = "bundle") =>
         LET b == call[w].items[1] IN
         ObservationRows(b) \cap snap[r].observations # {} => FindingRow(b) \in snap[r].findings

\* "Missing observations, findings, ownership decisions, or remediation plans fail rather
\* than producing a partial asset view": a bundle is in a snapshot with all its rows or
\* with none.  A bundle committed between two SELECTs is there without its observations.
SnapshotIsWhole ==
  \A r \in Readers, w \in Writers :
    (result[r] = "read" /\ result[w] = "stored" /\ call[w].op = "bundle") =>
      LET b == call[w].items[1] IN
      FindingRow(b) \in snap[r].findings => ObservationRows(b) \subseteq snap[r].observations

\* Retained(w, i): when the assessment of w is committed, the claims retained for its
\* item i are those it was made from.
Retained(w, i) ==
  LET b == call[w].items[i] IN RetainedOf(db', b.asset) = ObservationRows(b)
Assesses(w) == call[w].op = "assess" /\ result[w] # "stored" /\ result'[w] = "stored"

\* This holds for the items that are compared inside the transaction ...
LaterItemsMatch ==
  [][\A w \in Writers : Assesses(w) =>
       \A i \in 2..Len(call[w].items) : Retained(w, i)]_vars

\* ... but the first SELECT precedes it: "assessment must match retained discovery
\* observations" (repository.py) can fail for the first item, so this does not hold.
AssessmentsMatch ==
  [][\A w \in Writers : Assesses(w) =>
       \A i \in 1..Len(call[w].items) : Retained(w, i)]_vars

-------------------------------------------------------------------------------
(* Each call appends all its rows at once or none, and they stay.          *)

\* What item b of a call adds to table t.
AddedBy(op, t, b) ==
  IF t = "observations" THEN IF op = "assess" THEN {} ELSE ObservationRows(b)
  ELSE IF op = "inventory" THEN {}
  ELSE IF t = "findings" THEN {FindingRow(b)}
  ELSE IF t = "decisions" THEN {DecisionRow(b)}
  ELSE {PlanRow(b)}

CallRows(c) ==
  UNION {{t} \X UNION {AddedBy(c.op, t, c.items[i]) : i \in DOMAIN c.items} : t \in Appended}

Ledger == INSTANCE EvidenceLedger WITH
  RowsOf <- CallRows,
  rows <- UNION {{t} \X db[t] : t \in Appended},
  outcome <- [w \in Writers |-> result[w]]
ImplementsLedger == Ledger!Spec

-------------------------------------------------------------------------------
(* Why these hold: what the transaction under way has done.                *)

\* The steps at which the item a writer is at is already in table t.
After ==
  [t \in Appended |->
     CASE t = "observations" -> {"finding", "decision", "plan", "commit"}
       [] t = "findings" -> {"decision", "plan", "commit"}
       [] t = "decisions" -> {"plan", "commit"}
       [] t = "plans" -> {"commit"}]

\* Item i of the call of w is in table t of the working copy.
Behind(w, t, i) == i < item[w] \/ (i = item[w] /\ pc[w] \in After[t])

\* The steps a call goes through.
StepsOf(op) ==
  {"begin", "commit", "done"} \cup
  (CASE op = "inventory" -> {"asset", "observations"}
     [] op = "bundle" -> {"asset", "observations", "finding", "decision", "plan"}
     [] op = "assess" -> {"select", "finding", "decision", "plan"})

\* A writer without the lock has written nothing.
LockedWhenWriting ==
  \A w \in Writers :
    /\ pc[w] \in StepsOf(call[w].op)
    /\ lock = w => pc[w] \notin {"begin", "done"}
    /\ lock # w /\ pc[w] \notin {"begin", "done"} =>
         item[w] = 1 /\ pc[w] \in (IF call[w].op = "assess" THEN {"select", "finding"} ELSE {"asset"})
    /\ pc[w] = "begin" => item[w] = 1
    /\ pc[w] = "commit" => item[w] = Len(call[w].items)
    /\ pc[w] # "done" <=> result[w] = None

\* What the call of w has added to table t so far.
SoFar(w, t) ==
  UNION {AddedBy(call[w].op, t, call[w].items[i]) : i \in {j \in 1..Len(call[w].items) : Behind(w, t, j)}}

\* The working copy is the database and that, all of it new.
WorkIsCallSoFar ==
  \A w \in Writers, t \in Appended : lock = w =>
    work[t] = db[t] \cup SoFar(w, t) /\ SoFar(w, t) \cap db[t] = {}

StoreInvariant ==
  /\ LockedWhenWriting
  /\ WorkIsCallSoFar
  /\ KeepsAssets(db, work)
  /\ SnapshotIsGrounded

\* Lineage as a transaction has got with it: linked, but for an asset whose claims and a
\* finding whose decision and plan it has still to insert.
LinkedBut(d, assets, findings) ==
  /\ \A row \in d.assets : row.asset \in assets \/ RetainedOf(d, row.asset) # {}
  /\ \A o1, o2 \in d.observations : o1.key = o2.key => o1 = o2
  /\ \A row \in d.observations \cup d.decisions \cup d.findings : HasAsset(d, row.asset)
  /\ \A f, g \in d.findings : f.finding = g.finding => f = g
  /\ \A f \in d.findings : f.finding \in findings
                          \/ /\ \E row \in d.decisions : row.asset = f.asset
                             /\ \E p \in d.plans : p.finding = f.finding
  /\ \A p \in d.plans : \E f \in d.findings : f.finding = p.finding

AssetAt(w) == IF pc[w] = "observations" THEN {Now(w).asset} ELSE {}
FindingAt(w) == IF pc[w] \in {"decision", "plan"} THEN {Now(w).finding} ELSE {}

LinkedWithin ==
  /\ LinkedBut(db, {}, {})
  /\ \A w \in Writers : lock = w => LinkedBut(work, AssetAt(w), FindingAt(w))

\* What an assessment has compared inside its transaction nobody has changed since.
ComparedWithin ==
  \A w \in Writers : (lock = w /\ call[w].op = "assess") =>
    \A i \in 2..Len(call[w].items) : Behind(w, "observations", i) =>
      RetainedOf(work, call[w].items[i].asset) = ObservationRows(call[w].items[i])

\* The finding of a stored bundle is there.
StoredIsThere ==
  \A w \in Writers : (result[w] = "stored" /\ call[w].op = "bundle") =>
    FindingRow(call[w].items[1]) \in db.findings

\* What a reader at its k-th SELECT knows: what it fetched is of its asset; once it has
\* the findings (1..3), an observation has brought the finding of its bundle, decisions
\* (1..4) and plans (1..5) follow the findings.
ReadersFollow ==
  \A r \in Readers :
    /\ result[r] = "read" => next[r] > 5
    /\ \A row \in snap[r].observations \cup snap[r].findings : row.asset = AssetOf[r]
    /\ next[r] > 3 => \A w \in Writers : (result[w] = "stored" /\ call[w].op = "bundle") =>
         (ObservationRows(call[w].items[1]) \cap snap[r].observations # {}
            => FindingRow(call[w].items[1]) \in snap[r].findings)
    /\ next[r] > 4 => (snap[r].findings # {} => snap[r].decisions # {})
    /\ next[r] > 5 => \A f \in snap[r].findings : \E p \in snap[r].plans : p.finding = f.finding

LineageInvariant == LinkedWithin /\ ComparedWithin /\ StoredIsThere /\ ReadersFollow
===============================================================================
