--------------------------- MODULE DocumentProofs ---------------------------
(***************************************************************************)
(* The pure algorithms do what Documents says of them for every input that *)
(* the reading code lets through: batches, slots, findings, records,       *)
(* snapshots and keys of any number and any content.  Each property gets   *)
(* a lemma about one input, and then is invariant because every input that *)
(* is read is such an input.                                               *)
(***************************************************************************)
EXTENDS Documents, FiniteSetTheorems, WellFoundedInduction, TLAPS

(* Inputs *)

\* Whatever is read is an input that the reading code lets through.
LEMMA InputsAreOK == Spec => []InputOK
<1>1. Init => InputOK
  BY DEF Init, InputOK
<1>2. InputOK /\ [Read]_input => InputOK'
  <2>1. Read => InputOK'
    BY DEF Read
  <2>2. InputOK /\ UNCHANGED input => InputOK'
    <3> SUFFICES ASSUME InputOK, input' = input PROVE InputOK'
      OBVIOUS
    <3>1. (BatchesOK => BatchesOK') /\ (ObservationsOK => ObservationsOK') /\ (ExportOK => ExportOK')
      BY Zenon DEF BatchesOK, ObservationsOK, ExportOK
    <3>2. QueuesOK => QueuesOK'
      BY Zenon DEF QueuesOK
    <3>3. (UrgencyOK => UrgencyOK') /\ (DatesOK => DatesOK')
      BY Zenon DEF UrgencyOK, DatesOK
    <3>4. (SnapshotsOK => SnapshotsOK') /\ (ManifestOK => ManifestOK') /\ (CheckpointOK => CheckpointOK')
      BY Zenon DEF SnapshotsOK, ManifestOK, CheckpointOK
    <3>5. (AssessmentOK => AssessmentOK') /\ (ReceiptsOK => ReceiptsOK') /\ (ReviewOK => ReviewOK')
      BY Zenon DEF AssessmentOK, ReceiptsOK, ReviewOK
    <3> QED BY <3>1, <3>2, <3>3, <3>4, <3>5, Zenon DEF InputOK
  <2> QED BY <2>1, <2>2
<1> QED BY <1>1, <1>2, PTL DEF Spec

\* A result is neither the refusal to make one nor the lack of one.
Distinct ==
  /\ \A f, s : [fields |-> f, sections |-> s] # Rejected
  /\ \A k, a, s, h : [key_id |-> k, asset_id |-> a, snapshot |-> s, hmac |-> h] # Rejected
  /\ \A e : <<e>> # Null
  /\ \A r, c, s, d : [receipt |-> r, checked |-> c, rows |-> s, decisions |-> d] \notin {Rejected, None}
  /\ \A r, c, o, s, d : [receipt |-> r, scope |-> c, observed_at |-> o, rows |-> s, decisions |-> d] # Rejected
  /\ \A r, c, o, s, d, i, g, b, m :
        [receipt |-> r, scope |-> c, observed_at |-> o, rows |-> s, decisions |-> d, input |-> i,
         digests |-> g, binding |-> b, model |-> m] # Rejected
  /\ \A t, s, b : [reviewed_at |-> t, summary |-> s, batch |-> b] # Rejected
  /\ \A a, n, c, u, s :
        [added |-> a, not_observed |-> n, changes |-> c, unchanged |-> u, source_bytes_changed |-> s] # Rejected

-----------------------------------------------------------------------------
(* Scores, priorities and due dates *)

\* A function on 1..k is a list of length k.
LEMMA LenOf == ASSUME NEW k \in Nat, NEW s, DOMAIN s = 1..k, s = [i \in 1..k |-> s[i]] PROVE Len(s) = k
<1>1. s \in Seq({s[i] : i \in 1..k})
  OBVIOUS
<1> QED BY <1>1

\* The greater and the lesser of two numbers.
LEMMA MaxOfTwo == ASSUME NEW a \in Int, NEW b \in Int PROVE P!Max({a, b}) = IF a >= b THEN a ELSE b
<1> DEFINE m == IF a >= b THEN a ELSE b
<1>1. m \in {a, b} /\ \A y \in {a, b} : m >= y
  OBVIOUS
<1>2. \A x \in {a, b} : (\A y \in {a, b} : x >= y) => x = m
  OBVIOUS
<1> HIDE DEF m
<1>3. (CHOOSE x \in {a, b} : \A y \in {a, b} : x >= y) = m
  BY <1>1, <1>2
<1> QED BY <1>3 DEF P!Max, m

\* The same for the lesser.
LEMMA MinOfTwo == ASSUME NEW a \in Int, NEW b \in Int PROVE P!Min({a, b}) = IF a <= b THEN a ELSE b
<1> DEFINE m == IF a <= b THEN a ELSE b
<1>1. m \in {a, b} /\ \A y \in {a, b} : m <= y
  OBVIOUS
<1>2. \A x \in {a, b} : (\A y \in {a, b} : x <= y) => x = m
  OBVIOUS
<1> HIDE DEF m
<1>3. (CHOOSE x \in {a, b} : \A y \in {a, b} : x <= y) = m
  BY <1>1, <1>2
<1> QED BY <1>3 DEF P!Min, m

\* A clamped number is the number, or the end it lies beyond.
LEMMA ClampIs ==
  ASSUME NEW low \in Int, NEW high \in Int, low <= high, NEW n \in Int
  PROVE  P!Clamp(low, high, n) = IF n < low THEN low ELSE IF n > high THEN high ELSE n
BY MaxOfTwo, MinOfTwo DEF P!Clamp

\* A higher score is never in a band that is less urgent or has longer to wait.
LEMMA BandsAre ==
  ASSUME NEW s \in Int, NEW t \in Int, s <= t
  PROVE  /\ P!Band(s) \in {"critical", "high", "moderate", "low"}
         /\ P!BASE_PRIORITY[P!Band(s)] \in 0..3 /\ P!SLA_DAYS[P!Band(s)] \in 1..90
         /\ P!BASE_PRIORITY[P!Band(t)] <= P!BASE_PRIORITY[P!Band(s)]
         /\ P!SLA_DAYS[P!Band(t)] <= P!SLA_DAYS[P!Band(s)]
BY DEF P!Band, P!BASE_PRIORITY, P!SLA_DAYS

\* The score of a finding is the clamped sum of its points, and its band that of the score.
LEMMA ScoreOf ==
  ASSUME NEW f, FindingOK(f)
  PROVE  /\ P!ScoreFinding(f).score \in Int
         /\ P!ScoreFinding(f).band = P!Band(P!ScoreFinding(f).score)
         /\ {P!SEVERITY_POINTS[f.severity], P!EXPOSURE_POINTS[f.exposure],
             P!EXPLOIT_POINTS[f.exploit], P!CONTROL_POINTS[f.control]} \subseteq Int
         /\ P!ScoreFinding(f).score = P!Clamp(0, 100, P!SEVERITY_POINTS[f.severity] + P!EXPOSURE_POINTS[f.exposure]
                             + P!EXPLOIT_POINTS[f.exploit] + P!CONTROL_POINTS[f.control])
<1>1. {P!SEVERITY_POINTS[f.severity], P!EXPOSURE_POINTS[f.exposure],
             P!EXPLOIT_POINTS[f.exploit], P!CONTROL_POINTS[f.control]} \subseteq Int
  BY DEF FindingOK, P!SEVERITY_POINTS, P!EXPOSURE_POINTS, P!EXPLOIT_POINTS, P!CONTROL_POINTS
<1> QED BY <1>1, ClampIs DEF P!ScoreFinding

\* A plan that is not refused, for an integer day of opening and of review.
LEMMA PlanIs ==
  ASSUME NEW a, NEW s \in Int, a.band = P!Band(s), NEW owner, NEW opened \in Int, NEW as_of \in Int,
         NEW requested \in Int \cup {None}
  PROVE  LET sla  == opened + P!SLA_DAYS[P!Band(s)]
             due  == IF requested = None THEN sla ELSE IF sla <= requested THEN sla ELSE requested
             late == due < as_of
             n    == P!BASE_PRIORITY[P!Band(s)] + P!Shift(owner, late)
             plan == P!PlanRemediation(a, owner, opened, as_of, requested)
         IN  (opened > as_of \/ (requested # None /\ requested < opened)) \/
             /\ due \in Int
             /\ plan.due = due /\ plan.overdue = late
             /\ plan.priority = IF n < 0 THEN 0 ELSE IF n > 3 THEN 3 ELSE n
<1> DEFINE sla  == opened + P!SLA_DAYS[P!Band(s)]
           due  == IF requested = None THEN sla ELSE IF sla <= requested THEN sla ELSE requested
           late == due < as_of
           n    == P!BASE_PRIORITY[P!Band(s)] + P!Shift(owner, late)
           plan == P!PlanRemediation(a, owner, opened, as_of, requested)
<1>1. SUFFICES ASSUME ~(opened > as_of \/ (requested # None /\ requested < opened))
               PROVE  /\ due \in Int
                      /\ plan.due = due /\ plan.overdue = late
                      /\ plan.priority = IF n < 0 THEN 0 ELSE IF n > 3 THEN 3 ELSE n
  OBVIOUS
<1>2. P!BASE_PRIORITY[P!Band(s)] \in 0..3 /\ P!SLA_DAYS[P!Band(s)] \in 1..90
  BY BandsAre
<1>3. sla \in Int /\ due \in Int
  BY <1>2
<1>4. due = IF requested = None THEN sla ELSE P!Min({sla, requested})
  BY <1>3, MinOfTwo
<1>5. n \in Int
  BY <1>2 DEF P!Shift
<1>6. P!Clamp(0, 3, n) = IF n < 0 THEN 0 ELSE IF n > 3 THEN 3 ELSE n
  BY <1>5, ClampIs
<1>7. plan = [assessment |-> a, owner |-> owner, due |-> due, overdue |-> late, priority |-> P!Clamp(0, 3, n)]
  BY <1>1, <1>4 DEF P!PlanRemediation
<1> HIDE DEF sla, due, late, n, plan
<1> QED BY <1>3, <1>6, <1>7

\* Urgency only grows: for every finding that is as bad or worse in each factor, every owner
\* who is the same or missing and every later day, the priority is as high or higher, the
\* due date no later, and what was overdue stays so (score_finding and plan_remediation).
LEMMA UrgencyGrows == InputOK => UrgencyIsMonotone
<1>1. SUFFICES ASSUME input.kind = "urgency", UrgencyOK
               PROVE  P!NeverLessUrgent(input.milder, input.worse, input.owner, input.requested,
                                        input.as_of, input.later)
  BY DEF InputOK, UrgencyIsMonotone
<1> DEFINE m == input.milder
           w == input.worse
           requested == input.requested
           as_of == input.as_of
           later == input.later
           s == P!ScoreFinding(m).score
           t == P!ScoreFinding(w).score
           left == P!PlanRemediation(P!ScoreFinding(m), input.owner, 0, as_of, requested)
           right(o) == P!PlanRemediation(P!ScoreFinding(w), o, 0, later, requested)
<1>2. as_of \in Nat /\ later \in Nat /\ requested \in Nat \cup {None} /\ FindingOK(m) /\ FindingOK(w)
  BY <1>1 DEF UrgencyOK
<1> HIDE DEF m, w, requested, as_of, later, s, t, left, right
<1>3. SUFFICES ASSUME P!SEVERITY_POINTS[m.severity] <= P!SEVERITY_POINTS[w.severity],
                      P!EXPOSURE_POINTS[m.exposure] <= P!EXPOSURE_POINTS[w.exposure],
                      P!EXPLOIT_POINTS[m.exploit] <= P!EXPLOIT_POINTS[w.exploit],
                      P!CONTROL_POINTS[m.control] <= P!CONTROL_POINTS[w.control], as_of <= later,
                      NEW o \in {input.owner, None}
               PROVE  right(o).priority <= left.priority /\ right(o).due <= left.due
                      /\ (left.overdue => right(o).overdue)
  BY DEF P!NeverLessUrgent, m, w, requested, as_of, later, s, t, left, right
<1>4. s \in Int /\ t \in Int /\ s <= t /\ P!ScoreFinding(m).band = P!Band(s) /\ P!ScoreFinding(w).band = P!Band(t)
  <2> DEFINE a == P!SEVERITY_POINTS[m.severity] + P!EXPOSURE_POINTS[m.exposure]
                   + P!EXPLOIT_POINTS[m.exploit] + P!CONTROL_POINTS[m.control]
             b == P!SEVERITY_POINTS[w.severity] + P!EXPOSURE_POINTS[w.exposure]
                   + P!EXPLOIT_POINTS[w.exploit] + P!CONTROL_POINTS[w.control]
  <2>1. a \in Int /\ b \in Int /\ a <= b
    BY <1>2, <1>3, ScoreOf
  <2>2. s = P!Clamp(0, 100, a) /\ t = P!Clamp(0, 100, b)
    BY <1>2, ScoreOf DEF s, t
  <2> HIDE DEF a, b
  <2>3. s \in Int /\ t \in Int /\ s <= t
    BY <2>1, <2>2, ClampIs
  <2> QED BY <1>2, <2>3, ScoreOf DEF s, t
<1>5. /\ P!BASE_PRIORITY[P!Band(t)] <= P!BASE_PRIORITY[P!Band(s)]
      /\ P!SLA_DAYS[P!Band(t)] <= P!SLA_DAYS[P!Band(s)]
      /\ P!BASE_PRIORITY[P!Band(s)] \in 0..3 /\ P!BASE_PRIORITY[P!Band(t)] \in 0..3
      /\ P!SLA_DAYS[P!Band(s)] \in 1..90 /\ P!SLA_DAYS[P!Band(t)] \in 1..90
  BY <1>4, BandsAre
<1> DEFINE due(r) == IF requested = None THEN 0 + P!SLA_DAYS[P!Band(r)]
                     ELSE IF 0 + P!SLA_DAYS[P!Band(r)] <= requested THEN 0 + P!SLA_DAYS[P!Band(r)] ELSE requested
           n(r, owner, day) == P!BASE_PRIORITY[P!Band(r)] + P!Shift(owner, due(r) < day)
<1>6. /\ left.due = due(s) /\ left.overdue = (due(s) < as_of)
      /\ left.priority = IF n(s, input.owner, as_of) < 0 THEN 0
                         ELSE IF n(s, input.owner, as_of) > 3 THEN 3 ELSE n(s, input.owner, as_of)
  BY <1>2, <1>4, PlanIs DEF left
<1>7. /\ right(o).due = due(t) /\ right(o).overdue = (due(t) < later)
      /\ right(o).priority = IF n(t, o, later) < 0 THEN 0
                             ELSE IF n(t, o, later) > 3 THEN 3 ELSE n(t, o, later)
  <2> DEFINE plan == P!PlanRemediation(P!ScoreFinding(w), o, 0, later, requested)
  <2>1. right(o) = plan
    BY DEF right
  <2>2. ~(0 > later \/ (requested # None /\ requested < 0))
    BY <1>2
  <2>3. /\ plan.due = due(t) /\ plan.overdue = (due(t) < later)
        /\ plan.priority = IF n(t, o, later) < 0 THEN 0
                           ELSE IF n(t, o, later) > 3 THEN 3 ELSE n(t, o, later)
    BY <1>2, <1>4, <2>2, PlanIs
  <2> QED BY <2>1, <2>3
<1>8. due(t) <= due(s) /\ due(s) \in Int /\ due(t) \in Int
  BY <1>2, <1>5
<1>9. n(t, o, later) <= n(s, input.owner, as_of)
      /\ n(t, o, later) \in Int /\ n(s, input.owner, as_of) \in Int
  <2> HIDE DEF due
  <2>1. (due(s) < as_of) => (due(t) < later)
    BY <1>2, <1>3, <1>8
  <2>2. P!Shift(o, due(t) < later) <= P!Shift(input.owner, due(s) < as_of)
        /\ P!Shift(o, due(t) < later) \in Int /\ P!Shift(input.owner, due(s) < as_of) \in Int
    BY <1>3, <2>1 DEF P!Shift
  <2> QED BY <1>5, <2>2
<1> HIDE DEF due, n
<1>10. right(o).due <= left.due
  BY <1>6, <1>7, <1>8
<1>11. right(o).priority <= left.priority
  BY <1>6, <1>7, <1>9
<1>12. left.overdue => right(o).overdue
  <2>1. (due(s) < as_of) => (due(t) < later)
    BY <1>2, <1>3, <1>8
  <2> QED BY <1>6, <1>7, <2>1
<1> QED BY <1>10, <1>11, <1>12

\* The comparison of two review dates lists exactly the items that became overdue between
\* them, whatever the records and the directory: time alone changes nothing else.
LEMMA ChangesAreOverdue == InputOK => ChangesAreNewlyOverdue
<1>1. SUFFICES ASSUME input.kind = "dates", DatesOK
               PROVE  P!NewlyOverdue(input.assets, input.records, input.directory, input.as_of, input.baseline)
  BY DEF InputOK, ChangesAreNewlyOverdue
<1> DEFINE records == input.records
           as_of == input.as_of
           baseline == input.baseline
           directory == P!ReadDirectory(input.directory)
           result == P!PlanInventory(input.assets, records, input.directory, as_of, baseline)
           new(i) == P!QueueItem(records[i], directory, as_of)
           old(i) == P!QueueItem(records[i], directory, baseline)
           due(i) == new(i).plan.due
<1>2. PICK k \in Nat : DOMAIN records = 1..k
  BY <1>1 DEF DatesOK, IsList
<1>3. /\ \A i \in 1..k : records[i].opened \in Int /\ records[i].requested \in Int \cup {None}
      /\ as_of \in Int /\ baseline \in Int /\ baseline # None
  BY <1>1, <1>2 DEF DatesOK, IsList, RecordOK
<1> HIDE DEF records, as_of, baseline, directory, new, old, result
<1>4. ASSUME NEW i \in 1..k, NEW day \in Int, P!QueueItem(records[i], directory, day) # Rejected
      PROVE  \E owner :
               /\ P!QueueItem(records[i], directory, day).plan =
                    P!PlanRemediation(P!ScoreFinding(records[i].finding), owner, records[i].opened, day,
                                      records[i].requested)
               /\ owner = P!Resolve(directory, records[i].tags).team
               /\ P!QueueItem(records[i], directory, day).plan # Rejected
  BY <1>4 DEF P!QueueItem
<1>5. SUFFICES ASSUME result # Rejected
               PROVE  result.changes = {i \in 1..k : baseline <= due(i) /\ due(i) < as_of}
  <2>1. Len(records) = k
    BY <1>1, <1>2 DEF DatesOK, IsList, records
  <2> QED BY <2>1 DEF P!NewlyOverdue, records, as_of, baseline, directory, new, result
<1> DEFINE items == P!QueueItems(input.assets, records, directory, as_of)
<1>6. items # Rejected /\ baseline <= as_of
      /\ result.changes = P!PriorityComparison(records, items, directory, baseline)
      /\ P!PriorityComparison(records, items, directory, baseline) # Rejected
  BY <1>3, <1>5 DEF P!PlanInventory, result, directory
<1>7. /\ items = [i \in 1..k |-> new(i)]
      /\ \A i \in 1..k : new(i) # Rejected
  <2>1. Len(records) = k
    BY <1>1, <1>2 DEF DatesOK, IsList, records
  <2> QED BY <1>6, <2>1 DEF P!QueueItems, new
<1>8. Len(items) = k
  <2> HIDE DEF items
  <2> QED BY <1>7, LenOf
<1>9. /\ \A i \in 1..k : old(i) # Rejected
      /\ result.changes = {i \in 1..k : P!Moved(old(i).plan, items[i].plan)}
  <2> HIDE DEF items
  <2> QED BY <1>6, <1>8 DEF P!PriorityComparison, old
<1>10. ASSUME NEW i \in 1..k
       PROVE  P!Moved(old(i).plan, items[i].plan) <=> (baseline <= due(i) /\ due(i) < as_of)
  <2> DEFINE r == records[i]
             owner == P!Resolve(directory, r.tags).team
             a == P!ScoreFinding(r.finding)
             b == a.band
             plan(day) == P!PlanRemediation(a, owner, r.opened, day, r.requested)
             sla == r.opened + P!SLA_DAYS[b]
             d == IF r.requested = None THEN sla ELSE P!Min({sla, r.requested})
             priority(late) == P!Clamp(0, 3, P!BASE_PRIORITY[b] + P!Shift(owner, late))
  <2>1. items[i] = new(i)
    BY <1>7
  <2>2. /\ new(i).plan = plan(as_of) /\ plan(as_of) # Rejected
        /\ old(i).plan = plan(baseline) /\ plan(baseline) # Rejected
    BY <1>3, <1>4, <1>7, <1>9 DEF new, old
  <2>3. ASSUME NEW day \in Int, plan(day) # Rejected
        PROVE  /\ plan(day).due = d /\ plan(day).overdue = (d < day)
               /\ plan(day).priority = priority(d < day)
    BY <2>3 DEF P!PlanRemediation
  <2>4. d \in Int
    <3>1. b \in {"critical", "high", "moderate", "low"}
      BY DEF P!ScoreFinding, P!Band
    <3>2. sla \in Int
      BY <1>3, <3>1 DEF P!SLA_DAYS
    <3> QED BY <1>3, <3>2, MinOfTwo
  <2> HIDE DEF d, plan, priority
  <2>5. /\ due(i) = d /\ new(i).plan.overdue = (d < as_of) /\ new(i).plan.priority = priority(d < as_of)
        /\ old(i).plan.overdue = (d < baseline) /\ old(i).plan.priority = priority(d < baseline)
    BY <1>3, <2>2, <2>3
  <2>6. P!Moved(old(i).plan, items[i].plan) <=>
          (priority(d < baseline) # priority(d < as_of) \/ (d < baseline) # (d < as_of))
    BY <2>1, <2>5 DEF P!Moved
  <2>7. CASE (d < baseline) = (d < as_of)
    <3>1. priority(d < baseline) = priority(d < as_of)
      BY <2>7
    <3> QED BY <1>3, <2>4, <2>5, <2>6, <2>7, <3>1
  <2>8. CASE (d < baseline) # (d < as_of)
    BY <1>3, <1>6, <2>4, <2>5, <2>6, <2>8
  <2> QED BY <2>7, <2>8
<1> QED BY <1>9, <1>10

\* Of all findings, owners, requests and days, the urgency only grows.
THEOREM UrgencyOnlyGrows == Spec => []UrgencyIsMonotone
BY InputsAreOK, UrgencyGrows, PTL

\* Of all records and review dates, the changes are what became overdue between the dates.
THEOREM ChangesAreOverdueOnly == Spec => []ChangesAreNewlyOverdue
BY InputsAreOK, ChangesAreOverdue, PTL

-----------------------------------------------------------------------------
(* Manifests *)

\* A comparison is refused for the two snapshots' own faults or for their assets.
LEMMA ComparisonIs ==
  ASSUME Distinct, NEW b, NEW c
  PROVE  S!CompareSnapshots(b, c) = Rejected <=>
           \/ ~S!ValidateSnapshot(b) \/ ~S!ValidateSnapshot(c)
           \/ S!Strip(b.asset.asset_id) # S!Strip(c.asset.asset_id)
BY DEF S!CompareSnapshots, Distinct

\* A ring of one entry authorizes what its entry allows.
LEMMA RingOfOne ==
  ASSUME Distinct, NEW e, NEW key_id, NEW operation, NEW at
  PROVE  S!Authorize(<<e>>, key_id, operation, at) <=>
           /\ e.key_id = key_id /\ e.state \in {"active", "retired"} /\ e.activate < e.verify_until
           /\ S!Within(e, at) /\ (operation = "create" => e.state = "active")
<1>1. Len(<<e>>) = 1 /\ <<e>>[1] = e /\ <<e>> # <<>> /\ 1..1 = {1}
  OBVIOUS
<1>2. <<e>> # Null
  BY DEF Distinct
<1> DEFINE ring == <<e>>
<1> HIDE DEF ring
<1>3. S!Authorize(ring, key_id, operation, at) <=> S!AuthorizeKeyUse(ring, key_id, operation, at)
  BY <1>2 DEF S!Authorize, ring
<1>4. Len(ring) = 1 /\ ring[1] = e /\ ring # <<>>
  BY <1>1 DEF ring
<1>5. \A i \in 1..Len(ring) : i = 1
  BY <1>4
<1> QED BY <1>3, <1>4, <1>5 DEF S!AuthorizeKeyUse, ring

\* A manifest that was created verifies for the snapshot it was created of and for no
\* other, with its own key only, and through the whole window of the key even after it was
\* retired (create_manifest, verify_manifest): for any snapshots, keys and instants.
LEMMA ManifestsSeal == ASSUME Distinct, InputOK PROVE ManifestSealsOneSnapshot
<1>1. SUFFICES ASSUME input.kind = "manifest", ManifestOK
               PROVE  S!SealsOneSnapshot(input.snapshot, input.other, input.key, input.used, input.entry.key_id,
                                         input.entry, input.now, input.at, input.later)
  BY DEF InputOK, ManifestSealsOneSnapshot
<1> DEFINE s == input.snapshot
           o == input.other
           key == input.key
           used == input.used
           entry == input.entry
           id == entry.key_id
           now == input.now
           at == input.at
           later == input.later
           ring(state) == << [entry EXCEPT !.state = state] >>
           manifest == S!CreateManifest(s, key, id, ring(entry.state), at)
           expected == S!CreateManifest(o, used, id, Null, later)
<1>2. /\ entry \in [key_id : {id}, state : {entry.state}, activate : Int, verify_until : Int]
      /\ now \in {"active", "retired"} /\ at \in Int /\ later \in Int
  BY <1>1 DEF ManifestOK
<1> HIDE DEF s, o, key, used, entry, now, at, later, manifest, expected
<1>3. SUFFICES ASSUME manifest # Rejected
               PROVE  /\ entry.state = "active"
                      /\ S!VerifyManifest(o, manifest, used, id, ring(now), later)
                           <=> /\ S!Body(o) = S!Body(s) /\ S!ValidateSnapshot(o)
                               /\ used = key
                               /\ entry.activate <= later /\ later < entry.verify_until
  BY DEF S!SealsOneSnapshot, s, o, key, used, entry, now, at, later, manifest, expected
<1>4. /\ S!Authorize(ring(entry.state), id, "create", at) /\ S!CompareSnapshots(s, s) # Rejected
      /\ manifest = [key_id |-> id, asset_id |-> S!Strip(s.asset.asset_id), snapshot |-> s.digest,
                     hmac |-> <<key, S!Message(id, S!Strip(s.asset.asset_id), s.digest)>>]
  BY <1>3 DEF S!CreateManifest, manifest
<1>5. entry.state = "active" /\ entry.activate < entry.verify_until
  <2>1. [entry EXCEPT !.state = entry.state] = entry
    BY <1>2
  <2> QED BY <1>4, <2>1, RingOfOne
<1>6. S!ValidateSnapshot(s)
  BY <1>4, ComparisonIs
<1>7. S!Authorize(ring(now), id, "verify", later) <=> entry.activate <= later /\ later < entry.verify_until
  <2> DEFINE e == [entry EXCEPT !.state = now]
  <2>1. e.key_id = id /\ e.state = now /\ e.activate = entry.activate /\ e.verify_until = entry.verify_until
    BY <1>2
  <2> HIDE DEF e
  <2>2. S!Authorize(<<e>>, id, "verify", later) <=> entry.activate <= later /\ later < entry.verify_until
    BY <1>2, <1>5, <2>1, RingOfOne DEF S!Within
  <2> QED BY <2>2 DEF e
<1>8. expected # Rejected <=> S!ValidateSnapshot(o)
  BY ComparisonIs DEF S!CreateManifest, S!Authorize, expected, Distinct
<1>9. S!ValidateSnapshot(o) =>
        expected = [key_id |-> id, asset_id |-> S!Strip(o.asset.asset_id), snapshot |-> o.digest,
                    hmac |-> <<used, S!Message(id, S!Strip(o.asset.asset_id), o.digest)>>]
  BY ComparisonIs DEF S!CreateManifest, S!Authorize, expected
<1>10. ASSUME S!ValidateSnapshot(o)
       PROVE  (/\ manifest.hmac = expected.hmac /\ manifest.asset_id = expected.asset_id
               /\ manifest.snapshot = expected.snapshot)
                <=> used = key /\ S!Body(o) = S!Body(s)
  <2>1. o.digest = S!Body(o) /\ s.digest = S!Body(s)
    BY <1>6, <1>10 DEF S!ValidateSnapshot
  <2>2. S!Body(o) = S!Body(s) => S!Strip(o.asset.asset_id) = S!Strip(s.asset.asset_id)
    BY DEF S!Body
  <2>3. /\ manifest.asset_id = S!Strip(s.asset.asset_id) /\ manifest.snapshot = s.digest
        /\ manifest.hmac = <<key, S!Message(id, S!Strip(s.asset.asset_id), s.digest)>>
    BY <1>4
  <2>4. /\ expected.asset_id = S!Strip(o.asset.asset_id) /\ expected.snapshot = o.digest
        /\ expected.hmac = <<used, S!Message(id, S!Strip(o.asset.asset_id), o.digest)>>
    BY <1>9, <1>10
  <2> QED BY <2>1, <2>2, <2>3, <2>4
<1>11. S!VerifyManifest(o, manifest, used, id, ring(now), later) <=>
         /\ S!Authorize(ring(now), id, "verify", later)
         /\ expected # Rejected
         /\ manifest.hmac = expected.hmac /\ manifest.asset_id = expected.asset_id
         /\ manifest.snapshot = expected.snapshot
  <2>1. manifest.key_id = id
    BY <1>4
  <2> QED BY <2>1 DEF S!VerifyManifest, expected
<1> QED BY <1>5, <1>7, <1>8, <1>10, <1>11

\* Of all snapshots, keys and instants, a manifest seals its one snapshot.
THEOREM ManifestsSealOneSnapshot == ASSUME Distinct PROVE Spec => []ManifestSealsOneSnapshot
BY InputsAreOK, ManifestsSeal, PTL

-----------------------------------------------------------------------------
(* Comparing snapshots *)

\* Two sections tell no change exactly if they hold the same items.
LEMMA SectionsAgree ==
  ASSUME NEW b, NEW c,
         \A s \in {b, c} : /\ Len(s) \in Nat /\ DOMAIN s = 1..Len(s)
                          /\ \A i, j \in 1..Len(s) : i # j => S!Strip(s[i].id) # S!Strip(s[j].id)
  PROVE  (\A kind \in {"added", "removed", "modified"} : S!SectionChanges(b, c)[kind] = {})
            <=> S!ToSet(b) = S!ToSet(c)
<1> DEFINE ids(s) == {S!Strip(s[i].id) : i \in 1..Len(s)}
           item(x, s) == CHOOSE it \in S!ToSet(s) : S!Strip(it.id) = x
           changes == S!SectionChanges(b, c)
<1>1. \A s \in {b, c} : \A it : it \in S!ToSet(s) <=> \E i \in 1..Len(s) : it = s[i]
  BY DEF S!ToSet
<1>2. \A s \in {b, c} : \A it \in S!ToSet(s) : S!Strip(it.id) \in ids(s)
  BY <1>1
<1>3. ASSUME NEW s \in {b, c}, NEW it \in S!ToSet(s), NEW x, S!Strip(it.id) = x PROVE item(x, s) = it
  <2>1. \A jt \in S!ToSet(s) : S!Strip(jt.id) = x => jt = it
    BY <1>1, <1>3
  <2> QED BY <1>3, <2>1
<1>4. ASSUME NEW s \in {b, c}, NEW x \in ids(s) PROVE item(x, s) \in S!ToSet(s) /\ S!Strip(item(x, s).id) = x
  <2>1. PICK i \in 1..Len(s) : x = S!Strip(s[i].id)
    OBVIOUS
  <2>2. s[i] \in S!ToSet(s)
    BY <1>1
  <2> QED BY <1>3, <2>1, <2>2
<1>5. /\ changes.added = ids(c) \ ids(b) /\ changes.removed = ids(b) \ ids(c)
      /\ changes.modified = {x \in ids(b) \cap ids(c) : item(x, b) # item(x, c)}
  BY DEF S!SectionChanges
<1> HIDE DEF ids, item, changes
<1>6. ASSUME \A kind \in {"added", "removed", "modified"} : changes[kind] = {} PROVE S!ToSet(b) = S!ToSet(c)
  <2>1. ids(b) = ids(c) /\ \A x \in ids(b) : item(x, b) = item(x, c)
    BY <1>5, <1>6
  <2>2. ASSUME NEW it \in S!ToSet(b) PROVE it \in S!ToSet(c)
    BY <1>2, <1>3, <1>4, <2>1
  <2>3. ASSUME NEW it \in S!ToSet(c) PROVE it \in S!ToSet(b)
    BY <1>2, <1>3, <1>4, <2>1
  <2> QED BY <2>2, <2>3
<1>7. ASSUME S!ToSet(b) = S!ToSet(c) PROVE \A kind \in {"added", "removed", "modified"} : changes[kind] = {}
  <2>1. \A x : item(x, b) = item(x, c)
    BY <1>7 DEF item
  <2>2. \A x : x \in ids(b) => x \in ids(c)
    BY <1>2, <1>4, <1>7
  <2>3. \A x : x \in ids(c) => x \in ids(b)
    BY <1>2, <1>4, <1>7
  <2> QED BY <1>5, <2>1, <2>2, <2>3
<1> QED BY <1>6, <1>7 DEF changes

\* Comparing two sections the other way round swaps what was added and what was removed.
LEMMA SectionsSwap ==
  ASSUME NEW b, NEW c
  PROVE  /\ S!SectionChanges(b, c).added = S!SectionChanges(c, b).removed
         /\ S!SectionChanges(b, c).modified = S!SectionChanges(c, b).modified
<1> DEFINE ids(s) == {S!Strip(s[i].id) : i \in 1..Len(s)}
           item(x, s) == CHOOSE it \in S!ToSet(s) : S!Strip(it.id) = x
<1>1. \A r, s : /\ S!SectionChanges(r, s).added = ids(s) \ ids(r)
               /\ S!SectionChanges(r, s).removed = ids(r) \ ids(s)
               /\ S!SectionChanges(r, s).modified = {x \in ids(r) \cap ids(s) : item(x, r) # item(x, s)}
  BY DEF S!SectionChanges
<1> HIDE DEF ids, item
<1>2. {x \in ids(b) \cap ids(c) : item(x, b) # item(x, c)} = {x \in ids(c) \cap ids(b) : item(x, c) # item(x, b)}
  OBVIOUS
<1>3. S!SectionChanges(b, c).modified = {x \in ids(b) \cap ids(c) : item(x, b) # item(x, c)}
  BY <1>1
<1>4. S!SectionChanges(c, b).modified = {x \in ids(c) \cap ids(b) : item(x, c) # item(x, b)}
  BY <1>1
<1>5. S!SectionChanges(b, c).modified = S!SectionChanges(c, b).modified
  BY <1>2, <1>3, <1>4
<1>6. S!SectionChanges(b, c).added = S!SectionChanges(c, b).removed
  BY <1>1
<1> QED BY <1>5, <1>6

\* The values of an asset's fields that are not null.
Fields(a) == {<<f, a[f][1]>> : f \in {g \in DOMAIN a \ {"asset_id"} : a[g][1] # Null}}

\* A comparison tells no changed field exactly if the fields that are not null are the same.
LEMMA FieldsAgree ==
  ASSUME NEW b, NEW c
  PROVE  {f \in (DOMAIN b \cup DOMAIN c) \ {"asset_id"} : S!Field(b, f) # S!Field(c, f)} = {}
           <=> Fields(b) = Fields(c)
<1>1. \A a, f, v : <<f, v>> \in Fields(a) <=> f \in DOMAIN a /\ f # "asset_id" /\ a[f][1] # Null /\ v = a[f][1]
  BY DEF Fields
<1>2. \A a, q : q \in Fields(a) => \E f, v : q = <<f, v>>
  BY DEF Fields
<1>3. \A a, f, v : <<f, v>> \in Fields(a) <=> f # "asset_id" /\ S!Field(a, f) = v /\ v # Null
  <2> TAKE a, f, v
  <2>1. CASE f \in DOMAIN a
    <3>1. S!Field(a, f) = a[f][1]
      BY <2>1 DEF S!Field
    <3> QED BY <1>1, <2>1, <3>1
  <2>2. CASE f \notin DOMAIN a
    <3>1. S!Field(a, f) = Null
      BY <2>2 DEF S!Field
    <3> QED BY <1>1, <2>2, <3>1
  <2> QED BY <2>1, <2>2
<1>4. \A f : f \notin DOMAIN b \cup DOMAIN c => S!Field(b, f) = S!Field(c, f)
  BY DEF S!Field
<1>5. ASSUME \A f : f # "asset_id" => S!Field(b, f) = S!Field(c, f) PROVE Fields(b) = Fields(c)
  <2>1. \A f, v : <<f, v>> \in Fields(b) <=> <<f, v>> \in Fields(c)
    BY <1>3, <1>5
  <2>2. \A q : q \in Fields(b) <=> q \in Fields(c)
    BY <1>2, <2>1
  <2> QED BY <2>2
<1>6. ASSUME Fields(b) = Fields(c), NEW f, f # "asset_id" PROVE S!Field(b, f) = S!Field(c, f)
  <2>1. \A v : v # Null => (S!Field(b, f) = v <=> S!Field(c, f) = v)
    BY <1>3, <1>6
  <2> QED BY <2>1
<1>7. Fields(b) = Fields(c) <=> \A f : f # "asset_id" => S!Field(b, f) = S!Field(c, f)
  BY <1>5, <1>6
<1> QED BY <1>4, <1>7

\* A comparison says "unchanged" exactly of two snapshots with the same evidence, and one
\* that swaps the two tells the same changes the other way round (compare_snapshots).
LEMMA UnchangedIsSame == ASSUME Distinct, InputOK PROVE UnchangedMeansSameEvidence
<1>1. SUFFICES ASSUME input.kind = "snapshots", SnapshotsOK PROVE S!SameEvidence(input.base, input.current)
  BY DEF InputOK, UnchangedMeansSameEvidence
<1> DEFINE b == input.base
           c == input.current
           diff == S!CompareSnapshots(b, c)
           back == S!CompareSnapshots(c, b)
           names == DOMAIN b.sections
           Pairs(s) == {<<f, s.asset[f][1]>> : f \in {g \in DOMAIN s.asset \ {"asset_id"} : s.asset[g][1] # Null}}
           Items(s) == [name \in DOMAIN s.sections |-> S!ToSet(s.sections[name])]
           evidence(s) == [fields |-> Pairs(s), items |-> Items(s)]
<1>2. DOMAIN c.sections = names
      /\ \A s \in {b, c} : \A name \in names :
           Len(s.sections[name]) \in Nat /\ DOMAIN s.sections[name] = 1..Len(s.sections[name])
  BY <1>1 DEF SnapshotsOK, IsList
<1>3. diff = Rejected <=> back = Rejected
  BY ComparisonIs
<1>4. ASSUME diff # Rejected
      PROVE  /\ ~S!Changed(diff) <=> evidence(b) = evidence(c)
             /\ \A name \in DOMAIN diff.sections :
                   /\ diff.sections[name].added = back.sections[name].removed
                   /\ diff.sections[name].modified = back.sections[name].modified
  <2>1. /\ S!ValidateSnapshot(b) /\ S!ValidateSnapshot(c)
        /\ diff.fields = {f \in (DOMAIN b.asset \cup DOMAIN c.asset) \ {"asset_id"} :
                           S!Field(b.asset, f) # S!Field(c.asset, f)}
        /\ diff.sections = [name \in names |-> S!SectionChanges(b.sections[name], c.sections[name])]
    BY <1>4 DEF S!CompareSnapshots
  <2>2. back.sections = [name \in names |-> S!SectionChanges(c.sections[name], b.sections[name])]
    BY <1>2, <1>3, <1>4 DEF S!CompareSnapshots
  <2>3. diff.fields = {} <=> Pairs(b) = Pairs(c)
    <3>1. {f \in (DOMAIN b.asset \cup DOMAIN c.asset) \ {"asset_id"} :
             S!Field(b.asset, f) # S!Field(c.asset, f)} = {} <=> Fields(b.asset) = Fields(c.asset)
      BY FieldsAgree
    <3>2. \A s : Pairs(s) = Fields(s.asset)
      BY DEF Fields
    <3> HIDE DEF Pairs, diff
    <3> QED BY <2>1, <3>1, <3>2
  <2>4. ASSUME NEW name \in names
        PROVE  (\A kind \in {"added", "removed", "modified"} : diff.sections[name][kind] = {})
                 <=> S!ToSet(b.sections[name]) = S!ToSet(c.sections[name])
    <3>1. \A s \in {b.sections[name], c.sections[name]} :
             /\ Len(s) \in Nat /\ DOMAIN s = 1..Len(s)
             /\ \A i, j \in 1..Len(s) : i # j => S!Strip(s[i].id) # S!Strip(s[j].id)
      BY <1>2, <2>1 DEF S!ValidateSnapshot
    <3>2. diff.sections[name] = S!SectionChanges(b.sections[name], c.sections[name])
      BY <2>1
    <3> QED BY <3>1, <3>2, SectionsAgree
  <2>5. Items(b) = Items(c) <=> \A name \in names : S!ToSet(b.sections[name]) = S!ToSet(c.sections[name])
    BY <1>2
  <2>6. evidence(b) = evidence(c) <=> Pairs(b) = Pairs(c) /\ Items(b) = Items(c)
    <3> HIDE DEF Pairs, Items
    <3> QED OBVIOUS
  <2>7. DOMAIN diff.sections = names
    BY <2>1
  <2>8. ~S!Changed(diff) <=> evidence(b) = evidence(c)
    <3> HIDE DEF diff, Pairs, Items, evidence
    <3> QED BY <2>3, <2>4, <2>5, <2>6, <2>7 DEF S!Changed
  <2>9. \A name \in names : /\ diff.sections[name].added = back.sections[name].removed
                            /\ diff.sections[name].modified = back.sections[name].modified
    BY <2>1, <2>2, SectionsSwap
  <2> QED BY <2>7, <2>8, <2>9
<1> QED BY <1>3, <1>4 DEF S!SameEvidence

\* Of all snapshots, those that compare as unchanged hold the same evidence: the fields of
\* their assets have the same values to Python, and their items the same texts.
THEOREM UnchangedIsSameEvidence == ASSUME Distinct PROVE Spec => []UnchangedMeansSameEvidence
BY InputsAreOK, UnchangedIsSame, PTL

-----------------------------------------------------------------------------
(* Checkpoints and archives *)

\* Every nonempty set of naturals has a least element: finite sets are well-founded under
\* inclusion, and so are the intervals below the numbers.
LEMMA LeastElement ==
  ASSUME NEW T \in SUBSET Nat, T # {}
  PROVE  \E x \in T : \A y \in T : x <= y
<1> DEFINE U == {1..x : x \in T}
<1>1. U \subseteq FiniteSubsetsOf(Nat) /\ U # {}
  <2>1. \A x \in T : 1..x \subseteq Nat /\ IsFiniteSet(1..x)
    BY FS_Interval
  <2> QED BY <2>1 DEF FiniteSubsetsOf
<1>2. PICK u \in U : \A v \in U : ~(<<v, u>> \in StrictSubsetOrdering(Nat))
  BY <1>1, FS_StrictSubsetOrderingWellFounded, WFMin, Zenon
<1>3. PICK x \in T : u = 1..x
  BY Zenon
<1>4. ASSUME NEW y \in T, ~(x <= y) PROVE FALSE
  <2>1. 1..y \subseteq 1..x /\ 1..y # 1..x /\ 1..y \subseteq Nat /\ 1..x \subseteq Nat
    <3>1. x \in 1..x /\ x \notin 1..y
      BY <1>4
    <3> QED BY <1>4, <3>1
  <2>2. <<1..y, 1..x>> \in StrictSubsetOrdering(Nat)
    BY <2>1, Zenon DEF StrictSubsetOrdering
  <2> QED BY <1>2, <1>3, <2>2, Zenon
<1> QED BY <1>4

\* A timeline is made of ordered batches, and shows them.
LEMMA TimelineIs ==
  ASSUME NEW b, BuildTimeline(b) # Rejected
  PROVE  OrderedBatches(b) /\ BuildTimeline(b).batches = b
BY DEF BuildTimeline

\* Times that grow from each position to the next grow from each to every later one.
LEMMA TimesGrow ==
  ASSUME NEW n \in Nat, NEW t, \A i \in 1..n : t[i] \in Int, \A i \in 2..n : t[i] > t[i - 1],
         NEW i \in 1..n, NEW j \in 1..n, i < j
  PROVE  t[i] < t[j]
<1> DEFINE T == {k \in i+1..n : ~(t[i] < t[k])}
<1>1. SUFFICES ASSUME T # {} PROVE FALSE
  OBVIOUS
<1>2. T \in SUBSET Nat
  OBVIOUS
<1>3. PICK k \in T : \A y \in T : k <= y
  BY <1>1, <1>2, LeastElement
<1>4. k \in i+1..n /\ ~(t[i] < t[k])
  OBVIOUS
<1>5. t[k] > t[k - 1] /\ k - 1 \in i..n /\ t[k] \in Int /\ t[k - 1] \in Int /\ t[i] \in Int
  BY <1>4
<1>6. CASE k - 1 = i
  BY <1>4, <1>5, <1>6
<1>7. CASE k - 1 # i
  <2>1. k - 1 \in i+1..n /\ k - 1 \notin T
    BY <1>3, <1>4, <1>5, <1>7
  <2>2. t[i] < t[k - 1]
    BY <2>1
  <2> QED BY <1>4, <1>5, <2>2
<1> QED BY <1>6, <1>7

\* A list of times that grows, and one that has every time of another.
Growing(t, n) == (\A i \in 1..n : t[i] \in Int) /\ (\A i, j \in 1..n : i < j => t[i] < t[j])
Covers(u, m, t, n) == \A i \in 1..n : \E j \in 1..m : t[i] = u[j]

\* Of two growing lists of times with the same members, each position holds the same.
LEMMA SameTimes ==
  ASSUME NEW n \in Nat, NEW t, Growing(t, n), NEW m \in Nat, NEW u, Growing(u, m),
         Covers(u, m, t, n), Covers(t, n, u, m)
  PROVE  n = m /\ \A i \in 1..n : t[i] = u[i]
<1> USE DEF Growing, Covers
<1>1. \A k \in 1..n : k \in 1..m /\ t[k] = u[k]
  <2> DEFINE T == {k \in 1..n : ~(k \in 1..m /\ t[k] = u[k])}
  <2>1. SUFFICES ASSUME T # {} PROVE FALSE
    OBVIOUS
  <2>2. T \in SUBSET Nat
    OBVIOUS
  <2>3. PICK k \in T : \A y \in T : k <= y
    BY <2>1, <2>2, LeastElement
  <2>4. k \in 1..n /\ \A h \in 1..n : h < k => h \in 1..m /\ t[h] = u[h]
    BY <2>3
  <2>5. PICK j \in 1..m : t[k] = u[j]
    BY <2>4
  <2>6. j >= k
    <3>1. SUFFICES ASSUME j < k PROVE FALSE
      OBVIOUS
    <3>2. j \in 1..n /\ t[j] = u[j] /\ t[j] < t[k]
      BY <2>4, <3>1
    <3> QED BY <2>4, <2>5, <3>2
  <2>7. k \in 1..m /\ k # j /\ k < j /\ u[k] < u[j]
    <3>1. k \in 1..m
      BY <2>4, <2>6
    <3>2. k # j
      BY <2>3, <2>5, <3>1
    <3> QED BY <2>6, <3>1, <3>2
  <2>8. PICK i \in 1..n : u[k] = t[i]
    BY <2>7
  <2>9. t[i] < t[k]
    BY <2>5, <2>7, <2>8
  <2>10. i < k
    <3>1. SUFFICES ASSUME ~(i < k) PROVE FALSE
      OBVIOUS
    <3>2. i = k \/ (k < i /\ t[k] < t[i])
      BY <2>4, <3>1
    <3> QED BY <2>4, <2>9, <3>2
  <2>11. i \in 1..m /\ t[i] = u[i] /\ u[i] < u[k]
    BY <2>4, <2>7, <2>10
  <2> QED BY <2>7, <2>8, <2>11
<1>2. n <= m
  <2>1. CASE n = 0
    BY <2>1
  <2>2. CASE n # 0
    BY <1>1, <2>2
  <2> QED BY <2>1, <2>2
<1>3. ASSUME n < m PROVE FALSE
  <2>1. m \in 1..m
    BY <1>3
  <2>2. PICK i \in 1..n : u[m] = t[i]
    BY <2>1
  <2>3. t[i] = u[i] /\ i \in 1..m /\ i < m
    BY <1>1, <1>3
  <2> QED BY <2>1, <2>2, <2>3
<1> QED BY <1>1, <1>2, <1>3

\* The greatest of one number.
LEMMA MaxOfOne == ASSUME NEW a \in Int PROVE Max({a}) = a
<1>1. (CHOOSE x \in {a} : \A y \in {a} : x >= y) = a
  OBVIOUS
<1> QED BY <1>1 DEF Max

\* A checkpoint is satisfied by one sequence only: the batches expected, each with the
\* exact export, in order, none missing and none besides.  An archive of a sequence loads
\* again, and one that lost a batch does not (assess_sequence, create_archive, load_archive).
LEMMA SatisfiedOnlyExactly == InputOK => SatisfiedMeansExact
<1>1. SUFFICES ASSUME input.kind = "checkpoint", CheckpointOK
               PROVE  ExactWhenSatisfied(input.batches, input.checkpoint)
  BY DEF InputOK, SatisfiedMeansExact
<1> DEFINE b == input.batches
           checkpoint == input.checkpoint
           s == checkpoint.slots
           n == Len(b)
           m == Len(s)
           review == AssessSequence(b, checkpoint)
           archive == CreateArchive(b, checkpoint, "sources")
           Loads(a) == LoadArchive(a, a, checkpoint, "sources")
           supplied == [i \in 1..n |-> [observed_at |-> b[i].observed_at, input |-> b[i].input]]
<1>2. /\ n \in Nat /\ DOMAIN b = 1..n /\ \A i \in 1..n : b[i].observed_at \in Int
      /\ m \in Nat /\ DOMAIN s = 1..m
      /\ \A j \in 1..m : /\ s[j].observed_at \in Int
                         /\ s[j] = [observed_at |-> s[j].observed_at, input |-> s[j].input]
  BY <1>1 DEF CheckpointOK, IsList
<1>12. b = [i \in 1..n |-> b[i]] /\ s = [j \in 1..m |-> s[j]]
  BY <1>1 DEF CheckpointOK, IsList
<1> HIDE DEF b, checkpoint, n, m, review, archive
<1>3. SUFFICES ASSUME review # Rejected
               PROVE  /\ review.requirements_satisfied <=> supplied = s
                      /\ Loads(archive)
                      /\ \A i \in 1..n : ~Loads([archive EXCEPT !.batches = RemoveAt(@, i)])
  BY DEF ExactWhenSatisfied, b, checkpoint, n, m, review, archive
<1> DEFINE slots == [j \in 1..m |-> SlotStatus(s[j], b)]
           unexpected == {i \in 1..n : \A j \in 1..m : s[j].observed_at # b[i].observed_at}
<1>4. /\ ReadCheckpoint(checkpoint) /\ BuildTimeline(b) # Rejected
      /\ review.timeline = BuildTimeline(b)
      /\ review.requirements_satisfied <=> (\A j \in 1..m : SlotStatus(s[j], b) = "matched") /\ unexpected = {}
  BY <1>3 DEF AssessSequence, review, n, m
<1> HIDE DEF slots, unexpected, s
<1> DEFINE t == [i \in 1..n |-> b[i].observed_at]
           u == [j \in 1..m |-> s[j].observed_at]
<1>5. \A i, j \in 1..n : i < j => t[i] < t[j]
  <2>1. OrderedBatches(b)
    BY <1>4, TimelineIs
  <2>2. (\A i \in 1..n : t[i] \in Int) /\ (\A i \in 2..n : t[i] > t[i - 1])
    BY <1>2, <2>1 DEF OrderedBatches, n
  <2> HIDE DEF t
  <2> QED BY <1>2, <2>2, TimesGrow
<1>6. \A i, j \in 1..m : i < j => u[i] < u[j]
  <2>1. \A j \in 2..m : s[j].observed_at > s[j - 1].observed_at
    BY <1>4 DEF ReadCheckpoint, m, s
  <2>2. \A j \in 1..m : u[j] \in Int
    BY <1>2
  <2>3. \A j \in 2..m : u[j] > u[j - 1]
    BY <1>2, <2>1
  <2> HIDE DEF u
  <2> QED BY <1>2, <2>2, <2>3, TimesGrow
\* At the time of slot j there is no batch, or one.
<1>7. ASSUME NEW j \in 1..m
      PROVE  SlotStatus(s[j], b) = "matched" <=>
               \E i \in 1..n : t[i] = u[j] /\ b[i].input = s[j].input
  <2> DEFINE at == {i \in 1..n : b[i].observed_at = s[j].observed_at}
  <2>1. SlotStatus(s[j], b) = IF at = {} THEN "missing_batch"
                              ELSE IF b[Max(at)].input = s[j].input THEN "matched" ELSE "export_mismatch"
    BY DEF SlotStatus, n
  <2>2. CASE at = {}
    BY <2>1, <2>2
  <2>3. ASSUME NEW i \in at PROVE at = {i} /\ Max(at) = i
    <3>1. ASSUME NEW k \in at PROVE k = i
      <4>1. t[i] = t[k] /\ i \in 1..n /\ k \in 1..n /\ t[i] \in Int /\ t[k] \in Int
        BY <1>2, <2>3
      <4>2. ~(i < k) /\ ~(k < i)
        BY <1>5, <4>1
      <4> QED BY <4>1, <4>2
    <3>2. at = {i}
      BY <3>1
    <3> QED BY <3>2, MaxOfOne
  <2>4. CASE at # {}
    <3>1. PICK i \in at : TRUE
      BY <2>4
    <3>2. at = {i} /\ Max(at) = i
      BY <2>3
    <3>3. SlotStatus(s[j], b) = "matched" <=> b[i].input = s[j].input
      BY <2>1, <3>2
    <3>4. \A k \in 1..n : t[k] = u[j] <=> k = i
      BY <3>2
    <3> QED BY <3>3, <3>4
  <2> QED BY <2>2, <2>4
<1>8. review.requirements_satisfied <=> supplied = s
  <2>1. ASSUME review.requirements_satisfied PROVE supplied = s
    <3>1. \A j \in 1..m : \E i \in 1..n : t[i] = u[j] /\ b[i].input = s[j].input
      BY <1>4, <1>7, <2>1
    <3>2. \A i \in 1..n : \E j \in 1..m : t[i] = u[j]
      BY <1>4, <2>1 DEF unexpected
    <3>3. n = m /\ \A i \in 1..n : t[i] = u[i]
      <4>1. (\A i \in 1..n : t[i] \in Int) /\ (\A j \in 1..m : u[j] \in Int)
        BY <1>2
      <4>2. \A j \in 1..m : \E i \in 1..n : u[j] = t[i]
        BY <3>1
      <4>3. n \in Nat /\ m \in Nat
        BY <1>2
      <4>4. Growing(t, n)
        BY <1>5, <4>1 DEF Growing
      <4>5. Growing(u, m)
        BY <1>6, <4>1 DEF Growing
      <4>6. Covers(u, m, t, n)
        BY <3>2 DEF Covers
      <4>7. Covers(t, n, u, m)
        BY <4>2 DEF Covers
      <4> HIDE DEF t, u
      <4> QED BY <4>3, <4>4, <4>5, <4>6, <4>7, SameTimes
    <3>4. ASSUME NEW j \in 1..m PROVE supplied[j] = s[j]
      <4>1. PICK i \in 1..n : t[i] = u[j] /\ b[i].input = s[j].input
        BY <3>1
      <4>2. i = j
        <5>1. t[i] = t[j] /\ j \in 1..n /\ t[i] \in Int
          BY <1>2, <3>3, <4>1
        <5> QED BY <1>2, <1>5, <5>1
      <4>3. b[j].observed_at = s[j].observed_at /\ b[j].input = s[j].input /\ j \in 1..n
        BY <3>3, <4>1, <4>2
      <4> QED BY <1>2, <4>3
    <3> QED BY <1>12, <3>3, <3>4
  <2>2. ASSUME supplied = s PROVE review.requirements_satisfied
    <3>1. n = m
      BY <1>2, <2>2
    <3>2. \A i \in 1..n : b[i].observed_at = s[i].observed_at /\ b[i].input = s[i].input
      BY <2>2
    <3>3. \A j \in 1..m : SlotStatus(s[j], b) = "matched"
      BY <1>7, <3>1, <3>2
    <3>4. unexpected = {}
      BY <3>1, <3>2 DEF unexpected
    <3> QED BY <1>4, <3>3, <3>4
  <2> QED BY <2>1, <2>2
<1>9. archive = [batches |-> b, checkpoint |-> checkpoint, coverage |-> review, sources |-> "sources"]
  BY <1>3 DEF CreateArchive, archive, review
<1>10. Loads(archive)
  BY <1>3, <1>9 DEF LoadArchive, review
<1>11. ASSUME NEW i \in 1..n, Loads([archive EXCEPT !.batches = RemoveAt(@, i)]) PROVE FALSE
  <2> DEFINE lost == RemoveAt(b, i)
             less == AssessSequence(lost, checkpoint)
  <2>1. less # Rejected /\ review = less
    BY <1>9, <1>11 DEF LoadArchive
  <2>2. BuildTimeline(lost) # Rejected /\ less.timeline = BuildTimeline(lost)
    BY <2>1 DEF AssessSequence
  <2>3. BuildTimeline(lost).batches = lost /\ BuildTimeline(b).batches = b
    BY <1>4, <2>2, TimelineIs
  <2>4. lost = b
    BY <1>4, <2>1, <2>2, <2>3
  <2>5. Len(lost) = n - 1
    <3> DEFINE before == SubSeq(b, 1, i - 1)
               after == SubSeq(b, i + 1, Len(b))
               AnyBatch == {b[k] : k \in 1..n}
    <3>1. b \in Seq(AnyBatch) /\ Len(b) = n /\ i \in 1..n /\ n \in Nat
      <4>1. [k \in 1..n |-> b[k]] \in Seq(AnyBatch)
        BY <1>2
      <4> QED BY <1>2, <1>12, <4>1 DEF n
    <3> HIDE DEF AnyBatch
    <3>2. before \in Seq(AnyBatch) /\ Len(before) = i - 1
      BY <3>1
    <3>3. after \in Seq(AnyBatch) /\ Len(after) = n - i
      BY <3>1
    <3>4. lost = before \o after
      BY <3>1 DEF RemoveAt
    <3> HIDE DEF before, after, lost
    <3>5. Len(before \o after) = Len(before) + Len(after)
      BY <3>2, <3>3
    <3>6. (i - 1) + (n - i) = n - 1
      BY <3>1
    <3> QED BY <3>2, <3>3, <3>4, <3>5, <3>6
  <2> QED BY <1>2, <2>4, <2>5 DEF n
<1> QED BY <1>8, <1>10, <1>11

\* Of all batches and checkpoints, only the exact sequence satisfies, and archives load whole.
THEOREM SatisfiedIsExact == Spec => []SatisfiedMeansExact
BY InputsAreOK, SatisfiedOnlyExactly, PTL

-----------------------------------------------------------------------------
(* Timelines: what the loop has made of the first n batches *)

Earlier(b, i, x) == {j \in 1..i-1 : x \in Observed(b[j])}
Seen(b, n) == UNION {Observed(b[j]) : j \in 1..n}
Latest(b, i, x) == [sequence |-> Max(Earlier(b, i, x)), claims |-> b[Max(Earlier(b, i, x))].claims[x]]
Beside(b, i) == IF i = 1 THEN {} ELSE Observed(b[i - 1])

\* The step of batch i in closed form: the batches before it tell an asset's status.
StatusAt(b, i, x) ==
  IF x \notin Observed(b[i]) THEN "not_observed"
  ELSE IF Earlier(b, i, x) = {} THEN "first_observed"
  ELSE IF x \notin Beside(b, i) THEN "observed_again"
  ELSE IF ChangedFields(b[i - 1].claims[x], b[i].claims[x]) # {} THEN "changed" ELSE "unchanged"
StepAt(b, i) ==
  [x \in Observed(b[i]) \cup Beside(b, i) |->
     [status |-> StatusAt(b, i, x),
      previous_observation |-> IF Earlier(b, i, x) = {} THEN Absent ELSE Latest(b, i, x)]]

Start == [steps |-> <<>>, totals |-> [s \in STATUSES |-> 0], previous |-> {}, last |-> <<>>]
Loop(run, b, n) == run = [k \in 0..n |-> IF k = 0 THEN Start ELSE Step(run[k - 1], b[k])]

\* The inductive invariant of the loop: the steps so far, and every asset's latest batch.
Reached(acc, b, n) ==
  /\ acc.steps = [i \in 1..n |-> StepAt(b, i)]
  /\ acc.previous = Beside(b, n + 1)
  /\ acc.last = [x \in Seen(b, n) |-> Latest(b, n + 1, x)]

\* The invariant of the totals: each asset came first once, and went as often as it came
\* again, but for those of the last batch.
Counted(acc, b, n) ==
  /\ \A s \in STATUSES : acc.totals[s] \in Nat
  /\ IsFiniteSet(Seen(b, n)) /\ acc.totals["first_observed"] = Cardinality(Seen(b, n))
  /\ Cardinality(Beside(b, n + 1)) + acc.totals["not_observed"]
       = acc.totals["first_observed"] + acc.totals["observed_again"]

\* A list of batches of finitely many assets each.
Batches(b, n) ==
  /\ n \in Nat /\ Len(b) = n /\ DOMAIN b = 1..n
  /\ \A i \in 1..n : IsFiniteSet(Observed(b[i]))

\* There is a function that the recursion of the loop defines.
LEMMA LoopExists == ASSUME NEW b, NEW N \in Nat PROVE \E run : Loop(run, b, N)
<1> DEFINE T == {m \in 0..N : ~\E run : Loop(run, b, m)}
<1>1. SUFFICES ASSUME T # {} PROVE FALSE
  OBVIOUS
<1>2. T \in SUBSET Nat
  OBVIOUS
<1>3. PICK m \in T : \A y \in T : m <= y
  BY <1>1, <1>2, LeastElement
<1>4. m # 0
  <2>1. Loop([k \in 0..0 |-> Start], b, 0)
    BY DEF Loop
  <2> QED BY <2>1
<1>5. PICK run : Loop(run, b, m - 1)
  <2>1. m - 1 \in 0..N /\ ~(m <= m - 1)
    BY <1>4
  <2> QED BY <1>3, <2>1
<1> DEFINE more == [k \in 0..m |-> IF k = m THEN Step(run[m - 1], b[m]) ELSE run[k]]
<1>6. Loop(more, b, m)
  <2>1. \A k \in 0..m : more[k] = IF k = 0 THEN Start ELSE Step(more[k - 1], b[k])
    BY <1>4, <1>5 DEF Loop
  <2> QED BY <2>1 DEF Loop
<1> QED BY <1>6

\* The greatest of a set of positions before i, if it has position i - 1.
LEMMA MaxBefore ==
  ASSUME NEW i \in Nat, NEW E \in SUBSET (1..i), i \in E
  PROVE  Max(E) = i
<1>1. i \in E /\ \A y \in E : i >= y
  OBVIOUS
<1>2. \A x \in E : (\A y \in E : x >= y) => x = i
  OBVIOUS
<1>3. (CHOOSE x \in E : \A y \in E : x >= y) = i
  BY <1>1, <1>2
<1> QED BY <1>3 DEF Max

\* What a batch adds: an asset of it is last seen there, every other one where it was.
LEMMA LatestIs ==
  ASSUME NEW b, NEW n \in Nat, NEW x
  PROVE  /\ x \in Seen(b, n) <=> Earlier(b, n + 1, x) # {}
         /\ x \in Observed(b[n + 1]) =>
              Latest(b, n + 2, x) = [sequence |-> n + 1, claims |-> b[n + 1].claims[x]]
         /\ x \notin Observed(b[n + 1]) => Earlier(b, n + 2, x) = Earlier(b, n + 1, x)
         /\ Seen(b, n + 1) = Seen(b, n) \cup Observed(b[n + 1])
<1>1. x \in Seen(b, n) <=> Earlier(b, n + 1, x) # {}
  BY DEF Seen, Earlier
<1>2. Seen(b, n + 1) = Seen(b, n) \cup Observed(b[n + 1])
  <2>1. 1..n+1 = 1..n \cup {n + 1}
    OBVIOUS
  <2> QED BY <2>1 DEF Seen
<1>3. x \in Observed(b[n + 1]) => Max(Earlier(b, n + 2, x)) = n + 1
  <2>1. Earlier(b, n + 2, x) \in SUBSET (1..n+1)
    BY DEF Earlier
  <2>2. x \in Observed(b[n + 1]) => n + 1 \in Earlier(b, n + 2, x)
    BY DEF Earlier
  <2> QED BY <2>1, <2>2, MaxBefore
<1>4. x \notin Observed(b[n + 1]) => Earlier(b, n + 2, x) = Earlier(b, n + 1, x)
  <2>1. \A j : j \in 1..(n + 2) - 1 <=> j \in 1..(n + 1) - 1 \/ j = n + 1
    OBVIOUS
  <2> QED BY <2>1 DEF Earlier
<1> QED BY <1>1, <1>2, <1>3, <1>4 DEF Latest

\* One batch takes the closed form from the batches before it to those with it.
LEMMA StepReaches ==
  ASSUME NEW b, NEW n \in Nat, NEW acc, Reached(acc, b, n)
  PROVE  /\ Reached(Step(acc, b[n + 1]), b, n + 1)
         /\ Step(acc, b[n + 1]).totals = [s \in STATUSES |-> acc.totals[s] + Count(StepAt(b, n + 1), s)]
<1> DEFINE batch == b[n + 1]
           present == Observed(batch)
           prior == [x \in present \cup acc.previous |-> IF x \in DOMAIN acc.last THEN acc.last[x] ELSE Absent]
           status == [x \in present \cup acc.previous |->
                        IF x \in present THEN Status(x, batch, acc.previous, acc.last) ELSE "not_observed"]
           step == [x \in DOMAIN status |-> [status |-> status[x], previous_observation |-> prior[x]]]
           next == Step(acc, batch)
<1>1. acc.previous = Beside(b, n + 1) /\ Beside(b, n + 2) = present
      /\ DOMAIN acc.last = Seen(b, n) /\ \A x \in Seen(b, n) : acc.last[x] = Latest(b, n + 1, x)
  BY DEF Reached, Beside
<1>2. \A x : x \in Seen(b, n) <=> Earlier(b, n + 1, x) # {}
  BY DEF Seen, Earlier
<1>3. ASSUME NEW x \in Beside(b, n + 1)
      PROVE  x \in Seen(b, n) /\ Latest(b, n + 1, x) = [sequence |-> n, claims |-> b[n].claims[x]]
  <2>1. n # 0 /\ x \in Observed(b[n]) /\ n - 1 \in Nat
    BY <1>3 DEF Beside
  <2>2. n \in 1..n
    BY <2>1
  <2>3. x \in Seen(b, n)
    BY <2>1, <2>2 DEF Seen
  <2>4. x \in Observed(b[(n - 1) + 1]) =>
          Latest(b, (n - 1) + 2, x) = [sequence |-> (n - 1) + 1, claims |-> b[(n - 1) + 1].claims[x]]
    BY <2>1, LatestIs
  <2>5. (n - 1) + 1 = n /\ (n - 1) + 2 = n + 1
    OBVIOUS
  <2> QED BY <2>1, <2>3, <2>4, <2>5
<1>4. ASSUME NEW x \in present
      PROVE  Status(x, batch, acc.previous, acc.last) = StatusAt(b, n + 1, x)
  <2>1. CASE x \notin Seen(b, n)
    BY <1>1, <1>2, <2>1 DEF Status, StatusAt
  <2>2. CASE x \in Seen(b, n) /\ x \notin Beside(b, n + 1)
    BY <1>1, <1>2, <2>2 DEF Status, StatusAt
  <2>3. CASE x \in Beside(b, n + 1)
    <3>1. acc.last[x].claims = b[n].claims[x] /\ (n + 1) - 1 = n /\ x \in Seen(b, n)
      <4>1. x \in Seen(b, n) /\ Latest(b, n + 1, x) = [sequence |-> n, claims |-> b[n].claims[x]]
        BY <1>3, <2>3
      <4>2. acc.last[x] = Latest(b, n + 1, x)
        BY <1>1, <4>1
      <4>3. Latest(b, n + 1, x).claims = b[n].claims[x]
        BY <4>1
      <4> QED BY <4>1, <4>2, <4>3
    <3>2. Status(x, batch, acc.previous, acc.last) =
            IF ChangedFields(b[n].claims[x], batch.claims[x]) # {} THEN "changed" ELSE "unchanged"
      BY <1>1, <2>3, <3>1 DEF Status
    <3>3. StatusAt(b, n + 1, x) =
            IF ChangedFields(b[n].claims[x], batch.claims[x]) # {} THEN "changed" ELSE "unchanged"
      BY <1>2, <2>3, <3>1 DEF StatusAt
    <3> QED BY <3>2, <3>3
  <2> QED BY <2>1, <2>2, <2>3
<1>5. step = StepAt(b, n + 1)
  <2>1. ASSUME NEW x \in present \cup acc.previous
        PROVE  /\ status[x] = StatusAt(b, n + 1, x)
               /\ prior[x] = IF Earlier(b, n + 1, x) = {} THEN Absent ELSE Latest(b, n + 1, x)
    <3>1. status[x] = StatusAt(b, n + 1, x)
      <4>1. CASE x \in present
        BY <1>4, <4>1
      <4>2. CASE x \notin present
        BY <4>2 DEF StatusAt
      <4> QED BY <4>1, <4>2
    <3>2. prior[x] = IF Earlier(b, n + 1, x) = {} THEN Absent ELSE Latest(b, n + 1, x)
      BY <1>1, <1>2
    <3> QED BY <3>1, <3>2
  <2>2. DOMAIN status = Observed(b[n + 1]) \cup Beside(b, n + 1)
    BY <1>1
  <2> HIDE DEF status, prior
  <2> QED BY <1>1, <2>1, <2>2 DEF StepAt
<1>6. next.steps = Append(acc.steps, step) /\ next.previous = present
      /\ next.totals = [s \in STATUSES |-> acc.totals[s] + Count(step, s)]
      /\ next.last = [x \in DOMAIN acc.last \cup present |->
                        IF x \in present THEN [sequence |-> Len(acc.steps) + 1, claims |-> batch.claims[x]]
                        ELSE acc.last[x]]
  BY DEF Step
<1>7. Len(acc.steps) = n /\ acc.steps = [i \in 1..n |-> StepAt(b, i)]
  <2>1. acc.steps = [i \in 1..n |-> StepAt(b, i)]
    BY DEF Reached
  <2> QED BY <2>1, LenOf
<1> HIDE DEF step, next, present, batch
<1>8. next.steps = [i \in 1..n+1 |-> StepAt(b, i)]
  <2> DEFINE s == acc.steps
             e == StepAt(b, n + 1)
             Entries == {s[i] : i \in 1..n} \cup {e}
  <2>1. s \in Seq(Entries) /\ e \in Entries
    <3>1. [i \in 1..n |-> s[i]] \in Seq(Entries)
      OBVIOUS
    <3> QED BY <1>7, <3>1
  <2> HIDE DEF s, e, Entries
  <2>2. Append(s, e) = [i \in 1..n+1 |-> IF i = n + 1 THEN e ELSE s[i]] /\ Len(Append(s, e)) = n + 1
    BY <1>7, <2>1 DEF s
  <2>3. \A i \in 1..n+1 : (IF i = n + 1 THEN e ELSE s[i]) = StepAt(b, i)
    BY <1>7 DEF s, e
  <2>4. Append(s, e) = [i \in 1..n+1 |-> StepAt(b, i)]
    BY <2>2, <2>3
  <2>5. next.steps = Append(s, e)
    BY <1>5, <1>6 DEF s, e
  <2> QED BY <2>4, <2>5
<1>9. next.last = [x \in Seen(b, n + 1) |-> Latest(b, n + 2, x)]
  <2>1. Seen(b, n + 1) = DOMAIN acc.last \cup present
    BY <1>1, LatestIs DEF present, batch
  <2>2. ASSUME NEW x \in DOMAIN acc.last \cup present
        PROVE  (IF x \in present THEN [sequence |-> Len(acc.steps) + 1, claims |-> batch.claims[x]]
                ELSE acc.last[x]) = Latest(b, n + 2, x)
    <3>1. CASE x \in present
      <4>1. Latest(b, n + 2, x) = [sequence |-> n + 1, claims |-> b[n + 1].claims[x]]
        BY <3>1, LatestIs DEF present, batch
      <4> QED BY <1>7, <3>1, <4>1 DEF batch
    <3>2. CASE x \notin present
      <4>1. Earlier(b, n + 2, x) = Earlier(b, n + 1, x)
        BY <3>2, LatestIs DEF present, batch
      <4> QED BY <1>1, <3>2, <4>1 DEF Latest
    <3> QED BY <3>1, <3>2
  <2> QED BY <1>6, <2>1, <2>2
<1>10. (n + 1) + 1 = n + 2
  OBVIOUS
<1>11. next.totals = [s \in STATUSES |-> acc.totals[s] + Count(StepAt(b, n + 1), s)]
  BY <1>5, <1>6
<1> QED BY <1>1, <1>6, <1>8, <1>9, <1>10, <1>11 DEF Reached, next, batch

\* The sizes of two sets and of what each has besides the other.
LEMMA SizesOf ==
  ASSUME NEW A, NEW B, IsFiniteSet(A), IsFiniteSet(B)
  PROVE  /\ IsFiniteSet(A \cup B) /\ Cardinality(A \cup B) = Cardinality(A) + Cardinality(B \ A)
         /\ {Cardinality(A), Cardinality(B), Cardinality(B \ A)} \subseteq Nat
<1>1. IsFiniteSet(B \ A)
  BY FS_Subset
<1>2. A \cap (B \ A) = {} /\ A \cup (B \ A) = A \cup B
  OBVIOUS
<1>3. Cardinality({}) = 0
  BY FS_EmptySet
<1>4. IsFiniteSet(A \cup (B \ A)) /\ Cardinality(A \cup (B \ A)) =
        Cardinality(A) + Cardinality(B \ A) - Cardinality(A \cap (B \ A))
  BY <1>1, FS_Union
<1>5. Cardinality(A) \in Nat /\ Cardinality(B) \in Nat /\ Cardinality(B \ A) \in Nat
  BY <1>1, FS_CardinalityType
<1>6. IsFiniteSet(A \cup B) /\ Cardinality(A \cup B) = Cardinality(A) + Cardinality(B \ A) - Cardinality({})
  BY <1>2, <1>4, Zenon
<1> DEFINE c == Cardinality(A \cup B)
           d == Cardinality(A)
           e == Cardinality(B \ A)
           f == Cardinality({})
<1>7. c = d + e - f /\ f = 0 /\ d \in Nat /\ e \in Nat
  BY <1>3, <1>5, <1>6
<1> HIDE DEF c, d, e, f
<1>8. c = d + e
  BY <1>7
<1> QED BY <1>5, <1>6, <1>8 DEF c, d, e

\* How many assets have a status in a step is the size of a set of assets.
LEMMA CountIs ==
  ASSUME NEW b, NEW n \in Nat
  PROVE  LET step == StepAt(b, n + 1)
             A == Observed(b[n + 1])
             B == Beside(b, n + 1)
             L == Seen(b, n)
         IN  /\ Count(step, "first_observed") = Cardinality(A \ L)
             /\ Count(step, "observed_again") = Cardinality((A \cap L) \ B)
             /\ Count(step, "not_observed") = Cardinality(B \ A)
             /\ \A s : {x \in DOMAIN step : step[x].status = s} \subseteq A \cup B
<1> DEFINE step == StepAt(b, n + 1)
           A == Observed(b[n + 1])
           B == Beside(b, n + 1)
           L == Seen(b, n)
<1>1. DOMAIN step = A \cup B /\ \A x \in A \cup B : step[x].status = StatusAt(b, n + 1, x)
  BY DEF StepAt
<1>2. \A x : x \in L <=> Earlier(b, n + 1, x) # {}
  BY DEF Seen, Earlier
<1>3. ASSUME NEW x \in A \cup B
      PROVE  /\ StatusAt(b, n + 1, x) = "first_observed" <=> x \in A \ L
             /\ StatusAt(b, n + 1, x) = "observed_again" <=> x \in (A \cap L) \ B
             /\ StatusAt(b, n + 1, x) = "not_observed" <=> x \in B \ A
  <2> HIDE DEF L, B
  <2> QED BY <1>2, <1>3 DEF StatusAt, B
<1> HIDE DEF step, A, B, L
<1>4. {x \in DOMAIN step : step[x].status = "first_observed"} = A \ L
  BY <1>1, <1>3
<1>5. {x \in DOMAIN step : step[x].status = "observed_again"} = (A \cap L) \ B
  BY <1>1, <1>3
<1>6. {x \in DOMAIN step : step[x].status = "not_observed"} = B \ A
  BY <1>1, <1>3
<1>7. \A s : {x \in DOMAIN step : step[x].status = s} \subseteq A \cup B
  BY <1>1
<1> QED BY <1>4, <1>5, <1>6, <1>7 DEF Count, step, A, B, L

\* One batch keeps the totals balanced.
LEMMA StepCounts ==
  ASSUME NEW b, NEW n \in Nat, IsFiniteSet(Observed(b[n + 1])), IsFiniteSet(Beside(b, n + 1)),
         NEW acc, Reached(acc, b, n), Counted(acc, b, n)
  PROVE  Counted(Step(acc, b[n + 1]), b, n + 1)
<1> DEFINE A == Observed(b[n + 1])
           B == Beside(b, n + 1)
           L == Seen(b, n)
           step == StepAt(b, n + 1)
           next == Step(acc, b[n + 1])
           t == acc.totals
<1>1. next.totals = [s \in STATUSES |-> t[s] + Count(step, s)]
  BY StepReaches
<1>2. Beside(b, (n + 1) + 1) = A
  BY DEF Beside
<1>3. Seen(b, n + 1) = L \cup A /\ B \subseteq L
  <2>1. Seen(b, n + 1) = L \cup A
    BY LatestIs
  <2>2. n # 0 => B = Observed(b[n]) /\ n \in 1..n
    BY DEF Beside
  <2>3. n = 0 => B = {}
    BY DEF Beside
  <2> QED BY <2>1, <2>2, <2>3 DEF Seen
<1>4. \A s : Count(step, s) \in Nat
  <2>1. IsFiniteSet(A \cup B)
    BY FS_Union
  <2>2. \A s : {x \in DOMAIN step : step[x].status = s} \subseteq A \cup B
    BY CountIs
  <2>3. \A s : IsFiniteSet({x \in DOMAIN step : step[x].status = s})
    BY <2>1, <2>2, FS_Subset
  <2> QED BY <2>3, FS_CardinalityType DEF Count
<1>5. /\ Count(step, "first_observed") = Cardinality(A \ L)
      /\ Count(step, "observed_again") = Cardinality((A \cap L) \ B)
      /\ Count(step, "not_observed") = Cardinality(B \ A)
  BY CountIs
<1>6. /\ IsFiniteSet(L) /\ t["first_observed"] = Cardinality(L) /\ \A s \in STATUSES : t[s] \in Nat
      /\ Cardinality(B) + t["not_observed"] = t["first_observed"] + t["observed_again"]
  BY DEF Counted
<1>7. {"first_observed", "observed_again", "not_observed"} \subseteq STATUSES
  BY DEF STATUSES
<1> HIDE DEF A, B, L, step, next, t
<1>8. IsFiniteSet(L \cup A) /\ Cardinality(L \cup A) = Cardinality(L) + Cardinality(A \ L)
  BY <1>6, SizesOf DEF A
<1>9. Cardinality(A) + Cardinality(B \ A) = Cardinality(B) + Cardinality(A \ L) + Cardinality((A \cap L) \ B)
  <2>1. Cardinality(A \cup B) = Cardinality(A) + Cardinality(B \ A)
        /\ Cardinality(B \cup A) = Cardinality(B) + Cardinality(A \ B)
        /\ {Cardinality(A), Cardinality(B), Cardinality(B \ A), Cardinality(A \ B)} \subseteq Nat
    BY SizesOf DEF A, B
  <2>2. IsFiniteSet(A \ L) /\ IsFiniteSet((A \cap L) \ B)
    BY FS_Subset DEF A
  <2>3. Cardinality((A \ L) \cup ((A \cap L) \ B)) = Cardinality(A \ L) + Cardinality(((A \cap L) \ B) \ (A \ L))
        /\ {Cardinality(A \ L), Cardinality((A \cap L) \ B)} \subseteq Nat
    BY <2>2, SizesOf
  <2>4. ((A \cap L) \ B) \ (A \ L) = (A \cap L) \ B /\ (A \ L) \cup ((A \cap L) \ B) = A \ B
        /\ A \cup B = B \cup A
    BY <1>3
  <2> DEFINE p == Cardinality(A)
             q == Cardinality(B)
             r == Cardinality(B \ A)
             s == Cardinality(A \ B)
             u == Cardinality(A \ L)
             v == Cardinality((A \cap L) \ B)
  <2>5. p + r = q + s /\ s = u + v /\ {p, q, r, s, u, v} \subseteq Nat
    BY <2>1, <2>3, <2>4
  <2> HIDE DEF p, q, r, s, u, v
  <2>6. p + r = q + u + v
    BY <2>5
  <2> QED BY <2>6 DEF p, q, r, u, v
<1>10. /\ next.totals["first_observed"] = t["first_observed"] + Cardinality(A \ L)
       /\ next.totals["observed_again"] = t["observed_again"] + Cardinality((A \cap L) \ B)
       /\ next.totals["not_observed"] = t["not_observed"] + Cardinality(B \ A)
  BY <1>1, <1>5, <1>7
<1>11. \A s \in STATUSES : next.totals[s] \in Nat
  BY <1>1, <1>4, <1>6
<1>12. {Cardinality(A), Cardinality(B), Cardinality(B \ A), Cardinality(A \ L), Cardinality((A \cap L) \ B),
        t["first_observed"], t["observed_again"], t["not_observed"]} \subseteq Nat
  BY <1>4, <1>5, <1>6, <1>7, FS_CardinalityType DEF A, B
<1>13. Cardinality(A) + next.totals["not_observed"] = next.totals["first_observed"] + next.totals["observed_again"]
  BY <1>6, <1>9, <1>10, <1>12
<1>14. next.totals["first_observed"] = Cardinality(L \cup A)
  BY <1>6, <1>8, <1>10
<1> QED BY <1>2, <1>3, <1>8, <1>11, <1>13, <1>14 DEF Counted, next

\* What the whole loop has made of a list of batches.
LEMMA LoopReaches ==
  ASSUME NEW b, NEW n, Batches(b, n), NEW run, Loop(run, b, n)
  PROVE  Reached(run[n], b, n) /\ Counted(run[n], b, n)
<1> DEFINE Holds(k) == Reached(run[k], b, k) /\ Counted(run[k], b, k)
           T == {k \in 0..n : ~Holds(k)}
<1>1. n \in Nat /\ \A i \in 1..n : IsFiniteSet(Observed(b[i]))
  BY DEF Batches
<1>2. SUFFICES ASSUME T # {} PROVE FALSE
  BY <1>1
<1>3. T \in SUBSET Nat
  BY <1>1
<1>4. PICK k \in T : \A y \in T : k <= y
  BY <1>2, <1>3, LeastElement
<1>5. CASE k = 0
  <2>1. run[0] = Start
    BY <1>1 DEF Loop
  <2>2. Seen(b, 0) = {} /\ Beside(b, 0 + 1) = {}
    BY DEF Seen, Beside
  <2>3. Start.steps = [i \in 1..0 |-> StepAt(b, i)] /\ Start.previous = {}
        /\ Start.last = [x \in {} |-> Latest(b, 0 + 1, x)]
        /\ \A s \in STATUSES : Start.totals[s] = 0
    BY DEF Start
  <2>4. Reached(Start, b, 0)
    BY <2>2, <2>3, Zenon DEF Reached
  <2>5. Counted(Start, b, 0)
    <3>1. IsFiniteSet({}) /\ Cardinality({}) = 0
      BY FS_EmptySet
    <3>2. {"first_observed", "observed_again", "not_observed"} \subseteq STATUSES
      BY DEF STATUSES
    <3>3. Cardinality(Seen(b, 0)) = 0 /\ Cardinality(Beside(b, 0 + 1)) = 0 /\ IsFiniteSet(Seen(b, 0))
      BY <2>2, <3>1, Zenon
    <3>4. /\ Start.totals["first_observed"] = 0 /\ Start.totals["observed_again"] = 0
          /\ Start.totals["not_observed"] = 0 /\ \A s \in STATUSES : Start.totals[s] \in Nat
      BY <2>3, <3>2
    <3> HIDE DEF Start
    <3> QED BY <3>3, <3>4 DEF Counted
  <2> QED BY <1>4, <1>5, <2>1, <2>4, <2>5
<1>6. CASE k # 0
  <2> DEFINE m == k - 1
  <2>1. m \in Nat /\ m + 1 = k /\ m \in 0..n /\ k \in 1..n /\ Holds(m)
    BY <1>1, <1>4, <1>6
  <2>2. run[k] = Step(run[m], b[m + 1])
    BY <1>1, <2>1 DEF Loop
  <2>3. IsFiniteSet(Observed(b[m + 1]))
    BY <1>1, <2>1
  <2>4. IsFiniteSet(Beside(b, m + 1))
    <3>1. m # 0 => m \in 1..n
      BY <1>1, <2>1
    <3>2. m = 0 => Beside(b, m + 1) = {}
      BY DEF Beside
    <3>3. m # 0 => Beside(b, m + 1) = Observed(b[m])
      BY <2>1 DEF Beside
    <3> QED BY <1>1, <3>1, <3>2, <3>3, FS_EmptySet
  <2> HIDE DEF m
  <2>5. Reached(Step(run[m], b[m + 1]), b, m + 1)
    BY <2>1, StepReaches
  <2>6. Counted(Step(run[m], b[m + 1]), b, m + 1)
    BY <2>1, <2>3, <2>4, StepCounts
  <2> QED BY <1>4, <2>1, <2>2, <2>5, <2>6
<1> QED BY <1>5, <1>6

\* The timeline of accepted batches: each step in closed form, and totals that are balanced.
LEMMA TimelineShows ==
  ASSUME NEW b, NEW n, Batches(b, n), BuildTimeline(b) # Rejected
  PROVE  LET timeline == BuildTimeline(b)
         IN  /\ timeline.steps = [i \in 1..n |-> StepAt(b, i)]
             /\ timeline.event_totals["first_observed"] = timeline.unique_asset_count
             /\ Cardinality(Beside(b, n + 1)) + timeline.event_totals["not_observed"]
                  = timeline.event_totals["first_observed"] + timeline.event_totals["observed_again"]
<1> DEFINE run == CHOOSE run : Loop(run, b, Len(b))
<1>1. n \in Nat /\ Len(b) = n
  BY DEF Batches
<1>2. Loop(run, b, n)
  BY <1>1, LoopExists
<1>3. BuildTimeline(b) = [batches |-> b, steps |-> run[n].steps, event_totals |-> run[n].totals,
                          unique_asset_count |-> Cardinality(DOMAIN run[n].last)]
  BY <1>1 DEF BuildTimeline, Loop, Start
<1> HIDE DEF run
<1>4. Reached(run[n], b, n) /\ Counted(run[n], b, n)
  BY <1>2, LoopReaches
<1>5. DOMAIN run[n].last = Seen(b, n)
  BY <1>4 DEF Reached
<1>6. run[n].steps = [i \in 1..n |-> StepAt(b, i)]
  BY <1>4 DEF Reached
<1> QED BY <1>3, <1>4, <1>5, <1>6 DEF Counted

\* Each step of a timeline tells what comparing its two batches tells, and names the latest
\* earlier batch of every asset; the totals balance (build_timeline, compare_inventories).
LEMMA TimelineAgrees == ASSUME Distinct, InputOK PROVE TimelineAgreesWithComparisons
<1>1. SUFFICES ASSUME input.kind = "batches", BatchesOK
               PROVE  AgreesWithComparisons(input.batches) /\ Balances(input.batches)
  BY DEF InputOK, TimelineAgreesWithComparisons
<1> DEFINE b == input.batches
           n == Len(b)
           timeline == BuildTimeline(b)
<1>2. Batches(b, n) /\ \A i \in 1..n : b[i].observed_at \in Int
  BY <1>1 DEF BatchesOK, IsList, Batches
<1> HIDE DEF b, n, timeline
<1>3. SUFFICES ASSUME timeline # Rejected PROVE AgreesWithComparisons(b) /\ Balances(b)
  BY DEF AgreesWithComparisons, Balances, b, timeline
<1>4. /\ timeline.steps = [i \in 1..n |-> StepAt(b, i)]
      /\ timeline.event_totals["first_observed"] = timeline.unique_asset_count
      /\ Cardinality(Beside(b, n + 1)) + timeline.event_totals["not_observed"]
           = timeline.event_totals["first_observed"] + timeline.event_totals["observed_again"]
  BY <1>2, <1>3, TimelineShows DEF timeline
<1>5. n \in Nat /\ n >= 2 /\ \A i \in 2..n : /\ b[i].context = b[i - 1].context
                                          /\ b[i].observed_at > b[i - 1].observed_at
  BY <1>2, <1>3, TimelineIs DEF timeline, OrderedBatches, Batches, n
<1>6. ASSUME NEW i \in 2..n
      PROVE  LET step == timeline.steps[i]
                 pair == CompareInventories(b[i - 1], b[i])
                 Is(status) == {x \in DOMAIN step : step[x].status = status}
             IN  /\ pair # Rejected
                 /\ pair.added = Is("first_observed") \cup Is("observed_again")
                 /\ pair.not_observed = Is("not_observed")
                 /\ DOMAIN pair.changes = Is("changed")
                 /\ pair.unchanged = Is("unchanged")
                 /\ Is("observed_again") = {x \in pair.added : \E j \in 1..i-2 : x \in Observed(b[j])}
  <2> DEFINE step == timeline.steps[i]
             pair == CompareInventories(b[i - 1], b[i])
             Is(status) == {x \in DOMAIN step : step[x].status = status}
             A == Observed(b[i])
             B == Observed(b[i - 1])
             differ(x) == ChangedFields(b[i - 1].claims[x], b[i].claims[x]) # {}
  <2>1. i \in 1..n /\ i - 1 \in 1..n /\ i # 1
    BY <1>5
  <2>2. Beside(b, i) = B
    BY <2>1 DEF Beside
  <2>3. step = StepAt(b, i)
    BY <1>4, <2>1
  <2>4. DOMAIN step = A \cup B /\ \A x \in A \cup B : step[x].status = StatusAt(b, i, x)
    BY <2>2, <2>3 DEF StepAt
  <2>5. /\ pair # Rejected
        /\ pair.added = A \ B /\ pair.not_observed = B \ A
        /\ DOMAIN pair.changes = {x \in A \cap B : differ(x)}
        /\ pair.unchanged = {x \in A \cap B : ~differ(x)}
    <3> DEFINE common == B \cap A
               fields == [x \in common |-> ChangedFields(b[i - 1].claims[x], b[i].claims[x])]
               changed == {x \in common : fields[x] # {}}
    <3>1. b[i].observed_at \in Int /\ b[i - 1].observed_at \in Int
          /\ b[i].context = b[i - 1].context /\ b[i].observed_at > b[i - 1].observed_at
      BY <1>2, <1>5, <2>1
    <3>2. pair = [added |-> A \ B, not_observed |-> B \ A,
                  changes |-> [x \in changed |-> fields[x]], unchanged |-> common \ changed,
                  source_bytes_changed |-> b[i - 1].input # b[i].input]
      BY <3>1 DEF CompareInventories
    <3>3. pair # Rejected
      BY <3>2, Zenon DEF Distinct
    <3>4. changed = {x \in A \cap B : differ(x)} /\ common \ changed = {x \in A \cap B : ~differ(x)}
      OBVIOUS
    <3> HIDE DEF changed, fields, common, pair, A, B
    <3>5. pair.added = A \ B /\ pair.not_observed = B \ A /\ DOMAIN pair.changes = changed
          /\ pair.unchanged = common \ changed
      BY <3>2
    <3> QED BY <3>3, <3>4, <3>5
  <2>6. ASSUME NEW x
        PROVE  Earlier(b, i, x) # {} <=> x \in B \/ \E j \in 1..i-2 : x \in Observed(b[j])
    <3>1. \A j : j \in 1..i-1 <=> j \in 1..i-2 \/ j = i - 1
      BY <2>1
    <3> QED BY <3>1 DEF Earlier
  <2> HIDE DEF step, pair, A, B, differ
  <2>7. ASSUME NEW x \in A \cup B
        PROVE  /\ StatusAt(b, i, x) \in {"first_observed", "observed_again"} <=> x \in A \ B
               /\ StatusAt(b, i, x) = "not_observed" <=> x \in B \ A
               /\ StatusAt(b, i, x) = "changed" <=> x \in A \cap B /\ differ(x)
               /\ StatusAt(b, i, x) = "unchanged" <=> x \in A \cap B /\ ~differ(x)
               /\ StatusAt(b, i, x) = "observed_again" <=>
                    x \in A \ B /\ \E j \in 1..i-2 : x \in Observed(b[j])
    <3>1. StatusAt(b, i, x) =
            IF x \notin A THEN "not_observed"
            ELSE IF Earlier(b, i, x) = {} THEN "first_observed"
            ELSE IF x \notin B THEN "observed_again" ELSE IF differ(x) THEN "changed" ELSE "unchanged"
      BY <2>2 DEF StatusAt, A, differ
    <3> QED BY <2>6, <2>7, <3>1
  <2>8. \A status : \A x : x \in Is(status) <=> x \in A \cup B /\ StatusAt(b, i, x) = status
    BY <2>4
  <2> HIDE DEF Is
  <2>9. pair.added = Is("first_observed") \cup Is("observed_again")
    BY <2>5, <2>7, <2>8
  <2>10. pair.not_observed = Is("not_observed")
    BY <2>5, <2>7, <2>8
  <2>11. DOMAIN pair.changes = Is("changed") /\ pair.unchanged = Is("unchanged")
    BY <2>5, <2>7, <2>8
  <2>12. Is("observed_again") = {x \in pair.added : \E j \in 1..i-2 : x \in Observed(b[j])}
    BY <2>5, <2>7, <2>8
  <2> QED BY <2>5, <2>9, <2>10, <2>11, <2>12 DEF step, pair, Is
<1>7. AgreesWithComparisons(b)
  BY <1>6 DEF AgreesWithComparisons, timeline, n
<1>8. Observed(Last(b)) = Beside(b, n + 1)
  BY <1>5 DEF Last, Beside, n
<1>9. ASSUME NEW i \in 1..n, NEW x \in DOMAIN timeline.steps[i]
      PROVE  LET earlier == {j \in 1..i-1 : x \in Observed(b[j])}
                 prior   == timeline.steps[i][x].previous_observation
             IN  IF earlier = {} THEN prior = Absent
                 ELSE prior = [sequence |-> Max(earlier), claims |-> b[Max(earlier)].claims[x]]
  <2>1. timeline.steps[i] = StepAt(b, i)
    BY <1>4
  <2>2. StepAt(b, i)[x].previous_observation = IF Earlier(b, i, x) = {} THEN Absent ELSE Latest(b, i, x)
    BY <1>9, <2>1 DEF StepAt
  <2> QED BY <2>1, <2>2 DEF Earlier, Latest
<1>10. Balances(b)
  BY <1>3, <1>4, <1>8, <1>9 DEF Balances, timeline, n
<1> QED BY <1>7, <1>10

\* Of all lists of batches, each step agrees with the comparisons and the totals balance.
THEOREM TimelinesAgree == ASSUME Distinct PROVE Spec => []TimelineAgreesWithComparisons
BY InputsAreOK, TimelineAgrees, PTL

-----------------------------------------------------------------------------
(* Correlation: the forest of the unions *)

\* Every parent is at or below its child.
Forest(p, N) == p \in [1..N -> 1..N] /\ \A x \in 1..N : p[x] <= x

\* The root that each observation leads to.
Rooted(p, f, N) ==
  /\ f \in [1..N -> 1..N]
  /\ \A x \in 1..N : f[p[x]] = f[x] /\ p[f[x]] = f[x] /\ (p[x] = x => f[x] = x)

\* A set of observations that no edge of the forest leaves or enters.
Closed(p, X, N) == \A x \in 1..N : x \in X <=> p[x] \in X

\* A walk from one observation towards its root, that moves no root and no closed set.
Walking(w, p, f, i, N) ==
  /\ Forest(w.parents, N) /\ Rooted(w.parents, f, N)
  /\ w.at \in 1..i /\ f[w.at] = f[i]
  /\ \A X : Closed(p, X, N) => Closed(w.parents, X, N) /\ (w.at \in X <=> i \in X)

\* One round of find keeps all this, and goes down unless it is at the root.
LEMMA HalveKeeps ==
  ASSUME NEW N \in Nat, NEW p, NEW f, NEW i \in 1..N, NEW w, Walking(w, p, f, i, N)
  PROVE  /\ Walking(C!Halve(w), p, f, i, N)
         /\ w.parents[w.at] = w.at => C!Halve(w) = w
         /\ w.parents[w.at] # w.at => C!Halve(w).at < w.at
<1> DEFINE q == w.parents
           at == w.at
           next == q[q[at]]
           r == [q EXCEPT ![at] = next]
<1>1. /\ q \in [1..N -> 1..N] /\ \A x \in 1..N : q[x] <= x
      /\ f \in [1..N -> 1..N]
      /\ \A x \in 1..N : f[q[x]] = f[x] /\ q[f[x]] = f[x] /\ (q[x] = x => f[x] = x)
      /\ at \in 1..N /\ at <= i /\ f[at] = f[i]
  <2>1. Forest(q, N) /\ Rooted(q, f, N) /\ at \in 1..i /\ f[at] = f[i]
    BY DEF Walking
  <2> HIDE DEF q, at
  <2>2. at \in 1..N /\ at <= i
    BY <2>1
  <2> QED BY <2>1, <2>2 DEF Forest, Rooted
<1>2. CASE q[at] = at
  BY <1>2 DEF C!Halve
<1>3. CASE q[at] # at
  <2>1. C!Halve(w) = [at |-> next, parents |-> r]
    BY <1>3 DEF C!Halve
  <2>2. \A X : Closed(p, X, N) => Closed(q, X, N) /\ (at \in X <=> i \in X)
    BY DEF Walking
  <2> HIDE DEF q, at
  <2>3. q[at] \in 1..N /\ next \in 1..N /\ q[at] < at /\ next <= q[at] /\ next < at
    BY <1>1, <1>3
  <2>4. r \in [1..N -> 1..N] /\ \A x \in 1..N : r[x] = IF x = at THEN next ELSE q[x]
    BY <1>1, <2>3
  <2> HIDE DEF next, r
  <2>5. Forest(r, N)
    <3>1. ASSUME NEW x \in 1..N PROVE r[x] <= x
      <4>1. CASE x = at
        BY <2>3, <2>4, <4>1
      <4>2. CASE x # at
        BY <1>1, <2>4, <4>2
      <4> QED BY <4>1, <4>2
    <3> QED BY <2>4, <3>1 DEF Forest
  <2>6. f[next] = f[at]
    BY <1>1, <2>3 DEF next
  <2>7. Rooted(r, f, N)
    <3>1. \A x \in 1..N : f[r[x]] = f[x]
      BY <1>1, <2>4, <2>6
    <3>2. \A x \in 1..N : f[x] # at
      BY <1>1, <1>3
    <3>3. \A x \in 1..N : r[f[x]] = f[x]
      BY <1>1, <2>4, <3>2
    <3>4. \A x \in 1..N : r[x] = x => f[x] = x
      BY <1>1, <2>3, <2>4
    <3> QED BY <1>1, <3>1, <3>3, <3>4 DEF Rooted
  <2>8. ASSUME NEW X, Closed(p, X, N) PROVE Closed(r, X, N) /\ (next \in X <=> i \in X)
    <3>1. Closed(q, X, N) /\ (at \in X <=> i \in X)
      BY <2>2, <2>8
    <3>2. next \in X <=> at \in X
      BY <1>1, <2>3, <3>1 DEF Closed, next
    <3>3. ASSUME NEW x \in 1..N PROVE x \in X <=> r[x] \in X
      <4>1. CASE x = at
        BY <2>4, <3>1, <3>2, <4>1
      <4>2. CASE x # at
        <5>1. r[x] = q[x]
          BY <2>4, <4>2
        <5> QED BY <3>1, <5>1 DEF Closed
      <4> QED BY <4>1, <4>2
    <3> QED BY <3>1, <3>2, <3>3 DEF Closed
  <2>9. next \in 1..i
    BY <1>1, <2>3
  <2> DEFINE v == [at |-> next, parents |-> r]
  <2>10. v.at = next /\ v.parents = r
    OBVIOUS
  <2> HIDE DEF v
  <2>11. Walking(v, p, f, i, N)
    BY <1>1, <2>5, <2>6, <2>7, <2>8, <2>9, <2>10 DEF Walking
  <2> QED BY <1>3, <2>1, <2>3, <2>10, <2>11 DEF v, q, at
<1> QED BY <1>2, <1>3

Walk(walk, p, i, m) ==
  walk = [k \in 0..m |-> IF k = 0 THEN [at |-> i, parents |-> p] ELSE C!Halve(walk[k - 1])]

\* There is a function that the recursion of find defines.
LEMMA WalkExists == ASSUME NEW p, NEW i, NEW N \in Nat PROVE \E walk : Walk(walk, p, i, N)
<1> DEFINE T == {m \in 0..N : ~\E walk : Walk(walk, p, i, m)}
<1>1. SUFFICES ASSUME T # {} PROVE FALSE
  OBVIOUS
<1>2. T \in SUBSET Nat
  OBVIOUS
<1>3. PICK m \in T : \A y \in T : m <= y
  BY <1>1, <1>2, LeastElement
<1>4. m # 0
  <2>1. Walk([k \in 0..0 |-> [at |-> i, parents |-> p]], p, i, 0)
    BY DEF Walk
  <2> QED BY <2>1
<1>5. PICK walk : Walk(walk, p, i, m - 1)
  <2>1. m - 1 \in 0..N /\ ~(m <= m - 1)
    BY <1>4
  <2> QED BY <1>3, <2>1
<1> DEFINE more == [k \in 0..m |-> IF k = m THEN C!Halve(walk[m - 1]) ELSE walk[k]]
<1>6. Walk(more, p, i, m)
  <2>1. \A k \in 0..m : more[k] = IF k = 0 THEN [at |-> i, parents |-> p] ELSE C!Halve(more[k - 1])
    BY <1>4, <1>5 DEF Walk
  <2> QED BY <2>1 DEF Walk
<1> QED BY <1>6

\* find returns the root: each round goes down at least by one, and there are enough of them.
LEMMA FindIs ==
  ASSUME NEW N \in Nat, NEW p, NEW f, Forest(p, N), Rooted(p, f, N), NEW i \in 1..N
  PROVE  LET w == C!Find(p, i)
         IN  /\ w.at = f[i]
             /\ Forest(w.parents, N) /\ Rooted(w.parents, f, N)
             /\ \A X : Closed(p, X, N) => Closed(w.parents, X, N) /\ (f[i] \in X <=> i \in X)
<1> DEFINE walk == CHOOSE walk : Walk(walk, p, i, N)
           Holds(k) == /\ Walking(walk[k], p, f, i, N)
                       /\ walk[k].parents[walk[k].at] = walk[k].at \/ walk[k].at + k <= i
           T == {k \in 0..N : ~Holds(k)}
<1>1. Len(p) = N
  BY LenOf DEF Forest
<1>2. Walk(walk, p, i, N)
  BY WalkExists
<1>3. C!Find(p, i) = walk[N]
  BY <1>1 DEF C!Find, Walk
<1> HIDE DEF walk
<1>4. \A k \in 0..N : Holds(k)
  <2>1. SUFFICES ASSUME T # {} PROVE FALSE
    OBVIOUS
  <2>2. T \in SUBSET Nat
    OBVIOUS
  <2>3. PICK k \in T : \A y \in T : k <= y
    BY <2>1, <2>2, LeastElement
  <2>4. CASE k = 0
    <3> DEFINE start == [at |-> i, parents |-> p]
    <3>1. walk[0] = start /\ start.at = i /\ start.parents = p
      BY <1>2 DEF Walk
    <3> HIDE DEF start
    <3>2. Walking(start, p, f, i, N)
      BY <3>1 DEF Walking
    <3>3. start.at + 0 <= i
      BY <3>1
    <3> QED BY <2>3, <2>4, <3>1, <3>2, <3>3
  <2>5. CASE k # 0
    <3> DEFINE m == k - 1
               w == walk[m]
               v == walk[k]
    <3>1. m \in 0..N /\ m \in Nat /\ k = m + 1 /\ Holds(m)
      BY <2>3, <2>5
    <3>2. v = C!Halve(w)
      BY <1>2, <2>5 DEF Walk
    <3>3. Walking(w, p, f, i, N) /\ (w.parents[w.at] = w.at \/ w.at + m <= i)
      BY <3>1
    <3>4. /\ Walking(C!Halve(w), p, f, i, N)
          /\ w.parents[w.at] = w.at => C!Halve(w) = w
          /\ w.parents[w.at] # w.at => C!Halve(w).at < w.at
      BY <3>3, HalveKeeps
    <3>5. w.at \in 1..i /\ v.at \in 1..i
      BY <3>2, <3>3, <3>4 DEF Walking
    <3> HIDE DEF m, w, v
    <3>6. v.parents[v.at] = v.at \/ v.at + k <= i
      BY <3>1, <3>2, <3>3, <3>4, <3>5
    <3> QED BY <2>3, <3>2, <3>4, <3>6 DEF v
  <2> QED BY <2>4, <2>5
<1> DEFINE w == walk[N]
<1>5. Walking(w, p, f, i, N) /\ (w.parents[w.at] = w.at \/ w.at + N <= i)
  BY <1>4
<1> HIDE DEF w
<1>6. w.at \in 1..i /\ f[w.at] = f[i] /\ Forest(w.parents, N) /\ Rooted(w.parents, f, N)
      /\ \A X : Closed(p, X, N) => Closed(w.parents, X, N) /\ (w.at \in X <=> i \in X)
  BY <1>5 DEF Walking
<1>7. w.parents[w.at] = w.at /\ w.at \in 1..N
  BY <1>5, <1>6
<1>8. w.at = f[i]
  BY <1>6, <1>7 DEF Rooted
<1> QED BY <1>3, <1>6, <1>8 DEF w

\* Uniting two observations makes one tree of their two, and leaves every other as it is.
LEMMA UnionIs ==
  ASSUME NEW N \in Nat, NEW p, NEW f, Forest(p, N), Rooted(p, f, N), NEW i \in 1..N, NEW j \in 1..N
  PROVE  LET u == C!Union(p, i, j)
         IN  /\ Forest(u, N)
             /\ \E g : /\ Rooted(u, g, N) /\ g[i] = g[j]
                       /\ \A x, y \in 1..N : f[x] = f[y] => g[x] = g[y]
             /\ \A X : Closed(p, X, N) /\ (i \in X <=> j \in X) => Closed(u, X, N)
<1> DEFINE l == C!Find(p, i)
           r == C!Find(l.parents, j)
           q == r.parents
           low == IF l.at < r.at THEN l.at ELSE r.at
           high == IF l.at < r.at THEN r.at ELSE l.at
           u == C!Union(p, i, j)
           g == [x \in 1..N |-> IF f[x] = high THEN low ELSE f[x]]
<1>1. /\ l.at = f[i] /\ Forest(l.parents, N) /\ Rooted(l.parents, f, N)
      /\ \A X : Closed(p, X, N) => Closed(l.parents, X, N) /\ (f[i] \in X <=> i \in X)
  BY FindIs
<1>2. /\ r.at = f[j] /\ Forest(q, N) /\ Rooted(q, f, N)
      /\ \A X : Closed(l.parents, X, N) => Closed(q, X, N) /\ (f[j] \in X <=> j \in X)
  BY <1>1, FindIs
<1>3. f \in [1..N -> 1..N] /\ f[i] \in 1..N /\ f[j] \in 1..N
  BY DEF Rooted
<1>4. u = IF l.at = r.at THEN q ELSE [q EXCEPT ![high] = low]
  BY <1>1, <1>2, <1>3 DEF C!Union
<1> HIDE DEF l, r, q, u
<1>5. \A X : Closed(p, X, N) => Closed(q, X, N) /\ (f[i] \in X <=> i \in X) /\ (f[j] \in X <=> j \in X)
  BY <1>1, <1>2
<1>6. CASE l.at = r.at
  <2>1. u = q /\ f[i] = f[j]
    BY <1>1, <1>2, <1>4, <1>6
  <2>2. Forest(u, N) /\ Rooted(u, f, N) /\ \A X : Closed(p, X, N) => Closed(u, X, N)
    BY <1>2, <1>5, <2>1
  <2> QED BY <2>1, <2>2 DEF u
<1>7. CASE l.at # r.at
  <2>1. /\ low \in 1..N /\ high \in 1..N /\ low < high /\ {low, high} = {f[i], f[j]}
    BY <1>1, <1>2, <1>3, <1>7
  <2>2. q \in [1..N -> 1..N] /\ \A x \in 1..N : q[x] <= x
    BY <1>2 DEF Forest
  <2>3. \A x \in 1..N : f[q[x]] = f[x] /\ q[f[x]] = f[x] /\ (q[x] = x => f[x] = x)
    BY <1>2 DEF Rooted
  <2>4. f[low] = low /\ f[high] = high /\ q[low] = low /\ q[high] = high
    <3>1. f[f[i]] = f[i] /\ q[f[i]] = f[i] /\ f[f[j]] = f[j] /\ q[f[j]] = f[j]
      BY <1>3, <2>3
    <3> HIDE DEF low, high
    <3> QED BY <2>1, <3>1
  <2> HIDE DEF low, high
  <2>5. u \in [1..N -> 1..N] /\ u[high] = low /\ \A x \in 1..N : x # high => u[x] = q[x]
    BY <1>4, <1>7, <2>1, <2>2
  <2>6. g \in [1..N -> 1..N] /\ \A x \in 1..N : g[x] = IF f[x] = high THEN low ELSE f[x]
    BY <1>3, <2>1
  <2> HIDE DEF g
  <2>7. Forest(u, N)
    <3>1. ASSUME NEW x \in 1..N PROVE u[x] <= x
      <4>1. CASE x = high
        BY <2>1, <2>5, <4>1
      <4>2. CASE x # high
        BY <2>2, <2>5, <4>2
      <4> QED BY <4>1, <4>2
    <3> QED BY <2>5, <3>1 DEF Forest
  <2>8. Rooted(u, g, N)
    <3>1. ASSUME NEW x \in 1..N PROVE g[u[x]] = g[x] /\ u[g[x]] = g[x] /\ (u[x] = x => g[x] = x)
      <4>1. CASE x = high
        <5>1. u[x] = low /\ g[x] = low /\ g[low] = low /\ u[low] = low
          BY <2>1, <2>4, <2>5, <2>6, <4>1
        <5> QED BY <2>1, <4>1, <5>1
      <4>2. CASE x # high
        <5>1. u[x] = q[x] /\ q[x] \in 1..N /\ f[q[x]] = f[x] /\ q[f[x]] = f[x] /\ f[x] \in 1..N
          BY <1>3, <2>2, <2>3, <2>5, <4>2
        <5>2. g[u[x]] = g[x]
          BY <2>6, <5>1
        <5>3. u[g[x]] = g[x]
          <6>1. CASE f[x] = high
            BY <2>1, <2>4, <2>5, <2>6, <6>1
          <6>2. CASE f[x] # high
            BY <2>5, <2>6, <5>1, <6>2
          <6> QED BY <6>1, <6>2
        <5>4. u[x] = x => g[x] = x
          BY <2>3, <2>6, <4>2, <5>1
        <5> QED BY <5>2, <5>3, <5>4
      <4> QED BY <4>1, <4>2
    <3> QED BY <2>6, <3>1 DEF Rooted
  <2>9. g[i] = g[j] /\ \A x, y \in 1..N : f[x] = f[y] => g[x] = g[y]
    <3>1. g[i] = low /\ g[j] = low
      BY <2>1, <2>6
    <3> QED BY <2>6, <3>1
  <2>10. ASSUME NEW X, Closed(p, X, N), i \in X <=> j \in X PROVE Closed(u, X, N)
    <3>1. Closed(q, X, N) /\ (low \in X <=> high \in X)
      BY <1>5, <2>1, <2>10
    <3>2. \A x \in 1..N : x \in X <=> u[x] \in X
      BY <2>1, <2>5, <3>1 DEF Closed
    <3> QED BY <3>2 DEF Closed
  <2> QED BY <2>7, <2>8, <2>9, <2>10 DEF u
<1> QED BY <1>6, <1>7

\* No two observations that share a key are divided by X.
Respects(items, X, N) ==
  \A i, j \in 1..N : C!Shares(items, i, j) => (i \in X <=> j \in X)

\* What linking has made of the keys in done, pairs of an observation and one of its keys:
\* the forest brings each key together with its owner, and nothing that shares no key.
Linked(acc, f, items, done, N) ==
  /\ Forest(acc.parents, N) /\ Rooted(acc.parents, f, N)
  /\ \A i, key : <<i, key>> \in done =>
        /\ key \in DOMAIN acc.owner
        /\ f[acc.owner[key]] = f[i]
  /\ \A key \in DOMAIN acc.owner :
        acc.owner[key] \in 1..N /\ key \in C!IdentityKeys(items[acc.owner[key]])
  /\ \A X : Respects(items, X, N) => Closed(acc.parents, X, N)

\* Linking one more key of an observation.
LEMMA LinkIs ==
  ASSUME NEW N \in Nat, NEW items, NEW acc, acc = [parents |-> acc.parents, owner |-> acc.owner],
         NEW f, NEW done, \A h, k : <<h, k>> \in done => h \in 1..N,
         Linked(acc, f, items, done, N), NEW i \in 1..N, NEW key \in C!IdentityKeys(items[i])
  PROVE  LET next == C!Link(acc, i, key)
         IN  /\ next = [parents |-> next.parents, owner |-> next.owner]
             /\ \E g : Linked(next, g, items, done \cup {<<i, key>>}, N)
<1> DEFINE p == acc.parents
           owner == acc.owner
           next == C!Link(acc, i, key)
           more == done \cup {<<i, key>>}
<1>1. /\ Forest(p, N) /\ Rooted(p, f, N)
      /\ \A h, k : <<h, k>> \in done => k \in DOMAIN owner /\ f[owner[k]] = f[h]
      /\ \A k \in DOMAIN owner : owner[k] \in 1..N /\ k \in C!IdentityKeys(items[owner[k]])
      /\ \A X : Respects(items, X, N) => Closed(p, X, N)
  BY DEF Linked
<1>2. \A h, k : <<h, k>> \in more => <<h, k>> \in done \/ (h = i /\ k = key)
  OBVIOUS
<1>3. \A h, k : <<h, k>> \in done => h \in 1..N
  OBVIOUS
<1>4. CASE key \in DOMAIN owner
  <2> DEFINE j == owner[key]
             u == C!Union(p, i, j)
  <2>1. j \in 1..N /\ key \in C!IdentityKeys(items[j])
    BY <1>1, <1>4
  <2>2. next = [parents |-> u, owner |-> owner]
    BY <1>4 DEF C!Link
  <2>3. /\ Forest(u, N)
        /\ \E g : /\ Rooted(u, g, N) /\ g[i] = g[j]
                  /\ \A x, y \in 1..N : f[x] = f[y] => g[x] = g[y]
        /\ \A X : Closed(p, X, N) /\ (i \in X <=> j \in X) => Closed(u, X, N)
    BY <1>1, <2>1, UnionIs
  <2>4. PICK g : Rooted(u, g, N) /\ g[i] = g[j] /\ \A x, y \in 1..N : f[x] = f[y] => g[x] = g[y]
    BY <2>3
  <2> HIDE DEF next, u, p, owner, more
  <2>5. next.parents = u /\ next.owner = owner
    BY <2>2
  <2>6. ASSUME NEW h, NEW k, <<h, k>> \in more PROVE k \in DOMAIN owner /\ g[owner[k]] = g[h]
    <3>1. CASE <<h, k>> \in done
      BY <1>1, <1>3, <2>4, <3>1
    <3>2. CASE h = i /\ k = key
      BY <1>4, <2>4, <3>2
    <3> QED BY <1>2, <2>6, <3>1, <3>2
  <2>7. ASSUME NEW X, Respects(items, X, N) PROVE Closed(u, X, N)
    <3>1. C!Shares(items, i, j)
      BY <2>1 DEF C!Shares
    <3>2. i \in X <=> j \in X
      BY <2>1, <2>7, <3>1 DEF Respects
    <3> QED BY <1>1, <2>3, <2>7, <3>2
  <2>8. Linked(next, g, items, more, N)
    BY <1>1, <2>3, <2>4, <2>5, <2>6, <2>7 DEF Linked
  <2> QED BY <2>2, <2>5, <2>8 DEF next, more
<1>5. CASE key \notin DOMAIN owner
  <2> DEFINE mine == [k \in DOMAIN owner \cup {key} |-> IF k = key THEN i ELSE owner[k]]
  <2>1. next = [parents |-> p, owner |-> mine]
    BY <1>5 DEF C!Link
  <2>2. DOMAIN mine = DOMAIN owner \cup {key} /\ mine[key] = i /\ \A k \in DOMAIN owner : mine[k] = owner[k]
    BY <1>5
  <2> HIDE DEF next, p, owner, more, mine
  <2>3. next.parents = p /\ next.owner = mine
    BY <2>1
  <2>4. ASSUME NEW h, NEW k, <<h, k>> \in more PROVE k \in DOMAIN mine /\ f[mine[k]] = f[h]
    BY <1>1, <1>2, <2>2, <2>4
  <2>5. \A k \in DOMAIN mine : mine[k] \in 1..N /\ k \in C!IdentityKeys(items[mine[k]])
    BY <1>1, <2>2
  <2>6. Linked(next, f, items, more, N)
    BY <1>1, <2>3, <2>4, <2>5 DEF Linked
  <2> QED BY <2>1, <2>3, <2>6 DEF next, more
<1> QED BY <1>4, <1>5

\* An accumulator that links the keys in done.
Links(acc, items, done, N) ==
  /\ acc = [parents |-> acc.parents, owner |-> acc.owner]
  /\ \A h, k : <<h, k>> \in done => h \in 1..N
  /\ \E f : Linked(acc, f, items, done, N)

\* Linking one more key, without the roots.
LEMMA LinkMore ==
  ASSUME NEW N \in Nat, NEW items, NEW acc, NEW done, Links(acc, items, done, N),
         NEW i \in 1..N, NEW key \in C!IdentityKeys(items[i])
  PROVE  Links(C!Link(acc, i, key), items, done \cup {<<i, key>>}, N)
<1>1. PICK f : Linked(acc, f, items, done, N)
  BY DEF Links
<1> DEFINE next == C!Link(acc, i, key)
<1>2. /\ next = [parents |-> next.parents, owner |-> next.owner]
      /\ \E g : Linked(next, g, items, done \cup {<<i, key>>}, N)
  BY <1>1, LinkIs DEF Links
<1>3. \A h, k : <<h, k>> \in done \cup {<<i, key>>} => h \in 1..N
  BY DEF Links
<1> HIDE DEF next
<1> QED BY <1>2, <1>3 DEF Links, next

KeysOf(items, i) == {<<i, key>> : key \in C!IdentityKeys(items[i])}

\* Linking all the keys of an observation.
LEMMA LinkKeysIs ==
  ASSUME NEW N \in Nat, NEW items, NEW acc, NEW done, Links(acc, items, done, N), NEW i \in 1..N
  PROVE  Links(C!LinkKeys(acc, i, items[i]), items, done \cup KeysOf(items, i), N)
<1> DEFINE o == items[i]
           cloudKey == <<"cloud", o.cloud>>
           fqdnKey == <<"fqdn", o.fqdn>>
           sourceKey == <<"source", o.source, o.source_record_id>>
           cloud == IF o.cloud = Missing THEN acc ELSE C!Link(acc, i, cloudKey)
           fqdn == IF o.fqdn = Missing THEN cloud ELSE C!Link(cloud, i, fqdnKey)
           done1 == IF o.cloud = Missing THEN done ELSE done \cup {<<i, cloudKey>>}
           done2 == IF o.fqdn = Missing THEN done1 ELSE done1 \cup {<<i, fqdnKey>>}
<1>1. C!IdentityKeys(o) = {sourceKey} \cup (IF o.fqdn = Missing THEN {} ELSE {fqdnKey})
                                     \cup (IF o.cloud = Missing THEN {} ELSE {cloudKey})
  BY DEF C!IdentityKeys
<1>2. C!LinkKeys(acc, i, o) = C!Link(fqdn, i, sourceKey)
  BY DEF C!LinkKeys
<1> HIDE DEF o, cloudKey, fqdnKey, sourceKey
<1>3. Links(cloud, items, done1, N)
  <2>1. CASE o.cloud = Missing
    BY <2>1
  <2>2. CASE o.cloud # Missing
    <3>1. cloudKey \in C!IdentityKeys(items[i])
      BY <1>1, <2>2 DEF o
    <3> QED BY <2>2, <3>1, LinkMore
  <2> QED BY <2>1, <2>2
<1> HIDE DEF cloud, done1
<1>4. Links(fqdn, items, done2, N)
  <2>1. CASE o.fqdn = Missing
    BY <1>3, <2>1
  <2>2. CASE o.fqdn # Missing
    <3>1. fqdnKey \in C!IdentityKeys(items[i])
      BY <1>1, <2>2 DEF o
    <3> QED BY <1>3, <2>2, <3>1, LinkMore
  <2> QED BY <2>1, <2>2
<1> HIDE DEF fqdn
<1>5. Links(C!LinkKeys(acc, i, o), items, done2 \cup {<<i, sourceKey>>}, N)
  <2>1. sourceKey \in C!IdentityKeys(items[i])
    BY <1>1 DEF o
  <2> HIDE DEF done2
  <2> QED BY <1>2, <1>4, <2>1, LinkMore
<1>6. done2 \cup {<<i, sourceKey>>} = done \cup KeysOf(items, i)
  <2> DEFINE pair(k) == <<i, k>>
  <2>1. KeysOf(items, i) = {pair(k) : k \in C!IdentityKeys(o)}
    BY DEF KeysOf, o
  <2>2. done1 = done \cup (IF o.cloud = Missing THEN {} ELSE {pair(cloudKey)})
    BY DEF done1
  <2>3. done2 = done1 \cup (IF o.fqdn = Missing THEN {} ELSE {pair(fqdnKey)})
    OBVIOUS
  <2> HIDE DEF pair, done2
  <2>4. KeysOf(items, i) = {pair(sourceKey)} \cup (IF o.fqdn = Missing THEN {} ELSE {pair(fqdnKey)})
                                     \cup (IF o.cloud = Missing THEN {} ELSE {pair(cloudKey)})
    BY <1>1, <2>1
  <2>5. done2 \cup {pair(sourceKey)} = done \cup KeysOf(items, i)
    BY <2>2, <2>3, <2>4
  <2> QED BY <2>5 DEF pair
<1> QED BY <1>5, <1>6 DEF o

Nothing(N) == [parents |-> [i \in 1..N |-> i], owner |-> <<>>]
LinkLoop(linked, items, N, m) ==
  linked = [n \in 0..m |-> IF n = 0 THEN Nothing(N) ELSE C!LinkKeys(linked[n - 1], n, items[n])]
FindLoop(found, p, m) ==
  found = [n \in 0..m |-> IF n = 0 THEN [at |-> 0, parents |-> p] ELSE C!Find(found[n - 1].parents, n)]

\* There are functions that the recursions of the two loops define.
LEMMA LinkLoopExists == ASSUME NEW items, NEW N \in Nat PROVE \E linked : LinkLoop(linked, items, N, N)
<1> DEFINE T == {m \in 0..N : ~\E linked : LinkLoop(linked, items, N, m)}
<1>1. SUFFICES ASSUME T # {} PROVE FALSE
  OBVIOUS
<1>2. T \in SUBSET Nat
  OBVIOUS
<1>3. PICK m \in T : \A y \in T : m <= y
  BY <1>1, <1>2, LeastElement
<1>4. m # 0
  <2>1. LinkLoop([n \in 0..0 |-> Nothing(N)], items, N, 0)
    BY DEF LinkLoop
  <2> QED BY <2>1
<1>5. PICK linked : LinkLoop(linked, items, N, m - 1)
  <2>1. m - 1 \in 0..N /\ ~(m <= m - 1)
    BY <1>4
  <2> QED BY <1>3, <2>1
<1> DEFINE more == [n \in 0..m |-> IF n = m THEN C!LinkKeys(linked[m - 1], m, items[m]) ELSE linked[n]]
<1>6. LinkLoop(more, items, N, m)
  <2>1. \A n \in 0..m : more[n] = IF n = 0 THEN Nothing(N) ELSE C!LinkKeys(more[n - 1], n, items[n])
    BY <1>4, <1>5 DEF LinkLoop
  <2> QED BY <2>1 DEF LinkLoop
<1> QED BY <1>6

\* The same for the second loop.
LEMMA FindLoopExists == ASSUME NEW p, NEW N \in Nat PROVE \E found : FindLoop(found, p, N)
<1> DEFINE T == {m \in 0..N : ~\E found : FindLoop(found, p, m)}
<1>1. SUFFICES ASSUME T # {} PROVE FALSE
  OBVIOUS
<1>2. T \in SUBSET Nat
  OBVIOUS
<1>3. PICK m \in T : \A y \in T : m <= y
  BY <1>1, <1>2, LeastElement
<1>4. m # 0
  <2>1. FindLoop([n \in 0..0 |-> [at |-> 0, parents |-> p]], p, 0)
    BY DEF FindLoop
  <2> QED BY <2>1
<1>5. PICK found : FindLoop(found, p, m - 1)
  <2>1. m - 1 \in 0..N /\ ~(m <= m - 1)
    BY <1>4
  <2> QED BY <1>3, <2>1
<1> DEFINE more == [n \in 0..m |-> IF n = m THEN C!Find(found[m - 1].parents, m) ELSE found[n]]
<1>6. FindLoop(more, p, m)
  <2>1. \A n \in 0..m : more[n] = IF n = 0 THEN [at |-> 0, parents |-> p] ELSE C!Find(more[n - 1].parents, n)
    BY <1>4, <1>5 DEF FindLoop
  <2> QED BY <2>1 DEF FindLoop
<1> QED BY <1>6

Done(items, n) == UNION {KeysOf(items, i) : i \in 1..n}

\* What the first loop has linked after each observation.
LEMMA LinkLoopIs ==
  ASSUME NEW N \in Nat, NEW items, NEW linked, LinkLoop(linked, items, N, N)
  PROVE  Links(linked[N], items, Done(items, N), N)
<1> DEFINE Holds(n) == Links(linked[n], items, Done(items, n), N)
           T == {n \in 0..N : ~Holds(n)}
<1>1. SUFFICES ASSUME T # {} PROVE FALSE
  OBVIOUS
<1>2. T \in SUBSET Nat
  OBVIOUS
<1>3. PICK n \in T : \A y \in T : n <= y
  BY <1>1, <1>2, LeastElement
<1>4. CASE n = 0
  <2> DEFINE self == [i \in 1..N |-> i]
             none == Nothing(N)
  <2>1. linked[0] = none /\ none = [parents |-> self, owner |-> <<>>]
    BY DEF LinkLoop, Nothing
  <2>2. Done(items, 0) = {}
    BY DEF Done
  <2>3. Forest(self, N) /\ Rooted(self, self, N)
    BY DEF Forest, Rooted
  <2>4. \A X : Closed(self, X, N)
    BY DEF Closed
  <2> HIDE DEF self, none
  <2>5. none.parents = self /\ none.owner = <<>> /\ DOMAIN <<>> = {}
    BY <2>1
  <2>6. Linked(none, self, items, {}, N)
    BY <2>3, <2>4, <2>5 DEF Linked
  <2>7. Links(none, items, {}, N)
    BY <2>1, <2>5, <2>6 DEF Links
  <2> QED BY <1>3, <1>4, <2>1, <2>2, <2>7
<1>5. CASE n # 0
  <2> DEFINE m == n - 1
  <2>1. m \in 0..N /\ n \in 1..N /\ Holds(m)
    BY <1>3, <1>5
  <2>2. linked[n] = C!LinkKeys(linked[m], n, items[n])
    BY <1>5 DEF LinkLoop
  <2>3. Done(items, n) = Done(items, m) \cup KeysOf(items, n)
    <3>1. 1..n = 1..m \cup {n}
      BY <2>1
    <3> QED BY <3>1 DEF Done
  <2> HIDE DEF m
  <2>4. Links(C!LinkKeys(linked[m], n, items[n]), items, Done(items, m) \cup KeysOf(items, n), N)
    BY <2>1, LinkKeysIs
  <2> QED BY <1>3, <2>2, <2>3, <2>4
<1> QED BY <1>4, <1>5

\* The second loop finds every root, although it keeps changing the forest.
LEMMA FindLoopIs ==
  ASSUME NEW N \in Nat, NEW p, NEW f, Forest(p, N), Rooted(p, f, N), NEW found, FindLoop(found, p, N),
         NEW i \in 1..N
  PROVE  found[i].at = f[i] /\ \A X : Closed(p, X, N) => (f[i] \in X <=> i \in X)
<1> DEFINE Holds(n) == /\ Forest(found[n].parents, N) /\ Rooted(found[n].parents, f, N)
                       /\ n # 0 => found[n].at = f[n]
                       /\ \A X : Closed(p, X, N) => /\ Closed(found[n].parents, X, N)
                                                    /\ n # 0 => (f[n] \in X <=> n \in X)
           T == {n \in 0..N : ~Holds(n)}
<1>1. SUFFICES ASSUME T # {} PROVE FALSE
  OBVIOUS
<1>2. T \in SUBSET Nat
  OBVIOUS
<1>3. PICK n \in T : \A y \in T : n <= y
  BY <1>1, <1>2, LeastElement
<1>4. CASE n = 0
  <2>1. found[0].parents = p
    BY DEF FindLoop
  <2> QED BY <1>3, <1>4, <2>1
<1>5. CASE n # 0
  <2> DEFINE m == n - 1
             q == found[m].parents
             w == C!Find(q, n)
  <2>1. m \in 0..N /\ n \in 1..N /\ Holds(m)
    BY <1>3, <1>5
  <2>2. found[n] = w
    BY <1>5 DEF FindLoop
  <2>3. Forest(q, N) /\ Rooted(q, f, N) /\ \A X : Closed(p, X, N) => Closed(q, X, N)
    BY <2>1
  <2> HIDE DEF q, m
  <2>4. /\ w.at = f[n] /\ Forest(w.parents, N) /\ Rooted(w.parents, f, N)
        /\ \A X : Closed(q, X, N) => Closed(w.parents, X, N) /\ (f[n] \in X <=> n \in X)
    BY <2>1, <2>3, FindIs
  <2> HIDE DEF w
  <2> QED BY <1>3, <2>2, <2>3, <2>4
<1> QED BY <1>4, <1>5

\* The groups of correlate_assets are those of a root for each observation, such that
\* observations with a common key have one root and nothing else brings roots together.
LEMMA CorrelateIs ==
  ASSUME NEW items, Len(items) \in Nat
  PROVE  \E f \in [1..Len(items) -> 1..Len(items)] :
            /\ C!Correlate(items) = {{j \in 1..Len(items) : f[j] = f[i]} : i \in 1..Len(items)}
            /\ \A i, j \in 1..Len(items) : C!Shares(items, i, j) => f[i] = f[j]
            /\ \A X : Respects(items, X, Len(items)) => \A i \in 1..Len(items) : f[i] \in X <=> i \in X
<1> DEFINE N == Len(items)
           linked == CHOOSE linked : LinkLoop(linked, items, N, N)
           found == CHOOSE found : FindLoop(found, linked[N].parents, N)
           roots == [i \in 1..N |-> found[i].at]
<1>1. LinkLoop(linked, items, N, N)
  BY LinkLoopExists
<1>2. FindLoop(found, linked[N].parents, N)
  BY FindLoopExists
<1>3. C!Correlate(items) = {{j \in 1..N : roots[j] = roots[i]} : i \in 1..N}
  BY Zenon DEF C!Correlate, LinkLoop, FindLoop, Nothing
<1>4. N \in Nat
  OBVIOUS
<1> HIDE DEF linked, found, N
<1>5. PICK f : Linked(linked[N], f, items, Done(items, N), N)
  BY <1>1, <1>4, LinkLoopIs DEF Links
<1> DEFINE p == linked[N].parents
           owner == linked[N].owner
<1>6. /\ Forest(p, N) /\ Rooted(p, f, N)
      /\ \A i, key : <<i, key>> \in Done(items, N) => f[owner[key]] = f[i]
      /\ \A X : Respects(items, X, N) => Closed(p, X, N)
  BY <1>5 DEF Linked
<1> HIDE DEF p, owner
<1>7. f \in [1..N -> 1..N]
  BY <1>6 DEF Rooted
<1>8. \A i \in 1..N : found[i].at = f[i] /\ \A X : Closed(p, X, N) => (f[i] \in X <=> i \in X)
  BY <1>2, <1>4, <1>6, FindLoopIs DEF p
<1>9. roots = f
  BY <1>7, <1>8
<1>10. ASSUME NEW i \in 1..N, NEW j \in 1..N, C!Shares(items, i, j) PROVE f[i] = f[j]
  <2>1. PICK key : key \in C!IdentityKeys(items[i]) /\ key \in C!IdentityKeys(items[j])
    BY <1>10 DEF C!Shares
  <2>2. <<i, key>> \in Done(items, N) /\ <<j, key>> \in Done(items, N)
    BY <2>1 DEF Done, KeysOf
  <2> QED BY <1>6, <2>2
<1> HIDE DEF roots
<1>11. \A X : Respects(items, X, N) => \A i \in 1..N : f[i] \in X <=> i \in X
  BY <1>6, <1>8
<1>12. C!Correlate(items) = {{j \in 1..N : f[j] = f[i]} : i \in 1..N}
  BY <1>3, <1>9
<1> QED BY <1>7, <1>10, <1>11, <1>12 DEF N

\* The groups are the connected components of sharing a key, for any observations.
LEMMA GroupsConnect == ASSUME NEW items, IsList(items) PROVE C!AreComponents(items)
<1> DEFINE N == Len(items)
           groups == C!Correlate(items)
<1>1. N \in Nat
  BY DEF IsList
<1> HIDE DEF N
<1>2. PICK f \in [1..N -> 1..N] :
            /\ groups = {{j \in 1..N : f[j] = f[i]} : i \in 1..N}
            /\ \A i, j \in 1..N : C!Shares(items, i, j) => f[i] = f[j]
            /\ \A X : Respects(items, X, N) => \A i \in 1..N : f[i] \in X <=> i \in X
  BY <1>1, CorrelateIs DEF N
<1> HIDE DEF groups
<1>3. \A g \in groups : g \subseteq 1..N /\ \A i \in g, j \in 1..N : j \in g <=> f[i] = f[j]
  BY <1>2
<1>4. UNION groups = 1..N
  <2>1. ASSUME NEW i \in 1..N PROVE \E g \in groups : i \in g
    <3>1. {j \in 1..N : f[j] = f[i]} \in groups
      BY <1>2
    <3> QED BY <3>1
  <2> QED BY <1>3, <2>1
<1>5. ASSUME NEW g \in groups, NEW h \in groups, NEW i \in g, NEW j \in h, f[i] = f[j] PROVE g = h
  BY <1>3, <1>5
<1>6. ASSUME NEW g \in groups, NEW h \in groups, g # h
      PROVE  g \cap h = {} /\ C!AssetId(items, g) \cap C!AssetId(items, h) = {}
  <2>1. g \cap h = {}
    BY <1>5, <1>6
  <2>2. ASSUME NEW key \in C!AssetId(items, g) \cap C!AssetId(items, h) PROVE FALSE
    <3>1. PICK i \in g, j \in h : key \in C!IdentityKeys(items[i]) /\ key \in C!IdentityKeys(items[j])
      BY <2>2 DEF C!AssetId
    <3>2. C!Shares(items, i, j)
      BY <3>1 DEF C!Shares
    <3>3. f[i] = f[j]
      BY <1>2, <1>3, <3>2
    <3> QED BY <1>5, <1>6, <3>3
  <2> QED BY <2>1, <2>2
<1>7. ASSUME NEW g \in groups, NEW part \in (SUBSET g) \ {{}, g}
      PROVE  \E i \in part, j \in g \ part : C!Shares(items, i, j)
  <2>1. SUFFICES ASSUME \A i \in part, j \in g \ part : ~C!Shares(items, i, j) PROVE FALSE
    OBVIOUS
  <2>2. \A i, j : C!Shares(items, i, j) <=> C!Shares(items, j, i)
    BY DEF C!Shares
  <2>3. Respects(items, part, N)
    <3>1. ASSUME NEW i \in 1..N, NEW j \in 1..N, C!Shares(items, i, j), i \in part PROVE j \in part
      <4>1. j \in g
        BY <1>2, <1>3, <3>1
      <4> QED BY <2>1, <3>1, <4>1
    <3> QED BY <2>2, <3>1 DEF Respects
  <2>4. PICK i \in part, j \in g \ part : TRUE
    <3>1. part # {} /\ part # g /\ part \subseteq g
      BY <1>7
    <3>2. \E j \in g : j \notin part
      BY <3>1
    <3> QED BY <3>1, <3>2
  <2>5. f[i] = f[j] /\ i \in 1..N /\ j \in 1..N
    BY <1>3, <2>4
  <2> QED BY <1>2, <2>3, <2>4, <2>5
<1> QED BY <1>4, <1>6, <1>7 DEF C!AreComponents, N, groups

FlattenLoop(flatten, seqs, m) ==
  flatten = [i \in 1..m |-> IF i = 1 THEN seqs[i] ELSE flatten[i - 1] \o seqs[i]]

\* There is a function that the recursion of flattening a list of lists defines.
LEMMA FlattenLoopExists ==
  ASSUME NEW seqs, NEW N \in Nat, N # 0 PROVE \E flatten : FlattenLoop(flatten, seqs, N)
<1> DEFINE T == {m \in 1..N : ~\E flatten : FlattenLoop(flatten, seqs, m)}
<1>1. SUFFICES ASSUME T # {} PROVE FALSE
  OBVIOUS
<1>2. T \in SUBSET Nat
  OBVIOUS
<1>3. PICK m \in T : \A y \in T : m <= y
  BY <1>1, <1>2, LeastElement
<1>4. m # 1
  <2>1. FlattenLoop([i \in 1..1 |-> seqs[i]], seqs, 1)
    BY DEF FlattenLoop
  <2> QED BY <2>1
<1>5. PICK flatten : FlattenLoop(flatten, seqs, m - 1)
  <2>1. m - 1 \in 1..N /\ ~(m <= m - 1)
    BY <1>4
  <2> QED BY <1>3, <2>1
<1> DEFINE last == flatten[m - 1] \o seqs[m]
           more == [i \in 1..m |-> IF i = m THEN last ELSE flatten[i]]
<1>6. FlattenLoop(more, seqs, m)
  <2>1. ASSUME NEW i \in 1..m PROVE more[i] = IF i = 1 THEN seqs[i] ELSE more[i - 1] \o seqs[i]
    <3>1. CASE i = m
      <4>1. more[i] = last /\ more[i - 1] = flatten[m - 1]
        <5> HIDE DEF last
        <5> QED BY <1>4, <3>1
      <4> QED BY <1>4, <3>1, <4>1
    <3>2. CASE i # m
      <4>1. more[i] = flatten[i] /\ i \in 1..m-1 /\ (i # 1 => more[i - 1] = flatten[i - 1])
        BY <3>2
      <4>2. flatten[i] = IF i = 1 THEN seqs[i] ELSE flatten[i - 1] \o seqs[i]
        BY <1>5, <4>1 DEF FlattenLoop
      <4> HIDE DEF more
      <4> QED BY <4>1, <4>2
    <3> QED BY <3>1, <3>2
  <2> QED BY <2>1 DEF FlattenLoop
<1> QED BY <1>6

\* A list of lists, flattened, is a list of members of those lists.
LEMMA FlattenIs ==
  ASSUME NEW N \in Nat, NEW seqs, Len(seqs) = N, DOMAIN seqs = 1..N, seqs = [r \in 1..N |-> seqs[r]],
         NEW Members, \A r \in 1..N : seqs[r] \in Seq(Members)
  PROVE  C!FlattenSeq(seqs) \in Seq(Members)
<1>1. CASE N = 0
  <2>1. seqs = <<>> /\ <<>> \in Seq(Members)
    BY <1>1
  <2> QED BY <1>1, <2>1 DEF C!FlattenSeq
<1>2. CASE N # 0
  <2> DEFINE flatten == CHOOSE flatten : FlattenLoop(flatten, seqs, N)
             T == {i \in 1..N : flatten[i] \notin Seq(Members)}
  <2>1. FlattenLoop(flatten, seqs, N)
    BY <1>2, FlattenLoopExists
  <2>2. C!FlattenSeq(seqs) = flatten[N]
    BY <1>2 DEF C!FlattenSeq, FlattenLoop
  <2> HIDE DEF flatten
  <2>3. SUFFICES ASSUME T # {} PROVE FALSE
    BY <1>2, <2>2
  <2>4. T \in SUBSET Nat
    OBVIOUS
  <2>5. PICK i \in T : \A y \in T : i <= y
    BY <2>3, <2>4, LeastElement
  <2>6. CASE i = 1
    BY <2>1, <2>5, <2>6 DEF FlattenLoop
  <2>7. CASE i # 1
    <3>1. i \in 1..N /\ i - 1 \in 1..N /\ i - 1 \notin T
      BY <2>5, <2>7
    <3>2. flatten[i] = flatten[i - 1] \o seqs[i]
      BY <2>1, <2>7, <3>1 DEF FlattenLoop
    <3>3. flatten[i - 1] \in Seq(Members) /\ seqs[i] \in Seq(Members)
      BY <3>1
    <3> DEFINE a == flatten[i - 1]
               b == seqs[i]
    <3> HIDE DEF a, b
    <3>4. a \o b \in Seq(Members)
      BY <3>3 DEF a, b
    <3> QED BY <2>5, <3>2, <3>4 DEF a, b
  <2> QED BY <2>6, <2>7
<1> QED BY <1>1, <1>2

\* The size of a set is the same seen from there.
LEMMA SameSizeToo == ASSUME NEW set PROVE C!Cardinality(set) = Cardinality(set)
BY Zenon DEF C!Cardinality, Cardinality

\* The observations of an accepted export share no key, whatever the export: each instance
\* is an asset of its own (convert_export, and the readers that expect this of it).
LEMMA ExportsStayApart ==
  ASSUME NEW account, NEW region, input.kind = "export", ExportOK
  PROVE  C!StayApart(input.export, account, region)
<1> DEFINE export == input.export
           reservations == export.reservations
           items == C!ConvertExport(export, account, region)
           found == C!Instances(export)
           n == Len(found)
           Members == UNION {C!ToSet(reservations[r].instances) : r \in DOMAIN reservations}
<1>1. /\ Len(reservations) \in Nat /\ DOMAIN reservations = 1..Len(reservations)
      /\ \A r \in 1..Len(reservations) : IsList(reservations[r].instances)
      /\ \A r \in 1..Len(reservations) : \A i \in DOMAIN reservations[r].instances :
            IsList(reservations[r].instances[i].tags)
  BY DEF ExportOK, IsList
<1> HIDE DEF export, reservations, items
<1>2. found \in Seq(Members)
  <2> DEFINE N == Len(reservations)
             lists == [r \in 1..N |-> reservations[r].instances]
  <2>1. Len(lists) = N
    <3> HIDE DEF N
    <3>1. N \in Nat
      BY <1>1 DEF N
    <3> QED BY <3>1, LenOf
  <2>2. ASSUME NEW r \in 1..N PROVE lists[r] \in Seq(Members)
    <3> DEFINE s == reservations[r].instances
    <3>1. Len(s) \in Nat /\ s = [i \in 1..Len(s) |-> s[i]]
      BY <1>1 DEF IsList
    <3>2. \A i \in 1..Len(s) : s[i] \in Members
      BY <1>1, <3>1 DEF C!ToSet
    <3> HIDE DEF Members, s
    <3>3. [i \in 1..Len(s) |-> s[i]] \in Seq(Members)
      BY <3>1, <3>2
    <3>4. s \in Seq(Members)
      BY <3>1, <3>3
    <3> QED BY <3>4 DEF s
  <2> HIDE DEF Members
  <2>3. N \in Nat /\ DOMAIN lists = 1..N /\ lists = [r \in 1..N |-> lists[r]]
    BY <1>1
  <2>4. found = C!FlattenSeq(lists)
    BY DEF C!Instances, reservations
  <2> HIDE DEF lists, N, found
  <2> QED BY <2>1, <2>2, <2>3, <2>4, FlattenIs
<1>3. \A m \in Members : IsList(m.tags)
  BY <1>1 DEF C!ToSet
<1> HIDE DEF Members, found
<1>4. n \in Nat /\ DOMAIN found = 1..n /\ \A i \in 1..n : IsList(found[i].tags)
  BY <1>2, <1>3
<1>5. SUFFICES ASSUME items # Invalid
               PROVE  /\ ~export.next_token
                      /\ Len(items) = C!Cardinality({i.id : i \in C!ToSet(found)})
                      /\ C!Correlate(items) = {{i} : i \in 1..Len(items)}
                      /\ \A i \in 1..Len(items) : \A s, t \in items[i].tags : s[1] = t[1] => s = t
  BY DEF C!StayApart, export, items, found
<1> DEFINE arn(i) == C!Arn(account, region, found[i].id)
           asset(i) == [source |-> "aws-ec2-export", source_record_id |-> arn(i),
                        fqdn |-> Missing, cloud |-> <<"aws", account, arn(i)>>,
                        tags |-> {t \in C!ToSet(found[i].tags) : t[1] \in ReviewTags}]
<1>6. /\ ~export.next_token
      /\ \A i, j \in 1..n : i # j => found[i].id # found[j].id
      /\ \A i \in 1..n : \A s, t \in 1..Len(found[i].tags) : s # t => found[i].tags[s][1] # found[i].tags[t][1]
      /\ items = [i \in 1..n |-> asset(i)]
  BY <1>5 DEF C!ConvertExport, items, found, export
<1> HIDE DEF n
<1>7. Len(items) = n
  <2> HIDE DEF asset
  <2> QED BY <1>4, <1>6, LenOf
<1>8. Len(items) = C!Cardinality({i.id : i \in C!ToSet(found)})
  <2> DEFINE ids == {i.id : i \in C!ToSet(found)}
             id == [i \in 1..n |-> found[i].id]
  <2>1. ids = {found[i].id : i \in 1..n}
    BY <1>4 DEF C!ToSet
  <2> HIDE DEF ids
  <2>2. id \in Injection(1..n, ids) /\ id \in Surjection(1..n, ids)
    BY <1>6, <2>1 DEF Injection, IsInjective, Surjection
  <2>3. ExistsBijection(1..n, ids)
    BY <2>2 DEF ExistsBijection, Bijection
  <2>4. Cardinality(ids) = n
    BY <1>4, <2>3, FS_CountingElements
  <2> QED BY <1>7, <2>4, SameSizeToo DEF ids
<1>9. \A i, j \in 1..n : C!Shares(items, i, j) => i = j
  <2> SUFFICES ASSUME NEW i \in 1..n, NEW j \in 1..n, i # j PROVE ~C!Shares(items, i, j)
    OBVIOUS
  <2> DEFINE key(k) == <<"source", "aws-ec2-export", arn(k)>>
             cloud(k) == <<"cloud", <<"aws", account, arn(k)>>>>
  <2>1. \A k \in {i, j} : C!IdentityKeys(items[k]) \subseteq {key(k), cloud(k)}
    BY <1>6 DEF C!IdentityKeys
  <2>2. arn(i) # arn(j)
    BY <1>6 DEF C!Arn
  <2> HIDE DEF arn
  <2>3. key(i) # key(j) /\ cloud(i) # cloud(j) /\ key(i) # cloud(j) /\ cloud(i) # key(j)
    BY <2>2
  <2> HIDE DEF key, cloud
  <2> QED BY <2>1, <2>3 DEF C!Shares
<1>10. C!Correlate(items) = {{i} : i \in 1..Len(items)}
  <2>1. PICK f \in [1..Len(items) -> 1..Len(items)] :
            /\ C!Correlate(items) = {{j \in 1..Len(items) : f[j] = f[i]} : i \in 1..Len(items)}
            /\ \A X : Respects(items, X, Len(items)) => \A i \in 1..Len(items) : f[i] \in X <=> i \in X
    BY <1>4, <1>7, CorrelateIs
  <2>2. ASSUME NEW i \in 1..Len(items) PROVE f[i] = i
    <3>1. Respects(items, {i}, Len(items))
      BY <1>7, <1>9 DEF Respects
    <3> QED BY <2>1, <3>1
  <2>3. \A i \in 1..Len(items) : {j \in 1..Len(items) : f[j] = f[i]} = {i}
    BY <2>2
  <2> QED BY <2>1, <2>3
<1>11. ASSUME NEW i \in 1..n, NEW s \in items[i].tags, NEW t \in items[i].tags, s[1] = t[1] PROVE s = t
  <2> DEFINE tags == found[i].tags
  <2>1. Len(tags) \in Nat /\ DOMAIN tags = 1..Len(tags)
    BY <1>4 DEF IsList
  <2>2. s \in C!ToSet(tags) /\ t \in C!ToSet(tags)
    BY <1>6, <1>11
  <2>3. PICK k \in 1..Len(tags), l \in 1..Len(tags) : s = tags[k] /\ t = tags[l]
    BY <2>1, <2>2 DEF C!ToSet
  <2> QED BY <1>6, <1>11, <2>3
<1> QED BY <1>6, <1>7, <1>8, <1>10, <1>11

\* Assets are the connected components of sharing an identity key, for any observations and
\* exports (correlate_assets, convert_export).
LEMMA GroupsAre == InputOK => GroupsAreComponents
BY GroupsConnect, ExportsStayApart DEF InputOK, ObservationsOK, GroupsAreComponents

\* Of all observations and exports, the groups are the components and instances stay apart.
THEOREM GroupsAreConnected == Spec => []GroupsAreComponents
BY InputsAreOK, GroupsAre, PTL

-----------------------------------------------------------------------------
(* Queues: their order *)

\* The size of a set is the same seen from there.
LEMMA SameSizeThere == ASSUME NEW set PROVE P!Cardinality(set) = Cardinality(set)
BY Zenon DEF P!Cardinality, Cardinality

\* The values of a function on a finite set are finitely many.
LEMMA FiniteRange ==
  ASSUME NEW dom, IsFiniteSet(dom), NEW f, DOMAIN f = dom, f = [x \in dom |-> f[x]]
  PROVE  IsFiniteSet({f[x] : x \in dom})
<1> DEFINE values == {f[x] : x \in dom}
<1>1. f \in Surjection(dom, values)
  <2>1. f \in [dom -> values]
    OBVIOUS
  <2>2. \A v \in values : \E x \in dom : f[x] = v
    OBVIOUS
  <2> QED BY <2>1, <2>2, Zenon DEF Surjection
<1> QED BY <1>1, FS_Surjection

\* Priority, due date and identifier, compared in this order.
Lexical(l, r) ==
  \/ l.plan.priority < r.plan.priority
  \/ /\ l.plan.priority = r.plan.priority
     /\ \/ l.plan.due < r.plan.due
        \/ l.plan.due = r.plan.due /\ l.plan.assessment.finding[1] < r.plan.assessment.finding[1]

\* An item whose keys can be compared.
Comparable(x) == x.plan.priority \in Int /\ x.plan.due \in Int /\ x.plan.assessment.finding[1] \in Int

\* The first key that differs decides.
LEMMA BeforeIs ==
  ASSUME NEW l, NEW r, Comparable(l), Comparable(r)
  PROVE  P!Before(l, r) <=> Lexical(l, r)
<1> DEFINE key(x) == <<x.plan.priority, x.plan.due, x.plan.assessment.finding[1]>>
           differ == {n \in 1..3 : key(l)[n] # key(r)[n]}
<1>1. P!Before(l, r) <=> differ # {} /\ key(l)[P!Min(differ)] < key(r)[P!Min(differ)]
  BY DEF P!Before
<1>2. \A x : key(x)[1] = x.plan.priority /\ key(x)[2] = x.plan.due /\ key(x)[3] = x.plan.assessment.finding[1]
  OBVIOUS
<1>3. \A n : n \in 1..3 <=> n = 1 \/ n = 2 \/ n = 3
  OBVIOUS
<1>4. \A n : n \in differ <=> n \in 1..3 /\ key(l)[n] # key(r)[n]
  OBVIOUS
<1> HIDE DEF key, differ
<1>5. ASSUME NEW n \in differ, \A m \in differ : n <= m PROVE P!Min(differ) = n
  <2>1. \A x \in differ : x \in Int
    BY <1>3, <1>4
  <2>2. \A x \in differ : (\A y \in differ : x <= y) => x = n
    BY <1>5, <2>1
  <2>3. (CHOOSE x \in differ : \A y \in differ : x <= y) = n
    BY <1>5, <2>2
  <2> QED BY <2>3 DEF P!Min
<1> USE DEF Comparable, Lexical
<1>6. CASE 1 \in differ
  <2>1. P!Min(differ) = 1
    BY <1>3, <1>4, <1>5, <1>6
  <2> QED BY <1>1, <1>2, <1>4, <1>6, <2>1
<1>7. CASE 1 \notin differ /\ 2 \in differ
  <2>1. P!Min(differ) = 2
    BY <1>3, <1>4, <1>5, <1>7
  <2> QED BY <1>1, <1>2, <1>3, <1>4, <1>7, <2>1
<1>8. CASE 1 \notin differ /\ 2 \notin differ /\ 3 \in differ
  <2>1. P!Min(differ) = 3
    BY <1>3, <1>4, <1>5, <1>8
  <2> QED BY <1>1, <1>2, <1>3, <1>4, <1>8, <2>1
<1>9. CASE 1 \notin differ /\ 2 \notin differ /\ 3 \notin differ
  <2>1. differ = {}
    BY <1>3, <1>4, <1>9
  <2>2. l.plan.priority = r.plan.priority /\ l.plan.due = r.plan.due
        /\ l.plan.assessment.finding[1] = r.plan.assessment.finding[1]
    BY <1>2, <1>3, <1>4, <1>9
  <2>3. ~Lexical(l, r)
    BY <2>2
  <2> QED BY <1>1, <2>1, <2>3
<1> QED BY <1>6, <1>7, <1>8, <1>9

\* A finite set of items that can be told apart by their identifiers.
Queueable(set) ==
  /\ IsFiniteSet(set)
  /\ \A x \in set : Comparable(x)
  /\ \A x, y \in set : x # y => x.plan.assessment.finding[1] # y.plan.assessment.finding[1]

\* One order of them exists: each item is at its rank, the number of items before it.
LEMMA SortedExists ==
  ASSUME NEW set, Queueable(set)
  PROVE  \E queue \in [1..Cardinality(set) -> set] :
            \A m, n \in 1..Cardinality(set) : m < n => P!Before(queue[m], queue[n])
<1> DEFINE n == Cardinality(set)
           below(x) == {y \in set : Lexical(y, x)}
           rank == [x \in set |-> Cardinality(below(x)) + 1]
<1>1. n \in Nat /\ IsFiniteSet(set)
  BY FS_CardinalityType DEF Queueable
<1>2. /\ \A x \in set : ~Lexical(x, x)
      /\ \A x, y \in set : x # y => Lexical(x, y) \/ Lexical(y, x)
  BY DEF Queueable, Comparable, Lexical
<1>3. \A x, y, z \in set : Lexical(x, y) /\ Lexical(y, z) => Lexical(x, z)
  BY DEF Queueable, Comparable, Lexical
<1>4. ASSUME NEW x \in set PROVE IsFiniteSet(below(x)) /\ Cardinality(below(x)) \in Nat /\ rank[x] \in 1..n
  <2>1. below(x) \subseteq set /\ x \notin below(x) /\ x \in set
    BY <1>2
  <2> HIDE DEF below
  <2>2. IsFiniteSet(below(x)) /\ Cardinality(below(x)) <= Cardinality(set)
        /\ (Cardinality(set) = Cardinality(below(x)) => set = below(x))
    BY <1>1, <2>1, FS_Subset
  <2>3. Cardinality(below(x)) \in Nat
    BY <2>2, FS_CardinalityType
  <2>4. Cardinality(below(x)) # n
    BY <2>1, <2>2
  <2> QED BY <1>1, <2>2, <2>3, <2>4
<1>5. ASSUME NEW x \in set, NEW y \in set, Lexical(x, y) PROVE rank[x] < rank[y]
  <2>1. below(x) \subseteq below(y) /\ x \in below(y) /\ x \notin below(x)
    BY <1>2, <1>3, <1>5
  <2>2. IsFiniteSet(below(x)) /\ IsFiniteSet(below(y)) /\ Cardinality(below(x)) \in Nat /\ Cardinality(below(y)) \in Nat
    BY <1>4
  <2> HIDE DEF below
  <2>3. Cardinality(below(x)) <= Cardinality(below(y))
        /\ (Cardinality(below(y)) = Cardinality(below(x)) => below(y) = below(x))
    BY <2>1, <2>2, FS_Subset
  <2> QED BY <2>1, <2>2, <2>3
<1> HIDE DEF rank, below
<1>6. rank \in Injection(set, 1..n)
  <2>1. rank \in [set -> 1..n]
    BY <1>4 DEF rank
  <2>2. \A x, y \in set : rank[x] = rank[y] => x = y
    BY <1>2, <1>4, <1>5
  <2> QED BY <2>1, <2>2 DEF Injection, IsInjective
<1>7. rank \in Surjection(set, 1..n)
  <2>1. IsFiniteSet(1..n) /\ Cardinality(1..n) = n
    BY <1>1, FS_Interval
  <2> QED BY <1>6, <2>1, FS_Injection
<1>8. \A m \in 1..n : \E x \in set : rank[x] = m
  BY <1>7 DEF Surjection
<1> DEFINE queue == [m \in 1..n |-> CHOOSE x \in set : rank[x] = m]
<1>9. \A m \in 1..n : queue[m] \in set /\ rank[queue[m]] = m
  BY <1>8
<1>10. queue \in [1..n -> set]
  BY <1>9
<1> HIDE DEF queue, n
<1>11. ASSUME NEW l \in 1..n, NEW m \in 1..n, l < m PROVE P!Before(queue[l], queue[m])
  <2>1. queue[l] \in set /\ queue[m] \in set /\ rank[queue[l]] = l /\ rank[queue[m]] = m
    BY <1>9
  <2>2. Lexical(queue[l], queue[m])
    <3>1. queue[l] # queue[m]
      BY <1>11, <2>1
    <3>2. ~Lexical(queue[m], queue[l])
      <4>1. Lexical(queue[m], queue[l]) => m < l
        BY <1>5, <2>1
      <4> QED BY <1>11, <4>1
    <3> QED BY <1>2, <2>1, <3>1, <3>2
  <2> QED BY <2>1, <2>2, BeforeIs DEF Queueable
<1> QED BY <1>10, <1>11 DEF n

\* A sorted queue has each item of the set once, and the priorities in order.
LEMMA SortedIs ==
  ASSUME NEW set, Queueable(set)
  PROVE  LET queue == P!SortedItems(set)
             n == Cardinality(set)
         IN  /\ n \in Nat /\ queue \in [1..n -> set] /\ Len(queue) = n
             /\ \A x \in set : \E m \in 1..n : queue[m] = x
             /\ \A l, m \in 1..n : queue[l] = queue[m] => l = m
             /\ P!Sorted(queue)
<1> DEFINE queue == P!SortedItems(set)
           n == Cardinality(set)
<1>1. n \in Nat /\ IsFiniteSet(set)
  BY FS_CardinalityType DEF Queueable
<1>2. queue \in [1..n -> set] /\ \A l, m \in 1..n : l < m => P!Before(queue[l], queue[m])
  <2>1. queue = CHOOSE q \in [1..n -> set] : \A l, m \in 1..n : l < m => P!Before(q[l], q[m])
    <3>1. P!Cardinality(set) = n
      BY SameSizeThere
    <3> HIDE DEF n
    <3> QED BY <3>1 DEF P!SortedItems
  <2>2. \E q \in [1..n -> set] : \A l, m \in 1..n : l < m => P!Before(q[l], q[m])
    BY SortedExists
  <2> HIDE DEF queue, n
  <2> QED BY <2>1, <2>2
<1> HIDE DEF queue, n
<1>3. Len(queue) = n
  BY <1>1, <1>2, LenOf
<1>4. ASSUME NEW l \in 1..n, NEW m \in 1..n, l < m PROVE Lexical(queue[l], queue[m])
  BY <1>2, <1>4, BeforeIs DEF Queueable
<1>5. ASSUME NEW l \in 1..n, NEW m \in 1..n, queue[l] = queue[m] PROVE l = m
  <2>1. \A x \in set : ~Lexical(x, x)
    BY DEF Queueable, Comparable, Lexical
  <2>2. queue[l] \in set
    BY <1>2
  <2>3. ~(l < m) /\ ~(m < l)
    BY <1>4, <1>5, <2>1, <2>2
  <2> QED BY <2>3
<1>6. \A x \in set : \E m \in 1..n : queue[m] = x
  <2>1. queue \in Injection(1..n, set)
    BY <1>2, <1>5 DEF Injection, IsInjective
  <2>2. Cardinality(1..n) = n
    BY <1>1, FS_Interval
  <2>3. queue \in Surjection(1..n, set)
    BY <1>1, <2>1, <2>2, FS_Injection DEF n
  <2> QED BY <2>3 DEF Surjection
<1>7. P!Sorted(queue)
  <2>1. ASSUME NEW l \in 1..n, NEW m \in 1..n, l < m PROVE queue[l].plan.priority <= queue[m].plan.priority
    BY <1>2, <1>4, <2>1 DEF Queueable, Comparable, Lexical
  <2> QED BY <1>3, <2>1 DEF P!Sorted
<1> QED BY <1>1, <1>2, <1>3, <1>5, <1>6, <1>7 DEF queue, n

\* A finite set of naturals has a bound.
LEMMA HasBound == ASSUME NEW set \in SUBSET Nat, IsFiniteSet(set) PROVE \E b \in Nat : \A x \in set : x <= b
<1> DEFINE U == {u \in FiniteSubsetsOf(Nat) : ~\E b \in Nat : \A x \in u : x <= b}
<1>1. SUFFICES ASSUME U # {} PROVE FALSE
  BY Zenon DEF FiniteSubsetsOf
<1>2. U \subseteq FiniteSubsetsOf(Nat)
  OBVIOUS
<1>3. PICK u \in U : \A v \in U : ~(<<v, u>> \in StrictSubsetOrdering(Nat))
  BY <1>1, <1>2, FS_StrictSubsetOrderingWellFounded, WFMin, Zenon
<1>4. u \subseteq Nat /\ IsFiniteSet(u) /\ ~\E b \in Nat : \A x \in u : x <= b
  BY DEF FiniteSubsetsOf
<1>5. PICK x \in u : TRUE
  BY <1>4
<1> DEFINE v == u \ {x}
<1>6. v \subseteq Nat /\ v \subseteq u /\ v # u /\ IsFiniteSet(v)
  BY <1>4, FS_RemoveElement
<1>7. <<v, u>> \in StrictSubsetOrdering(Nat)
  BY <1>4, <1>6, Zenon DEF StrictSubsetOrdering
<1>8. v \in FiniteSubsetsOf(Nat) /\ v \notin U
  BY <1>3, <1>6, <1>7, Zenon DEF FiniteSubsetsOf
<1>9. PICK b \in Nat : \A y \in v : y <= b
  BY <1>8
<1>10. \A y \in u : y <= b + x
  BY <1>4, <1>9
<1> QED BY <1>4, <1>10

\* The greatest of a nonempty finite set of naturals.
LEMMA MaxIs ==
  ASSUME NEW set \in SUBSET Nat, IsFiniteSet(set), set # {}
  PROVE  P!Max(set) \in set /\ \A x \in set : x <= P!Max(set)
<1> DEFINE T == {b \in Nat : \A x \in set : x <= b}
<1>1. T # {}
  BY HasBound
<1>2. PICK b \in T : \A c \in T : b <= c
  BY <1>1, LeastElement
<1>3. b \in set
  <2>1. SUFFICES ASSUME b \notin set PROVE FALSE
    OBVIOUS
  <2>2. \A x \in set : x < b
    BY <1>2, <2>1
  <2>3. b \in Nat /\ b # 0
    <3>1. PICK x \in set : TRUE
      OBVIOUS
    <3>2. x \in Nat /\ x < b
      BY <2>2
    <3> QED BY <3>2
  <2>4. b - 1 \in Nat /\ \A x \in set : x <= b - 1
    BY <2>2, <2>3
  <2>5. b - 1 \in T
    BY <2>4
  <2> QED BY <1>2, <2>3, <2>5
<1>4. \A y \in set : b >= y
  BY <1>2
<1>5. P!Max(set) \in set /\ \A y \in set : P!Max(set) >= y
  BY <1>3, <1>4, Zenon DEF P!Max
<1> QED BY <1>5

\* The team that a record is resolved to, and the rules that decide it.
Matching(directory, tags) == {r \in directory.rules : P!Matches(r, tags)}
TeamsOf(directory, tags) == {r.team : r \in P!Strongest(Matching(directory, tags))}

\* What an accepted directory is: finitely many rules, each of a team, with its tags.
LEMMA DirectoryIs ==
  ASSUME NEW raw, IsList(raw.rules), \A i \in DOMAIN raw.rules : RuleOK(raw.rules[i]),
         P!ReadDirectory(raw) # Rejected
  PROVE  LET directory == P!ReadDirectory(raw)
         IN  /\ directory.teams = raw.teams
             /\ directory.rules = {[r EXCEPT !.tags = P!TagMap(@)] : r \in P!ToSet(raw.rules)}
             /\ IsFiniteSet(directory.rules)
             /\ \A r \in directory.rules : r.team \in raw.teams /\ P!Specificity(r) \in Nat
<1> DEFINE directory == P!ReadDirectory(raw)
           rules == raw.rules
           n == Len(rules)
           made(r) == [r EXCEPT !.tags = P!TagMap(@)]
           f == [i \in 1..n |-> made(rules[i])]
<1>1. /\ directory.teams = raw.teams
      /\ directory.rules = {made(r) : r \in P!ToSet(rules)}
      /\ \A i \in 1..n : rules[i].team \in raw.teams /\ P!TagMap(rules[i].tags) # Rejected
  BY DEF P!ReadDirectory
<1>2. n \in Nat /\ DOMAIN rules = 1..n /\ \A i \in 1..n : RuleOK(rules[i])
  BY DEF IsList
<1> HIDE DEF directory, rules, n, made
<1>3. directory.rules = {f[i] : i \in 1..n}
  BY <1>1, <1>2 DEF P!ToSet
<1>4. IsFiniteSet(directory.rules)
  <2>1. IsFiniteSet(1..n)
    BY <1>2, FS_Interval
  <2>2. DOMAIN f = 1..n /\ f = [i \in 1..n |-> f[i]]
    OBVIOUS
  <2> HIDE DEF f
  <2> DEFINE dom == 1..n
  <2>3. IsFiniteSet(dom) /\ DOMAIN f = dom /\ f = [i \in dom |-> f[i]]
    BY <2>1, <2>2
  <2> HIDE DEF dom
  <2>4. IsFiniteSet({f[i] : i \in dom})
    BY <2>3, FiniteRange
  <2> QED BY <1>3, <2>4, Zenon DEF dom
<1>5. ASSUME NEW i \in 1..n PROVE made(rules[i]).team \in raw.teams /\ P!Specificity(made(rules[i])) \in Nat
  <2> DEFINE r == rules[i]
             tags == r.tags
             strip == [l \in DOMAIN tags |-> P!Strip(l)]
  <2>1. RuleOK(r) /\ r.team \in raw.teams /\ P!TagMap(tags) # Rejected
    BY <1>1, <1>2
  <2>2. made(r).team = r.team /\ made(r).tags = P!TagMap(tags)
    <3> HIDE DEF r
    <3>1. r = [id |-> r.id, team |-> r.team, tags |-> r.tags]
      BY <2>1 DEF RuleOK
    <3>2. made(r) = [id |-> r.id, team |-> r.team, tags |-> P!TagMap(r.tags)]
      BY <3>1 DEF made
    <3> QED BY <3>2
  <2>3. DOMAIN P!TagMap(tags) = {strip[l] : l \in DOMAIN tags}
    BY <2>1 DEF P!TagMap
  <2>4. IsFiniteSet(DOMAIN tags)
    BY <2>1 DEF RuleOK
  <2> HIDE DEF r, tags
  <2>5. DOMAIN strip = DOMAIN tags /\ strip = [l \in DOMAIN tags |-> strip[l]]
    OBVIOUS
  <2> HIDE DEF strip
  <2>6. IsFiniteSet(DOMAIN made(r).tags)
    BY <2>2, <2>3, <2>4, <2>5, FiniteRange
  <2> QED BY <2>1, <2>2, <2>6, FS_CardinalityType, SameSizeThere DEF P!Specificity, r
<1>6. \A r \in directory.rules : r.team \in raw.teams /\ P!Specificity(r) \in Nat
  BY <1>3, <1>5
<1> QED BY <1>1, <1>4, <1>6 DEF directory, made, rules

\* A record is resolved to a team exactly if that team wins, and to none if none wins.
LEMMA ResolvedIs ==
  ASSUME NEW raw, IsList(raw.rules), \A i \in DOMAIN raw.rules : RuleOK(raw.rules[i]),
         P!ReadDirectory(raw) # Rejected, NEW tags, P!Resolve(P!ReadDirectory(raw), tags) # Rejected
  PROVE  LET ownership == P!Resolve(P!ReadDirectory(raw), tags)
             winners == P!Winners(raw, P!TagMap(tags))
         IN  /\ ownership.status = "resolved" => winners = {ownership.team}
             /\ ownership.status # "resolved" => winners = {} /\ ownership.team = None
<1> DEFINE directory == P!ReadDirectory(raw)
           map == P!TagMap(tags)
           matches == Matching(directory, map)
           strongest == P!Strongest(matches)
           teams == TeamsOf(directory, map)
           winners == P!Winners(raw, map)
           values == {P!Specificity(m) : m \in matches}
<1>1. /\ directory.teams = raw.teams
      /\ directory.rules = {[r EXCEPT !.tags = P!TagMap(@)] : r \in P!ToSet(raw.rules)}
      /\ IsFiniteSet(directory.rules)
      /\ \A r \in directory.rules : r.team \in raw.teams /\ P!Specificity(r) \in Nat
  BY DirectoryIs
<1>2. P!Resolve(directory, tags) =
        [status |-> IF matches = {} THEN "unmatched"
                    ELSE IF P!Cardinality(teams) > 1 THEN "ambiguous" ELSE "resolved",
         team   |-> IF P!Cardinality(teams) = 1 THEN CHOOSE t \in teams : TRUE ELSE None,
         rules  |-> {r.id : r \in strongest}]
  BY DEF P!Resolve, Matching, TeamsOf
<1>3. \A t : t \in winners <=> /\ t \in raw.teams
                               /\ \E r \in matches : r.team = t /\ \A s \in matches :
                                     s.team # t => P!Specificity(s) < P!Specificity(r)
  <2>1. matches = {r \in {[r EXCEPT !.tags = P!TagMap(@)] : r \in P!ToSet(raw.rules)} : P!Matches(r, map)}
    BY <1>1, Zenon DEF Matching
  <2> HIDE DEF matches, map
  <2>2. winners = {t \in raw.teams : \E r \in matches :
                     r.team = t /\ \A s \in matches : s.team # t => P!Specificity(s) < P!Specificity(r)}
    BY <2>1, Zenon DEF P!Winners
  <2> QED BY <2>2
<1>4. matches \subseteq directory.rules
  BY DEF Matching
<1>5. teams = {r.team : r \in strongest}
  BY DEF TeamsOf
<1> HIDE DEF directory, matches, teams, winners, map
<1>6. IsFiniteSet(matches) /\ \A r \in matches : r.team \in raw.teams /\ P!Specificity(r) \in Nat
  BY <1>1, <1>4, FS_Subset
<1>7. IsFiniteSet(values)
  <2> DEFINE f == [m \in matches |-> P!Specificity(m)]
  <2>1. values = {f[m] : m \in matches} /\ DOMAIN f = matches /\ f = [m \in matches |-> f[m]]
    OBVIOUS
  <2> HIDE DEF f, values
  <2> QED BY <1>6, <2>1, FiniteRange
<1>8. values \in SUBSET Nat /\ (matches # {} => values # {})
  BY <1>6
<1> DEFINE top == P!Max(values)
<1>9. matches # {} => top \in values /\ \A x \in values : x <= top
  BY <1>7, <1>8, MaxIs
<1>10. \A r : r \in strongest <=> r \in matches /\ P!Specificity(r) = top
  BY DEF P!Strongest
<1> HIDE DEF strongest, top
<1>11. matches # {} => strongest # {} /\ \A r \in matches : P!Specificity(r) <= top /\ top \in Nat
  BY <1>6, <1>9, <1>10
<1> HIDE DEF values
<1>12. IsFiniteSet(teams)
  <2>1. IsFiniteSet(strongest)
    <3>1. strongest \subseteq matches
      BY <1>10
    <3> QED BY <1>6, <3>1, FS_Subset
  <2> DEFINE f == [r \in strongest |-> r.team]
  <2>2. teams = {f[r] : r \in strongest} /\ DOMAIN f = strongest /\ f = [r \in strongest |-> f[r]]
    BY <1>5
  <2> HIDE DEF f
  <2> QED BY <2>1, <2>2, FiniteRange
<1>13. \A t : t \in winners <=> teams = {t}
  <2> TAKE t
  <2>1. ASSUME t \in winners PROVE teams = {t}
    <3>1. PICK r \in matches : r.team = t /\ \A s \in matches : s.team # t => P!Specificity(s) < P!Specificity(r)
      BY <1>3, <2>1
    <3>2. \A s \in strongest : s.team = t
      <4> SUFFICES ASSUME NEW s \in strongest, s.team # t PROVE FALSE
        OBVIOUS
      <4>1. s \in matches /\ P!Specificity(s) = top /\ P!Specificity(s) < P!Specificity(r)
        BY <1>10, <3>1
      <4> QED BY <1>6, <1>11, <3>1, <4>1
    <3>3. strongest # {}
      BY <1>11, <3>1
    <3> QED BY <1>5, <3>2, <3>3
  <2>2. ASSUME teams = {t} PROVE t \in winners
    <3>1. PICK r \in strongest : r.team = t
      BY <1>5, <2>2
    <3>2. \A s \in strongest : s.team = t
      BY <1>5, <2>2
    <3>3. r \in matches /\ P!Specificity(r) = top /\ t \in raw.teams
      BY <1>6, <1>10, <3>1
    <3>4. \A s \in matches : s.team # t => P!Specificity(s) < P!Specificity(r)
      BY <1>6, <1>10, <1>11, <3>2, <3>3
    <3> QED BY <1>3, <3>1, <3>3, <3>4
  <2> QED BY <2>1, <2>2
<1> DEFINE c == P!Cardinality(teams)
<1>14. c \in Nat /\ (c = 1 <=> \E t : teams = {t}) /\ (c = 0 <=> teams = {})
  <2>1. c = Cardinality(teams)
    BY SameSizeThere
  <2>2. Cardinality(teams) \in Nat
    BY <1>12, FS_CardinalityType
  <2>3. Cardinality(teams) = 1 <=> \E t : teams = {t}
    BY <1>12, FS_Singleton
  <2>4. Cardinality(teams) = 0 <=> teams = {}
    BY <1>12, FS_EmptySet
  <2> QED BY <2>1, <2>2, <2>3, <2>4
<1>15. matches = {} <=> teams = {}
  BY <1>5, <1>10, <1>11
<1> DEFINE ownership == P!Resolve(directory, tags)
<1>16. /\ ownership.status = "resolved" <=> c = 1
       /\ ownership.team = IF c = 1 THEN CHOOSE t \in teams : TRUE ELSE None
  <2> HIDE DEF c
  <2>1. ownership.status = IF matches = {} THEN "unmatched" ELSE IF c > 1 THEN "ambiguous" ELSE "resolved"
    BY <1>2 DEF c
  <2>2. ownership.team = IF c = 1 THEN CHOOSE t \in teams : TRUE ELSE None
    BY <1>2 DEF c
  <2> HIDE DEF ownership
  <2> QED BY <1>14, <1>15, <2>1, <2>2
<1> HIDE DEF ownership, c
<1>17. CASE c = 1
  <2>1. PICK t : teams = {t}
    BY <1>14, <1>17
  <2>2. (CHOOSE u \in teams : TRUE) = t
    BY <2>1
  <2>3. winners = {t}
    BY <1>13, <2>1
  <2> QED BY <1>16, <1>17, <2>2, <2>3 DEF ownership, winners, map, directory
<1>18. CASE c # 1
  <2>1. winners = {}
    BY <1>13, <1>14, <1>18
  <2> QED BY <1>16, <1>18, <2>1 DEF ownership, winners, map, directory
<1> QED BY <1>17, <1>18

\* The sum of the lengths of some queues.
SumOfLengths(queues, D) == P!FoldSet(LAMBDA t, n : n + Len(queues[t]), 0, D)

FoldLoop(iter, queues, D) ==
  iter = [T \in SUBSET D |-> IF T = {} THEN 0
                             ELSE iter[T \ {CHOOSE x \in T : TRUE}] + Len(queues[CHOOSE x \in T : TRUE])]

\* A function of sets that adds the length of each queue in turn.
Adds(g, queues, D) ==
  /\ g = [T \in SUBSET D |-> g[T]] /\ g[{}] = 0
  /\ \A T \in SUBSET D : \A x \in T : g[T] = g[T \ {x}] + Len(queues[x])

\* The sum of lengths over a finite set is what any such function says.
LEMMA FoldIs ==
  ASSUME NEW D, IsFiniteSet(D), NEW queues, NEW g, Adds(g, queues, D)
  PROVE  SumOfLengths(queues, D) = g[D]
<1> DEFINE iter == CHOOSE iter : FoldLoop(iter, queues, D)
<1>0. /\ g = [T \in SUBSET D |-> g[T]] /\ g[{}] = 0
      /\ \A T \in SUBSET D : \A x \in T : g[T] = g[T \ {x}] + Len(queues[x])
  BY DEF Adds
<1>1. FoldLoop(g, queues, D)
  <2>1. ASSUME NEW T \in SUBSET D
        PROVE  g[T] = IF T = {} THEN 0 ELSE g[T \ {CHOOSE x \in T : TRUE}] + Len(queues[CHOOSE x \in T : TRUE])
    <3>1. CASE T = {}
      BY <1>0, <3>1
    <3>2. CASE T # {}
      <4> DEFINE y == CHOOSE x \in T : TRUE
      <4>1. y \in T
        BY <3>2
      <4> HIDE DEF y
      <4>2. g[T] = g[T \ {y}] + Len(queues[y])
        BY <1>0, <4>1
      <4> QED BY <3>2, <4>2 DEF y
    <3> QED BY <3>1, <3>2
  <2> QED BY <1>0, <2>1, Zenon DEF FoldLoop
<1>2. FoldLoop(iter, queues, D)
  BY <1>1
<1>3. SumOfLengths(queues, D) = iter[D]
  BY Zenon DEF SumOfLengths, P!FoldSet, P!MapThenFoldSet, FoldLoop
<1> HIDE DEF iter
<1> DEFINE U == {T \in SUBSET D : iter[T] # g[T]}
<1>4. SUFFICES ASSUME U # {} PROVE FALSE
  BY <1>3
<1>5. U \subseteq FiniteSubsetsOf(D)
  BY FS_FiniteSubsetsOfFinite, Zenon
<1>6. PICK T \in U : \A v \in U : ~(<<v, T>> \in StrictSubsetOrdering(D))
  BY <1>4, <1>5, FS_StrictSubsetOrderingWellFounded, WFMin, Zenon
<1>7. CASE T = {}
  <2>1. iter[T] = 0
    BY <1>2, <1>7 DEF FoldLoop
  <2> QED BY <1>0, <1>6, <1>7, <2>1
<1>8. CASE T # {}
  <2> DEFINE y == CHOOSE x \in T : TRUE
             v == T \ {y}
  <2>1. y \in T /\ T \in SUBSET D
    BY <1>8
  <2>2. iter[T] = iter[v] + Len(queues[y])
    BY <1>2, <1>8, Zenon DEF FoldLoop
  <2> HIDE DEF y
  <2>3. v \in SUBSET D /\ v \subseteq T /\ v # T
    BY <2>1
  <2>4. <<v, T>> \in StrictSubsetOrdering(D)
    BY <2>1, <2>3, Zenon DEF StrictSubsetOrdering
  <2>5. iter[v] = g[v]
    BY <1>6, <2>3, <2>4, Zenon
  <2>6. g[T] = g[v] + Len(queues[y])
    BY <1>0, <2>1
  <2> QED BY <1>6, <2>2, <2>5, <2>6
<1> QED BY <1>7, <1>8

-----------------------------------------------------------------------------
(* Queues: every record in one of them *)

\* A plan that is not refused has integers to sort by, and is of its finding and owner.
LEMMA PlanSorts ==
  ASSUME NEW f, NEW owner, NEW opened \in Int, NEW as_of \in Int, NEW requested \in Int \cup {None},
         P!PlanRemediation(P!ScoreFinding(f), owner, opened, as_of, requested) # Rejected
  PROVE  LET plan == P!PlanRemediation(P!ScoreFinding(f), owner, opened, as_of, requested)
         IN  /\ plan.priority \in Int /\ plan.due \in Int
             /\ plan.assessment.finding = P!Strip(f.id) /\ plan.owner = owner
<1> DEFINE a == P!ScoreFinding(f)
           b == a.band
           sla == opened + P!SLA_DAYS[b]
           due == IF requested = None THEN sla ELSE P!Min({sla, requested})
           overdue == due < as_of
           n == P!BASE_PRIORITY[b] + P!Shift(owner, overdue)
           plan == P!PlanRemediation(a, owner, opened, as_of, requested)
<1>1. b \in {"critical", "high", "moderate", "low"} /\ a.finding = P!Strip(f.id)
  BY DEF P!ScoreFinding, P!Band
<1>2. sla \in Int /\ P!BASE_PRIORITY[b] \in Int
  BY <1>1 DEF P!SLA_DAYS, P!BASE_PRIORITY
<1>3. due \in Int
  BY <1>2, MinOfTwo
<1>4. n \in Int
  BY <1>2 DEF P!Shift
<1>5. P!Clamp(0, 3, n) \in Int
  BY <1>4, ClampIs
<1>6. plan = [assessment |-> a, owner |-> owner, due |-> due, overdue |-> overdue, priority |-> P!Clamp(0, 3, n)]
  BY DEF P!PlanRemediation
<1> HIDE DEF a, due, overdue, n, plan
<1>7. plan.assessment = a /\ plan.owner = owner /\ plan.due = due /\ plan.priority = P!Clamp(0, 3, n)
  BY <1>6
<1> QED BY <1>1, <1>3, <1>5, <1>7 DEF plan, a

\* A list of items of findings that are told apart.
Items(items, k) ==
  /\ k \in Nat /\ Len(items) = k /\ DOMAIN items = 1..k
  /\ \A i \in 1..k : Comparable(items[i])
  /\ \A i \in 1..k : items[i].plan.assessment.finding = <<items[i].plan.assessment.finding[1], "">>
  /\ \A i, j \in 1..k : i # j => items[i].plan.assessment.finding # items[j].plan.assessment.finding

\* The queue of some of the items.
QueueOf(items, s) == P!SortedItems({items[i] : i \in s})

\* It lists exactly these, once each and in order.
LEMMA QueueIs ==
  ASSUME NEW items, NEW k, Items(items, k), NEW s \in SUBSET (1..k)
  PROVE  LET queue == QueueOf(items, s)
         IN  /\ IsFiniteSet(s) /\ Cardinality(s) \in Nat /\ Len(queue) = Cardinality(s)
             /\ P!Sorted(queue)
             /\ P!Plans(queue) = {items[i].plan : i \in s}
             /\ \A i \in 1..k :
                  P!Cardinality({n \in 1..Len(queue) :
                                   queue[n].plan.assessment.finding = items[i].plan.assessment.finding})
                    = IF i \in s THEN 1 ELSE 0
<1> DEFINE set == {items[i] : i \in s}
           queue == P!SortedItems(set)
           id(x) == x.plan.assessment.finding
<1>1. /\ k \in Nat /\ \A i \in 1..k : Comparable(items[i])
      /\ \A i \in 1..k : id(items[i]) = <<id(items[i])[1], "">>
      /\ \A i, j \in 1..k : i # j => id(items[i]) # id(items[j])
  BY DEF Items
<1>2. IsFiniteSet(s) /\ Cardinality(s) \in Nat
  <2>0. k \in Nat
    BY <1>1, Zenon
  <2>1. IsFiniteSet(1..k)
    BY <2>0, FS_Interval
  <2>2. IsFiniteSet(s)
    BY <2>1, FS_Subset
  <2> QED BY <2>2, FS_CardinalityType
<1> HIDE DEF id
<1>3. IsFiniteSet(set) /\ Cardinality(set) = Cardinality(s)
  <2> DEFINE f == [i \in s |-> items[i]]
  <2>1. f \in Injection(s, set) /\ f \in Surjection(s, set)
    <3>1. \A i, j \in s : items[i] = items[j] => i = j
      BY <1>1
    <3>2. f \in [s -> set]
      OBVIOUS
    <3> QED BY <3>1, <3>2 DEF Injection, IsInjective, Surjection
  <2> HIDE DEF f, set
  <2>2. ExistsBijection(s, set)
    BY <2>1 DEF ExistsBijection, Bijection
  <2> QED BY <1>2, <2>2, FS_Bijection
<1>4. Queueable(set)
  <2>1. \A x \in set : Comparable(x)
    BY <1>1
  <2>2. ASSUME NEW x \in set, NEW y \in set, id(x)[1] = id(y)[1] PROVE x = y
    <3>1. PICK i \in s, j \in s : x = items[i] /\ y = items[j]
      OBVIOUS
    <3>2. id(x) = <<id(x)[1], "">> /\ id(y) = <<id(y)[1], "">>
      BY <1>1, <3>1
    <3>3. id(x) = id(y)
      BY <2>2, <3>2
    <3> QED BY <1>1, <3>1, <3>3
  <2> HIDE DEF set
  <2> QED BY <1>3, <2>1, <2>2 DEF Queueable, id
<1> DEFINE n == Cardinality(set)
<1>5. /\ n \in Nat /\ queue \in [1..n -> set] /\ Len(queue) = n
      /\ \A x \in set : \E m \in 1..n : queue[m] = x
      /\ \A l, m \in 1..n : queue[l] = queue[m] => l = m
      /\ P!Sorted(queue)
  <2> HIDE DEF set
  <2> QED BY <1>4, SortedIs
<1> HIDE DEF queue, n
<1>6. \A x : x \in set <=> \E m \in 1..n : x = queue[m]
  BY <1>5
<1>7. P!Plans(queue) = {items[i].plan : i \in s}
  <2>1. P!Plans(queue) = {queue[m].plan : m \in 1..n}
    BY <1>5 DEF P!Plans
  <2>2. \A m \in 1..n : \E i \in s : queue[m] = items[i]
    BY <1>6
  <2>3. \A i \in s : \E m \in 1..n : queue[m] = items[i]
    BY <1>6
  <2> HIDE DEF set
  <2>4. {queue[m].plan : m \in 1..n} = {items[i].plan : i \in s}
    BY <2>2, <2>3
  <2> QED BY <2>1, <2>4
<1>8. ASSUME NEW i \in 1..k
      PROVE  P!Cardinality({m \in 1..Len(queue) : id(queue[m]) = id(items[i])}) = IF i \in s THEN 1 ELSE 0
  <2> DEFINE at == {m \in 1..n : id(queue[m]) = id(items[i])}
  <2>1. at = {m \in 1..Len(queue) : id(queue[m]) = id(items[i])}
    BY <1>5
  <2>2. ASSUME NEW m \in 1..n PROVE id(queue[m]) = id(items[i]) <=> i \in s /\ queue[m] = items[i]
    <3>1. PICK j \in s : queue[m] = items[j]
      BY <1>6
    <3> QED BY <1>1, <3>1
  <2>3. CASE i \in s
    <3>1. PICK m \in 1..n : queue[m] = items[i]
      BY <1>6, <2>3
    <3>2. at = {m}
      BY <1>5, <2>2, <2>3, <3>1
    <3>3. Cardinality({m}) = 1
      BY FS_Singleton
    <3>4. P!Cardinality(at) = 1
      BY <3>2, <3>3, SameSizeThere, Zenon
    <3> QED BY <2>1, <2>3, <3>4
  <2>4. CASE i \notin s
    <3>1. at = {}
      BY <2>2, <2>4
    <3>2. Cardinality({}) = 0
      BY FS_EmptySet
    <3>3. P!Cardinality(at) = 0
      BY <3>1, <3>2, SameSizeThere, Zenon
    <3> QED BY <2>1, <2>4, <3>3
  <2> QED BY <2>3, <2>4
<1> QED BY <1>2, <1>3, <1>5, <1>7, <1>8 DEF queue, set, n, id, QueueOf

\* What the teams of the items are, and which items have none.
FreeOf(items, k) == {i \in 1..k : items[i].ownership.status # "resolved"}
OwnedBy(items, k, t) == {i \in 1..k : items[i].ownership.status = "resolved" /\ items[i].ownership.team = t}

\* The queues of a list of items: one for each team that has an item, and the rest.
LEMMA BuildIs ==
  ASSUME NEW items, NEW k, Len(items) = k, NEW directory, P!BuildWorkQueue(items, directory) # Rejected
  PROVE  LET built == P!BuildWorkQueue(items, directory)
         IN  /\ \A i, j \in 1..k :
                   i # j => items[i].plan.assessment.finding # items[j].plan.assessment.finding
             /\ \A i \in (1..k) \ FreeOf(items, k) : items[i].ownership.team \in directory.teams
             /\ DOMAIN built.queues = {t \in directory.teams : OwnedBy(items, k, t) # {}}
             /\ \A t \in DOMAIN built.queues : built.queues[t] = QueueOf(items, OwnedBy(items, k, t))
             /\ built.unassigned = QueueOf(items, FreeOf(items, k))
<1> DEFINE teams == {t \in directory.teams : OwnedBy(items, k, t) # {}}
           queues == [t \in teams |-> QueueOf(items, OwnedBy(items, k, t))]
           bad == \/ \E i, j \in 1..k : i # j /\ items[i].plan.assessment.finding = items[j].plan.assessment.finding
                  \/ \E i \in (1..k) \ FreeOf(items, k) : \/ items[i].ownership.team \notin directory.teams
                                                        \/ items[i].plan.owner # items[i].ownership.team
                  \/ \E i \in FreeOf(items, k) : items[i].plan.owner # None
<1>1. P!BuildWorkQueue(items, directory) =
        IF bad THEN Rejected ELSE [queues |-> queues, unassigned |-> QueueOf(items, FreeOf(items, k))]
  BY Zenon DEF P!BuildWorkQueue, FreeOf, OwnedBy, QueueOf
<1>2. ~bad
  BY <1>1
<1>3. P!BuildWorkQueue(items, directory) = [queues |-> queues, unassigned |-> QueueOf(items, FreeOf(items, k))]
  BY <1>1, <1>2
<1>4. /\ DOMAIN queues = teams
      /\ \A t \in teams : queues[t] = QueueOf(items, OwnedBy(items, k, t))
  OBVIOUS
<1> HIDE DEF queues, teams
<1>5. /\ P!BuildWorkQueue(items, directory).queues = queues
      /\ P!BuildWorkQueue(items, directory).unassigned = QueueOf(items, FreeOf(items, k))
  BY <1>3
<1> QED BY <1>2, <1>4, <1>5, Zenon DEF teams

\* The findings of the items that are queued are told apart.
LEMMA BuildApart ==
  ASSUME NEW items, NEW directory, P!BuildWorkQueue(items, directory) # Rejected
  PROVE  \A i, j \in 1..Len(items) :
            i # j => items[i].plan.assessment.finding # items[j].plan.assessment.finding
BY Zenon DEF P!BuildWorkQueue

\* One queue for each team that has an item, of the items it has.
TeamQueues(queues, items, k) ==
  /\ DOMAIN queues = {items[i].ownership.team : i \in (1..k) \ FreeOf(items, k)}
  /\ \A t \in DOMAIN queues : queues[t] = QueueOf(items, OwnedBy(items, k, t))

\* The queues hold every item once: their lengths add up to the number of items.
LEMMA LengthsAdd ==
  ASSUME NEW items, NEW k, Items(items, k), NEW queues, TeamQueues(queues, items, k)
  PROVE  Len(QueueOf(items, FreeOf(items, k))) + SumOfLengths(queues, DOMAIN queues) = k
<1> DEFINE D == DOMAIN queues
           free == FreeOf(items, k)
           rest == (1..k) \ free
           team == [i \in rest |-> items[i].ownership.team]
           of(T) == {i \in rest : team[i] \in T}
           g == [T \in SUBSET D |-> Cardinality(of(T))]
<1>0. /\ D = {items[i].ownership.team : i \in rest}
      /\ \A t \in D : queues[t] = QueueOf(items, OwnedBy(items, k, t))
  BY Zenon DEF TeamQueues
<1>1. k \in Nat
  BY Zenon DEF Items
<1>2. IsFiniteSet(1..k) /\ Cardinality(1..k) = k
  BY <1>1, FS_Interval
<1>3. free \subseteq 1..k /\ rest \subseteq 1..k
  BY DEF FreeOf
<1>4. IsFiniteSet(free) /\ IsFiniteSet(rest) /\ \A set : IsFiniteSet(of(set))
  <2>1. \A set : of(set) \subseteq 1..k
    OBVIOUS
  <2> HIDE DEF rest, free, of
  <2> QED BY <1>2, <1>3, <2>1, FS_Subset
<1>5. IsFiniteSet(D)
  <2>1. D = {team[i] : i \in rest} /\ DOMAIN team = rest /\ team = [i \in rest |-> team[i]]
    BY <1>0
  <2> HIDE DEF D, team, rest
  <2> QED BY <1>4, <2>1, FiniteRange
<1>6. ASSUME NEW t \in D PROVE Len(queues[t]) = Cardinality(of({t})) /\ Cardinality(of({t})) \in Nat
  <2>1. of({t}) = OwnedBy(items, k, t)
    BY DEF FreeOf, OwnedBy
  <2>2. OwnedBy(items, k, t) \in SUBSET (1..k)
    BY DEF OwnedBy
  <2>3. Cardinality(OwnedBy(items, k, t)) \in Nat
        /\ Len(QueueOf(items, OwnedBy(items, k, t))) = Cardinality(OwnedBy(items, k, t))
    BY <2>2, QueueIs
  <2> HIDE DEF of
  <2> QED BY <1>0, <2>1, <2>3
<1>7. g = [T \in SUBSET D |-> g[T]] /\ g[{}] = 0
  <2>1. of({}) = {}
    OBVIOUS
  <2> QED BY <2>1, FS_EmptySet
<1>8. ASSUME NEW T \in SUBSET D, NEW x \in T PROVE g[T] = g[T \ {x}] + Len(queues[x])
  <2>1. g[T] = Cardinality(of(T)) /\ g[T \ {x}] = Cardinality(of(T \ {x})) /\ x \in D
    OBVIOUS
  <2>2. of(T) = of(T \ {x}) \cup of({x}) /\ of({x}) \ of(T \ {x}) = of({x})
    OBVIOUS
  <2> HIDE DEF of, g
  <2>3. Cardinality(of(T)) = Cardinality(of(T \ {x})) + Cardinality(of({x}))
    BY <1>4, <2>2, SizesOf
  <2> QED BY <1>6, <2>1, <2>3
<1>9. SumOfLengths(queues, D) = g[D]
  <2> HIDE DEF g, D
  <2>1. \A T \in SUBSET D : \A x \in T : g[T] = g[T \ {x}] + Len(queues[x])
    BY <1>8
  <2>2. Adds(g, queues, D)
    BY <1>7, <2>1 DEF Adds
  <2> QED BY <1>5, <2>2, FoldIs
<1>10. g[D] = Cardinality(rest)
  <2>1. of(D) = rest
    BY <1>0
  <2> QED BY <2>1
<1>11. Len(QueueOf(items, free)) = Cardinality(free) /\ Cardinality(free) \in Nat
  BY <1>3, QueueIs
<1>12. Cardinality(free) + Cardinality(rest) = k
  <2>1. free \cup 1..k = 1..k
    BY <1>3
  <2> HIDE DEF free
  <2> QED BY <1>2, <1>4, <2>1, SizesOf
<1> QED BY <1>9, <1>10, <1>11, <1>12

\* How many times a queue lists a finding.
CountOf(queue, finding) == P!Cardinality({n \in 1..Len(queue) : queue[n].plan.assessment.finding = finding})

\* The queues that are built distribute the records of their items.
LEMMA QueuesHold ==
  ASSUME NEW items, NEW k, Items(items, k), NEW directory, P!BuildWorkQueue(items, directory) # Rejected,
         NEW records, Len(records) = k, NEW winners, NEW direct, ~direct.failed,
         \A i \in 1..k : P!Strip(records[i].finding.id) = items[i].plan.assessment.finding,
         \A i \in 1..k : winners[i] = IF items[i].ownership.status = "resolved"
                                      THEN {items[i].ownership.team} ELSE {},
         P!ToSet(direct.written) = {items[i].plan : i \in 1..k}
  PROVE  P!Distributed(P!BuildWorkQueue(items, directory).queues, P!BuildWorkQueue(items, directory).unassigned,
                       winners, records, direct)
<1> DEFINE built == P!BuildWorkQueue(items, directory)
           queues == built.queues
           rest == built.unassigned
           free == FreeOf(items, k)
           owned(t) == OwnedBy(items, k, t)
           id(i) == items[i].plan.assessment.finding
<1>1. Len(items) = k
  BY Zenon DEF Items
<1>2. /\ \A i \in (1..k) \ free : items[i].ownership.team \in directory.teams
      /\ DOMAIN queues = {t \in directory.teams : owned(t) # {}}
      /\ \A t \in DOMAIN queues : queues[t] = QueueOf(items, owned(t))
      /\ rest = QueueOf(items, free)
  BY <1>1, BuildIs
<1> HIDE DEF queues, rest
<1>3. /\ free \in SUBSET (1..k) /\ \A i \in 1..k : i \in free <=> items[i].ownership.status # "resolved"
      /\ \A t : /\ owned(t) \in SUBSET (1..k)
                /\ \A i \in 1..k : i \in owned(t) <=> i \notin free /\ items[i].ownership.team = t
  BY DEF FreeOf, OwnedBy
<1> HIDE DEF free, owned, id
<1>4. DOMAIN queues = {items[i].ownership.team : i \in (1..k) \ free}
  <2>1. \A t \in DOMAIN queues : \E i \in (1..k) \ free : items[i].ownership.team = t
    BY <1>2, <1>3
  <2>2. \A i \in (1..k) \ free : items[i].ownership.team \in DOMAIN queues
    BY <1>2, <1>3
  <2> DEFINE teams == {items[i].ownership.team : i \in (1..k) \ free}
  <2>3. \A t : t \in teams <=> \E i \in (1..k) \ free : items[i].ownership.team = t
    OBVIOUS
  <2>4. DOMAIN queues \subseteq teams /\ teams \subseteq DOMAIN queues
    <3> HIDE DEF teams
    <3>1. ASSUME NEW t \in DOMAIN queues PROVE t \in teams
      BY <2>1, <2>3, Zenon
    <3>2. ASSUME NEW t \in teams PROVE t \in DOMAIN queues
      <4>1. PICK i \in (1..k) \ free : items[i].ownership.team = t
        BY <2>3, Zenon
      <4>2. items[i].ownership.team \in DOMAIN queues
        BY <2>2, Zenon
      <4> QED BY <4>1, <4>2, Zenon
    <3> QED BY <3>1, <3>2, Zenon
  <2> HIDE DEF teams
  <2>5. DOMAIN queues = teams
    BY <2>4
  <2> QED BY <2>5 DEF teams
<1>5. \A s \in SUBSET (1..k) :
         /\ P!Sorted(QueueOf(items, s))
         /\ P!Plans(QueueOf(items, s)) = {items[i].plan : i \in s}
         /\ \A i \in 1..k : CountOf(QueueOf(items, s), id(i)) = IF i \in s THEN 1 ELSE 0
  BY QueueIs DEF CountOf, id
<1>6. Len(rest) + SumOfLengths(queues, DOMAIN queues) = k
  <2>1. TeamQueues(queues, items, k)
    BY <1>2, <1>4, Zenon DEF TeamQueues, free, owned
  <2> QED BY <1>2, <2>1, LengthsAdd DEF free
<1>7. ASSUME NEW i \in 1..k
      PROVE  /\ \A t \in DOMAIN queues : CountOf(queues[t], id(i)) = IF t \in winners[i] THEN 1 ELSE 0
             /\ winners[i] \subseteq DOMAIN queues
             /\ CountOf(rest, id(i)) = IF winners[i] = {} THEN 1 ELSE 0
  <2>1. winners[i] = IF i \in free THEN {} ELSE {items[i].ownership.team}
    BY <1>3
  <2>2. i \notin free => items[i].ownership.team \in DOMAIN queues
    BY <1>4
  <2>3. ASSUME NEW t \in DOMAIN queues PROVE CountOf(queues[t], id(i)) = IF t \in winners[i] THEN 1 ELSE 0
    <3>1. CountOf(queues[t], id(i)) = IF i \in owned(t) THEN 1 ELSE 0
      BY <1>2, <1>3, <1>5
    <3> QED BY <1>3, <2>1, <3>1
  <2>4. CountOf(rest, id(i)) = IF i \in free THEN 1 ELSE 0
    BY <1>2, <1>3, <1>5
  <2> QED BY <2>1, <2>2, <2>3, <2>4
<1>8. P!Plans(rest) \cup UNION {P!Plans(queues[t]) : t \in DOMAIN queues} = {items[i].plan : i \in 1..k}
  <2>1. P!Plans(rest) = {items[i].plan : i \in free}
    BY <1>2, <1>3, <1>5
  <2>2. \A t \in DOMAIN queues : P!Plans(queues[t]) = {items[i].plan : i \in owned(t)}
    BY <1>2, <1>3, <1>5
  <2> DEFINE all == P!Plans(rest) \cup UNION {P!Plans(queues[t]) : t \in DOMAIN queues}
  <2>3. ASSUME NEW p \in all PROVE \E i \in 1..k : p = items[i].plan
    <3>1. CASE p \in P!Plans(rest)
      BY <1>3, <2>1, <3>1
    <3>2. CASE \E t \in DOMAIN queues : p \in P!Plans(queues[t])
      BY <1>3, <2>2, <3>2
    <3> QED BY <3>1, <3>2
  <2>4. ASSUME NEW i \in 1..k PROVE items[i].plan \in all
    <3>1. CASE i \in free
      BY <2>1, <3>1
    <3>2. CASE i \notin free
      <4> DEFINE t == items[i].ownership.team
      <4>1. t \in DOMAIN queues /\ i \in owned(t)
        BY <1>3, <1>4, <3>2
      <4>2. items[i].plan \in P!Plans(queues[t])
        BY <2>2, <4>1
      <4> HIDE DEF t
      <4> QED BY <4>1, <4>2
    <3> QED BY <3>1, <3>2
  <2> HIDE DEF all
  <2>5. all = {items[i].plan : i \in 1..k}
    BY <2>3, <2>4
  <2> QED BY <2>5 DEF all
<1>9. \A i \in 1..k : \A q : P!Listings(q, records[i]) = CountOf(q, id(i))
  <2> TAKE i \in 1..k
  <2>1. P!Strip(records[i].finding.id) = id(i)
    BY DEF id
  <2> QED BY <2>1, Zenon DEF P!Listings, CountOf
<1> DEFINE each == \A i \in 1..Len(records) :
                     /\ \A t \in DOMAIN queues :
                           P!Listings(queues[t], records[i]) = IF t \in winners[i] THEN 1 ELSE 0
                     /\ winners[i] \subseteq DOMAIN queues
                     /\ P!Listings(rest, records[i]) = IF winners[i] = {} THEN 1 ELSE 0
<1>10. each
  BY <1>7, <1>9
<1>11. P!Sorted(rest) /\ \A t \in DOMAIN queues : P!Sorted(queues[t])
  BY <1>2, <1>3, <1>5
<1>12. P!ToSet(direct.written) = P!Plans(rest) \cup UNION {P!Plans(queues[t]) : t \in DOMAIN queues}
  BY <1>8
<1> QED BY <1>6, <1>10, <1>11, <1>12, Zenon DEF P!Distributed, SumOfLengths, queues, rest

\* The items of the records, the plan of one and the teams that win them.
ItemsOf(records, directory, as_of) == [i \in 1..Len(records) |-> P!QueueItem(records[i], directory, as_of)]
PlanOf(record, directory, as_of) ==
  P!PlanRemediation(P!ScoreFinding(record.finding), P!Resolve(directory, record.tags).team, record.opened,
                    as_of, record.requested)
OwnerOf(teams) == IF P!Cardinality(teams) = 1 THEN CHOOSE t \in teams : TRUE ELSE None
WinnersOf(records, raw) == [i \in 1..Len(records) |-> P!Winners(raw, P!TagMap(records[i].tags))]

\* What an accepted list of records was made into: an item each, and the queues of the items.
LEMMA PlannedIs ==
  ASSUME NEW assets, NEW records, NEW raw, NEW as_of,
         P!PlanInventory(assets, records, raw, as_of, None) # Rejected
  PROVE  /\ P!ReadDirectory(raw) # Rejected
         /\ \A i \in 1..Len(records) : P!QueueItem(records[i], P!ReadDirectory(raw), as_of) # Rejected
         /\ P!BuildWorkQueue(ItemsOf(records, P!ReadDirectory(raw), as_of), P!ReadDirectory(raw)) # Rejected
         /\ P!PlanInventory(assets, records, raw, as_of, None).queues =
              P!BuildWorkQueue(ItemsOf(records, P!ReadDirectory(raw), as_of), P!ReadDirectory(raw))
<1> DEFINE k == Len(records)
           directory == P!ReadDirectory(raw)
           items == P!QueueItems(assets, records, directory, as_of)
           made == [i \in 1..k |-> P!QueueItem(records[i], directory, as_of)]
           queues == P!BuildWorkQueue(items, directory)
           assessed == {records[i].finding.asset : i \in 1..k}
           result == P!PlanInventory(assets, records, raw, as_of, None)
<1>1. result = IF directory = Rejected THEN Rejected
               ELSE IF items = Rejected THEN Rejected
               ELSE IF queues = Rejected \/ {} = Rejected THEN Rejected
               ELSE [queues |-> queues, assessed |-> assessed, without |-> assets \ assessed, changes |-> {}]
  <2> HIDE DEF directory, items, queues, assessed
  <2> QED BY DEF P!PlanInventory, directory, items, queues, assessed
<1> HIDE DEF queues, assessed, result
<1>2. directory # Rejected /\ items # Rejected /\ queues # Rejected /\ result.queues = queues
  BY <1>1 DEF result
<1>3. items = made /\ \A i \in 1..k : P!QueueItem(records[i], directory, as_of) # Rejected
  BY <1>2 DEF P!QueueItems
<1> QED BY <1>2, <1>3, Zenon DEF queues, result, ItemsOf

\* An item that is not refused: the team that owns the asset, and the plan for it.
LEMMA ItemIs ==
  ASSUME NEW record, RecordOK(record), record.finding.id[1] \in Int, NEW directory, NEW as_of \in Int,
         P!QueueItem(record, directory, as_of) # Rejected
  PROVE  LET item == P!QueueItem(record, directory, as_of)
         IN  /\ P!Resolve(directory, record.tags) # Rejected /\ item.ownership = P!Resolve(directory, record.tags)
             /\ PlanOf(record, directory, as_of) # Rejected /\ item.plan = PlanOf(record, directory, as_of)
             /\ item.plan.assessment.finding = P!Strip(record.finding.id)
             /\ item.plan.assessment.finding = <<item.plan.assessment.finding[1], "">> /\ Comparable(item)
<1> DEFINE item == P!QueueItem(record, directory, as_of)
           ownership == P!Resolve(directory, record.tags)
           plan == PlanOf(record, directory, as_of)
<1>1. item = IF ownership = Rejected THEN Rejected ELSE IF plan = Rejected THEN Rejected
             ELSE [plan |-> plan, ownership |-> ownership]
  BY Zenon DEF P!QueueItem, PlanOf
<1> HIDE DEF plan, ownership
<1>2. ownership # Rejected /\ plan # Rejected /\ item.ownership = ownership /\ item.plan = plan
  <2> HIDE DEF item
  <2>1. item # Rejected
    BY DEF item
  <2> QED BY <1>1, <2>1
<1>3. record.opened \in Int /\ record.requested \in Int \cup {None}
  BY DEF RecordOK
<1>4. plan.priority \in Int /\ plan.due \in Int /\ plan.assessment.finding = P!Strip(record.finding.id)
  BY <1>2, <1>3, PlanSorts DEF plan, PlanOf
<1> HIDE DEF item
<1>5. P!Strip(record.finding.id) = <<record.finding.id[1], "">>
  BY DEF P!Strip
<1>6. item.plan.assessment.finding = <<record.finding.id[1], "">>
  BY <1>2, <1>4, <1>5
<1>7. item.plan.assessment.finding[1] = record.finding.id[1]
  <2> DEFINE f == item.plan.assessment.finding
             v == record.finding.id[1]
  <2>1. f = <<v, "">>
    BY <1>6
  <2> HIDE DEF f, v
  <2>2. f[1] = v
    BY <2>1
  <2> QED BY <2>2 DEF f, v
<1> QED BY <1>2, <1>4, <1>6, <1>7 DEF Comparable, plan, ownership, item

\* The plans of all records, for these owners.
AllPlanned(plan, records, owners, as_of) ==
  \A i \in 1..Len(records) : /\ plan[i] # Rejected
                  /\ plan[i] = P!PlanRemediation(P!ScoreFinding(records[i].finding), owners[i],
                                                 records[i].opened, as_of, records[i].requested)

PlansIn(plan, k) == {plan[i] : i \in 1..k}

\* If no plan is refused, planning the records one by one writes them all.
LEMMA WritesAll ==
  ASSUME NEW records, NEW owners, NEW as_of, NEW plan, AllPlanned(plan, records, owners, as_of)
  PROVE  /\ ~P!PlanJsonl(records, owners, as_of).failed
         /\ P!ToSet(P!PlanJsonl(records, owners, as_of).written) = PlansIn(plan, Len(records))
<1> DEFINE k == Len(records)
           of(i) == P!PlanRemediation(P!ScoreFinding(records[i].finding), owners[i],
                                      records[i].opened, as_of, records[i].requested)
           bad == {i \in 1..k : of(i) = Rejected}
           emitted == IF bad = {} THEN k ELSE P!Min(bad) - 1
           direct == P!PlanJsonl(records, owners, as_of)
<1>1. direct = [written |-> [i \in 1..emitted |-> of(i)], failed |-> bad # {}]
  BY Zenon DEF P!PlanJsonl
<1>2. \A i \in 1..k : of(i) = plan[i] /\ plan[i] # Rejected
  BY Zenon DEF AllPlanned
<1> HIDE DEF of, direct
<1>3. bad = {} /\ emitted = k
  BY <1>2
<1> DEFINE written == [i \in 1..k |-> of(i)]
<1> HIDE DEF bad
<1>4. direct.written = written /\ ~direct.failed
  BY <1>1, <1>3
<1>5. DOMAIN written = 1..k /\ \A i \in 1..k : written[i] = plan[i]
  BY <1>2
<1> HIDE DEF written
<1>6. P!ToSet(written) = {plan[i] : i \in 1..k}
  BY <1>5 DEF P!ToSet
<1> QED BY <1>4, <1>6, Zenon DEF direct, PlansIn

\* Every finding of an accepted input has its queue.
LEMMA QueuesDistribute ==
  ASSUME NEW assets, NEW records, NEW raw, NEW as_of \in Int, NEW k \in Nat, Len(records) = k,
         \A i \in 1..k : RecordOK(records[i]) /\ records[i].finding.id[1] \in Int,
         IsList(raw.rules), \A i \in DOMAIN raw.rules : RuleOK(raw.rules[i]),
         P!PlanInventory(assets, records, raw, as_of, None) # Rejected,
         NEW owners, \A i \in 1..k : owners[i] = OwnerOf(WinnersOf(records, raw)[i])
  PROVE  P!Distributed(P!PlanInventory(assets, records, raw, as_of, None).queues.queues,
                       P!PlanInventory(assets, records, raw, as_of, None).queues.unassigned,
                       WinnersOf(records, raw), records, P!PlanJsonl(records, owners, as_of))
<1> DEFINE directory == P!ReadDirectory(raw)
           items == ItemsOf(records, directory, as_of)
           winners == WinnersOf(records, raw)
           result == P!PlanInventory(assets, records, raw, as_of, None)
           direct == P!PlanJsonl(records, owners, as_of)
           ownership(i) == P!Resolve(directory, records[i].tags)
<1>1. /\ directory # Rejected
      /\ \A i \in 1..k : P!QueueItem(records[i], directory, as_of) # Rejected
      /\ P!BuildWorkQueue(items, directory) # Rejected
      /\ result.queues = P!BuildWorkQueue(items, directory)
  <2>1. /\ directory # Rejected
        /\ \A i \in 1..Len(records) : P!QueueItem(records[i], directory, as_of) # Rejected
        /\ P!BuildWorkQueue(items, directory) # Rejected
        /\ result.queues = P!BuildWorkQueue(items, directory)
    BY PlannedIs, Zenon
  <2> HIDE DEF directory, items, result
  <2> QED BY <2>1
<1>2. /\ DOMAIN items = 1..k /\ Len(items) = k
      /\ \A i \in 1..k : items[i] = P!QueueItem(records[i], directory, as_of)
  <2>1. DOMAIN items = 1..k /\ items = [i \in 1..k |-> items[i]]
        /\ \A i \in 1..k : items[i] = P!QueueItem(records[i], directory, as_of)
    BY DEF ItemsOf
  <2> HIDE DEF items
  <2> QED BY <2>1, LenOf
<1>3. \A i \in 1..k : winners[i] = P!Winners(raw, P!TagMap(records[i].tags))
  BY DEF WinnersOf
<1> HIDE DEF items, winners, result, direct
<1>4. ASSUME NEW i \in 1..k
      PROVE  /\ ownership(i) # Rejected /\ items[i].ownership = ownership(i)
             /\ PlanOf(records[i], directory, as_of) # Rejected
             /\ items[i].plan = PlanOf(records[i], directory, as_of)
             /\ items[i].plan.assessment.finding = P!Strip(records[i].finding.id)
             /\ items[i].plan.assessment.finding = <<items[i].plan.assessment.finding[1], "">>
             /\ Comparable(items[i])
  <2> DEFINE record == records[i]
  <2>1. /\ RecordOK(record) /\ record.finding.id[1] \in Int
        /\ P!QueueItem(record, directory, as_of) # Rejected /\ items[i] = P!QueueItem(record, directory, as_of)
    BY <1>1, <1>2
  <2> HIDE DEF record, directory
  <2>2. LET item == P!QueueItem(record, directory, as_of)
        IN  /\ P!Resolve(directory, record.tags) # Rejected /\ item.ownership = P!Resolve(directory, record.tags)
            /\ PlanOf(record, directory, as_of) # Rejected /\ item.plan = PlanOf(record, directory, as_of)
            /\ item.plan.assessment.finding = P!Strip(record.finding.id)
            /\ item.plan.assessment.finding = <<item.plan.assessment.finding[1], "">> /\ Comparable(item)
    BY <2>1, ItemIs, Zenon
  <2> QED BY <2>1, <2>2, Zenon DEF record
<1>5. ASSUME NEW i \in 1..k
      PROVE  /\ items[i].ownership.status = "resolved" => winners[i] = {items[i].ownership.team}
             /\ items[i].ownership.status # "resolved" => winners[i] = {} /\ items[i].ownership.team = None
  <2> DEFINE tags == records[i].tags
  <2>1. /\ winners[i] = P!Winners(raw, P!TagMap(tags)) /\ items[i].ownership = P!Resolve(directory, tags)
        /\ P!Resolve(directory, tags) # Rejected
    BY <1>3, <1>4
  <2> HIDE DEF tags
  <2>2. LET o == P!Resolve(directory, tags)
            won == P!Winners(raw, P!TagMap(tags))
        IN  /\ o.status = "resolved" => won = {o.team}
            /\ o.status # "resolved" => won = {} /\ o.team = None
    BY <1>1, <2>1, ResolvedIs, Zenon
  <2> QED BY <2>1, <2>2, Zenon
<1> HIDE DEF directory
<1>6. Items(items, k)
  <2>1. \A i, j \in 1..k : i # j => items[i].plan.assessment.finding # items[j].plan.assessment.finding
    <3>1. \A i, j \in 1..Len(items) :
             i # j => items[i].plan.assessment.finding # items[j].plan.assessment.finding
      BY <1>1, BuildApart, Zenon
    <3> QED BY <1>2, <3>1
  <2>2. /\ \A i \in 1..k : Comparable(items[i])
        /\ \A i \in 1..k : items[i].plan.assessment.finding = <<items[i].plan.assessment.finding[1], "">>
    BY <1>4
  <2> QED BY <1>2, <2>1, <2>2, Zenon DEF Items
<1>7. ASSUME NEW i \in 1..k PROVE owners[i] = items[i].ownership.team
  <2>1. owners[i] = OwnerOf(winners[i])
    BY DEF winners
  <2>2. CASE items[i].ownership.status = "resolved"
    <3> DEFINE t == items[i].ownership.team
    <3>1. winners[i] = {t}
      BY <1>5, <2>2
    <3> HIDE DEF t
    <3>2. P!Cardinality({t}) = 1
      BY FS_Singleton, SameSizeThere, Zenon
    <3>3. OwnerOf({t}) = t
      BY <3>2 DEF OwnerOf
    <3> QED BY <2>1, <3>1, <3>3 DEF t
  <2>3. CASE items[i].ownership.status # "resolved"
    <3>1. winners[i] = {} /\ items[i].ownership.team = None
      BY <1>5, <2>3
    <3>2. P!Cardinality({}) = 0
      BY FS_EmptySet, SameSizeThere, Zenon
    <3>3. OwnerOf({}) = None
      BY <3>2 DEF OwnerOf
    <3> QED BY <2>1, <3>1, <3>3
  <2> QED BY <2>2, <2>3
<1>8. ~direct.failed /\ P!ToSet(direct.written) = {items[i].plan : i \in 1..k}
  <2> DEFINE plan == [i \in 1..k |-> items[i].plan]
  <2>1. AllPlanned(plan, records, owners, as_of)
    <3> SUFFICES ASSUME NEW i \in 1..k
                 PROVE  /\ plan[i] # Rejected
                        /\ plan[i] = P!PlanRemediation(P!ScoreFinding(records[i].finding), owners[i],
                                                       records[i].opened, as_of, records[i].requested)
      BY Zenon DEF AllPlanned
    <3>1. plan[i] = PlanOf(records[i], directory, as_of) /\ PlanOf(records[i], directory, as_of) # Rejected
      BY <1>4
    <3>2. owners[i] = P!Resolve(directory, records[i].tags).team
      BY <1>4, <1>7
    <3> HIDE DEF plan
    <3> QED BY <3>1, <3>2, Zenon DEF PlanOf
  <2>2. {plan[i] : i \in 1..k} = {items[i].plan : i \in 1..k}
    OBVIOUS
  <2> HIDE DEF plan
  <2>3. ~direct.failed /\ P!ToSet(direct.written) = {plan[i] : i \in 1..k}
    <3>1. ~direct.failed /\ P!ToSet(direct.written) = PlansIn(plan, Len(records))
      BY <2>1, WritesAll DEF direct
    <3> QED BY <3>1 DEF PlansIn
  <2> QED BY <2>2, <2>3
<1>9. /\ \A i \in 1..k : P!Strip(records[i].finding.id) = items[i].plan.assessment.finding
      /\ \A i \in 1..k : winners[i] = IF items[i].ownership.status = "resolved"
                                      THEN {items[i].ownership.team} ELSE {}
  BY <1>4, <1>5
<1>10. P!Distributed(P!BuildWorkQueue(items, directory).queues, P!BuildWorkQueue(items, directory).unassigned,
                     winners, records, direct)
  BY <1>1, <1>6, <1>8, <1>9, QueuesHold, Zenon
<1> QED BY <1>1, <1>10, Zenon DEF result, winners, direct

\* The same of an input of this kind.
LEMMA FindingsQueue == InputOK => EveryFindingHasItsQueue
<1> DEFINE assets == input.assets
           records == input.records
           raw == input.directory
           as_of == input.as_of
           result == P!PlanInventory(assets, records, raw, as_of, None)
           winners == WinnersOf(records, raw)
           owners == [i \in DOMAIN winners |-> OwnerOf(winners[i])]
           direct == P!PlanJsonl(records, owners, as_of)
<1> HIDE DEF assets, records, raw, as_of
<1>1. P!QueuedOnce(assets, records, raw, as_of) <=>
        \A x \in {result} \ {Rejected} : P!Distributed(x.queues.queues, x.queues.unassigned, winners, records, direct)
  BY Zenon DEF P!QueuedOnce, P!PlanDiscovery, WinnersOf, OwnerOf
<1>2. ASSUME QueuesOK, result # Rejected
      PROVE  P!Distributed(result.queues.queues, result.queues.unassigned, winners, records, direct)
  <2>1. /\ IsList(records) /\ as_of \in Int /\ DOMAIN records = 1..Len(records) /\ Len(records) \in Nat
        /\ \A i \in DOMAIN records : RecordOK(records[i]) /\ records[i].finding.id[1] \in Int
        /\ IsList(raw.rules) /\ \A i \in DOMAIN raw.rules : RuleOK(raw.rules[i])
    BY <1>2 DEF QueuesOK, IsList, records, as_of, raw
  <2>2. \A i \in 1..Len(records) : owners[i] = OwnerOf(WinnersOf(records, raw)[i])
    BY DEF WinnersOf
  <2> HIDE DEF owners
  <2> DEFINE k == Len(records)
  <2>3. k \in Nat /\ Len(records) = k /\ \A i \in 1..k : RecordOK(records[i]) /\ records[i].finding.id[1] \in Int
    BY <2>1
  <2>4. \A i \in 1..k : owners[i] = OwnerOf(WinnersOf(records, raw)[i])
    BY <2>2
  <2> HIDE DEF k
  <2> QED BY <1>2, <2>1, <2>3, <2>4, QueuesDistribute, Zenon
<1> HIDE DEF result, winners, direct
<1>3. QueuesOK => P!QueuedOnce(assets, records, raw, as_of)
  BY <1>1, <1>2
<1> QED BY <1>3, Zenon DEF InputOK, EveryFindingHasItsQueue, assets, records, raw, as_of

\* Every accepted finding is queued once, with the team of its most specific rule, the
\* queues are in order, and their plans are those that remediation_cli writes: for every
\* directory, list of records and day.
THEOREM EveryFindingIsQueued == Spec => []EveryFindingHasItsQueue
BY InputsAreOK, FindingsQueue, PTL

-----------------------------------------------------------------------------
(* Retained assessments *)

\* The size of a set is the same seen from there.
LEMMA SameSize == ASSUME NEW set PROVE R!Cardinality(set) = Cardinality(set)
BY Zenon DEF R!Cardinality, Cardinality

\* There are as many rows as payloads, and the payloads of the rows are those payloads.
LEMMA RowsOf ==
  ASSUME NEW payloads, IsFiniteSet(payloads)
  PROVE  /\ R!Cardinality(R!Rows(payloads)) = R!Cardinality(payloads)
         /\ {r.payload : r \in R!Rows(payloads)} = payloads
<1> DEFINE row(p) == [asset |-> AssetOf[p], payload |-> p]
           f == [p \in payloads |-> row(p)]
<1>1. R!Rows(payloads) = {row(p) : p \in payloads}
  BY DEF R!Rows
<1>2. \A p, q : row(p) = row(q) => p = q
  <2> TAKE p, q
  <2>1. row(p).payload = p /\ row(q).payload = q
    OBVIOUS
  <2> QED BY <2>1
<1>3. f \in Bijection(payloads, R!Rows(payloads))
  <2> HIDE DEF row
  <2>1. f \in Injection(payloads, R!Rows(payloads))
    BY <1>1, <1>2 DEF Injection, IsInjective
  <2>2. f \in Surjection(payloads, R!Rows(payloads))
    BY <1>1 DEF Surjection
  <2> QED BY <2>1, <2>2 DEF Bijection
<1>4. R!Cardinality(R!Rows(payloads)) = R!Cardinality(payloads)
  BY <1>3, FS_Bijection, SameSize DEF ExistsBijection
<1>5. \A p : row(p).payload = p
  OBVIOUS
<1> HIDE DEF row
<1>6. {r.payload : r \in {row(p) : p \in payloads}} = payloads
  BY <1>5
<1> QED BY <1>1, <1>4, <1>6

\* A batch that was stored has a receipt that fits its rows and the export it was stored of.
LEMMA StoredIsConsistent ==
  ASSUME NEW export, NEW scope, NEW observed, IsFiniteSet(export.payloads), export.payloads # {},
         NEW supplied, supplied = None \/ (supplied.bytes = export.bytes /\ supplied.payloads = export.payloads)
  PROVE  LET db == R!StoreExport(export, scope, observed)
         IN  /\ db = [receipt |-> db.receipt, scope |-> scope, observed_at |-> observed,
                      rows |-> R!Rows(export.payloads), decisions |-> {}]
             /\ R!ReadReceipt(db, supplied)
             /\ db.receipt.payload.scope = scope /\ db.receipt.payload.observed_at = observed
             /\ db.receipt.payload.input = export.bytes
             /\ db.receipt = [payload |-> db.receipt.payload, digest |-> db.receipt.payload]
<1> DEFINE db == R!StoreExport(export, scope, observed)
           receipt == [scope |-> scope, observed_at |-> observed, input |-> export.bytes,
                       assets |-> R!Assets(R!Rows(export.payloads)), count |-> R!Cardinality(export.payloads)]
<1>1. db = [receipt |-> [payload |-> receipt, digest |-> receipt], scope |-> scope,
            observed_at |-> observed, rows |-> R!Rows(export.payloads), decisions |-> {}]
  BY DEF R!StoreExport
<1>2. R!Rows(export.payloads) # {}
  BY DEF R!Rows
<1>3. R!Cardinality(R!Rows(export.payloads)) = R!Cardinality(export.payloads)
  BY RowsOf
<1> HIDE DEF db
<1>4. R!ReadReceipt(db, supplied)
  BY <1>1, <1>2, <1>3 DEF R!ReadReceipt
<1> QED BY <1>1, <1>4 DEF db

\* An inventory is exported if the receipt is consistent.
LEMMA ExportedIs ==
  ASSUME Distinct, NEW db, NEW export
  PROVE  /\ R!ExportInventory(db, export) # Rejected <=> R!ReadReceipt(db, export)
         /\ R!ReadReceipt(db, export) =>
              R!ExportInventory(db, export) = [receipt |-> db.receipt.payload, checked |-> export # None,
                                               rows |-> db.rows, decisions |-> db.decisions]
BY DEF R!ExportInventory, Distinct

\* A database that is verified was retained, from the export and its own inputs.
LEMMA VerifiedWasRetained ==
  ASSUME Distinct, NEW altered, DatabaseOK(altered), NEW export, export # None, NEW model, NEW required,
         R!VerifyAssessment(altered, export, model, required)
  PROVE  LET first == R!StoreExport(export, altered.scope, altered.observed_at)
             in == altered.input
             again == R!RetainAssessment(first, in.findings, in.directory, in.as_of, in.assessed_at,
                                         IF altered.binding.checked THEN export ELSE None, model)
         IN  again # Rejected /\ altered = [again EXCEPT !.model = altered.model]
<1> DEFINE first == R!StoreExport(export, altered.scope, altered.observed_at)
           in == altered.input
           with == IF altered.binding.checked THEN export ELSE None
           again == R!RetainAssessment(first, in.findings, in.directory, in.as_of, in.assessed_at, with, model)
           rebuilt == R!RetainAssessment(first, in.findings, in.directory, in.as_of, in.assessed_at, export, model)
           inventory(e) == R!ExportInventory(first, e)
           decisions == R!Plan(first.rows, in.findings, in.directory, in.as_of)
           Accepted(e) == /\ inventory(e) # Rejected /\ inventory(e).decisions = {}
                          /\ ~(in.assessed_at < first.observed_at)
                          /\ first.rows = R!Rows({r.payload : r \in first.rows}) /\ decisions # Rejected
           Made(e) == [receipt |-> first.receipt, scope |-> first.scope, observed_at |-> first.observed_at,
                       rows |-> first.rows,
                       decisions |-> {[plan |-> d, at |-> in.assessed_at] : d \in decisions},
                       input |-> [findings |-> in.findings, directory |-> in.directory, as_of |-> in.as_of,
                                  assessed_at |-> in.assessed_at],
                       digests |-> <<in.findings, in.directory>>, binding |-> inventory(e), model |-> model]
<1>1. /\ R!ReadReceipt(altered, export)
      /\ altered.receipt.digest = altered.receipt.payload
      /\ altered.scope = altered.receipt.payload.scope /\ altered.observed_at = altered.receipt.payload.observed_at
  <2>1. R!ReadReceipt(altered, export)
    BY ExportedIs DEF R!VerifyAssessment
  <2> QED BY <2>1 DEF R!ReadReceipt
<1>2. /\ altered.digests = <<in.findings, in.directory>> /\ first # Rejected /\ rebuilt # Rejected
      /\ altered.binding = [inventory(export) EXCEPT !.checked = altered.binding.checked]
      /\ R!ExportInventory(altered, export) = R!ExportInventory(rebuilt, export)
  BY <1>1 DEF R!VerifyAssessment
<1>3. /\ inventory(export) # Rejected /\ inventory(export).decisions = {} /\ ~(in.assessed_at < first.observed_at)
      /\ first.rows = R!Rows({r.payload : r \in first.rows}) /\ decisions # Rejected
      /\ rebuilt = Made(export)
  <2> HIDE DEF first, in
  <2>1. Accepted(export) \/ rebuilt = Rejected
    BY Zenon DEF R!RetainAssessment
  <2>2. Accepted(export) => rebuilt = Made(export)
    BY Zenon DEF R!RetainAssessment
  <2> HIDE DEF Made, rebuilt
  <2> QED BY <1>2, <2>1, <2>2
<1>4. R!ReadReceipt(first, export)
  BY <1>3, ExportedIs
<1>5. R!ReadReceipt(first, with)
  BY <1>4 DEF R!ReadReceipt
<1>6. /\ inventory(export) = [receipt |-> first.receipt.payload, checked |-> TRUE, rows |-> first.rows,
                              decisions |-> first.decisions]
      /\ inventory(with) = [receipt |-> first.receipt.payload, checked |-> altered.binding.checked,
                            rows |-> first.rows, decisions |-> first.decisions]
      /\ inventory(with) # Rejected
  <2>1. (export # None) = TRUE /\ (with # None) = altered.binding.checked
    BY DEF DatabaseOK
  <2> HIDE DEF first, with
  <2>2. /\ inventory(export) = [receipt |-> first.receipt.payload, checked |-> export # None,
                                rows |-> first.rows, decisions |-> first.decisions]
        /\ inventory(with) = [receipt |-> first.receipt.payload, checked |-> with # None,
                              rows |-> first.rows, decisions |-> first.decisions]
        /\ inventory(with) # Rejected
    BY <1>4, <1>5, ExportedIs
  <2> HIDE DEF inventory
  <2> QED BY <2>1, <2>2, Zenon
<1>7. /\ first = [receipt |-> first.receipt, scope |-> altered.scope, observed_at |-> altered.observed_at,
                  rows |-> first.rows, decisions |-> {}]
      /\ first.receipt = [payload |-> first.receipt.payload, digest |-> first.receipt.payload]
  BY <1>2 DEF R!StoreExport
<1>8. /\ altered.receipt.payload = first.receipt.payload /\ altered.rows = first.rows
      /\ altered.decisions = Made(export).decisions
  <2>1. R!ExportInventory(altered, export) # Rejected
    BY <1>1, ExportedIs
  <2>2. R!ReadReceipt(rebuilt, export)
    BY <1>2, <2>1, ExportedIs
  <2>3. [receipt |-> altered.receipt.payload, checked |-> export # None, rows |-> altered.rows,
         decisions |-> altered.decisions]
        = [receipt |-> rebuilt.receipt.payload, checked |-> export # None, rows |-> rebuilt.rows,
           decisions |-> rebuilt.decisions]
    BY <1>1, <1>2, <2>2, ExportedIs
  <2>4. altered.receipt.payload = rebuilt.receipt.payload /\ altered.rows = rebuilt.rows
        /\ altered.decisions = rebuilt.decisions
    BY <2>3
  <2>5. rebuilt.receipt = first.receipt /\ rebuilt.rows = first.rows
    BY <1>3
  <2> QED BY <1>3, <2>4, <2>5
<1>9. again = Made(with)
  <2>1. inventory(with).decisions = {}
    BY <1>3, <1>6
  <2> HIDE DEF first, in, with
  <2>2. Accepted(with) => again = Made(with)
    BY Zenon DEF R!RetainAssessment
  <2> HIDE DEF again, Made
  <2> QED BY <1>3, <1>6, <2>1, <2>2
<1>10. again # Rejected
  BY <1>9 DEF Distinct
<1>11. altered.binding = inventory(with)
  BY <1>2, <1>6
<1>12. altered.receipt = first.receipt
  <2>1. altered.receipt = [payload |-> altered.receipt.payload, digest |-> altered.receipt.digest]
    BY DEF DatabaseOK
  <2> HIDE DEF first
  <2> QED BY <1>1, <1>7, <1>8, <2>1
<1>13. altered.input = [findings |-> in.findings, directory |-> in.directory, as_of |-> in.as_of,
                        assessed_at |-> in.assessed_at]
  BY DEF DatabaseOK
<1> DEFINE ds == {[plan |-> d, at |-> in.assessed_at] : d \in decisions}
<1>14. /\ altered.decisions = ds
       /\ Made(with) = [receipt |-> first.receipt, scope |-> first.scope, observed_at |-> first.observed_at,
                       rows |-> first.rows, decisions |-> ds,
                       input |-> [findings |-> in.findings, directory |-> in.directory, as_of |-> in.as_of,
                                  assessed_at |-> in.assessed_at],
                       digests |-> <<in.findings, in.directory>>, binding |-> inventory(with), model |-> model]
  BY <1>8
<1>15. altered = [Made(with) EXCEPT !.model = altered.model]
  <2>1. first.scope = altered.scope /\ first.observed_at = altered.observed_at
    BY <1>7
  <2>2. altered = [receipt |-> altered.receipt, scope |-> altered.scope, observed_at |-> altered.observed_at,
                   rows |-> altered.rows, decisions |-> altered.decisions, input |-> altered.input,
                   digests |-> altered.digests, binding |-> altered.binding, model |-> altered.model]
    BY DEF DatabaseOK
  <2> HIDE DEF first, in, with, inventory, decisions, Made, ds
  <2>3. altered = [receipt |-> first.receipt, scope |-> first.scope, observed_at |-> first.observed_at,
                   rows |-> first.rows, decisions |-> ds,
                   input |-> [findings |-> in.findings, directory |-> in.directory, as_of |-> in.as_of,
                              assessed_at |-> in.assessed_at],
                   digests |-> <<in.findings, in.directory>>, binding |-> inventory(with), model |-> altered.model]
    BY <1>2, <1>8, <1>11, <1>12, <1>13, <1>14, <2>1, <2>2
  <2> QED BY <1>14, <2>3
<1> QED BY <1>9, <1>10, <1>15

\* What a receipt says depends on four fields of the database only.
LEMMA SameReceipt ==
  ASSUME NEW db, NEW other, NEW export, other.receipt = db.receipt, other.rows = db.rows,
         other.scope = db.scope, other.observed_at = db.observed_at, R!ReadReceipt(db, export)
  PROVE  R!ReadReceipt(other, export)
BY DEF R!ReadReceipt

\* A database that was retained is verified with the export it was retained from.
LEMMA RetainedIsVerified ==
  ASSUME Distinct, NEW made, DatabaseOK(made), MadeOK(made), made # Rejected, NEW required,
         NEW export, export # None, made.receipt.payload.input = export.bytes,
         {r.payload : r \in made.rows} = export.payloads, made.model # None
  PROVE  R!VerifyAssessment(made, export, made.model, required)
<1> DEFINE from == [bytes |-> made.receipt.payload.input, payloads |-> {r.payload : r \in made.rows}]
           first == R!StoreExport(from, made.scope, made.observed_at)
           in == made.input
           with == IF made.binding.checked THEN from ELSE None
           rebuilt == R!RetainAssessment(first, in.findings, in.directory, in.as_of, in.assessed_at, export, made.model)
           inventory(e) == R!ExportInventory(first, e)
           decisions == R!Plan(first.rows, in.findings, in.directory, in.as_of)
           Accepted(e) == /\ inventory(e) # Rejected /\ inventory(e).decisions = {}
                          /\ ~(in.assessed_at < first.observed_at)
                          /\ first.rows = R!Rows({r.payload : r \in first.rows}) /\ decisions # Rejected
           ds == {[plan |-> d, at |-> in.assessed_at] : d \in decisions}
           Made(e) == [receipt |-> first.receipt, scope |-> first.scope, observed_at |-> first.observed_at,
                       rows |-> first.rows, decisions |-> ds,
                       input |-> [findings |-> in.findings, directory |-> in.directory, as_of |-> in.as_of,
                                  assessed_at |-> in.assessed_at],
                       digests |-> <<in.findings, in.directory>>, binding |-> inventory(e), model |-> made.model]
<1>1. /\ IsFiniteSet(from.payloads) /\ from.payloads # {} /\ from # None
      /\ made = R!RetainAssessment(first, in.findings, in.directory, in.as_of, in.assessed_at, with, made.model)
  BY DEF MadeOK
<1>2. export.bytes = from.bytes /\ export.payloads = from.payloads
  OBVIOUS
<1> HIDE DEF from
<1>3. /\ first = [receipt |-> first.receipt, scope |-> made.scope, observed_at |-> made.observed_at,
                  rows |-> R!Rows(from.payloads), decisions |-> {}]
      /\ R!ReadReceipt(first, with) /\ R!ReadReceipt(first, export)
      /\ first.receipt.payload.scope = made.scope /\ first.receipt.payload.observed_at = made.observed_at
      /\ first.receipt = [payload |-> first.receipt.payload, digest |-> first.receipt.payload]
  <2>1. with = None \/ (with.bytes = from.bytes /\ with.payloads = from.payloads)
    OBVIOUS
  <2>2. R!ReadReceipt(first, export)
    BY <1>1, <1>2, StoredIsConsistent
  <2> HIDE DEF with
  <2>3. R!ReadReceipt(first, with)
    BY <1>1, <2>1, StoredIsConsistent
  <2>4. /\ first = [receipt |-> first.receipt, scope |-> made.scope, observed_at |-> made.observed_at,
                    rows |-> R!Rows(from.payloads), decisions |-> {}]
        /\ first.receipt.payload.scope = made.scope /\ first.receipt.payload.observed_at = made.observed_at
        /\ first.receipt = [payload |-> first.receipt.payload, digest |-> first.receipt.payload]
    BY <1>1 DEF R!StoreExport
  <2> QED BY <2>2, <2>3, <2>4
<1>4. R!StoreExport(export, made.scope, made.observed_at) = first
  BY <1>2 DEF R!StoreExport
<1> HIDE DEF first, in
<1>5. first # Rejected
  BY <1>3 DEF Distinct
<1>6. Accepted(with) /\ made = Made(with)
  <2>1. ~Accepted(with) => made = Rejected
    BY <1>1, Zenon DEF R!RetainAssessment
  <2>2. Accepted(with) => made = Made(with)
    BY <1>1, Zenon DEF R!RetainAssessment
  <2> HIDE DEF Accepted, Made
  <2> QED BY <2>1, <2>2
<1>7. /\ made.receipt = first.receipt /\ made.rows = first.rows /\ made.scope = first.scope
      /\ made.observed_at = first.observed_at /\ made.decisions = ds
      /\ made.digests = <<in.findings, in.directory>> /\ made.binding = inventory(with)
  <2> HIDE DEF ds, inventory, Accepted
  <2> QED BY <1>6
<1>8. /\ inventory(export) = [receipt |-> first.receipt.payload, checked |-> export # None,
                              rows |-> first.rows, decisions |-> first.decisions]
      /\ inventory(with) = [receipt |-> first.receipt.payload, checked |-> with # None,
                            rows |-> first.rows, decisions |-> first.decisions]
      /\ inventory(export) # Rejected /\ inventory(with) # Rejected
  BY <1>3, ExportedIs
<1>9. Accepted(export)
  <2>1. first.decisions = {}
    BY <1>3
  <2> HIDE DEF inventory, decisions
  <2> QED BY <1>6, <1>8, <2>1
<1>10. rebuilt = Made(export)
  <2>1. Accepted(export) => rebuilt = Made(export)
    BY Zenon DEF R!RetainAssessment
  <2> HIDE DEF Accepted, Made, rebuilt
  <2> QED BY <1>9, <2>1
<1>11. rebuilt # Rejected /\ rebuilt.receipt = first.receipt /\ rebuilt.rows = first.rows
       /\ rebuilt.scope = first.scope /\ rebuilt.observed_at = first.observed_at /\ rebuilt.decisions = ds
  <2> HIDE DEF ds, inventory, Accepted, rebuilt
  <2> QED BY <1>10 DEF Distinct
<1>12. R!ReadReceipt(made, export) /\ R!ReadReceipt(rebuilt, export)
  BY <1>3, <1>7, <1>11, SameReceipt
<1>13. /\ R!ExportInventory(made, export) # Rejected
       /\ R!ExportInventory(made, export) = R!ExportInventory(rebuilt, export)
  <2> HIDE DEF ds, rebuilt
  <2> QED BY <1>7, <1>11, <1>12, ExportedIs
<1>14. made.binding = [inventory(export) EXCEPT !.checked = made.binding.checked]
  <2>1. made.binding.checked = (with # None)
    <3> HIDE DEF inventory
    <3> QED BY <1>7, <1>8
  <2> HIDE DEF inventory, with
  <2> QED BY <1>7, <1>8, <2>1
<1>15. R!StoreExport(export, made.receipt.payload.scope, made.receipt.payload.observed_at) = first
  BY <1>3, <1>4, <1>7
<1> HIDE DEF rebuilt, inventory
<1> QED BY <1>5, <1>7, <1>11, <1>13, <1>14, <1>15 DEF R!VerifyAssessment, R!ReadModel, rebuilt, inventory, in

\* Verification accepts what was retained, and only that.
LEMMA AssessmentsVerify ==
  ASSUME Distinct, AssessmentOK
  PROVE  R!OnlyWhatIsRetained(input.made, input.altered, input.export, input.model, input.required)
<1>1. /\ DatabaseOK(input.made) /\ DatabaseOK(input.altered) /\ MadeOK(input.made) /\ input.made # Rejected
      /\ input.made.receipt.payload.input = input.export.bytes =>
            {r.payload : r \in input.made.rows} = input.export.payloads
      /\ input.export # None /\ input.model # None
  BY DEF AssessmentOK
<1>2. input.made.model = input.model /\ input.made.receipt.payload.input = input.export.bytes =>
        R!VerifyAssessment(input.made, input.export, input.model, input.required)
  BY <1>1, RetainedIsVerified
<1>3. ASSUME R!VerifyAssessment(input.altered, input.export, input.model, input.required)
      PROVE  input.altered.model = input.model \/ (input.altered.model = None /\ ~input.required)
  BY <1>3 DEF R!VerifyAssessment, R!ReadModel
<1> DEFINE first == R!StoreExport(input.export, input.altered.scope, input.altered.observed_at)
           in == input.altered.input
           again == R!RetainAssessment(first, in.findings, in.directory, in.as_of, in.assessed_at,
                                       IF input.altered.binding.checked THEN input.export ELSE None, input.model)
<1>4. ASSUME R!VerifyAssessment(input.altered, input.export, input.model, input.required)
      PROVE  again # Rejected /\ input.altered = [again EXCEPT !.model = input.altered.model]
  BY <1>1, <1>4, VerifiedWasRetained
<1> HIDE DEF again
<1> QED BY <1>2, <1>3, <1>4 DEF R!OnlyWhatIsRetained, again

-----------------------------------------------------------------------------
(* EC2 receipts *)

\* An accepted receipt is of the batch made of the export, and decides each finding once.
LEMMA VerifiedReceiptIs ==
  ASSUME NEW record, record # Rejected, NEW export, NEW model, R!VerifyEc2Assessment(record, export, model)
  PROVE  /\ record.discovery = R!StoreEc2(export, record.discovery.context)
         /\ \A d, e \in record.decisions : d.id = e.id => d = e
<1> DEFINE db == R!StoreEc2(export, record.discovery.context)
           decisions == R!Plan(db.rows, record.findings, record.directory, record.as_of)
           decide(f) == [id |-> f.id, asset |-> f.asset, team |-> record.directory[f.asset], due |-> f.due,
                         overdue |-> f.due < record.as_of]
<1>1. record = R!BuildEc2(db, record.findings, record.directory, export, record.as_of,
                          record.assessed_at, model)
  BY DEF R!VerifyEc2Assessment
<1> HIDE DEF db
<1>2. /\ decisions # Rejected
      /\ record = [model |-> model, as_of |-> record.as_of, assessed_at |-> record.assessed_at, discovery |-> db,
                   findings |-> record.findings, directory |-> record.directory, decisions |-> decisions]
  BY <1>1, Zenon DEF R!BuildEc2
<1>3. record.discovery = db /\ record.decisions = decisions
  <2> HIDE DEF decisions
  <2> QED BY <1>2
<1>4. /\ decisions = {decide(f) : f \in record.findings}
      /\ \A f, g \in record.findings : f.id = g.id => f = g
  <2>1. ~(\/ \E f \in record.findings : f.asset \notin R!Assets(db.rows) \/ f.opened > record.as_of
          \/ \E f, g \in record.findings : f.id = g.id /\ f # g
          \/ record.findings = {})
    BY <1>2, Zenon DEF R!Plan
  <2>2. decisions = {decide(f) : f \in record.findings}
    BY <2>1, Zenon DEF R!Plan
  <2> HIDE DEF decisions, decide
  <2> QED BY <2>1, <2>2
<1>5. \A f : decide(f).id = f.id
  OBVIOUS
<1> HIDE DEF decisions, decide
<1>6. \A d, e \in decisions : d.id = e.id => d = e
  BY <1>4, <1>5
<1> QED BY <1>3, <1>6 DEF db

\* Accepted receipts that can be compared are of one batch, and the comparison tells the
\* whole difference of their decisions.
LEMMA ReceiptsTell ==
  ASSUME ReceiptsOK
  PROVE  R!ReceiptsCompare(input.previous, input.current, input.export, input.model)
<1> DEFINE p == input.previous
           c == input.current
           comparison == R!CompareAssessments(p, c, input.export, input.model)
           of(record, id) == CHOOSE d \in record.decisions : d.id = id
           ids(record) == {d.id : d \in record.decisions}
<1>1. SUFFICES ASSUME comparison # Rejected
               PROVE  /\ p.discovery = R!StoreEc2(input.export, c.discovery.context)
                      /\ (ids(p) \ comparison.omitted) \cup comparison.added = ids(c)
                      /\ (comparison.added = {} /\ comparison.omitted = {} /\ comparison.changed = {})
                           <=> p.decisions = c.decisions
  BY DEF R!ReceiptsCompare
<1>2. /\ R!VerifyEc2Assessment(p, input.export, input.model) /\ R!VerifyEc2Assessment(c, input.export, input.model)
      /\ p.discovery = c.discovery
      /\ comparison = [added |-> ids(c) \ ids(p), omitted |-> ids(p) \ ids(c),
                       changed |-> {x \in ids(p) \cap ids(c) : of(p, x) # of(c, x)}]
  BY <1>1, Zenon DEF R!CompareAssessments
<1>3. p # Rejected /\ c # Rejected
  BY DEF ReceiptsOK
<1> HIDE DEF p, c, comparison
<1>4. /\ c.discovery = R!StoreEc2(input.export, c.discovery.context)
      /\ \A r \in {p, c} : \A d, e \in r.decisions : d.id = e.id => d = e
  BY <1>2, <1>3, VerifiedReceiptIs
<1>5. \A r \in {p, c} : \A d \in r.decisions : d.id \in ids(r) /\ of(r, d.id) = d
  BY <1>4
<1>6. \A r \in {p, c} : \A x \in ids(r) : of(r, x) \in r.decisions /\ of(r, x).id = x
  BY <1>5
<1> HIDE DEF ids, of
<1>7. comparison.added = ids(c) \ ids(p) /\ comparison.omitted = ids(p) \ ids(c)
      /\ comparison.changed = {x \in ids(p) \cap ids(c) : of(p, x) # of(c, x)}
  BY <1>2
<1>8. ASSUME comparison.added = {} /\ comparison.omitted = {} /\ comparison.changed = {}
      PROVE  p.decisions = c.decisions
  <2>1. ids(p) = ids(c) /\ \A x \in ids(p) : of(p, x) = of(c, x)
    BY <1>7, <1>8
  <2>2. ASSUME NEW d PROVE d \in p.decisions <=> d \in c.decisions
    BY <1>5, <1>6, <2>1
  <2> QED BY <2>2
<1>9. ASSUME p.decisions = c.decisions
      PROVE  comparison.added = {} /\ comparison.omitted = {} /\ comparison.changed = {}
  <2>1. ids(p) = ids(c)
    BY <1>9 DEF ids
  <2>2. \A x : of(p, x) = of(c, x)
    BY <1>9 DEF of
  <2> QED BY <1>7, <2>1, <2>2
<1>10. (ids(p) \ comparison.omitted) \cup comparison.added = ids(c)
  BY <1>7
<1> QED BY <1>2, <1>4, <1>8, <1>9, <1>10

-----------------------------------------------------------------------------
(* Reviews *)

\* A review bound to its batch is accepted for that batch only, and batches that compare
\* with no difference hold the same rows.
LEMMA ReviewsTell ==
  ASSUME Distinct, ReviewOK
  PROVE  R!ReviewsNameOneBatch(input.base, input.current, input.export, input.bind)
<1> DEFINE base == input.base
           current == input.current
           inventory == R!ExportInventory(base, input.export)
           other == R!ExportInventory(current, input.export)
           record == R!ReviewRecord(inventory, 5, input.bind)
           comparison == R!CompareInventories(base, current)
           claims(db, x) == {r.payload : r \in {s \in db.rows : s.asset = x}}
<1>1. /\ input.bind \in BOOLEAN
      /\ \A db \in {base, current} : \A r \in db.rows : r = [asset |-> r.asset, payload |-> r.payload]
  BY DEF ReviewOK
<1>2. inventory # Rejected =>
        record = [reviewed_at |-> 5, summary |-> R!CoverageSummary(inventory),
                  batch |-> IF input.bind THEN inventory ELSE None]
  BY Zenon DEF R!ReviewRecord
<1>3. inventory # Rejected => inventory # None
  BY ExportedIs DEF Distinct
<1>4. ASSUME inventory # Rejected PROVE R!VerifyReview(base, record, input.export, input.bind)
  <2>1. record.batch = (IF input.bind THEN inventory ELSE None) /\ record.reviewed_at = 5
    <3> HIDE DEF inventory, record
    <3> QED BY <1>2, <1>4
  <2>2. (record.batch # None) = input.bind
    <3> HIDE DEF inventory, record
    <3> QED BY <1>1, <1>3, <1>4, <2>1
  <2>3. R!ReviewRecord(inventory, record.reviewed_at, record.batch # None) = record
    <3> HIDE DEF inventory
    <3> QED BY <2>1, <2>2
  <2> HIDE DEF record
  <2> QED BY <2>2, <2>3 DEF R!VerifyReview
<1>5. ASSUME inventory # Rejected, R!VerifyReview(current, record, input.export, TRUE) PROVE other = inventory
  <2>1. record.batch # None /\ R!ReviewRecord(other, record.reviewed_at, record.batch # None) = record
    BY <1>5 DEF R!VerifyReview
  <2>2. record.batch = inventory
    <3> HIDE DEF inventory, record
    <3> QED BY <1>1, <1>2, <1>5, <2>1
  <2>3. other # Rejected
    <3>1. record # Rejected
      <4> HIDE DEF inventory, record
      <4> QED BY <1>2, <1>5 DEF Distinct
    <3> QED BY <2>1, <3>1 DEF R!ReviewRecord
  <2>4. R!ReviewRecord(other, record.reviewed_at, TRUE).batch = other
    <3> HIDE DEF other, record
    <3> QED BY <2>3 DEF R!ReviewRecord
  <2>5. (record.batch # None) = TRUE
    BY <2>1
  <2> HIDE DEF other, record, inventory
  <2> QED BY <2>1, <2>2, <2>4, <2>5
<1>6. ASSUME comparison # Rejected
      PROVE  (comparison.added = {} /\ comparison.not_observed = {} /\ comparison.changed = {})
               <=> base.rows = current.rows
  <2> DEFINE old == R!Assets(base.rows)
             new == R!Assets(current.rows)
  <2>1. comparison = [added |-> new \ old, not_observed |-> old \ new,
                      changed |-> {x \in old \cap new : claims(base, x) # claims(current, x)}]
    BY <1>6, Zenon DEF R!CompareInventories
  <2>2. \A db \in {base, current} : \A r \in db.rows :
           r.asset \in R!Assets(db.rows) /\ r.payload \in claims(db, r.asset)
    BY DEF R!Assets
  <2>3. \A db \in {base, current} : \A x : \A y \in claims(db, x) : [asset |-> x, payload |-> y] \in db.rows
    <3> SUFFICES ASSUME NEW db \in {base, current}, NEW x, NEW y \in claims(db, x)
                 PROVE  [asset |-> x, payload |-> y] \in db.rows
      BY Zenon
    <3>1. PICK r \in db.rows : r.asset = x /\ r.payload = y
      OBVIOUS
    <3> QED BY <1>1, <3>1
  <2> HIDE DEF base, current, comparison, claims, old, new
  <2>4. comparison.added = new \ old /\ comparison.not_observed = old \ new
        /\ comparison.changed = {x \in old \cap new : claims(base, x) # claims(current, x)}
    BY <2>1
  <2>5. ASSUME comparison.added = {} /\ comparison.not_observed = {} /\ comparison.changed = {}
        PROVE  base.rows = current.rows
    <3>1. old = new /\ \A x \in old : claims(base, x) = claims(current, x)
      BY <2>4, <2>5
    <3>2. ASSUME NEW r \in base.rows PROVE r \in current.rows
      <4>1. r.payload \in claims(current, r.asset)
        BY <2>2, <3>1 DEF old
      <4>2. [asset |-> r.asset, payload |-> r.payload] \in current.rows
        BY <2>3, <4>1
      <4> QED BY <1>1, <4>2 DEF base, current
    <3>3. ASSUME NEW r \in current.rows PROVE r \in base.rows
      <4>1. r.payload \in claims(base, r.asset)
        BY <2>2, <3>1 DEF new
      <4>2. [asset |-> r.asset, payload |-> r.payload] \in base.rows
        BY <2>3, <4>1
      <4> QED BY <1>1, <4>2 DEF base, current
    <3> QED BY <3>2, <3>3
  <2>6. ASSUME base.rows = current.rows
        PROVE  comparison.added = {} /\ comparison.not_observed = {} /\ comparison.changed = {}
    <3>1. old = new
      BY <2>6 DEF old, new
    <3>2. \A x : claims(base, x) = claims(current, x)
      BY <2>6 DEF claims
    <3> QED BY <2>4, <3>1, <3>2
  <2> QED BY <2>5, <2>6
<1> HIDE DEF inventory, other, record, comparison
<1> QED BY <1>4, <1>5, <1>6 DEF R!ReviewsNameOneBatch, inventory, other, record, comparison

\* A verifier accepts what the retaining command made of that export, and nothing else.
LEMMA VerifiedIsRetained == ASSUME Distinct, InputOK PROVE VerifiedIsWhatIsRetained
BY AssessmentsVerify, ReceiptsTell, ReviewsTell DEF InputOK, VerifiedIsWhatIsRetained

\* Of all databases, receipts and reviews, verification accepts what could have been retained.
THEOREM VerifiedAreRetained == ASSUME Distinct PROVE Spec => []VerifiedIsWhatIsRetained
BY InputsAreOK, VerifiedIsRetained, PTL
=============================================================================
