------------------------------ MODULE Policies ------------------------------
(***************************************************************************)
(* From a finding to a place in a queue: its score (engine/risk.py), its   *)
(* priority and due date (engine/remediation.py), the team that owns the   *)
(* asset (engine/ownership.py), the queues of the teams (work_queue.py)    *)
(* and the commands that build them from records (work_queue_cli.py,       *)
(* remediation_cli.py, inventory_queue_cli.py, discovery_queue_cli.py).    *)
(*                                                                         *)
(* Dates are day numbers.  A text field is <<value, padding>>, which strip *)
(* and lower-casing take away.  A record is [finding, tags, opened,        *)
(* requested], a finding [id, asset, severity, exposure, exploit, control].*)
(* A result is a value, or Rejected where the code raises.                 *)
(***************************************************************************)
EXTENDS Integers, Sequences, FiniteSets, SequencesExt, FiniteSetsExt

CONSTANTS None, Rejected

Strip(text) == <<text[1], "">>

-----------------------------------------------------------------------------
(* Score *)

SEVERITY_POINTS == [low |-> 10, medium |-> 25, high |-> 45, critical |-> 60]
EXPOSURE_POINTS == [internal |-> 0, limited |-> 10, internet |-> 20]
EXPLOIT_POINTS  == [none |-> 0, proof_of_concept |-> 10, observed |-> 20]
CONTROL_POINTS  == [effective |-> -15, unknown |-> 0, missing |-> 10]

Clamp(low, high, n) == Max({low, Min({high, n})})

Band(score) ==
    IF score >= 75 THEN "critical" ELSE IF score >= 50 THEN "high"
    ELSE IF score >= 25 THEN "moderate" ELSE "low"

ScoreFinding(finding) ==
    LET score == Clamp(0, 100, SEVERITY_POINTS[finding.severity] + EXPOSURE_POINTS[finding.exposure]
                             + EXPLOIT_POINTS[finding.exploit] + CONTROL_POINTS[finding.control])
    IN  [finding |-> Strip(finding.id), asset |-> Strip(finding.asset), score |-> score, band |-> Band(score)]

-----------------------------------------------------------------------------
(* Priority and due date *)

BASE_PRIORITY == [critical |-> 0, high |-> 1, moderate |-> 2, low |-> 3]
SLA_DAYS      == [critical |-> 1, high |-> 7, moderate |-> 30, low |-> 90]

\* Mutant: the shifts move towards the numbers that are less urgent.
ShiftDown(owner, overdue) == (IF owner = None THEN 1 ELSE 0) + (IF overdue THEN 1 ELSE 0)

Shift(owner, overdue) == (IF owner = None THEN -1 ELSE 0) + (IF overdue THEN -1 ELSE 0)

PlanRemediation(assessment, owner, opened, as_of, requested) ==
    LET sla     == opened + SLA_DAYS[assessment.band]
        due     == IF requested = None THEN sla ELSE Min({sla, requested})
        overdue == due < as_of
    IN  IF opened > as_of \/ (requested # None /\ requested < opened) THEN Rejected
        ELSE [assessment |-> assessment, owner |-> owner, due |-> due, overdue |-> overdue,
              priority |-> Clamp(0, 3, BASE_PRIORITY[assessment.band] + Shift(owner, overdue))]

\* remediation_cli: the plans before the first bad record are already written.
PlanJsonl(records, owners, as_of) ==
    LET plan(i) == PlanRemediation(ScoreFinding(records[i].finding), owners[i], records[i].opened,
                                   as_of, records[i].requested)
        bad     == {i \in 1..Len(records) : plan(i) = Rejected}
        emitted == IF bad = {} THEN Len(records) ELSE Min(bad) - 1
    IN  [written |-> [i \in 1..emitted |-> plan(i)], failed |-> bad # {}]

-----------------------------------------------------------------------------
(* Owner: raw tags map spelled keys to values, a directory is [teams, rules] *)

TagMap(raw) ==
    IF \E k, l \in DOMAIN raw : k # l /\ Strip(k) = Strip(l) THEN Rejected
    ELSE [k \in {Strip(l) : l \in DOMAIN raw} |-> raw[CHOOSE l \in DOMAIN raw : Strip(l) = k]]

ReadDirectory(raw) ==
    LET rules == raw.rules IN
    IF \/ raw.teams = {} \/ rules = <<>>
       \/ \E i \in 1..Len(rules) : \/ rules[i].team \notin raw.teams
                                   \/ DOMAIN rules[i].tags = {}
                                   \/ TagMap(rules[i].tags) = Rejected
       \/ \E i, j \in 1..Len(rules) : i # j /\ rules[i].id = rules[j].id
    THEN Rejected
    ELSE [teams |-> raw.teams, rules |-> {[r EXCEPT !.tags = TagMap(@)] : r \in ToSet(rules)}]

Matches(rule, tags) == \A k \in DOMAIN rule.tags : k \in DOMAIN tags /\ tags[k] = rule.tags[k]
Specificity(rule) == Cardinality(DOMAIN rule.tags)

\* Mutant: every matching rule counts.
AllOf(matches) == matches

Strongest(matches) == {r \in matches : Specificity(r) = Max({Specificity(m) : m \in matches})}

Resolve(directory, raw) ==
    LET matches   == {r \in directory.rules : Matches(r, TagMap(raw))}
        strongest == Strongest(matches)
        teams     == {r.team : r \in strongest}
    IN  IF TagMap(raw) = Rejected THEN Rejected
        ELSE [status |-> IF matches = {} THEN "unmatched"
                         ELSE IF Cardinality(teams) > 1 THEN "ambiguous" ELSE "resolved",
              team   |-> IF Cardinality(teams) = 1 THEN CHOOSE t \in teams : TRUE ELSE None,
              rules  |-> {r.id : r \in strongest}]

-----------------------------------------------------------------------------
(* Queues *)

QueueItem(record, directory, as_of) ==
    LET ownership == Resolve(directory, record.tags)
        plan == PlanRemediation(ScoreFinding(record.finding), ownership.team, record.opened,
                                as_of, record.requested)
    IN  IF ownership = Rejected THEN Rejected ELSE IF plan = Rejected THEN Rejected
        ELSE [plan |-> plan, ownership |-> ownership]

Before(left, right) ==
    LET key(item) == <<item.plan.priority, item.plan.due, item.plan.assessment.finding[1]>>
        differ    == {n \in 1..3 : key(left)[n] # key(right)[n]}
    IN  differ # {} /\ key(left)[Min(differ)] < key(right)[Min(differ)]

\* sorted: no two items have the same key, so there is one order.
SortedItems(set) ==
    CHOOSE queue \in [1..Cardinality(set) -> set] :
        \A m, n \in 1..Cardinality(set) : m < n => Before(queue[m], queue[n])

BuildWorkQueue(items, directory) ==
    LET id(i)    == items[i].plan.assessment.finding
        owned(t) == {i \in 1..Len(items) : items[i].ownership.status = "resolved" /\ items[i].ownership.team = t}
        free     == {i \in 1..Len(items) : items[i].ownership.status # "resolved"}
        sorted(s) == SortedItems({items[i] : i \in s})
    IN  IF \/ \E i, j \in 1..Len(items) : i # j /\ id(i) = id(j)
           \/ \E i \in 1..Len(items) \ free : \/ items[i].ownership.team \notin directory.teams
                                              \/ items[i].plan.owner # items[i].ownership.team
           \/ \E i \in free : items[i].plan.owner # None
        THEN Rejected
        ELSE [queues |-> [t \in {u \in directory.teams : owned(u) # {}} |-> sorted(owned(t))],
              unassigned |-> sorted(free)]

\* The loop of plan_inventory and plan_discovery: all records or none.
QueueItems(assets, records, directory, as_of) ==
    LET item(i) == QueueItem(records[i], directory, as_of) IN
    IF \E i \in 1..Len(records) :
          \/ records[i].finding.asset \notin assets
          \/ item(i) = Rejected
          \/ Strip(records[i].finding.asset) # records[i].finding.asset
    THEN Rejected ELSE [i \in 1..Len(records) |-> item(i)]

\* Mutant: only the priority is compared.
MovedPriority(old, new) == old.priority # new.priority

Moved(old, new) == old.priority # new.priority \/ old.overdue # new.overdue

\* The items whose urgency the passing of time alone has changed.
PriorityComparison(records, items, directory, baseline) ==
    LET old(i) == QueueItem(records[i], directory, baseline)
    IN  IF \E i \in 1..Len(items) : old(i) = Rejected THEN Rejected
        ELSE {i \in 1..Len(items) : Moved(old(i).plan, items[i].plan)}

PlanInventory(assets, records, raw, as_of, baseline) ==
    LET directory == ReadDirectory(raw)
        items     == QueueItems(assets, records, directory, as_of)
        queues    == BuildWorkQueue(items, directory)
        changes   == IF baseline = None THEN {} ELSE PriorityComparison(records, items, directory, baseline)
    IN  IF \/ baseline # None /\ baseline > as_of
           \/ directory = Rejected
        THEN Rejected
        ELSE IF items = Rejected THEN Rejected
        ELSE IF queues = Rejected \/ changes = Rejected THEN Rejected
        ELSE [queues |-> queues, assessed |-> {records[i].finding.asset : i \in 1..Len(records)},
              without |-> assets \ {records[i].finding.asset : i \in 1..Len(records)},
              changes |-> changes]

\* plan_discovery repeats the loop for an EC2 batch, without a comparison.
PlanDiscovery(assets, records, raw, as_of) == PlanInventory(assets, records, raw, as_of, None)

-----------------------------------------------------------------------------
(* Properties *)

\* Urgency only grows: if every factor of a finding is as bad or worse, its owner the same
\* or missing and the day as late or later, its priority is as high or higher and its due
\* date no later, although the score is clamped, bands are cut, the date is capped and the
\* shifts are clamped again (score_finding and plan_remediation together).
NeverLessUrgent(milder, worse, owner, requested, as_of, later) ==
    LET Leq(points, field) == points[milder[field]] <= points[worse[field]]
        left  == PlanRemediation(ScoreFinding(milder), owner, 0, as_of, requested)
        right(o) == PlanRemediation(ScoreFinding(worse), o, 0, later, requested)
    IN  /\ Leq(SEVERITY_POINTS, "severity") /\ Leq(EXPOSURE_POINTS, "exposure")
        /\ Leq(EXPLOIT_POINTS, "exploit") /\ Leq(CONTROL_POINTS, "control") /\ as_of <= later
        => \A o \in {owner, None} : /\ right(o).priority <= left.priority
                                    /\ right(o).due <= left.due
                                    /\ left.overdue => right(o).overdue

Plans(queue) == {queue[n].plan : n \in 1..Len(queue)}
Sorted(queue) == \A m, n \in 1..Len(queue) : m < n => queue[m].plan.priority <= queue[n].plan.priority
Listings(queue, record) ==
    Cardinality({n \in 1..Len(queue) : queue[n].plan.assessment.finding = Strip(record.finding.id)})

\* The teams with a matching rule more specific than every matching rule of the others.
Winners(raw, tags) ==
    LET rules == {r \in {[r EXCEPT !.tags = TagMap(@)] : r \in ToSet(raw.rules)} : Matches(r, tags)} IN
    {t \in raw.teams : \E r \in rules :
        r.team = t /\ \A s \in rules : s.team # t => Specificity(s) < Specificity(r)}

\* Each record is in the queue of its one winning team, or in the rest if it has none, and
\* nothing else is; the plans are the ones written for the records one by one.
Distributed(queues, rest, winners, records, direct) ==
    /\ \A i \in 1..Len(records) :
          /\ \A t \in DOMAIN queues :
                Listings(queues[t], records[i]) = IF t \in winners[i] THEN 1 ELSE 0
          /\ winners[i] \subseteq DOMAIN queues
          /\ Listings(rest, records[i]) = IF winners[i] = {} THEN 1 ELSE 0
    /\ Len(rest) + FoldSet(LAMBDA t, n : n + Len(queues[t]), 0, DOMAIN queues) = Len(records)
    /\ Sorted(rest) /\ \A t \in DOMAIN queues : Sorted(queues[t])
    /\ ~direct.failed
    /\ ToSet(direct.written) = Plans(rest) \cup UNION {Plans(queues[t]) : t \in DOMAIN queues}

\* Accepted records are queued exactly once, each with the team that has a matching rule
\* more specific than every matching rule of the other teams, and unassigned if there is
\* none; a queue never shows a more urgent item below a less urgent one, and its plans are
\* those that planning the records one by one for these owners (remediation_cli) writes.
QueuedOnce(assets, records, raw, as_of) ==
    LET winners == [i \in 1..Len(records) |-> Winners(raw, TagMap(records[i].tags))]
        owner(teams) == IF Cardinality(teams) = 1 THEN CHOOSE t \in teams : TRUE ELSE None
    IN  \A result \in {PlanDiscovery(assets, records, raw, as_of)} \ {Rejected} :
           Distributed(result.queues.queues, result.queues.unassigned, winners, records,
                       PlanJsonl(records, [i \in DOMAIN winners |-> owner(winners[i])], as_of))

\* The comparison of two review dates lists exactly the items that became overdue between
\* them, and never one whose urgency fell (plan_inventory compares priority and overdue).
NewlyOverdue(assets, records, raw, as_of, baseline) ==
    LET due(i) == QueueItem(records[i], ReadDirectory(raw), as_of).plan.due IN
    \A result \in {PlanInventory(assets, records, raw, as_of, baseline)} \ {Rejected} :
        result.changes = {i \in 1..Len(records) : baseline <= due(i) /\ due(i) < as_of}
=============================================================================
