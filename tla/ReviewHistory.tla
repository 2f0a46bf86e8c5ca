--------------------------- MODULE ReviewHistory ---------------------------
(***************************************************************************)
(* The retained EC2 reviews: histories that chain one review to the next   *)
(* (ec2_review_history.py), selections of a revision of a history that     *)
(* advance along its lineage (ec2_history_enrollment.py) and signed        *)
(* approvals of a history or a selection (ec2_history_approval.py).        *)
(*                                                                         *)
(* Every artifact is a file that is published once and never changed       *)
(* (ExclusivePublish), so the state is the set of those published so far.  *)
(* Anyone may start from any of them, however old: that is how two         *)
(* histories fork.  A call is one step, at its last verification: what it  *)
(* reads cannot change, and a new model deployed after that verification   *)
(* only comes after the step.                                              *)
(*                                                                         *)
(* A SHA-256 digest is the value it digests (no collisions), a signature   *)
(* is the public key that verifies it.  Times are numbers; sizes in bytes  *)
(* are left out.                                                           *)
(***************************************************************************)
EXTENDS Naturals, Sequences, FiniteSets, SequencesExt

CONSTANTS
    Receipts,       \* the assessment receipts at hand, see IsReceipt
    Exports,        \* original exports
    Models,         \* digests of the implementation, as deployed over time
    Forms,          \* the bytes SQLite may choose for the same rows
    Ids,            \* enrollment identifiers (uuid4)
    Policies,       \* authority policies, see IsPolicy
    Publics,        \* public keys; a seed is known by its public key
    Audiences,      \* recipients of an approval
    Times,          \* instants of the trusted clock
    MAX_REVIEWS,    \* 32 in the code
    MAX_DECISIONS,  \* 20000 in the code
    None,           \* JSON null
    MaxHistories, MaxEnrollments, MaxApprovals  \* bounds of the model

VARIABLES
    model,       \* what current_model() returns
    histories,   \* published histories: [records, form]
    enrollments, \* published selections
    approvals    \* published approvals, each with the policy and files it was signed for

vars == <<model, histories, enrollments, approvals>>

IsReceipt(r) ==
    /\ DOMAIN r = {"export", "discovery", "model", "as_of", "assessed_at", "items"}
    /\ r.export \in Exports /\ r.model \in Models
    /\ r.as_of \in Nat /\ r.assessed_at \in Nat
    /\ DOMAIN r.items # {} /\ IsFiniteSet(DOMAIN r.items)

IsPolicy(p) ==
    /\ p.audience \in Audiences /\ p.maximum \in Nat \ {0}
    /\ \A k \in DOMAIN p.keys :
          /\ p.keys[k].public \in Publics
          /\ p.keys[k].state \in {"active", "retired", "revoked"}
          /\ p.keys[k].not_before \in Nat /\ p.keys[k].not_after \in Nat
          /\ p.keys[k].not_before < p.keys[k].not_after
    /\ \A k, l \in DOMAIN p.keys : p.keys[k].public = p.keys[l].public => k = l

ASSUME HistoryAssumption ==
    /\ \A r \in Receipts : IsReceipt(r)
    /\ \A p \in Policies : IsPolicy(p)
    /\ Times \subseteq Nat
    /\ MAX_REVIEWS \in Nat \ {0} /\ MAX_DECISIONS \in Nat
    /\ Models # {}
    /\ None \notin Ids

-----------------------------------------------------------------------------
(* Histories *)

\* The digest of a node binds its place, the node before it and its receipt.
HeadOf(records) ==
    LET node[n \in 0..Len(records)] ==
          IF n = 0 THEN None
          ELSE [sequence |-> n, previous |-> node[n - 1], receipt |-> records[n]]
    IN  node[Len(records)]

\* A receipt reproduces from the export it was made of under the current model.
Reproduce(record, export) == record.model = model /\ record.export = export

NotBefore(record, previous) ==
    /\ record.discovery = previous.discovery /\ record.model = previous.model
    /\ record.as_of >= previous.as_of /\ record.assessed_at >= previous.assessed_at

DecisionCount(records) ==
    FoldLeft(LAMBDA n, r : n + Cardinality(DOMAIN r.items), 0, records)

Consistent(records) ==
    /\ Len(records) \in 1..MAX_REVIEWS
    /\ \A i, j \in 1..Len(records) : records[i] = records[j] => i = j
    /\ \A i \in 2..Len(records) : NotBefore(records[i], records[i - 1])
    /\ \A i, j \in 1..Len(records) :
          \A f \in DOMAIN records[i].items \cap DOMAIN records[j].items :
             records[i].items[f] = records[j].items[f]
    /\ DecisionCount(records) <= MAX_DECISIONS

Validate(records, export) ==
    /\ Consistent(records)
    /\ \A i \in 1..Len(records) : Reproduce(records[i], export)

Load(history, export, expected) ==
    /\ Validate(history.records, export)
    /\ HeadOf(history.records) = expected

\* Mutant: only the history that is read is validated, not the extended one.
RetainUnvalidated(receipt, base, export, form) ==
    /\ base # <<>> => Validate(base, export)
    /\ Reproduce(receipt, export)
    /\ histories' = histories \cup {[records |-> Append(base, receipt), form |-> form]}
    /\ UNCHANGED <<model, enrollments, approvals>>

\* retain_history: start, or extend a history whose head the caller holds.
RetainHistory(receipt, base, export, form) ==
    LET records == Append(base, receipt) IN
    /\ base # <<>> => Validate(base, export)
    /\ Reproduce(receipt, export)
    /\ Validate(records, export)
    /\ histories' = histories \cup {[records |-> records, form |-> form]}
    /\ UNCHANGED <<model, enrollments, approvals>>

-----------------------------------------------------------------------------
(* Enrollments: the selection of one revision *)

Document(history, id, revision, previous) ==
    [enrollment_id |-> id, revision |-> revision, previous |-> previous,
     review_count |-> Len(history.records), decision_count |-> DecisionCount(history.records),
     head |-> HeadOf(history.records), database |-> history,
     export |-> history.records[1].export, discovery |-> history.records[1].discovery,
     model |-> history.records[1].model]

Parses(document) ==
    /\ 1 <= document.revision /\ document.revision <= document.review_count
    /\ document.review_count <= MAX_REVIEWS /\ document.decision_count <= MAX_DECISIONS
    /\ document.revision = 1 <=> document.previous = None

PublishSelection(document) ==
    /\ Parses(document)
    /\ enrollments' = enrollments \cup {document}
    /\ UNCHANGED <<model, histories, approvals>>

EnrollHistory(history, export, id) ==
    /\ \A e \in enrollments : e.enrollment_id # id
    /\ Load(history, export, HeadOf(history.records))
    /\ PublishSelection(Document(history, id, 1, None))

\* Mutant: the head of the prefix is not compared.
ExtendsInLength(candidate, records, previous) ==
    /\ Len(records) > previous.review_count
    /\ DecisionCount(SubSeq(records, 1, previous.review_count)) = previous.decision_count
    /\ candidate.export = previous.export
    /\ candidate.discovery = previous.discovery
    /\ candidate.model = previous.model

\* The candidate's first reviews must be those the previous revision selected.
Extends(candidate, records, previous) ==
    LET prefix == SubSeq(records, 1, previous.review_count) IN
    /\ Len(records) > previous.review_count
    /\ HeadOf(prefix) = previous.head
    /\ DecisionCount(prefix) = previous.decision_count
    /\ candidate.export = previous.export
    /\ candidate.discovery = previous.discovery
    /\ candidate.model = previous.model

AdvanceEnrollment(history, previous, export) ==
    LET candidate == Document(history, previous.enrollment_id, previous.revision + 1, previous) IN
    /\ Parses(previous)
    /\ Load(history, export, HeadOf(history.records))
    /\ Extends(candidate, history.records, previous)
    /\ PublishSelection(candidate)

VerifyEnrollment(history, enrollment, export) ==
    /\ Parses(enrollment)
    /\ Load(history, export, enrollment.head)
    /\ Document(history, enrollment.enrollment_id, enrollment.revision, enrollment.previous) = enrollment

-----------------------------------------------------------------------------
(* Approvals *)

\* _policy: the key may be used at that moment, for signing only while active.
KeyUsable(policy, audience, key_id, at, signing) ==
    /\ policy.audience = audience
    /\ key_id \in DOMAIN policy.keys
    /\ policy.keys[key_id].state # "revoked"
    /\ signing => policy.keys[key_id].state = "active"
    /\ policy.keys[key_id].not_before <= at /\ at < policy.keys[key_id].not_after

\* Mutant: an approval may outlive the window of its key.
ContextPastKey(approval, key, maximum, at) ==
    /\ 1 <= approval.review_count /\ approval.review_count <= 32
    /\ 1 <= approval.decision_count /\ approval.decision_count <= 20000
    /\ approval.issued_at <= at /\ at < approval.expires_at
    /\ approval.issued_at < approval.expires_at
    /\ approval.expires_at - approval.issued_at <= maximum
    /\ key.not_before <= approval.issued_at

\* _context: the counts and the window an approval names.
Context(approval, key, maximum, at) ==
    /\ 1 <= approval.review_count /\ approval.review_count <= 32
    /\ 1 <= approval.decision_count /\ approval.decision_count <= 20000
    /\ approval.issued_at <= at /\ at < approval.expires_at
    /\ approval.issued_at < approval.expires_at
    /\ approval.expires_at - approval.issued_at <= maximum
    /\ key.not_before <= approval.issued_at /\ approval.expires_at <= key.not_after

Approval(history, policy, key_id, issued, expires, seed, enrollment) ==
    [version |-> IF enrollment = None THEN 1 ELSE 2,
     key_id |-> key_id, audience |-> policy.audience, head |-> HeadOf(history.records),
     export |-> history.records[1].export, review_count |-> Len(history.records),
     decision_count |-> DecisionCount(history.records),
     issued_at |-> issued, expires_at |-> expires, enrollment |-> enrollment, signature |-> seed]

\* approve_history: sign only what reproduces, under an active key that is the seed's.
ApproveHistory(history, export, policy, audience, key_id, seed, issued, expires, at, enrollment) ==
    LET approval == Approval(history, policy, key_id, issued, expires, seed, enrollment) IN
    /\ KeyUsable(policy, audience, key_id, at, TRUE)
    /\ seed = policy.keys[key_id].public
    /\ IF enrollment = None THEN Load(history, export, HeadOf(history.records))
       ELSE VerifyEnrollment(history, enrollment, export)
    /\ Context(approval, policy.keys[key_id], policy.maximum, at)
    /\ approvals' = approvals \cup {[approval |-> approval, policy |-> policy, history |-> history]}
    /\ UNCHANGED <<model, histories, enrollments>>

\* Mutant: the version is not looked at, an approval of a selection passes for one of its history.
SelectedByPin(approval, enrollment) == enrollment # None => approval.enrollment = enrollment

\* An approval of a history is no approval of a selection, nor the other way round.
Selected(approval, enrollment) ==
    IF enrollment = None THEN approval.version = 1
    ELSE approval.version = 2 /\ approval.enrollment = enrollment

VerifyApproval(history, approval, export, policy, audience, at, enrollment) ==
    /\ Selected(approval, enrollment)
    /\ KeyUsable(policy, audience, approval.key_id, at, FALSE)
    /\ approval.audience = audience
    /\ Context(approval, policy.keys[approval.key_id], policy.maximum, at)
    /\ policy.keys[approval.key_id].public = approval.signature
    /\ export = approval.export
    /\ IF enrollment = None THEN Load(history, export, approval.head)
       ELSE VerifyEnrollment(history, enrollment, export)
    /\ approval.head = HeadOf(history.records)
    /\ approval.review_count = Len(history.records)
    /\ approval.decision_count = DecisionCount(history.records)

\* The tools are redeployed, forwards or back: receipts bind the sources of their model.
Deploy(other) ==
    /\ other # model
    /\ model' = other
    /\ UNCHANGED <<histories, enrollments, approvals>>

-----------------------------------------------------------------------------
Init ==
    /\ model \in Models
    /\ histories = {} /\ enrollments = {} /\ approvals = {}

\* The bounds of the model: how many artifacts of each kind are published.
Next ==
    \/ /\ Cardinality(histories) < MaxHistories
       /\ \E receipt \in Receipts, base \in {h.records : h \in histories} \cup {<<>>},
             export \in Exports, form \in Forms : RetainHistory(receipt, base, export, form)
    \/ /\ Cardinality(enrollments) < MaxEnrollments
       /\ \E history \in histories, export \in Exports :
             \/ \E id \in Ids : EnrollHistory(history, export, id)
             \/ \E previous \in enrollments : AdvanceEnrollment(history, previous, export)
    \/ /\ Cardinality(approvals) < MaxApprovals
       /\ \E history \in histories, export \in Exports, policy \in Policies, audience \in Audiences,
             seed \in Publics, issued, expires, at \in Times, enrollment \in enrollments \cup {None} :
             \E key_id \in DOMAIN policy.keys :
                ApproveHistory(history, export, policy, audience, key_id, seed, issued, expires, at, enrollment)
    \/ \E other \in Models : Deploy(other)

Spec == Init /\ [][Next]_vars

-----------------------------------------------------------------------------
(* Properties *)

\* What an earlier and a later review of one history have in common.
InOrder(r, s) ==
    /\ r # s
    /\ r.discovery = s.discovery /\ r.model = s.model /\ r.export = s.export
    /\ r.as_of <= s.as_of /\ r.assessed_at <= s.assessed_at
    /\ \A f \in DOMAIN r.items \cap DOMAIN s.items : r.items[f] = s.items[f]

\* Every published history keeps what its verifier demands, however it was extended and
\* whoever else extended the same one: it never outgrows MAX_REVIEWS, tells of one
\* discovery under one model, goes forward in time and never moves a finding to another
\* asset (_validate runs on the history read and again on the extended one).
HistoriesStayValid ==
    \A h \in histories :
        /\ Len(h.records) \in 1..MAX_REVIEWS
        /\ \A i, j \in 1..Len(h.records) : i < j => InOrder(h.records[i], h.records[j])

\* A selection and the one it advances belong to one growing history: whoever holds the
\* two files named by them finds the earlier reviews at the start of the later ones, and
\* the revision number counts selections that each added at least one review.
SelectionsFollowOneLineage ==
    \A e \in enrollments :
        /\ e.revision <= e.review_count
        /\ e.previous # None =>
              /\ e.previous \in enrollments
              /\ e.enrollment_id = e.previous.enrollment_id
              /\ e.revision = e.previous.revision + 1
              /\ IsStrictPrefix(e.previous.database.records, e.database.records)

\* An approval is accepted for one history only: whatever policies, clocks and selections
\* two recipients use, the reviews they are told are approved are the same, and with a
\* selection so are the bytes of the file (verify_approval).
ApprovalNamesOneHistory ==
    \A a \in approvals :
        LET accepted == {x \in histories \X (enrollments \cup {None}) :
                           \E p \in Policies, t \in Times :
                              VerifyApproval(x[1], a.approval, x[1].records[1].export, p,
                                             a.approval.audience, t, x[2])}
        IN  \A x, y \in accepted :
               /\ x[1].records = y[1].records
               /\ x[2] = y[2]
               /\ x[2] # None => x[1] = y[1]

\* What approve_history signed, verify_approval accepts during the whole window the
\* approval names and at no other time, under the policy it was signed with and while
\* the model that produced the history is deployed.
ApprovalHoldsInItsWindow ==
    \A a \in approvals : \A t \in Times :
        LET doc == a.approval IN
        model = a.history.records[1].model =>
           (VerifyApproval(a.history, doc, doc.export, a.policy, doc.audience, t, doc.enrollment)
              <=> doc.issued_at <= t /\ t < doc.expires_at)

-----------------------------------------------------------------------------
(* Why these hold *)

\* Every variable holds a value of its kind, and what was published names what was published.
TypeOK ==
    /\ model \in Models
    /\ histories \subseteq [records : Seq(Receipts), form : Forms]
    /\ \A e \in enrollments : e.database \in histories /\ e.revision \in Nat
    /\ \A a \in approvals :
          /\ a.policy \in Policies /\ a.history \in histories
          /\ a.approval.issued_at \in Times /\ a.approval.expires_at \in Times
          /\ a.approval.enrollment \in enrollments \cup {None}

\* What is published was validated, and is as it was published.
ArtifactsAreChecked ==
    /\ \A h \in histories : Consistent(h.records)
    /\ \A e \in enrollments :
          Parses(e) /\ e = Document(e.database, e.enrollment_id, e.revision, e.previous)

\* An approval was signed with a key its policy then allowed, for the history it names.
ApprovalsAreGrounded ==
    \A a \in approvals :
        LET doc == a.approval
            key == a.policy.keys[doc.key_id]
        IN  /\ doc = Approval(a.history, a.policy, doc.key_id, doc.issued_at, doc.expires_at,
                              doc.signature, doc.enrollment)
            /\ doc.key_id \in DOMAIN a.policy.keys /\ key.state = "active" /\ key.public = doc.signature
            /\ \E at \in Times : Context(doc, key, a.policy.maximum, at)
            /\ doc.enrollment # None => doc.enrollment.database = a.history

ReviewInvariant ==
    TypeOK /\ ArtifactsAreChecked /\ HistoriesStayValid /\ SelectionsFollowOneLineage /\ ApprovalsAreGrounded
=============================================================================
