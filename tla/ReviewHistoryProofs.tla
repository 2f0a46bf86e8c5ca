------------------------ MODULE ReviewHistoryProofs ------------------------
(***************************************************************************)
(* Proofs about ReviewHistory, for any receipts, policies, clocks and      *)
(* deployments and for histories of any length.                            *)
(*                                                                         *)
(* The argument has two parts.  One is about data: the head of a chain     *)
(* determines all its receipts (HeadsAreInjective), and a chain whose      *)
(* neighbours are in order is in order (ValidatedIsOrdered).  Both are     *)
(* inductions on positions, made with LeastElement: were the claim false   *)
(* at some position, it would be false at a least one.  The other is about *)
(* steps: ReviewInvariant says that everything published was validated     *)
(* when it was, and nothing published changes.                             *)
(***************************************************************************)
EXTENDS ReviewHistory, FiniteSetTheorems, SequenceTheorems, WellFoundedInduction, TLAPS

\* Every nonempty set of naturals has a least element: finite sets are well-founded under
\* inclusion, and so are the intervals below the numbers.
LEMMA LeastElement ==
  ASSUME NEW T \in SUBSET Nat, T # {}
  PROVE  \E x \in T : \A y \in T : x <= y
<1> DEFINE U == {1..x : x \in T}
<1>1. U \subseteq FiniteSubsetsOf(Nat) /\ U # {}
  <2>1. \A x \in T : 1..x \subseteq Nat /\ IsFiniteSet(1..x)
    BY FS_Interval
  <2> QED BY <2>1 DEF FiniteSubsetsOf
<1>2. PICK u \in U : \A v \in U : ~(<<v, u>> \in StrictSubsetOrdering(Nat))
  BY <1>1, FS_StrictSubsetOrderingWellFounded, WFMin, Zenon
<1>3. PICK x \in T : u = 1..x
  BY Zenon
<1>4. ASSUME NEW y \in T, ~(x <= y) PROVE FALSE
  <2>1. 1..y \subseteq 1..x /\ 1..y # 1..x /\ 1..y \subseteq Nat /\ 1..x \subseteq Nat
    <3>1. x \in 1..x /\ x \notin 1..y
      BY <1>4
    <3> QED BY <1>4, <3>1
  <2>2. <<1..y, 1..x>> \in StrictSubsetOrdering(Nat)
    BY <2>1, Zenon DEF StrictSubsetOrdering
  <2> QED BY <1>2, <1>3, <2>2, Zenon
<1> QED BY <1>4

\* The nodes of a chain, as HeadOf computes them.
NodesOf(records, g, k) ==
  g = [n \in 0..k |-> IF n = 0 THEN None
                      ELSE [sequence |-> n, previous |-> g[n - 1], receipt |-> records[n]]]

\* The recursive function HeadOf chooses exists.
LEMMA NodesExist ==
  ASSUME NEW records, NEW m \in Nat
  PROVE  \E g : NodesOf(records, g, m)
<1> DEFINE Bad == {k \in Nat : ~\E g : NodesOf(records, g, k)}
<1> SUFFICES ASSUME Bad # {} PROVE FALSE
  OBVIOUS
<1>1. PICK k \in Bad : \A j \in Bad : k <= j
  BY LeastElement, Zenon
<1>2. k # 0
  <2> DEFINE g == [n \in 0..0 |-> None]
  <2>1. NodesOf(records, g, 0)
    BY DEF NodesOf
  <2> QED BY <2>1
<1>3. PICK g : NodesOf(records, g, k - 1)
  BY <1>1, <1>2
<1> DEFINE h == [n \in 0..k |-> IF n < k THEN g[n]
                                ELSE [sequence |-> k, previous |-> g[k - 1], receipt |-> records[k]]]
<1>4. \A n \in 0..k : h[n] = IF n = 0 THEN None
                             ELSE [sequence |-> n, previous |-> h[n - 1], receipt |-> records[n]]
  BY <1>2, <1>3 DEF NodesOf
<1>5. NodesOf(records, h, k)
  BY <1>4 DEF NodesOf
<1> QED BY <1>1, <1>5

\* So the head is the last node of such a function.
LEMMA HeadIsLastNode ==
  ASSUME NEW records, Len(records) \in Nat
  PROVE  \E g : NodesOf(records, g, Len(records)) /\ HeadOf(records) = g[Len(records)]
<1> DEFINE node == CHOOSE g : NodesOf(records, g, Len(records))
<1>1. NodesOf(records, node, Len(records))
  BY NodesExist, Zenon
<1>2. HeadOf(records) = node[Len(records)]
  BY DEF HeadOf, NodesOf
<1> QED BY <1>1, <1>2

\* The head of a chain determines all its receipts: the digests of retain_history bind the
\* whole history, however long.
THEOREM HeadsAreInjective ==
  ASSUME NEW s \in Seq(Receipts), NEW t \in Seq(Receipts), Len(s) # 0, Len(t) # 0,
         HeadOf(s) = HeadOf(t)
  PROVE  s = t
<1> DEFINE n == Len(s)
           m == Len(t)
<1>0. n \in Nat \ {0} /\ m \in Nat \ {0}
  OBVIOUS
<1>1. PICK g : NodesOf(s, g, n) /\ HeadOf(s) = g[n]
  BY <1>0, HeadIsLastNode
<1>2. PICK h : NodesOf(t, h, m) /\ HeadOf(t) = h[m]
  BY <1>0, HeadIsLastNode
<1>3. \A k \in 1..n : g[k] = [sequence |-> k, previous |-> g[k - 1], receipt |-> s[k]]
  BY <1>0, <1>1 DEF NodesOf
<1>4. \A k \in 1..m : h[k] = [sequence |-> k, previous |-> h[k - 1], receipt |-> t[k]]
  BY <1>0, <1>2 DEF NodesOf
<1>5. n = m
  <2>1. /\ g[n] = [sequence |-> n, previous |-> g[n - 1], receipt |-> s[n]]
        /\ h[m] = [sequence |-> m, previous |-> h[m - 1], receipt |-> t[m]]
    <3>1. n \in 1..n /\ m \in 1..m
      BY <1>0
    <3> QED BY <1>3, <1>4, <3>1, Zenon
  <2>2. g[n] = h[m]
    BY <1>1, <1>2
  <2> HIDE DEF n, m
  <2> QED BY <2>1, <2>2
<1>6. \A k \in 1..n : g[k] = h[k]
  <2> DEFINE Bad == {j \in Nat : j < n /\ g[n - j] # h[n - j]}
  <2> SUFFICES ASSUME Bad # {} PROVE FALSE
    <3>1. ASSUME NEW k \in 1..n, g[k] # h[k] PROVE n - k \in Bad
      BY <1>0, <3>1
    <3> QED BY <3>1
  <2>1. PICK j \in Bad : \A i \in Bad : j <= i
    BY LeastElement, Zenon
  <2>2. j # 0
    <3>1. g[n] = h[n]
      BY <1>1, <1>2, <1>5
    <3> HIDE DEF n
    <3>2. n - 0 = n
      BY <1>0
    <3> QED BY <3>1, <3>2, <2>1
  <2>3. g[n - (j - 1)] = h[n - (j - 1)]
    BY <2>1, <2>2, <1>0
  <2>4. n - (j - 1) \in 1..n /\ (n - (j - 1)) - 1 = n - j
    BY <1>0, <2>1, <2>2
  <2> DEFINE k == n - (j - 1)
  <2>5. /\ g[k] = [sequence |-> k, previous |-> g[k - 1], receipt |-> s[k]]
        /\ h[k] = [sequence |-> k, previous |-> h[k - 1], receipt |-> t[k]]
    BY <1>3, <1>4, <1>5, <2>4, Zenon
  <2>6. g[k - 1] = h[k - 1]
    <3>1. g[k] = h[k]
      BY <2>3
    <3> HIDE DEF k, n, m
    <3> QED BY <2>5, <3>1
  <2>7. g[n - j] = h[n - j]
    <3> QED BY <2>4, <2>6
  <2> QED BY <2>1, <2>7
<1>7. \A k \in 1..n : s[k] = t[k]
  <2> SUFFICES ASSUME NEW k \in 1..n PROVE s[k] = t[k]
    OBVIOUS
  <2>1. /\ g[k] = [sequence |-> k, previous |-> g[k - 1], receipt |-> s[k]]
        /\ h[k] = [sequence |-> k, previous |-> h[k - 1], receipt |-> t[k]]
    BY <1>3, <1>4, <1>5, Zenon
  <2> QED BY <2>1, <1>6
<1> QED BY <1>5, <1>7

-------------------------------------------------------------------------------
\* The neighbours of a validated sequence are in order, so all its reviews are.
LEMMA ValidatedIsOrdered ==
  ASSUME NEW s \in Seq(Receipts), NEW e, Validate(s, e)
  PROVE  \A i, j \in 1..Len(s) : i < j => InOrder(s[i], s[j])
<1> SUFFICES ASSUME NEW i \in 1..Len(s),
                    {j \in Nat : j \in 1..Len(s) /\ i < j /\ ~InOrder(s[i], s[j])} # {}
             PROVE FALSE
  OBVIOUS
<1> DEFINE Bad == {j \in Nat : j \in 1..Len(s) /\ i < j /\ ~InOrder(s[i], s[j])}
<1>1. PICK j \in Bad : \A k \in Bad : j <= k
  BY LeastElement, Zenon
<1>2. j \in 2..Len(s) /\ j - 1 \in 1..Len(s) /\ i \in 1..Len(s) /\ i < j /\ j \in 1..Len(s)
  BY <1>1
<1>3. /\ s[i] \in Receipts /\ s[j] \in Receipts /\ s[j - 1] \in Receipts
      /\ NotBefore(s[j], s[j - 1])
  BY <1>2 DEF Validate, Consistent
<1>4. /\ s[i].as_of \in Nat /\ s[i].assessed_at \in Nat
      /\ s[j].as_of \in Nat /\ s[j].assessed_at \in Nat
      /\ s[j - 1].as_of \in Nat /\ s[j - 1].assessed_at \in Nat
  BY <1>3, HistoryAssumption DEF IsReceipt
<1>5. i = j - 1 \/ InOrder(s[i], s[j - 1])
  BY <1>1, <1>2
<1>6. s[i].discovery = s[j].discovery /\ s[i].model = s[j].model
  BY <1>3, <1>5 DEF NotBefore, InOrder
<1>7. s[i].as_of <= s[j].as_of /\ s[i].assessed_at <= s[j].assessed_at
  BY <1>3, <1>4, <1>5 DEF NotBefore, InOrder
<1>8. /\ s[i] # s[j] /\ s[i].export = s[j].export
      /\ \A f \in DOMAIN s[i].items \cap DOMAIN s[j].items : s[i].items[f] = s[j].items[f]
  BY <1>2 DEF Validate, Consistent, Reproduce
<1>9. InOrder(s[i], s[j])
  BY <1>6, <1>7, <1>8 DEF InOrder
<1> QED BY <1>1, <1>9

\* A selection advances only to a history that begins with the reviews it selected.
LEMMA ExtendsIsGrowth ==
  ASSUME NEW old \in Seq(Receipts), NEW new \in Seq(Receipts), Len(old) # 0,
         Len(new) > Len(old), HeadOf(SubSeq(new, 1, Len(old))) = HeadOf(old)
  PROVE  IsStrictPrefix(old, new)
<1> DEFINE n == Len(old)
<1>1. n \in Nat \ {0} /\ Len(new) \in Nat /\ n < Len(new)
  OBVIOUS
<1>2. \A i \in 1..n : new[i] \in Receipts
  BY <1>1
<1>3. SubSeq(new, 1, n) \in Seq(Receipts) /\ Len(SubSeq(new, 1, n)) = n
  BY <1>1, <1>2, SubSeqProperties
<1>4. SubSeq(new, 1, n) = old
  BY <1>1, <1>3, HeadsAreInjective, Zenon
<1>5. SubSeq(old, 1, n) = old
  BY SubSeqFull
<1> QED BY <1>1, <1>4, <1>5 DEF IsStrictPrefix, IsPrefix

-------------------------------------------------------------------------------
(* Each operation keeps ReviewInvariant. *)

\* A history that is started or extended was validated as a whole.
LEMMA RetainKeeps ==
  ASSUME ReviewInvariant, NEW receipt \in Receipts, NEW export \in Exports, NEW form \in Forms,
         NEW base \in {h.records : h \in histories} \cup {<<>>},
         RetainHistory(receipt, base, export, form)
  PROVE  ReviewInvariant'
<1> DEFINE new == [records |-> Append(base, receipt), form |-> form]
<1>1. /\ histories' = histories \cup {new}
      /\ model' = model /\ enrollments' = enrollments /\ approvals' = approvals
      /\ Validate(new.records, export)
  BY DEF RetainHistory
<1>2. new \in [records : Seq(Receipts), form : Forms]
  <2>1. ASSUME NEW h \in histories, base = h.records PROVE base \in Seq(Receipts)
    BY <2>1 DEF ReviewInvariant, TypeOK
  <2>2. base \in Seq(Receipts)
    BY <2>1, EmptySeq
  <2> QED BY <2>2
<1>3. TypeOK'
  BY <1>1, <1>2 DEF ReviewInvariant, TypeOK
<1>4. ArtifactsAreChecked'
  BY <1>1 DEF ReviewInvariant, ArtifactsAreChecked, Validate
<1>5. HistoriesStayValid'
  <2>1. Len(new.records) \in 1..MAX_REVIEWS
    BY <1>1 DEF Validate, Consistent
  <2>2. \A i, j \in 1..Len(new.records) : i < j => InOrder(new.records[i], new.records[j])
    BY <1>1, <1>2, ValidatedIsOrdered
  <2> HIDE DEF new
  <2> QED BY <1>1, <2>1, <2>2 DEF ReviewInvariant, HistoriesStayValid
<1>6. SelectionsFollowOneLineage' /\ ApprovalsAreGrounded'
  BY <1>1 DEF ReviewInvariant, SelectionsFollowOneLineage, ApprovalsAreGrounded
<1> QED BY <1>3, <1>4, <1>5, <1>6 DEF ReviewInvariant

\* A selection that is published keeps what the others promise.
LEMMA PublishKeeps ==
  ASSUME ReviewInvariant, NEW history \in histories, NEW id, NEW revision \in Nat, NEW previous,
         PublishSelection(Document(history, id, revision, previous)),
         previous # None =>
            /\ previous \in enrollments
            /\ id = previous.enrollment_id
            /\ revision = previous.revision + 1
            /\ IsStrictPrefix(previous.database.records, history.records)
  PROVE  ReviewInvariant'
<1> DEFINE new == Document(history, id, revision, previous)
<1>1. /\ enrollments' = enrollments \cup {new} /\ Parses(new)
      /\ model' = model /\ histories' = histories /\ approvals' = approvals
  BY DEF PublishSelection
<1>2. /\ new.database = history /\ new.enrollment_id = id /\ new.revision = revision
      /\ new.previous = previous
  BY DEF Document
<1>3. new = Document(new.database, new.enrollment_id, new.revision, new.previous)
  BY <1>2
<1>4. new.revision <= new.review_count
  BY <1>1, <1>2 DEF Parses, Document, HistoriesStayValid, ReviewInvariant, TypeOK
<1> HIDE DEF new
<1>5. TypeOK'
  BY <1>1, <1>2 DEF ReviewInvariant, TypeOK
<1>6. ArtifactsAreChecked'
  BY <1>1, <1>3 DEF ReviewInvariant, ArtifactsAreChecked
<1>7. HistoriesStayValid'
  BY <1>1 DEF ReviewInvariant, HistoriesStayValid
<1>8. SelectionsFollowOneLineage'
  BY <1>1, <1>2, <1>4 DEF ReviewInvariant, SelectionsFollowOneLineage
<1>9. ApprovalsAreGrounded'
  BY <1>1 DEF ReviewInvariant, ApprovalsAreGrounded
<1> QED BY <1>5, <1>6, <1>7, <1>8, <1>9 DEF ReviewInvariant

\* A first selection has no predecessor.
LEMMA EnrollKeeps ==
  ASSUME ReviewInvariant, NEW history \in histories, NEW export, NEW id,
         EnrollHistory(history, export, id)
  PROVE  ReviewInvariant'
  BY PublishKeeps DEF EnrollHistory

\* A later one has the predecessor that was read, and Extends relates their histories.
LEMMA AdvanceKeeps ==
  ASSUME ReviewInvariant, NEW history \in histories, NEW export, NEW previous \in enrollments,
         AdvanceEnrollment(history, previous, export)
  PROVE  ReviewInvariant'
<1> DEFINE old == previous.database.records
           candidate == Document(history, previous.enrollment_id, previous.revision + 1, previous)
<1>1. Extends(candidate, history.records, previous) /\ PublishSelection(candidate)
  BY DEF AdvanceEnrollment
<1>2. previous.database \in histories /\ previous.revision \in Nat
  BY DEF ReviewInvariant, TypeOK
<1>3. /\ previous = Document(previous.database, previous.enrollment_id, previous.revision, previous.previous)
  BY DEF ReviewInvariant, ArtifactsAreChecked
<1>4. previous.review_count = Len(old) /\ previous.head = HeadOf(old)
  BY <1>3 DEF Document
<1>5. old \in Seq(Receipts) /\ history.records \in Seq(Receipts) /\ Len(old) # 0
  BY <1>2 DEF ReviewInvariant, TypeOK, HistoriesStayValid
<1>6. IsStrictPrefix(old, history.records)
  BY <1>1, <1>4, <1>5, ExtendsIsGrowth DEF Extends
<1> QED BY <1>1, <1>2, <1>6, PublishKeeps

\* An approval is signed with an active key, for the history that was loaded.
LEMMA ApproveKeeps ==
  ASSUME ReviewInvariant, NEW history \in histories, NEW export, NEW policy \in Policies,
         NEW audience, NEW key_id, NEW seed,
         NEW issued \in Times, NEW expires \in Times, NEW at \in Times,
         NEW enrollment \in enrollments \cup {None},
         ApproveHistory(history, export, policy, audience, key_id, seed, issued, expires, at, enrollment)
  PROVE  ReviewInvariant'
<1> DEFINE doc == Approval(history, policy, key_id, issued, expires, seed, enrollment)
           new == [approval |-> doc, policy |-> policy, history |-> history]
<1>1. /\ approvals' = approvals \cup {new}
      /\ model' = model /\ histories' = histories /\ enrollments' = enrollments
  BY DEF ApproveHistory
<1>2. /\ doc.key_id = key_id /\ doc.issued_at = issued /\ doc.expires_at = expires
      /\ doc.signature = seed /\ doc.enrollment = enrollment
  BY DEF Approval
<1>3. new.approval = doc /\ new.policy = policy /\ new.history = history
  OBVIOUS
<1>4. /\ key_id \in DOMAIN policy.keys /\ policy.keys[key_id].state = "active"
      /\ policy.keys[key_id].public = seed
      /\ Context(doc, policy.keys[key_id], policy.maximum, at)
  BY DEF ApproveHistory, KeyUsable
<1>5. enrollment # None => enrollment.database = history
  BY DEF ApproveHistory, VerifyEnrollment, Document
<1> HIDE DEF doc, new
<1>6. TypeOK'
  BY <1>1, <1>2, <1>3 DEF ReviewInvariant, TypeOK
<1>7. ArtifactsAreChecked' /\ HistoriesStayValid' /\ SelectionsFollowOneLineage'
  BY <1>1 DEF ReviewInvariant, ArtifactsAreChecked, HistoriesStayValid, SelectionsFollowOneLineage
<1>8. ApprovalsAreGrounded'
  <2>1. doc = Approval(new.history, new.policy, doc.key_id, doc.issued_at, doc.expires_at,
                       doc.signature, doc.enrollment)
    BY <1>2, <1>3 DEF doc
  <2> QED BY <1>1, <1>2, <1>3, <1>4, <1>5, <2>1 DEF ReviewInvariant, ApprovalsAreGrounded
<1> QED BY <1>6, <1>7, <1>8 DEF ReviewInvariant

\* A deployment changes nothing that is published.
LEMMA DeployKeeps ==
  ASSUME ReviewInvariant, NEW other \in Models, Deploy(other)
  PROVE  ReviewInvariant'
  BY DEF Deploy, ReviewInvariant, TypeOK, ArtifactsAreChecked, HistoriesStayValid,
         SelectionsFollowOneLineage, ApprovalsAreGrounded

\* In every reachable state, all that is published was checked and names what was published
\* before it: the inductive invariant of the histories, selections and approvals.
THEOREM ReviewInvariantHolds == Spec => []ReviewInvariant
<1>1. Init => ReviewInvariant
  BY DEF Init, ReviewInvariant, TypeOK, ArtifactsAreChecked, HistoriesStayValid,
         SelectionsFollowOneLineage, ApprovalsAreGrounded
<1>2. ReviewInvariant /\ [Next]_vars => ReviewInvariant'
  <2> SUFFICES ASSUME ReviewInvariant, [Next]_vars PROVE ReviewInvariant'
    OBVIOUS
  <2>1. ASSUME NEW receipt \in Receipts, NEW base \in {h.records : h \in histories} \cup {<<>>},
               NEW export \in Exports, NEW form \in Forms, RetainHistory(receipt, base, export, form)
        PROVE  ReviewInvariant'
    BY <2>1, RetainKeeps
  <2>2. ASSUME NEW history \in histories, NEW export \in Exports, NEW id \in Ids,
               EnrollHistory(history, export, id)
        PROVE  ReviewInvariant'
    BY <2>2, EnrollKeeps
  <2>3. ASSUME NEW history \in histories, NEW export \in Exports, NEW previous \in enrollments,
               AdvanceEnrollment(history, previous, export)
        PROVE  ReviewInvariant'
    BY <2>3, AdvanceKeeps
  <2>4. ASSUME NEW history \in histories, NEW export \in Exports, NEW policy \in Policies,
               NEW audience \in Audiences, NEW seed \in Publics,
               NEW issued \in Times, NEW expires \in Times, NEW at \in Times,
               NEW enrollment \in enrollments \cup {None}, NEW key_id \in DOMAIN policy.keys,
               ApproveHistory(history, export, policy, audience, key_id, seed, issued, expires, at, enrollment)
        PROVE  ReviewInvariant'
    BY <2>4, ApproveKeeps
  <2>5. ASSUME NEW other \in Models, Deploy(other) PROVE ReviewInvariant'
    BY <2>5, DeployKeeps
  <2>6. CASE UNCHANGED vars
    BY <2>6 DEF vars, ReviewInvariant, TypeOK, ArtifactsAreChecked, HistoriesStayValid,
                SelectionsFollowOneLineage, ApprovalsAreGrounded
  <2> QED BY <2>1, <2>2, <2>3, <2>4, <2>5, <2>6, Zenon DEF Next
<1> QED BY <1>1, <1>2, PTL DEF Spec

-------------------------------------------------------------------------------
\* Every reachable state is well typed.
THEOREM ReviewTypeCorrect == Spec => []TypeOK
<1>1. ReviewInvariant => TypeOK
  BY DEF ReviewInvariant
<1> QED BY <1>1, ReviewInvariantHolds, PTL

\* retain_history never publishes a history that outgrows MAX_REVIEWS, goes back in time or
\* mixes discoveries, models, exports or assignments of a finding, for any number of reviews.
THEOREM HistoriesAreValid == Spec => []HistoriesStayValid
<1>1. ReviewInvariant => HistoriesStayValid
  BY DEF ReviewInvariant
<1> QED BY <1>1, ReviewInvariantHolds, PTL

\* advance_enrollment follows one growing history: the selected revision is a proper prefix
\* of the next, however the history was forked meanwhile.
THEOREM OneLineage == Spec => []SelectionsFollowOneLineage
<1>1. ReviewInvariant => SelectionsFollowOneLineage
  BY DEF ReviewInvariant
<1> QED BY <1>1, ReviewInvariantHolds, PTL

\* What ApprovalNamesOneHistory says of one approval.
AcceptedWith(a) ==
  {x \in histories \X (enrollments \cup {None}) :
     \E p \in Policies, t \in Times :
        VerifyApproval(x[1], a.approval, x[1].records[1].export, p, a.approval.audience, t, x[2])}

OneHistory(a) ==
  \A x, y \in AcceptedWith(a) :
     /\ x[1].records = y[1].records
     /\ x[2] = y[2]
     /\ x[2] # None => x[1] = y[1]

\* verify_approval accepts one history per approval, whatever the policies and clocks of those
\* who verify: histories with the same head are the same, and a selection names its file.
THEOREM OneHistoryIsApproved == Spec => []ApprovalNamesOneHistory
<1>1. ReviewInvariant => ApprovalNamesOneHistory
  <2> SUFFICES ASSUME ReviewInvariant, NEW a \in approvals PROVE OneHistory(a)
    BY Zenon DEF ApprovalNamesOneHistory, OneHistory, AcceptedWith
  <2> SUFFICES ASSUME NEW x \in AcceptedWith(a), NEW y \in AcceptedWith(a)
               PROVE  /\ x[1].records = y[1].records
                      /\ x[2] = y[2]
                      /\ x[2] # None => x[1] = y[1]
    BY Zenon DEF OneHistory
  <2>a. PICK p \in Policies, t \in Times :
          VerifyApproval(x[1], a.approval, x[1].records[1].export, p, a.approval.audience, t, x[2])
    BY Zenon DEF AcceptedWith
  <2>b. PICK q \in Policies, u \in Times :
          VerifyApproval(y[1], a.approval, y[1].records[1].export, q, a.approval.audience, u, y[2])
    BY Zenon DEF AcceptedWith
  <2>c. x[1] \in histories /\ y[1] \in histories
    BY DEF AcceptedWith
  <2>1. HeadOf(x[1].records) = HeadOf(y[1].records)
    BY <2>a, <2>b, Zenon DEF VerifyApproval
  <2>2. /\ x[1].records \in Seq(Receipts) /\ Len(x[1].records) # 0
        /\ y[1].records \in Seq(Receipts) /\ Len(y[1].records) # 0
    BY <2>c DEF ReviewInvariant, TypeOK, HistoriesStayValid
  <2>3. x[1].records = y[1].records
    BY <2>1, <2>2, HeadsAreInjective
  <2>4. x[2] = y[2]
    <3>1. Selected(a.approval, x[2]) /\ Selected(a.approval, y[2])
      BY <2>a, <2>b, Zenon DEF VerifyApproval
    <3> QED BY <3>1 DEF Selected
  <2>5. x[2] # None => x[2].database = x[1] /\ y[2].database = y[1]
    <3>1. ASSUME x[2] # None
          PROVE  /\ x[2] = Document(x[1], x[2].enrollment_id, x[2].revision, x[2].previous)
                 /\ y[2] = Document(y[1], y[2].enrollment_id, y[2].revision, y[2].previous)
      BY <2>a, <2>b, <2>4, <3>1, Zenon DEF VerifyApproval, VerifyEnrollment
    <3> QED BY <3>1 DEF Document
  <2> QED BY <2>3, <2>4, <2>5
<1> QED BY <1>1, ReviewInvariantHolds, PTL

\* The clock enters _context only through the window the approval names.
LEMMA ContextIsWindow ==
  ASSUME NEW approval, NEW key, NEW maximum, NEW at, Context(approval, key, maximum, at)
  PROVE  /\ approval.issued_at <= at /\ at < approval.expires_at
         /\ key.not_before <= approval.issued_at /\ approval.expires_at <= key.not_after
  BY SMT DEF Context

\* Within that window any other time does as well.
LEMMA ContextWithinWindow ==
  ASSUME NEW approval, NEW key, NEW maximum, NEW at, Context(approval, key, maximum, at),
         NEW t, approval.issued_at <= t, t < approval.expires_at
  PROVE  Context(approval, key, maximum, t)
  BY SMT DEF Context

\* verify_approval accepts what approve_history signed throughout the window it names and
\* never outside, for every policy, clock and later publication.
THEOREM WindowIsExact == Spec => []ApprovalHoldsInItsWindow
<1>1. ReviewInvariant => ApprovalHoldsInItsWindow
  <2> SUFFICES ASSUME ReviewInvariant, NEW a \in approvals, NEW t \in Times,
                      model = a.history.records[1].model
               PROVE  VerifyApproval(a.history, a.approval, a.approval.export, a.policy,
                                     a.approval.audience, t, a.approval.enrollment)
                        <=> a.approval.issued_at <= t /\ t < a.approval.expires_at
    BY Zenon DEF ApprovalHoldsInItsWindow
  <2> DEFINE doc == a.approval
             key == a.policy.keys[doc.key_id]
             records == a.history.records
  <2>1. /\ doc = Approval(a.history, a.policy, doc.key_id, doc.issued_at, doc.expires_at,
                          doc.signature, doc.enrollment)
        /\ doc.key_id \in DOMAIN a.policy.keys /\ key.state = "active" /\ key.public = doc.signature
        /\ \E at \in Times : Context(doc, key, a.policy.maximum, at)
        /\ doc.enrollment # None => doc.enrollment.database = a.history
    BY DEF ReviewInvariant, ApprovalsAreGrounded
  <2>2. /\ doc.version = (IF doc.enrollment = None THEN 1 ELSE 2)
        /\ doc.audience = a.policy.audience /\ doc.head = HeadOf(records)
        /\ doc.export = records[1].export /\ doc.review_count = Len(records)
        /\ doc.decision_count = DecisionCount(records)
    BY <2>1 DEF Approval
  <2>3. /\ a.history \in histories /\ a.policy \in Policies
        /\ doc.issued_at \in Nat /\ doc.expires_at \in Nat /\ t \in Nat
        /\ doc.enrollment \in enrollments \cup {None}
    BY HistoryAssumption DEF ReviewInvariant, TypeOK
  <2>4. key.not_before \in Nat /\ key.not_after \in Nat
    BY <2>1, <2>3, HistoryAssumption DEF IsPolicy
  <2>5. Validate(records, doc.export)
    <3>1. Consistent(records)
      BY <2>3 DEF ReviewInvariant, ArtifactsAreChecked
    <3>2. Len(records) \in Nat \ {0}
      BY <2>3 DEF ReviewInvariant, TypeOK, HistoriesStayValid
    <3>3. \A i \in 1..Len(records) : 1 < i => InOrder(records[1], records[i])
      BY <2>3, <3>2 DEF ReviewInvariant, HistoriesStayValid
    <3>4. \A i \in 1..Len(records) : Reproduce(records[i], doc.export)
      BY <2>2, <3>2, <3>3 DEF InOrder, Reproduce
    <3> QED BY <3>1, <3>4 DEF Validate
  <2>6. Load(a.history, doc.export, doc.head)
    BY <2>2, <2>5 DEF Load
  <2>7. ASSUME doc.enrollment # None PROVE VerifyEnrollment(a.history, doc.enrollment, doc.export)
    <3>1. doc.enrollment \in enrollments /\ doc.enrollment.database = a.history
      BY <2>1, <2>3, <2>7
    <3>2. /\ Parses(doc.enrollment)
          /\ doc.enrollment = Document(doc.enrollment.database, doc.enrollment.enrollment_id,
                                       doc.enrollment.revision, doc.enrollment.previous)
      BY <3>1 DEF ReviewInvariant, ArtifactsAreChecked
    <3>3. doc.enrollment.head = doc.head
      BY <2>2, <3>1, <3>2 DEF Document
    <3> QED BY <2>6, <3>1, <3>2, <3>3 DEF VerifyEnrollment
  <2>8. Selected(doc, doc.enrollment)
    BY <2>2 DEF Selected
  <2> HIDE DEF doc, key, records
  <2>9. ASSUME doc.issued_at <= t, t < doc.expires_at
        PROVE  Context(doc, key, a.policy.maximum, t) /\ KeyUsable(a.policy, doc.audience, doc.key_id, t, FALSE)
    <3>1. Context(doc, key, a.policy.maximum, t)
      <4>1. PICK at \in Times : Context(doc, key, a.policy.maximum, at)
        BY <2>1
      <4> QED BY <2>9, <4>1, ContextWithinWindow, Zenon
    <3>2. key.not_before <= t /\ t < key.not_after
      BY <2>3, <2>4, <2>9, <3>1, ContextIsWindow
    <3> QED BY <2>1, <2>2, <3>1, <3>2 DEF KeyUsable, key
  <2>10. ASSUME VerifyApproval(a.history, doc, doc.export, a.policy, doc.audience, t, doc.enrollment)
         PROVE  doc.issued_at <= t /\ t < doc.expires_at
    <3>1. Context(doc, a.policy.keys[doc.key_id], a.policy.maximum, t)
      BY <2>10, Zenon DEF VerifyApproval
    <3> QED BY <3>1, ContextIsWindow, Zenon
  <2>11. ASSUME doc.issued_at <= t, t < doc.expires_at
         PROVE  VerifyApproval(a.history, doc, doc.export, a.policy, doc.audience, t, doc.enrollment)
    BY <2>1, <2>2, <2>6, <2>7, <2>8, <2>9, <2>11 DEF VerifyApproval, key, records
  <2> QED BY <2>10, <2>11 DEF doc
<1> QED BY <1>1, ReviewInvariantHolds, PTL
=============================================================================
