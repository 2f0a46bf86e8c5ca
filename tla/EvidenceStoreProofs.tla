-------------------------- MODULE EvidenceStoreProofs --------------------------
(***************************************************************************)
(* Proofs about EvidenceStore, for any calls, writers and readers: types,  *)
(* the transaction under way, kept assets, grounded snapshots, that the    *)
(* database implements EvidenceLedger, that evidence is linked, that       *)
(* snapshots follow the lineage, and that compared claims stay.            *)
(***************************************************************************)
EXTENDS EvidenceStore, TLAPS

-------------------------------------------------------------------------------
(* Types.                                                                  *)

\* The item a writer is at is an item of a call.
LEMMA NowIsItem ==
  ASSUME TypeOK, NEW w \in Writers
  PROVE  /\ Now(w) \in Items
         /\ item[w] \in 1..Len(call[w].items)
         /\ call[w] \in Calls /\ Len(call[w].items) \in Nat \ {0}
<1>1. call[w] \in Calls /\ item[w] \in Nat \ {0} /\ item[w] <= Len(call[w].items)
  BY DEF TypeOK
<1>2. Len(call[w].items) \in Nat \ {0} /\ DOMAIN call[w].items = 1..Len(call[w].items)
  BY <1>1, CallsAssumption
<1>3. item[w] \in DOMAIN call[w].items
  BY <1>1, <1>2
<1> QED BY <1>1, <1>2, <1>3 DEF Now, Items

\* The empty tables are a database.
LEMMA EmptyIsStore == Empty \in Stores
BY DEF Empty, Stores

\* What the statements leave is a store.
LEMMA StatementsKeepStores ==
  ASSUME NEW d \in Stores, NEW b \in Items
  PROVE  /\ Upsert(d, b) \in Stores
         /\ [d EXCEPT !.observations = @ \cup ObservationRows(b)] \in Stores
         /\ [d EXCEPT !.findings = @ \cup {FindingRow(b)}] \in Stores
         /\ [d EXCEPT !.decisions = @ \cup {DecisionRow(b)}] \in Stores
         /\ [d EXCEPT !.plans = @ \cup {PlanRow(b)}] \in Stores
<1>1. ObservationRows(b) \subseteq UNION {ObservationRows(c) : c \in Items}
  OBVIOUS
<1>2. FindingRow(b) \in {FindingRow(c) : c \in Items} /\ DecisionRow(b) \in {DecisionRow(c) : c \in Items}
      /\ PlanRow(b) \in {PlanRow(c) : c \in Items}
  OBVIOUS
<1>3. Upsert(d, b) \in Stores
  <2> DEFINE Assets == {[asset |-> c.asset, created |-> s, updated |-> t] :
                          c \in Items, s \in Moments, t \in Moments}
  <2>1. b.created \in Moments
    BY DEF Moments
  <2>2. [asset |-> b.asset, created |-> b.created, updated |-> b.created] \in Assets
    BY <2>1
  <2>3. ASSUME NEW row \in Assets PROVE [row EXCEPT !.updated = b.created] \in Assets
    <3>1. PICK c \in Items, s \in Moments, t \in Moments :
            row = [asset |-> c.asset, created |-> s, updated |-> t]
      OBVIOUS
    <3>2. [row EXCEPT !.updated = b.created] = [asset |-> c.asset, created |-> s, updated |-> b.created]
      BY <3>1
    <3> QED BY <3>2, <2>1
  <2>4. d.assets \subseteq Assets
    BY DEF Stores
  <2>5. {IF row.asset = b.asset THEN [row EXCEPT !.updated = b.created] ELSE row : row \in d.assets}
          \subseteq Assets
    <3> HIDE DEF Assets
    <3>1. \A row \in d.assets :
            (IF row.asset = b.asset THEN [row EXCEPT !.updated = b.created] ELSE row) \in Assets
      BY <2>3, <2>4
    <3> QED BY <3>1
  <2> HIDE DEF Assets
  <2>6. \A A \in SUBSET Assets : [d EXCEPT !.assets = A] \in Stores
    BY DEF Stores, Assets
  <2> QED BY <2>2, <2>4, <2>5, <2>6 DEF Upsert
<1> QED BY <1>1, <1>2, <1>3 DEF Stores

\* What a writer sees is a store.
LEMMA SeenIsStore ==
  ASSUME TypeOK, NEW w \in Writers
  PROVE  Seen(w) \in Stores
BY DEF Seen, TypeOK

\* Going to another step, or item, of the call keeps the types of pc and item.
LEMMA NextItemTypes ==
  ASSUME TypeOK, NEW w \in Writers, NextItem(w) \/ (Goto(w, "finding") /\ UNCHANGED item)
  PROVE  /\ pc' \in [Writers -> {"begin", "asset", "observations", "select", "finding",
                                 "decision", "plan", "commit", "done"}]
         /\ item' \in [Writers -> Nat \ {0}]
         /\ \A x \in Writers : item'[x] <= Len(call[x].items)
<1>1. \A x \in Writers : item[x] \in Nat \ {0} /\ item[x] <= Len(call[x].items) /\ Len(call[x].items) \in Nat
  BY NowIsItem DEF TypeOK
<1>2. item \in [Writers -> Nat \ {0}]
  BY DEF TypeOK
<1>3. CASE item' = [item EXCEPT ![w] = @ + 1] /\ item[w] < Len(call[w].items)
  <2>1. \A x \in Writers : item'[x] = IF x = w THEN item[w] + 1 ELSE item[x]
    BY <1>2, <1>3
  <2>2. item' \in [Writers -> Nat \ {0}]
    BY <1>1, <1>2, <1>3
  <2>3. \A x \in Writers : item'[x] <= Len(call[x].items)
    BY <1>1, <1>3, <2>1
  <2> QED BY <2>2, <2>3, <1>3 DEF NextItem, Goto, First, TypeOK
<1>4. CASE UNCHANGED item
  BY <1>1, <1>2, <1>4 DEF NextItem, Goto, First, TypeOK
<1> QED BY <1>3, <1>4 DEF NextItem

\* An INSERT keeps the types if its new working copy has one.
LEMMA InsertTypes ==
  ASSUME TypeOK, NEW w \in Writers, NEW d \in Stores, Inserted(w, d),
         NextItem(w) \/ (\E l \in {"observations", "finding", "decision", "plan"} : Goto(w, l) /\ UNCHANGED item)
  PROVE  TypeOK'
<1>1. w # None
  BY NoneAssumption
<1>2. /\ pc' \in [Writers -> {"begin", "asset", "observations", "select", "finding",
                              "decision", "plan", "commit", "done"}]
      /\ item' \in [Writers -> Nat \ {0}]
      /\ \A x \in Writers : item'[x] <= Len(call[x].items)
  <2>1. CASE NextItem(w)
    BY <2>1, NextItemTypes
  <2>2. CASE \E l \in {"observations", "finding", "decision", "plan"} : Goto(w, l) /\ UNCHANGED item
    BY <2>2 DEF Goto, TypeOK
  <2> QED BY <2>1, <2>2
<1>3. db' \in Stores /\ work' \in Stores /\ lock' = w /\ UNCHANGED <<call, next, snap, result>>
  BY DEF Inserted, reading, TypeOK
<1> QED BY <1>1, <1>2, <1>3 DEF TypeOK

\* What a SELECT gives is rows of its table.
LEMMA RowsForAreRows ==
  ASSUME NEW d \in Stores, NEW t \in {"assets", "observations", "findings", "decisions", "plans"}, NEW a
  PROVE  RowsFor(d, t, a) \subseteq d[t]
<1>1. CASE t = "plans"
  BY <1>1 DEF RowsFor
<1>2. CASE t # "plans"
  BY <1>2 DEF RowsFor
<1> QED BY <1>1, <1>2

\* A snapshot with one more table fetched still has the tables of a database.
LEMMA FetchKeepsStore ==
  ASSUME NEW s \in Stores, NEW d \in Stores, NEW rows,
         NEW t \in {"assets", "observations", "findings", "decisions", "plans"}, rows \subseteq d[t]
  PROVE  [s EXCEPT ![t] = rows] \in Stores
<1>1. CASE t = "assets"
  <2>1. [s EXCEPT !.assets = rows] \in Stores
    BY <1>1 DEF Stores
  <2> QED BY <1>1, <2>1
<1>2. CASE t = "observations"
  <2>1. [s EXCEPT !.observations = rows] \in Stores
    BY <1>2 DEF Stores
  <2> QED BY <1>2, <2>1
<1>3. CASE t = "findings"
  <2>1. [s EXCEPT !.findings = rows] \in Stores
    BY <1>3 DEF Stores
  <2> QED BY <1>3, <2>1
<1>4. CASE t = "decisions"
  <2>1. [s EXCEPT !.decisions = rows] \in Stores
    BY <1>4 DEF Stores
  <2> QED BY <1>4, <2>1
<1>5. CASE t = "plans"
  <2>1. [s EXCEPT !.plans = rows] \in Stores
    BY <1>5 DEF Stores
  <2> QED BY <1>5, <2>1
<1> QED BY <1>1, <1>2, <1>3, <1>4, <1>5

\* A SELECT keeps the types.
LEMMA SelectTypes ==
  ASSUME TypeOK, NEW r \in Readers, Select(r)
  PROVE  TypeOK'
<1> DEFINE t == ReadOrder[next[r]]
<1>1. next[r] \in 1..5 /\ next' = [next EXCEPT ![r] = @ + 1]
  BY DEF Select, TypeOK, ReadOrder, Tables
<1>2. t \in {"assets", "observations", "findings", "decisions", "plans"}
  BY <1>1 DEF ReadOrder, Tables
<1>3. snap' = [snap EXCEPT ![r] = [@ EXCEPT ![t] = RowsFor(db, t, AssetOf[r])]]
      /\ UNCHANGED <<db, work, lock, call, pc, item, result>>
  BY DEF Select
<1>4. RowsFor(db, t, AssetOf[r]) \subseteq db[t]
  BY <1>2, RowsForAreRows DEF TypeOK
<1>5. [snap[r] EXCEPT ![t] = RowsFor(db, t, AssetOf[r])] \in Stores
  BY <1>2, <1>4, FetchKeepsStore DEF TypeOK
<1>6. snap' \in [Readers -> Stores]
  BY <1>3, <1>5 DEF TypeOK
<1>7. next' \in [Readers -> 1..(Len(Tables) + 1)]
  BY <1>1 DEF TypeOK, Tables
<1> QED BY <1>3, <1>6, <1>7 DEF TypeOK

\* The initial state has its types.
LEMMA StoreTypeInit == Init => TypeOK
<1> SUFFICES ASSUME Init PROVE TypeOK
  OBVIOUS
<1>1. \A w \in Writers : call[w] \in Calls /\ item[w] = 1
  BY DEF Init
<1>2. ASSUME NEW w \in Writers PROVE item[w] <= Len(call[w].items)
  <2>1. Len(call[w].items) \in Nat \ {0} /\ item[w] = 1
    BY <1>1, CallsAssumption
  <2> QED BY <2>1
<1>3. \A w \in Writers : item[w] <= Len(call[w].items)
  BY <1>2
<1>4. Len(Tables) = 5
  BY DEF Tables
<1> QED BY <1>3, <1>4, EmptyIsStore DEF Init, TypeOK

\* Every step keeps the types.
LEMMA StoreTypeStep == TypeOK /\ [Next]_vars => TypeOK'
<1> SUFFICES ASSUME TypeOK, [Next]_vars PROVE TypeOK'
  OBVIOUS
<1>1. ASSUME NEW w \in Writers, Begin(w) PROVE TypeOK'
  BY <1>1 DEF Begin, Goto, First, reading, TypeOK
<1>2. ASSUME NEW w \in Writers, InsertAsset(w) PROVE TypeOK'
  BY <1>2, NowIsItem, SeenIsStore, StatementsKeepStores, InsertTypes DEF InsertAsset
<1>3. ASSUME NEW w \in Writers, InsertObservations(w) PROVE TypeOK'
  BY <1>3, NowIsItem, SeenIsStore, StatementsKeepStores, InsertTypes DEF InsertObservations
<1>4. ASSUME NEW w \in Writers, SelectObservations(w) PROVE TypeOK'
  BY <1>4 DEF SelectObservations, Goto, reading, TypeOK
<1>5. ASSUME NEW w \in Writers, InsertFinding(w) PROVE TypeOK'
  BY <1>5, NowIsItem, SeenIsStore, StatementsKeepStores, InsertTypes DEF InsertFinding
<1>6. ASSUME NEW w \in Writers, InsertDecision(w) PROVE TypeOK'
  BY <1>6, NowIsItem, SeenIsStore, StatementsKeepStores, InsertTypes DEF InsertDecision
<1>7. ASSUME NEW w \in Writers, InsertPlan(w) PROVE TypeOK'
  BY <1>7, NowIsItem, SeenIsStore, StatementsKeepStores, InsertTypes DEF InsertPlan
<1>8. ASSUME NEW w \in Writers, Commit(w) PROVE TypeOK'
  BY <1>8 DEF Commit, Goto, End, reading, TypeOK
<1>9. ASSUME NEW w \in Writers, Fail(w) PROVE TypeOK'
  BY <1>9 DEF Fail, Goto, End, reading, TypeOK
<1>10. ASSUME NEW r \in Readers, Select(r) PROVE TypeOK'
  BY <1>10, SelectTypes
<1>11. ASSUME NEW r \in Readers, Accept(r) \/ Reject(r) PROVE TypeOK'
  BY <1>11 DEF Accept, Reject, End, reading, TypeOK
<1>12. CASE UNCHANGED vars
  BY <1>12 DEF vars, reading, TypeOK
<1> QED BY <1>1, <1>2, <1>3, <1>4, <1>5, <1>6, <1>7, <1>8, <1>9, <1>10, <1>11, <1>12
        DEF Next, Write, Read

\* Every reachable state of the evidence store is well typed.
THEOREM StoreTypeCorrect == Spec => []TypeOK
<1>1. Init => TypeOK
  BY StoreTypeInit
<1>2. TypeOK /\ [Next]_vars => TypeOK'
  BY StoreTypeStep
<1> QED BY <1>1, <1>2, PTL DEF Spec

-------------------------------------------------------------------------------
(* The transaction under way.                                              *)

\* The steps that come after the INSERT into each table.
LEMMA AfterIs ==
  /\ After["observations"] = {"finding", "decision", "plan", "commit"}
  /\ After["findings"] = {"decision", "plan", "commit"}
  /\ After["decisions"] = {"plan", "commit"}
  /\ After["plans"] = {"commit"}
BY DEF After, Appended

\* The steps of each kind of call.
LEMMA StepsAre ==
  /\ StepsOf("inventory") = {"begin", "asset", "observations", "commit", "done"}
  /\ StepsOf("bundle") = {"begin", "asset", "observations", "finding", "decision", "plan",
                          "commit", "done"}
  /\ StepsOf("assess") = {"begin", "select", "finding", "decision", "plan", "commit", "done"}
BY DEF StepsOf

\* A row added so far is one of an item that is behind.
LEMMA SoFarRows ==
  ASSUME NEW w \in Writers, NEW t \in Appended
  PROVE  /\ \A row : row \in SoFar(w, t) <=>
              \E i \in 1..Len(call[w].items) :
                Behind(w, t, i) /\ row \in AddedBy(call[w].op, t, call[w].items[i])
         /\ \A row : row \in SoFar(w, t)' <=>
              \E i \in 1..Len(call'[w].items) :
                Behind(w, t, i)' /\ row \in AddedBy(call'[w].op, t, call'[w].items[i])
BY DEF SoFar

\* The call has added nothing more ...
LEMMA SoFarStays ==
  ASSUME NEW w \in Writers, NEW t \in Appended, call' = call,
         \A i \in 1..Len(call[w].items) :
           \/ Behind(w, t, i)' <=> Behind(w, t, i)
           \/ AddedBy(call[w].op, t, call[w].items[i]) = {}
  PROVE  SoFar(w, t)' = SoFar(w, t)
<1>1. \A row : row \in SoFar(w, t)' <=> row \in SoFar(w, t)
  BY SoFarRows
<1> QED BY <1>1

\* What a writer has added so far changes with its own position only.
LEMMA SoFarOfOther ==
  ASSUME NEW w \in Writers, NEW t \in Appended, call' = call, pc'[w] = pc[w], item'[w] = item[w]
  PROVE  SoFar(w, t)' = SoFar(w, t)
<1>1. \A i : Behind(w, t, i)' <=> Behind(w, t, i)
  BY DEF Behind
<1> QED BY <1>1, SoFarStays

\* ... or the item it is at.
LEMMA SoFarGrows ==
  ASSUME TypeOK, NEW w \in Writers, NEW t \in Appended, call' = call,
         \A i \in 1..Len(call[w].items) : Behind(w, t, i)' <=> (Behind(w, t, i) \/ i = item[w])
  PROVE  SoFar(w, t)' = SoFar(w, t) \cup AddedBy(call[w].op, t, Now(w))
<1>1. item[w] \in 1..Len(call[w].items)
  BY NowIsItem
<1>2. \A row : row \in SoFar(w, t)' <=> (row \in SoFar(w, t) \/ row \in AddedBy(call[w].op, t, Now(w)))
  BY <1>1, SoFarRows DEF Now
<1> QED BY <1>2

\* What a writer about to INSERT sees is the database and what its call has added.
LEMMA SeenIsSoFar ==
  ASSUME TypeOK, StoreInvariant, NEW w \in Writers, pc[w] \notin {"begin", "done"}, lock \in {None, w}
  PROVE  /\ \A t \in Appended : Seen(w)[t] = db[t] \cup SoFar(w, t) /\ SoFar(w, t) \cap db[t] = {}
         /\ KeepsAssets(db, Seen(w))
<1>1. CASE lock = w
  BY <1>1 DEF Seen, StoreInvariant, WorkIsCallSoFar
<1>2. CASE lock # w
  <2>1. item[w] = 1 /\ pc[w] \in (IF call[w].op = "assess" THEN {"select", "finding"} ELSE {"asset"})
    BY <1>2 DEF StoreInvariant, LockedWhenWriting
  <2>2. ASSUME NEW t \in Appended PROVE SoFar(w, t) = {}
    <3>1. ASSUME NEW i \in 1..Len(call[w].items), Behind(w, t, i)
          PROVE  AddedBy(call[w].op, t, call[w].items[i]) = {}
      <4>1. i = 1 /\ pc[w] \in After[t]
        BY <2>1, <3>1, NowIsItem DEF Behind
      <4>2. t = "observations" /\ call[w].op = "assess"
        BY <2>1, <4>1, AfterIs DEF Appended
      <4> QED BY <4>2 DEF AddedBy
    <3>2. \A row : row \notin SoFar(w, t)
      BY <3>1, SoFarRows
    <3> QED BY <3>2
  <2>3. KeepsAssets(db, db)
    BY DEF KeepsAssets
  <2> QED BY <1>2, <2>2, <2>3 DEF Seen
<1> QED BY <1>1, <1>2

\* An INSERT of w keeps the invariant if it adds what the call has then added.
LEMMA InsertKeepsInvariant ==
  ASSUME TypeOK, StoreInvariant, NEW w \in Writers, NEW d, Inserted(w, d),
         NEW to, pc' = [pc EXCEPT ![w] = to], to \in StepsOf(call[w].op) \ {"begin", "done"},
         pc[w] \notin {"begin", "done"},
         item' = [item EXCEPT ![w] = item'[w]],
         to = "commit" => item'[w] = Len(call[w].items),
         KeepsAssets(db, d),
         \A t \in Appended : d[t] = db[t] \cup SoFar(w, t)' /\ SoFar(w, t)' \cap db[t] = {}
  PROVE  StoreInvariant'
<1>1. /\ lock' = w /\ work' = d /\ lock \in {None, w}
      /\ UNCHANGED <<db, call, next, snap, result>>
  BY DEF Inserted, reading
<1>2. w # None /\ \A x \in Writers : x # None
  BY NoneAssumption
<1>3. \A x \in Writers \ {w} : pc'[x] = pc[x] /\ item'[x] = item[x] /\ lock # x
  BY <1>1, <1>2 DEF TypeOK
<1>4. pc'[w] = to
  BY DEF TypeOK
<1>5. LockedWhenWriting'
  <2>1. ASSUME NEW x \in Writers \ {w} PROVE
          /\ pc'[x] \in StepsOf(call'[x].op)
          /\ lock' = x => pc'[x] \notin {"begin", "done"}
          /\ lock' # x /\ pc'[x] \notin {"begin", "done"} =>
               item'[x] = 1 /\ pc'[x] \in (IF call'[x].op = "assess" THEN {"select", "finding"} ELSE {"asset"})
          /\ pc'[x] = "begin" => item'[x] = 1
          /\ pc'[x] = "commit" => item'[x] = Len(call'[x].items)
          /\ pc'[x] # "done" <=> result'[x] = None
    BY <1>1, <1>3 DEF StoreInvariant, LockedWhenWriting
  <2>2. result[w] = None
    BY DEF StoreInvariant, LockedWhenWriting
  <2> QED BY <1>1, <1>4, <2>1, <2>2 DEF LockedWhenWriting
<1>6. WorkIsCallSoFar'
  BY <1>1 DEF WorkIsCallSoFar
<1>7. KeepsAssets(db, work)'
  BY <1>1 DEF KeepsAssets
<1>8. SnapshotIsGrounded'
  BY <1>1 DEF StoreInvariant, SnapshotIsGrounded
<1> QED BY <1>5, <1>6, <1>7, <1>8 DEF StoreInvariant

-------------------------------------------------------------------------------
(* One lemma per statement.                                                *)

\* The next item, or the commit: the present item is behind in every table.
LEMMA NextItemStep ==
  ASSUME TypeOK, NEW w \in Writers, NextItem(w), call' = call
  PROVE  \E to \in {First(w), "commit"} :
           /\ pc' = [pc EXCEPT ![w] = to]
           /\ item' = [item EXCEPT ![w] = item'[w]]
           /\ to = "commit" => item'[w] = Len(call[w].items)
           /\ \A t \in Appended, i \in 1..Len(call[w].items) : Behind(w, t, i)' <=> i <= item[w]
<1>1. item[w] \in 1..Len(call[w].items) /\ Len(call[w].items) \in Nat
  BY NowIsItem
<1>2. First(w) \in {"select", "asset"}
  BY DEF First
<1>3. item \in [Writers -> Nat \ {0}] /\ pc[w] = pc[w] /\ DOMAIN pc = Writers
  BY DEF TypeOK
<1>4. CASE item[w] < Len(call[w].items)
  <2>1. item' = [item EXCEPT ![w] = @ + 1] /\ pc' = [pc EXCEPT ![w] = First(w)]
    BY <1>4 DEF NextItem, Goto
  <2>2. item'[w] = item[w] + 1 /\ pc'[w] = First(w)
    BY <2>1, <1>3
  <2>3. \A t \in Appended : First(w) \notin After[t]
    BY <1>2, AfterIs DEF Appended
  <2>4. \A t \in Appended, i \in 1..Len(call[w].items) : Behind(w, t, i)' <=> i <= item[w]
    BY <1>1, <2>2, <2>3 DEF Behind
  <2>5. item' = [item EXCEPT ![w] = item'[w]]
    BY <2>1, <2>2
  <2> QED BY <1>2, <2>1, <2>4, <2>5
<1>5. CASE ~(item[w] < Len(call[w].items))
  <2>1. item' = item /\ pc' = [pc EXCEPT ![w] = "commit"] /\ item[w] = Len(call[w].items)
    BY <1>1, <1>5 DEF NextItem, Goto
  <2>2. item'[w] = item[w] /\ pc'[w] = "commit"
    BY <2>1, <1>3
  <2>3. \A t \in Appended : "commit" \in After[t]
    BY AfterIs DEF Appended
  <2>4. \A t \in Appended, i \in 1..Len(call[w].items) : Behind(w, t, i)' <=> i <= item[w]
    BY <1>1, <2>2, <2>3 DEF Behind
  <2>5. item' = [item EXCEPT ![w] = item'[w]]
    BY <2>1, <1>3
  <2> QED BY <2>1, <2>4, <2>5
<1> QED BY <1>4, <1>5

\* The call goes to another step with the same item.
LEMMA SameItem ==
  ASSUME TypeOK, NEW w \in Writers, NEW to, Goto(w, to), UNCHANGED item
  PROVE  /\ pc' = [pc EXCEPT ![w] = to] /\ pc'[w] = to
         /\ item' = [item EXCEPT ![w] = item'[w]]
         /\ \A t \in Appended, i \in 1..Len(call[w].items) :
              Behind(w, t, i)' <=> i < item[w] \/ (i = item[w] /\ to \in After[t])
<1>1. pc' = [pc EXCEPT ![w] = to] /\ pc'[w] = to
  BY DEF Goto, TypeOK
<1> QED BY <1>1 DEF Behind, TypeOK

\* Inserting or updating an asset removes none, and touches no other table.
LEMMA UpsertKeepsAssets ==
  ASSUME NEW d, NEW e, NEW b, KeepsAssets(d, e), e \in Stores
  PROVE  KeepsAssets(d, Upsert(e, b)) /\ \A t \in Appended : Upsert(e, b)[t] = e[t]
<1>1. \A t \in Appended : Upsert(e, b)[t] = e[t]
  BY DEF Upsert, Appended, Stores
<1>2. CASE HasAsset(e, b.asset)
  <2>1. Upsert(e, b).assets = {IF row.asset = b.asset THEN [row EXCEPT !.updated = b.created] ELSE row :
                                 row \in e.assets}
    BY <1>2 DEF Upsert, Stores
  <2>2. ASSUME NEW row \in d.assets
        PROVE  \E new \in Upsert(e, b).assets : new.asset = row.asset /\ new.created = row.created
    <3>1. PICK old \in e.assets : old.asset = row.asset /\ old.created = row.created
      BY DEF KeepsAssets
    <3>2. PICK c \in Items, s \in Moments, u \in Moments : old = [asset |-> c.asset, created |-> s, updated |-> u]
      BY DEF Stores
    <3>3. CASE old.asset = b.asset
      <4>1. [old EXCEPT !.updated = b.created] \in Upsert(e, b).assets
        BY <2>1, <3>3
      <4>2. [old EXCEPT !.updated = b.created].asset = old.asset
            /\ [old EXCEPT !.updated = b.created].created = old.created
        BY <3>2
      <4> QED BY <3>1, <4>1, <4>2
    <3>4. CASE old.asset # b.asset
      BY <2>1, <3>1, <3>4
    <3> QED BY <3>3, <3>4
  <2>3. KeepsAssets(d, Upsert(e, b))
    BY <2>2 DEF KeepsAssets
  <2> QED BY <1>1, <2>3
<1>3. CASE ~HasAsset(e, b.asset)
  <2>1. e.assets \subseteq Upsert(e, b).assets
    BY <1>3 DEF Upsert, Stores
  <2>2. KeepsAssets(d, Upsert(e, b))
    BY <2>1 DEF KeepsAssets
  <2> QED BY <1>1, <2>2
<1> QED BY <1>1, <1>2, <1>3

\* The INSERT or update of an asset keeps the invariant.
LEMMA InsertAssetStep ==
  ASSUME TypeOK, StoreInvariant, NEW w \in Writers, InsertAsset(w)
  PROVE  StoreInvariant'
<1> DEFINE d == Upsert(Seen(w), Now(w))
<1>1. /\ pc[w] = "asset" /\ Inserted(w, d) /\ Goto(w, "observations") /\ UNCHANGED item
      /\ lock \in {None, w} /\ call' = call /\ db' = db
  BY DEF InsertAsset, Inserted
<1>2. /\ \A t \in Appended : Seen(w)[t] = db[t] \cup SoFar(w, t) /\ SoFar(w, t) \cap db[t] = {}
      /\ KeepsAssets(db, Seen(w))
  BY <1>1, SeenIsSoFar
<1>3. KeepsAssets(db, d) /\ \A t \in Appended : d[t] = Seen(w)[t]
  <2>1. Seen(w) \in Stores
    BY SeenIsStore
  <2>2. \A b : KeepsAssets(db, Upsert(Seen(w), b)) /\ \A t \in Appended : Upsert(Seen(w), b)[t] = Seen(w)[t]
    BY <1>2, <2>1, UpsertKeepsAssets
  <2> QED BY <2>2
<1>4. \A t \in Appended : SoFar(w, t)' = SoFar(w, t)
  <2>1. \A t \in Appended : "asset" \notin After[t] /\ "observations" \notin After[t]
    BY AfterIs DEF Appended
  <2>2. \A t \in Appended, i \in 1..Len(call[w].items) : Behind(w, t, i)' <=> Behind(w, t, i)
    BY <1>1, <2>1, SameItem DEF Behind
  <2> QED BY <1>1, <2>2, SoFarStays
<1>5. "observations" \in StepsOf(call[w].op) \ {"begin", "done"}
  BY <1>1, StepsAre, CallsAssumption, NowIsItem DEF StoreInvariant, LockedWhenWriting
<1>6. pc' = [pc EXCEPT ![w] = "observations"] /\ item' = [item EXCEPT ![w] = item'[w]]
  BY <1>1, SameItem
<1>7. \A t \in Appended : d[t] = db[t] \cup SoFar(w, t)' /\ SoFar(w, t)' \cap db[t] = {}
  BY <1>2, <1>3, <1>4
<1>8. pc[w] \notin {"begin", "done"} /\ KeepsAssets(db, d) /\ Inserted(w, d)
  BY <1>1, <1>3
<1> HIDE DEF d
<1> QED BY <1>5, <1>6, <1>7, <1>8, InsertKeepsInvariant

\* The store e has the rows of d and, in table t, the rows in new.
LEMMA InsertRowsKeepsInvariant ==
  ASSUME TypeOK, StoreInvariant, NEW w \in Writers, NEW d, Inserted(w, d),
         NEW to, pc' = [pc EXCEPT ![w] = to], to \in StepsOf(call[w].op) \ {"begin", "done"},
         pc[w] \notin {"begin", "done"},
         item' = [item EXCEPT ![w] = item'[w]],
         to = "commit" => item'[w] = Len(call[w].items),
         d.assets = Seen(w).assets,
         NEW t \in Appended,
         d[t] = Seen(w)[t] \cup AddedBy(call[w].op, t, Now(w)),
         AddedBy(call[w].op, t, Now(w)) \cap Seen(w)[t] = {},
         \A i \in 1..Len(call[w].items) : Behind(w, t, i)' <=> (Behind(w, t, i) \/ i = item[w]),
         \A u \in Appended \ {t} :
           /\ d[u] = Seen(w)[u]
           /\ \A i \in 1..Len(call[w].items) :
                \/ Behind(w, u, i)' <=> Behind(w, u, i)
                \/ AddedBy(call[w].op, u, call[w].items[i]) = {}
  PROVE  StoreInvariant'
<1>1. lock \in {None, w} /\ call' = call
  BY DEF Inserted
<1>2. /\ \A u \in Appended : Seen(w)[u] = db[u] \cup SoFar(w, u) /\ SoFar(w, u) \cap db[u] = {}
      /\ KeepsAssets(db, Seen(w))
  BY <1>1, SeenIsSoFar
<1>3. KeepsAssets(db, d)
  BY <1>2 DEF KeepsAssets
<1>4. SoFar(w, t)' = SoFar(w, t) \cup AddedBy(call[w].op, t, Now(w))
  BY <1>1, SoFarGrows
<1>5. d[t] = db[t] \cup SoFar(w, t)' /\ SoFar(w, t)' \cap db[t] = {}
  BY <1>2, <1>4
<1>6. \A u \in Appended \ {t} : SoFar(w, u)' = SoFar(w, u)
  BY <1>1, SoFarStays
<1>7. \A u \in Appended : d[u] = db[u] \cup SoFar(w, u)' /\ SoFar(w, u)' \cap db[u] = {}
  BY <1>2, <1>5, <1>6
<1> QED BY <1>3, <1>7, InsertKeepsInvariant

\* Which kind of call a writer makes is told by its position.
LEMMA OpOf ==
  ASSUME TypeOK, StoreInvariant, NEW w \in Writers
  PROVE  /\ call[w].op \in {"inventory", "bundle", "assess"}
         /\ pc[w] \in StepsOf(call[w].op)
         /\ pc[w] \in {"asset", "observations"} => call[w].op # "assess"
         /\ pc[w] = "select" => call[w].op = "assess"
         /\ pc[w] \in {"finding", "decision", "plan"} => call[w].op # "inventory"
BY StepsAre, CallsAssumption, NowIsItem DEF StoreInvariant, LockedWhenWriting

\* The INSERT of the claims of an item keeps it.
LEMMA InsertObservationsStep ==
  ASSUME TypeOK, StoreInvariant, NEW w \in Writers, InsertObservations(w)
  PROVE  StoreInvariant'
<1> DEFINE d == [Seen(w) EXCEPT !.observations = @ \cup ObservationRows(Now(w))]
<1>1. /\ pc[w] = "observations" /\ Inserted(w, d) /\ ObservationsAllowed(Seen(w), Now(w)) /\ call' = call
  BY DEF InsertObservations, Inserted
<1>2. call[w].op \in {"inventory", "bundle"}
  BY <1>1, OpOf
<1>3. AddedBy(call[w].op, "observations", Now(w)) = ObservationRows(Now(w))
  BY <1>2 DEF AddedBy
<1>4. ObservationRows(Now(w)) \cap Seen(w).observations = {}
  BY <1>1 DEF ObservationsAllowed, ObservationRows
<1>5. /\ d.assets = Seen(w).assets
      /\ d["observations"] = Seen(w)["observations"] \cup ObservationRows(Now(w))
      /\ \A u \in Appended \ {"observations"} : d[u] = Seen(w)[u]
  BY SeenIsStore DEF Stores, Appended
<1>6. /\ item[w] \in 1..Len(call[w].items) /\ Len(call[w].items) \in Nat
      /\ \A t \in Appended : "observations" \notin After[t]
  BY NowIsItem, AfterIs DEF Appended
<1>7. CASE call[w].op = "inventory"
  <2>1. NextItem(w)
    BY <1>7 DEF InsertObservations
  <2>2. PICK to \in {First(w), "commit"} :
           /\ pc' = [pc EXCEPT ![w] = to]
           /\ item' = [item EXCEPT ![w] = item'[w]]
           /\ to = "commit" => item'[w] = Len(call[w].items)
           /\ \A t \in Appended, i \in 1..Len(call[w].items) : Behind(w, t, i)' <=> i <= item[w]
    BY <1>1, <2>1, NextItemStep
  <2>3. to \in StepsOf(call[w].op) \ {"begin", "done"}
    BY <1>7, StepsAre DEF First
  <2>4. \A i \in 1..Len(call[w].items) :
          Behind(w, "observations", i)' <=> (Behind(w, "observations", i) \/ i = item[w])
    BY <1>1, <1>6, <2>2 DEF Behind, Appended
  <2>5. \A u \in Appended \ {"observations"}, i \in 1..Len(call[w].items) :
          AddedBy(call[w].op, u, call[w].items[i]) = {}
    BY <1>7 DEF AddedBy
  <2>6. "observations" \in Appended /\ pc[w] \notin {"begin", "done"}
    BY <1>1 DEF Appended
  <2>7. /\ d["observations"] = Seen(w)["observations"] \cup AddedBy(call[w].op, "observations", Now(w))
        /\ AddedBy(call[w].op, "observations", Now(w)) \cap Seen(w)["observations"] = {}
    BY <1>3, <1>4, <1>5
  <2>8. Inserted(w, d) /\ d.assets = Seen(w).assets /\ \A u \in Appended \ {"observations"} : d[u] = Seen(w)[u]
    BY <1>1, <1>5
  <2>9. /\ pc' = [pc EXCEPT ![w] = to] /\ item' = [item EXCEPT ![w] = item'[w]]
        /\ to = "commit" => item'[w] = Len(call[w].items)
    BY <2>2
  <2>10. /\ \A t \in Appended : Seen(w)[t] = db[t] \cup SoFar(w, t) /\ SoFar(w, t) \cap db[t] = {}
         /\ KeepsAssets(db, Seen(w))
    BY <2>6, <1>1, SeenIsSoFar DEF Inserted
  <2>11. KeepsAssets(db, d)
    BY <2>8, <2>10 DEF KeepsAssets
  <2>12. SoFar(w, "observations")' = SoFar(w, "observations") \cup AddedBy(call[w].op, "observations", Now(w))
    BY <1>1, <2>4, <2>6, SoFarGrows
  <2>13. \A t \in Appended \ {"observations"} : SoFar(w, t)' = SoFar(w, t)
    BY <1>1, <2>5, SoFarStays
  <2>14. d["observations"] = db["observations"] \cup SoFar(w, "observations")'
         /\ SoFar(w, "observations")' \cap db["observations"] = {}
    BY <2>6, <2>7, <2>10, <2>12
  <2>15. \A t \in Appended : d[t] = db[t] \cup SoFar(w, t)' /\ SoFar(w, t)' \cap db[t] = {}
    BY <2>8, <2>10, <2>13, <2>14
  <2>16. Inserted(w, d)
    BY <2>8
  <2> HIDE DEF d
  <2> QED BY <2>3, <2>6, <2>9, <2>11, <2>15, <2>16, InsertKeepsInvariant
<1>8. CASE call[w].op = "bundle"
  <2>1. Goto(w, "finding") /\ UNCHANGED item
    BY <1>8 DEF InsertObservations
  <2>2. \A t \in Appended : "finding" \in After[t] <=> t = "observations"
    BY AfterIs DEF Appended
  <2>3. /\ pc' = [pc EXCEPT ![w] = "finding"]
        /\ item' = [item EXCEPT ![w] = item'[w]]
        /\ \A t \in Appended, i \in 1..Len(call[w].items) :
             Behind(w, t, i)' <=> i < item[w] \/ (i = item[w] /\ t = "observations")
    BY <2>1, <2>2, SameItem
  <2>4. "finding" \in StepsOf(call[w].op) \ {"begin", "done"}
    BY <1>8, StepsAre
  <2>5. \A i \in 1..Len(call[w].items) :
          Behind(w, "observations", i)' <=> (Behind(w, "observations", i) \/ i = item[w])
    BY <1>1, <1>6, <2>3 DEF Behind, Appended
  <2>6. \A u \in Appended \ {"observations"}, i \in 1..Len(call[w].items) :
          Behind(w, u, i)' <=> Behind(w, u, i)
    BY <1>1, <1>6, <2>3 DEF Behind
  <2>7. "observations" \in Appended /\ pc[w] \notin {"begin", "done"}
    BY <1>1 DEF Appended
  <2>8. /\ d["observations"] = Seen(w)["observations"] \cup AddedBy(call[w].op, "observations", Now(w))
        /\ AddedBy(call[w].op, "observations", Now(w)) \cap Seen(w)["observations"] = {}
    BY <1>3, <1>4, <1>5
  <2>9. Inserted(w, d) /\ d.assets = Seen(w).assets /\ \A u \in Appended \ {"observations"} : d[u] = Seen(w)[u]
    BY <1>1, <1>5
  <2>10. pc' = [pc EXCEPT ![w] = "finding"] /\ item' = [item EXCEPT ![w] = item'[w]]
    BY <2>3
  <2> HIDE DEF d
  <2> QED BY <2>4, <2>5, <2>6, <2>7, <2>8, <2>9, <2>10, InsertRowsKeepsInvariant
<1> QED BY <1>2, <1>7, <1>8

\* The INSERT of a finding keeps it.
LEMMA InsertFindingStep ==
  ASSUME TypeOK, StoreInvariant, NEW w \in Writers, InsertFinding(w)
  PROVE  StoreInvariant'
<1> DEFINE d == [Seen(w) EXCEPT !.findings = @ \cup {FindingRow(Now(w))}]
<1>1. /\ pc[w] = "finding" /\ Inserted(w, d) /\ FindingAllowed(Seen(w), Now(w)) /\ call' = call
      /\ Goto(w, "decision") /\ UNCHANGED item
  BY DEF InsertFinding, Inserted
<1>2. call[w].op \in {"bundle", "assess"}
  BY <1>1, OpOf
<1>3. AddedBy(call[w].op, "findings", Now(w)) = {FindingRow(Now(w))}
  BY <1>2 DEF AddedBy
<1>4. {FindingRow(Now(w))} \cap Seen(w).findings = {}
  BY <1>1 DEF FindingAllowed, FindingRow
<1>5. /\ d.assets = Seen(w).assets
      /\ d["findings"] = Seen(w)["findings"] \cup {FindingRow(Now(w))}
      /\ \A u \in Appended \ {"findings"} : d[u] = Seen(w)[u]
  BY SeenIsStore DEF Stores, Appended
<1>6. \A t \in Appended : /\ "decision" \in After[t] <=> t \in {"observations", "findings"}
                          /\ "finding" \in After[t] <=> t = "observations"
  BY AfterIs DEF Appended
<1>7. /\ pc' = [pc EXCEPT ![w] = "decision"]
      /\ item' = [item EXCEPT ![w] = item'[w]]
      /\ \A t \in Appended, i \in 1..Len(call[w].items) :
           Behind(w, t, i)' <=> i < item[w] \/ (i = item[w] /\ t \in {"observations", "findings"})
  BY <1>1, <1>6, SameItem
<1>8. "decision" \in StepsOf(call[w].op) \ {"begin", "done"}
  BY <1>2, StepsAre
<1>9. \A i \in 1..Len(call[w].items) :
        Behind(w, "findings", i)' <=> (Behind(w, "findings", i) \/ i = item[w])
  BY <1>1, <1>6, <1>7 DEF Behind, Appended
<1>10. \A u \in Appended \ {"findings"}, i \in 1..Len(call[w].items) :
         Behind(w, u, i)' <=> Behind(w, u, i)
  BY <1>1, <1>6, <1>7 DEF Behind
<1>11. "findings" \in Appended /\ pc[w] \notin {"begin", "done"}
  BY <1>1 DEF Appended
<1>12. /\ d["findings"] = Seen(w)["findings"] \cup AddedBy(call[w].op, "findings", Now(w))
       /\ AddedBy(call[w].op, "findings", Now(w)) \cap Seen(w)["findings"] = {}
  BY <1>3, <1>4, <1>5
<1>13. Inserted(w, d) /\ d.assets = Seen(w).assets /\ \A u \in Appended \ {"findings"} : d[u] = Seen(w)[u]
  BY <1>1, <1>5
<1>14. pc' = [pc EXCEPT ![w] = "decision"] /\ item' = [item EXCEPT ![w] = item'[w]]
  BY <1>7
<1> HIDE DEF d
<1> QED BY <1>8, <1>9, <1>10, <1>11, <1>12, <1>13, <1>14, InsertRowsKeepsInvariant

\* The INSERT of a decision keeps it.
LEMMA InsertDecisionStep ==
  ASSUME TypeOK, StoreInvariant, NEW w \in Writers, InsertDecision(w)
  PROVE  StoreInvariant'
<1> DEFINE d == [Seen(w) EXCEPT !.decisions = @ \cup {DecisionRow(Now(w))}]
<1>1. /\ pc[w] = "decision" /\ Inserted(w, d) /\ DecisionAllowed(Seen(w), Now(w)) /\ call' = call
      /\ Goto(w, "plan") /\ UNCHANGED item
  BY DEF InsertDecision, Inserted
<1>2. call[w].op \in {"bundle", "assess"}
  BY <1>1, OpOf
<1>3. AddedBy(call[w].op, "decisions", Now(w)) = {DecisionRow(Now(w))}
  BY <1>2 DEF AddedBy
<1>4. {DecisionRow(Now(w))} \cap Seen(w).decisions = {}
  BY <1>1 DEF DecisionAllowed, DecisionRow
<1>5. /\ d.assets = Seen(w).assets
      /\ d["decisions"] = Seen(w)["decisions"] \cup {DecisionRow(Now(w))}
      /\ \A u \in Appended \ {"decisions"} : d[u] = Seen(w)[u]
  BY SeenIsStore DEF Stores, Appended
<1>6. \A t \in Appended : /\ "plan" \in After[t] <=> t # "plans"
                          /\ "decision" \in After[t] <=> t \in {"observations", "findings"}
  BY AfterIs DEF Appended
<1>7. /\ pc' = [pc EXCEPT ![w] = "plan"]
      /\ item' = [item EXCEPT ![w] = item'[w]]
      /\ \A t \in Appended, i \in 1..Len(call[w].items) :
           Behind(w, t, i)' <=> i < item[w] \/ (i = item[w] /\ t # "plans")
  BY <1>1, <1>6, SameItem
<1>8. "plan" \in StepsOf(call[w].op) \ {"begin", "done"}
  BY <1>2, StepsAre
<1>9. \A i \in 1..Len(call[w].items) :
        Behind(w, "decisions", i)' <=> (Behind(w, "decisions", i) \/ i = item[w])
  BY <1>1, <1>6, <1>7 DEF Behind, Appended
<1>10. \A u \in Appended \ {"decisions"}, i \in 1..Len(call[w].items) :
         Behind(w, u, i)' <=> Behind(w, u, i)
  BY <1>1, <1>6, <1>7 DEF Behind, Appended
<1>11. "decisions" \in Appended /\ pc[w] \notin {"begin", "done"}
  BY <1>1 DEF Appended
<1>12. /\ d["decisions"] = Seen(w)["decisions"] \cup AddedBy(call[w].op, "decisions", Now(w))
       /\ AddedBy(call[w].op, "decisions", Now(w)) \cap Seen(w)["decisions"] = {}
  BY <1>3, <1>4, <1>5
<1>13. Inserted(w, d) /\ d.assets = Seen(w).assets /\ \A u \in Appended \ {"decisions"} : d[u] = Seen(w)[u]
  BY <1>1, <1>5
<1>14. pc' = [pc EXCEPT ![w] = "plan"] /\ item' = [item EXCEPT ![w] = item'[w]]
  BY <1>7
<1> HIDE DEF d
<1> QED BY <1>8, <1>9, <1>10, <1>11, <1>12, <1>13, <1>14, InsertRowsKeepsInvariant

\* The INSERT of a plan, which ends an item, keeps it.
LEMMA InsertPlanStep ==
  ASSUME TypeOK, StoreInvariant, NEW w \in Writers, InsertPlan(w)
  PROVE  StoreInvariant'
<1> DEFINE d == [Seen(w) EXCEPT !.plans = @ \cup {PlanRow(Now(w))}]
<1>1. /\ pc[w] = "plan" /\ Inserted(w, d) /\ PlanAllowed(Seen(w), Now(w)) /\ call' = call
      /\ NextItem(w)
  BY DEF InsertPlan, Inserted
<1>2. call[w].op \in {"bundle", "assess"}
  BY <1>1, OpOf
<1>3. AddedBy(call[w].op, "plans", Now(w)) = {PlanRow(Now(w))}
  BY <1>2 DEF AddedBy
<1>4. {PlanRow(Now(w))} \cap Seen(w).plans = {}
  BY <1>1 DEF PlanAllowed, PlanRow
<1>5. /\ d.assets = Seen(w).assets
      /\ d["plans"] = Seen(w)["plans"] \cup {PlanRow(Now(w))}
      /\ \A u \in Appended \ {"plans"} : d[u] = Seen(w)[u]
  BY SeenIsStore DEF Stores, Appended
<1>6. /\ \A t \in Appended : "plan" \in After[t] <=> t # "plans"
      /\ item[w] \in 1..Len(call[w].items) /\ Len(call[w].items) \in Nat
  BY AfterIs, NowIsItem DEF Appended
<1>7. PICK to \in {First(w), "commit"} :
        /\ pc' = [pc EXCEPT ![w] = to]
        /\ item' = [item EXCEPT ![w] = item'[w]]
        /\ to = "commit" => item'[w] = Len(call[w].items)
        /\ \A t \in Appended, i \in 1..Len(call[w].items) : Behind(w, t, i)' <=> i <= item[w]
  BY <1>1, NextItemStep
<1>8. to \in StepsOf(call[w].op) \ {"begin", "done"}
  BY <1>2, StepsAre DEF First
<1>9. \A i \in 1..Len(call[w].items) :
        Behind(w, "plans", i)' <=> (Behind(w, "plans", i) \/ i = item[w])
  BY <1>1, <1>6, <1>7 DEF Behind, Appended
<1>10. \A u \in Appended \ {"plans"}, i \in 1..Len(call[w].items) :
         Behind(w, u, i)' <=> Behind(w, u, i)
  BY <1>1, <1>6, <1>7 DEF Behind, Appended
<1>11. "plans" \in Appended /\ pc[w] \notin {"begin", "done"}
  BY <1>1 DEF Appended
<1>12. /\ d["plans"] = Seen(w)["plans"] \cup AddedBy(call[w].op, "plans", Now(w))
       /\ AddedBy(call[w].op, "plans", Now(w)) \cap Seen(w)["plans"] = {}
  BY <1>3, <1>4, <1>5
<1>13. Inserted(w, d) /\ d.assets = Seen(w).assets /\ \A u \in Appended \ {"plans"} : d[u] = Seen(w)[u]
  BY <1>1, <1>5
<1>14. /\ pc' = [pc EXCEPT ![w] = to] /\ item' = [item EXCEPT ![w] = item'[w]]
       /\ to = "commit" => item'[w] = Len(call[w].items)
  BY <1>7
<1> HIDE DEF d
<1> QED BY <1>8, <1>9, <1>10, <1>11, <1>12, <1>13, <1>14, InsertRowsKeepsInvariant

\* A step of w that leaves the rows, the lock and the readers alone.
LEMMA MoveKeepsInvariant ==
  ASSUME TypeOK, StoreInvariant, NEW w \in Writers, NEW to, Goto(w, to),
         UNCHANGED <<db, work, lock, call, item, reading, result>>,
         \A t \in Appended : lock = w => SoFar(w, t)' = SoFar(w, t),
         to \in StepsOf(call[w].op) \ {"begin", "commit", "done"}, pc[w] # "done",
         lock # w => item[w] = 1 /\ to \in (IF call[w].op = "assess" THEN {"select", "finding"} ELSE {"asset"})
  PROVE  StoreInvariant'
<1>1. pc'[w] = to /\ \A x \in Writers \ {w} : pc'[x] = pc[x]
  BY DEF Goto, TypeOK
<1>2. UNCHANGED <<db, work, lock, call, item, next, snap, result>>
  BY DEF reading
<1>3. LockedWhenWriting'
  <2>1. result[w] = None
    BY DEF StoreInvariant, LockedWhenWriting
  <2> QED BY <1>1, <1>2, <2>1 DEF StoreInvariant, LockedWhenWriting
<1>4. WorkIsCallSoFar'
  <2>1. \A x \in Writers, t \in Appended : lock = x => SoFar(x, t)' = SoFar(x, t)
    BY <1>1, <1>2, SoFarOfOther
  <2> QED BY <1>2, <2>1 DEF StoreInvariant, WorkIsCallSoFar
<1>5. KeepsAssets(db, work)' /\ SnapshotIsGrounded'
  BY <1>2 DEF StoreInvariant, SnapshotIsGrounded, KeepsAssets
<1> QED BY <1>3, <1>4, <1>5 DEF StoreInvariant

\* The beginning of a call keeps it.
LEMMA BeginStep ==
  ASSUME TypeOK, StoreInvariant, NEW w \in Writers, Begin(w)
  PROVE  StoreInvariant'
<1>1. /\ pc[w] = "begin" /\ Goto(w, First(w))
      /\ UNCHANGED <<db, work, lock, call, item, reading, result>>
  BY DEF Begin
<1>2. lock # w /\ item[w] = 1
  BY <1>1 DEF StoreInvariant, LockedWhenWriting
<1>3. First(w) \in (IF call[w].op = "assess" THEN {"select", "finding"} ELSE {"asset"})
  BY DEF First
<1>4. First(w) \in StepsOf(call[w].op) \ {"begin", "commit", "done"}
  BY OpOf, StepsAre DEF First
<1> QED BY <1>1, <1>2, <1>3, <1>4, MoveKeepsInvariant

\* Comparing the retained claims, in a transaction or before it, keeps it.
LEMMA SelectObservationsStep ==
  ASSUME TypeOK, StoreInvariant, NEW w \in Writers, SelectObservations(w)
  PROVE  StoreInvariant'
<1>1. /\ pc[w] = "select" /\ Goto(w, "finding")
      /\ UNCHANGED <<db, work, lock, call, item, reading, result>>
  BY DEF SelectObservations
<1>2. call[w].op = "assess"
  BY <1>1, OpOf
<1>3. \A t \in Appended : SoFar(w, t)' = SoFar(w, t)
  <2>1. \A t \in Appended : "select" \notin After[t] /\ ("finding" \in After[t] <=> t = "observations")
    BY AfterIs DEF Appended
  <2>2. \A i \in 1..Len(call[w].items) : AddedBy(call[w].op, "observations", call[w].items[i]) = {}
    BY <1>2 DEF AddedBy
  <2>3. \A t \in Appended \ {"observations"}, i \in 1..Len(call[w].items) :
          Behind(w, t, i)' <=> Behind(w, t, i)
    BY <1>1, <2>1, SameItem DEF Behind
  <2> QED BY <1>1, <2>2, <2>3, SoFarStays
<1>4. lock # w => item[w] = 1
  BY <1>1 DEF StoreInvariant, LockedWhenWriting
<1>5. "finding" \in StepsOf(call[w].op) \ {"begin", "commit", "done"}
  BY <1>2, StepsAre
<1> QED BY <1>1, <1>2, <1>3, <1>4, <1>5, MoveKeepsInvariant

\* At the commit everything the call appends is in the working copy, and new.
LEMMA CommitIsWhole ==
  ASSUME TypeOK, StoreInvariant, NEW w \in Writers, pc[w] = "commit"
  PROVE  /\ lock = w
         /\ \A t \in Appended : work[t] = db[t] \cup SoFar(w, t) /\ SoFar(w, t) \cap db[t] = {}
         /\ \A t \in Appended : \A row :
              row \in SoFar(w, t) <=>
                \E i \in 1..Len(call[w].items) : row \in AddedBy(call[w].op, t, call[w].items[i])
<1>1. lock = w
  BY DEF StoreInvariant, LockedWhenWriting
<1>2. \A t \in Appended, i \in 1..Len(call[w].items) : Behind(w, t, i)
  <2>1. \A t \in Appended : "commit" \in After[t]
    BY AfterIs DEF Appended
  <2>2. item[w] = Len(call[w].items) /\ Len(call[w].items) \in Nat
    BY NowIsItem DEF StoreInvariant, LockedWhenWriting
  <2> QED BY <2>1, <2>2 DEF Behind
<1>3. \A t \in Appended : work[t] = db[t] \cup SoFar(w, t) /\ SoFar(w, t) \cap db[t] = {}
  BY <1>1 DEF StoreInvariant, WorkIsCallSoFar
<1> QED BY <1>1, <1>2, <1>3, SoFarRows

\* The call ends, and the lock is given up if w had it.
LEMMA EndKeepsInvariant ==
  ASSUME TypeOK, StoreInvariant, NEW w \in Writers, NEW how, how # None, Goto(w, "done"), End(w, how),
         UNCHANGED <<call, item, reading>>,
         \/ lock = w /\ lock' = None /\ work' = db'
         \/ lock # w /\ UNCHANGED <<db, work, lock>>,
         \A t \in Appended : db[t] \subseteq db'[t]
  PROVE  StoreInvariant'
<1>1. /\ pc'[w] = "done" /\ result'[w] = how
      /\ \A x \in Writers \ {w} : pc'[x] = pc[x] /\ result'[x] = result[x]
  BY DEF Goto, End, TypeOK
<1>2. UNCHANGED <<call, item, next, snap>>
  BY DEF reading
<1>3. \A x \in Writers : x # None
  BY NoneAssumption
<1>4. \A x \in Writers \ {w} : lock' = x <=> lock = x
  BY <1>3
<1>5. LockedWhenWriting'
  <2>1. "done" \in StepsOf(call[w].op)
    BY OpOf, StepsAre
  <2>2. lock' # w
    BY <1>3
  <2>3. ASSUME NEW x \in Writers \ {w} PROVE
          /\ pc'[x] \in StepsOf(call'[x].op)
          /\ lock' = x => pc'[x] \notin {"begin", "done"}
          /\ lock' # x /\ pc'[x] \notin {"begin", "done"} =>
               item'[x] = 1 /\ pc'[x] \in (IF call'[x].op = "assess" THEN {"select", "finding"} ELSE {"asset"})
          /\ pc'[x] = "begin" => item'[x] = 1
          /\ pc'[x] = "commit" => item'[x] = Len(call'[x].items)
          /\ pc'[x] # "done" <=> result'[x] = None
    BY <1>1, <1>2, <1>4 DEF StoreInvariant, LockedWhenWriting
  <2> QED BY <1>1, <1>2, <2>1, <2>2, <2>3 DEF LockedWhenWriting
<1>6. WorkIsCallSoFar'
  <2>1. SUFFICES ASSUME NEW x \in Writers, NEW t \in Appended, lock' = x
                 PROVE  work'[t] = db'[t] \cup SoFar(x, t)' /\ SoFar(x, t)' \cap db'[t] = {}
    BY DEF WorkIsCallSoFar
  <2>2. x # w /\ lock = x /\ UNCHANGED <<db, work>>
    BY <1>3, <2>1
  <2>3. SoFar(x, t)' = SoFar(x, t)
    BY <1>1, <1>2, <2>2, SoFarOfOther
  <2> QED BY <2>2, <2>3 DEF StoreInvariant, WorkIsCallSoFar
<1>7. KeepsAssets(db, work)'
  <2>1. CASE work' = db'
    BY <2>1 DEF KeepsAssets
  <2>2. CASE UNCHANGED <<db, work>>
    BY <2>2 DEF StoreInvariant, KeepsAssets
  <2> QED BY <2>1, <2>2
<1>8. SnapshotIsGrounded'
  BY <1>2 DEF StoreInvariant, SnapshotIsGrounded
<1> QED BY <1>5, <1>6, <1>7, <1>8 DEF StoreInvariant

\* A commit keeps it, and no asset is lost by it.
LEMMA CommitStep ==
  ASSUME TypeOK, StoreInvariant, NEW w \in Writers, Commit(w)
  PROVE  /\ StoreInvariant'
         /\ KeepsAssets(db, db')
<1>1. /\ pc[w] = "commit" /\ db' = work /\ lock' = None /\ work' = work
      /\ Goto(w, "done") /\ End(w, "stored") /\ UNCHANGED <<call, item, reading>>
  BY DEF Commit
<1>2. lock = w /\ \A t \in Appended : db[t] \subseteq work[t]
  BY <1>1, CommitIsWhole
<1>3. "stored" # None
  BY NoneAssumption
<1>4. StoreInvariant'
  BY <1>1, <1>2, <1>3, EndKeepsInvariant
<1>5. KeepsAssets(db, db')
  BY <1>1 DEF StoreInvariant
<1> QED BY <1>4, <1>5

\* A failure rolls back to the committed rows, which keeps it.
LEMMA FailStep ==
  ASSUME TypeOK, StoreInvariant, NEW w \in Writers, Fail(w)
  PROVE  StoreInvariant'
<1>1. /\ db' = db /\ Goto(w, "done") /\ End(w, "failed") /\ UNCHANGED <<call, item, reading>>
      /\ \/ lock = w /\ lock' = None /\ work' = db'
         \/ lock # w /\ UNCHANGED <<db, work, lock>>
  BY DEF Fail
<1>2. "failed" # None
  BY NoneAssumption
<1> QED BY <1>1, <1>2, EndKeepsInvariant

\* A reader does not disturb the writers.
LEMMA ReadStep ==
  ASSUME TypeOK, StoreInvariant, NEW r \in Readers, Read(r)
  PROVE  StoreInvariant'
<1>1. /\ UNCHANGED <<db, work, lock, call, pc, item>>
      /\ \A w \in Writers : result'[w] = result[w]
  BY StrictAssumption DEF Read, Select, Accept, Reject, End, TypeOK
<1>2. LockedWhenWriting'
  BY <1>1 DEF StoreInvariant, LockedWhenWriting
<1>3. WorkIsCallSoFar'
  <2>1. \A x \in Writers, t \in Appended : SoFar(x, t)' = SoFar(x, t)
    BY <1>1, SoFarOfOther
  <2> QED BY <1>1, <2>1 DEF StoreInvariant, WorkIsCallSoFar
<1>4. KeepsAssets(db, work)'
  BY <1>1 DEF StoreInvariant, KeepsAssets
<1>5. SnapshotIsGrounded'
  <2>1. CASE Select(r)
    <3> DEFINE u == ReadOrder[next[r]]
               rows == RowsFor(db, u, AssetOf[r])
    <3>1. snap' = [snap EXCEPT ![r] = [@ EXCEPT ![u] = rows]] /\ next[r] \in 1..5
      BY <2>1 DEF Select, TypeOK, ReadOrder, Tables
    <3>2. u \in {"assets", "observations", "findings", "decisions", "plans"}
      BY <3>1 DEF ReadOrder, Tables
    <3>3. rows \subseteq db[u]
      BY <3>2, RowsForAreRows DEF TypeOK
    <3> HIDE DEF u, rows
    <3>4. ASSUME NEW x \in Readers, NEW t \in Appended PROVE snap'[x][t] \subseteq db[t]
      <4>1. snap[x][t] \subseteq db[t]
        BY DEF StoreInvariant, SnapshotIsGrounded
      <4>2. CASE x = r /\ t = u
        BY <3>1, <3>2, <3>3, <4>2 DEF TypeOK, Stores
      <4>3. CASE ~(x = r /\ t = u)
        <5>1. snap'[x][t] = snap[x][t]
          BY <3>1, <3>2, <4>3 DEF TypeOK, Stores
        <5> QED BY <4>1, <5>1
      <4> QED BY <4>2, <4>3
    <3> QED BY <1>1, <3>4 DEF SnapshotIsGrounded
  <2>2. CASE Accept(r) \/ Reject(r)
    BY <1>1, <2>2 DEF Accept, Reject, reading, StoreInvariant, SnapshotIsGrounded
  <2> QED BY <2>1, <2>2 DEF Read
<1> QED BY <1>2, <1>3, <1>4, <1>5 DEF StoreInvariant

\* The invariant holds before any call.
LEMMA StoreInvariantInit == Init => StoreInvariant
<1> SUFFICES ASSUME Init PROVE StoreInvariant
  OBVIOUS
<1>1. \A w \in Writers : pc[w] = "begin" /\ item[w] = 1 /\ result[w] = None /\ lock # w
  BY NoneAssumption DEF Init
<1>2. LockedWhenWriting
  <2>1. \A w \in Writers : "begin" \in StepsOf(call[w].op)
    BY DEF StepsOf
  <2> QED BY <1>1, <2>1 DEF LockedWhenWriting
<1>3. WorkIsCallSoFar
  BY <1>1 DEF WorkIsCallSoFar
<1>4. KeepsAssets(db, work)
  BY DEF Init, KeepsAssets, Empty
<1>5. SnapshotIsGrounded
  BY DEF Init, SnapshotIsGrounded, Empty, Appended
<1> QED BY <1>2, <1>3, <1>4, <1>5 DEF StoreInvariant

\* Every step keeps it.
LEMMA StoreInvariantStep == TypeOK /\ StoreInvariant /\ [Next]_vars => StoreInvariant'
<1> SUFFICES ASSUME TypeOK, StoreInvariant, [Next]_vars PROVE StoreInvariant'
  OBVIOUS
<1>1. ASSUME NEW w \in Writers, Write(w) PROVE StoreInvariant'
  BY <1>1, BeginStep, InsertAssetStep, InsertObservationsStep, SelectObservationsStep,
     InsertFindingStep, InsertDecisionStep, InsertPlanStep, CommitStep, FailStep DEF Write
<1>2. ASSUME NEW r \in Readers, Read(r) PROVE StoreInvariant'
  BY <1>2, ReadStep
<1>3. CASE UNCHANGED vars
  <2>1. UNCHANGED <<db, work, lock, call, pc, item, next, snap, result>>
    BY <1>3 DEF vars, reading
  <2>2. \A x \in Writers, t \in Appended : SoFar(x, t)' = SoFar(x, t)
    BY <2>1, SoFarOfOther
  <2>3. LockedWhenWriting'
    BY <2>1 DEF StoreInvariant, LockedWhenWriting
  <2>4. WorkIsCallSoFar'
    BY <2>1, <2>2 DEF StoreInvariant, WorkIsCallSoFar
  <2>5. KeepsAssets(db, work)' /\ SnapshotIsGrounded'
    BY <2>1 DEF StoreInvariant, KeepsAssets, SnapshotIsGrounded
  <2> QED BY <2>3, <2>4, <2>5 DEF StoreInvariant
<1> QED BY <1>1, <1>2, <1>3 DEF Next

\* The inductive invariant: only the holder of the lock has written, and its working copy is
\* the database and what its call has added, all of it new.
THEOREM TransactionsAreCoherent == Spec => []StoreInvariant
<1>1. Init => TypeOK /\ StoreInvariant
  BY StoreTypeInit, StoreInvariantInit
<1>2. TypeOK /\ StoreInvariant /\ [Next]_vars => (TypeOK /\ StoreInvariant)'
  BY StoreTypeStep, StoreInvariantStep
<1> QED BY <1>1, <1>2, PTL DEF Spec

\* What readers have fetched of the append-only tables is committed, now and later.
THEOREM SnapshotsAreGrounded == Spec => []SnapshotIsGrounded
<1>1. StoreInvariant => SnapshotIsGrounded
  BY DEF StoreInvariant
<1> QED BY <1>1, TransactionsAreCoherent, PTL

\* No call removes an asset or gives it another creation time.
THEOREM AllAssetsAreKept == Spec => AssetsAreKept
<1>1. TypeOK /\ StoreInvariant /\ [Next]_vars => [KeepsAssets(db, db')]_vars
  <2> SUFFICES ASSUME TypeOK, StoreInvariant, Next PROVE KeepsAssets(db, db')
    OBVIOUS
  <2>1. ASSUME NEW w \in Writers, Commit(w) PROVE KeepsAssets(db, db')
    BY <2>1, CommitStep
  <2>2. ASSUME db' = db PROVE KeepsAssets(db, db')
    BY <2>2 DEF KeepsAssets
  <2>3. ASSUME NEW w \in Writers, Write(w) PROVE Commit(w) \/ db' = db
    BY <2>3 DEF Write, Begin, InsertAsset, InsertObservations, SelectObservations, InsertFinding,
                InsertDecision, InsertPlan, Fail, Inserted
  <2>4. ASSUME NEW r \in Readers, Read(r) PROVE db' = db
    BY <2>4 DEF Read, Select, Accept, Reject
  <2> QED BY <2>1, <2>2, <2>3, <2>4 DEF Next
<1>2. Spec => [](TypeOK /\ StoreInvariant)
  BY StoreTypeCorrect, TransactionsAreCoherent, PTL
<1> QED BY <1>1, <1>2, PTL DEF Spec, AssetsAreKept

-------------------------------------------------------------------------------
(* The database implements EvidenceLedger.                                 *)

Rows == UNION {{t} \X db[t] : t \in Appended}
Outcomes == [w \in Writers |-> result[w]]

\* The rows of the abstract ledger are those of the append-only tables.
LEMMA RowsAre ==
  /\ \A x : x \in Rows <=> \E t \in Appended : \E row \in db[t] : x = <<t, row>>
  /\ \A x : x \in Rows' <=> \E t \in Appended : \E row \in db'[t] : x = <<t, row>>
<1>1. \A x : x \in Rows <=> \E t \in Appended : x \in {t} \X db[t]
  BY DEF Rows
<1>2. \A x : x \in Rows' <=> \E t \in Appended : x \in {t} \X db'[t]
  BY DEF Rows
<1> QED BY <1>1, <1>2

\* The rows a call appends are those its items add.
LEMMA CallRowsAre ==
  ASSUME TypeOK, NEW w \in Writers
  PROVE  \A x : x \in CallRows(call[w]) <=>
           \E t \in Appended, i \in 1..Len(call[w].items) : \E row \in AddedBy(call[w].op, t, call[w].items[i]) :
             x = <<t, row>>
<1>1. DOMAIN call[w].items = 1..Len(call[w].items)
  BY NowIsItem, CallsAssumption
<1>2. \A x : x \in CallRows(call[w]) <=>
        \E t \in Appended, i \in DOMAIN call[w].items :
          x \in {t} \X AddedBy(call[w].op, t, call[w].items[i])
  BY DEF CallRows
<1> QED BY <1>1, <1>2

\* A commit appends the rows of its call, all of them new.
LEMMA CommitAppends ==
  ASSUME TypeOK, StoreInvariant, NEW w \in Writers, Commit(w)
  PROVE  /\ CallRows(call[w]) \cap Rows = {}
         /\ Rows' = Rows \cup CallRows(call[w])
<1>1. pc[w] = "commit" /\ db' = work
  BY DEF Commit
<1>2. /\ \A t \in Appended : db'[t] = db[t] \cup SoFar(w, t) /\ SoFar(w, t) \cap db[t] = {}
      /\ \A t \in Appended : \A row :
           row \in SoFar(w, t) <=>
             \E i \in 1..Len(call[w].items) : row \in AddedBy(call[w].op, t, call[w].items[i])
  BY <1>1, CommitIsWhole
<1>3. \A x : x \in CallRows(call[w]) <=> \E t \in Appended : \E row \in SoFar(w, t) : x = <<t, row>>
  BY <1>2, CallRowsAre
<1>4. \A x : ~(x \in CallRows(call[w]) /\ x \in Rows)
  <2> SUFFICES ASSUME NEW x, x \in CallRows(call[w]), x \in Rows PROVE FALSE
    OBVIOUS
  <2>1. PICK t \in Appended : \E row \in SoFar(w, t) : x = <<t, row>>
    BY <1>3
  <2>2. PICK row \in SoFar(w, t) : x = <<t, row>>
    BY <2>1
  <2>3. PICK u \in Appended : \E other \in db[u] : x = <<u, other>>
    BY RowsAre
  <2>4. PICK other \in db[u] : x = <<u, other>>
    BY <2>3
  <2>5. t = u /\ row = other
    BY <2>2, <2>4
  <2> QED BY <1>2, <2>5
<1>5. \A x : x \in Rows' <=> x \in Rows \/ x \in CallRows(call[w])
  BY <1>2, <1>3, RowsAre
<1> QED BY <1>4, <1>5

\* The end of a call is an outcome in the ledger.
LEMMA EndOfWriter ==
  ASSUME TypeOK, NEW w \in Writers, NEW how, End(w, how)
  PROVE  Outcomes' = [Outcomes EXCEPT ![w] = how]
BY DEF End, Outcomes, TypeOK

\* Every step is a step of the ledger or leaves it as it is.
LEMMA LedgerStep == TypeOK /\ StoreInvariant /\ [Next]_vars => [Ledger!Next]_<<call, Rows, Outcomes>>
<1> SUFFICES ASSUME TypeOK, StoreInvariant, [Next]_vars
             PROVE  Ledger!Next \/ UNCHANGED <<call, Rows, Outcomes>>
  BY DEF Rows, Outcomes
<1>1. ASSUME NEW w \in Writers, Commit(w) PROVE Ledger!Append(w)
  <2>1. pc[w] = "commit" /\ End(w, "stored") /\ call' = call
    BY <1>1 DEF Commit
  <2>2. Outcomes[w] = None
    BY <2>1 DEF StoreInvariant, LockedWhenWriting, Outcomes
  <2>3. Outcomes' = [Outcomes EXCEPT ![w] = "stored"]
    BY <2>1, EndOfWriter
  <2>4. CallRows(call[w]) \cap Rows = {} /\ Rows' = Rows \cup CallRows(call[w])
    BY <1>1, CommitAppends
  <2> QED BY <2>1, <2>2, <2>3, <2>4 DEF Ledger!Append, Rows, Outcomes
<1>2. ASSUME NEW w \in Writers, Fail(w) PROVE Ledger!Refuse(w)
  <2>1. pc[w] # "done" /\ End(w, "failed") /\ call' = call /\ db' = db
    BY <1>2 DEF Fail
  <2>2. Outcomes[w] = None
    BY <2>1 DEF StoreInvariant, LockedWhenWriting, Outcomes
  <2>3. Outcomes' = [Outcomes EXCEPT ![w] = "failed"]
    BY <2>1, EndOfWriter
  <2>4. Rows' = Rows
    BY <2>1 DEF Rows
  <2> QED BY <2>1, <2>2, <2>3, <2>4 DEF Ledger!Refuse, Rows, Outcomes
<1>3. ASSUME call' = call, db' = db, \A w \in Writers : result'[w] = result[w]
      PROVE  UNCHANGED <<call, Rows, Outcomes>>
  BY <1>3 DEF Rows, Outcomes
<1>4. ASSUME NEW w \in Writers, Write(w)
      PROVE  Commit(w) \/ Fail(w) \/ (call' = call /\ db' = db /\ result' = result)
  BY <1>4 DEF Write, Begin, InsertAsset, InsertObservations, SelectObservations, InsertFinding,
              InsertDecision, InsertPlan, Inserted
<1>5. ASSUME NEW r \in Readers, Read(r)
      PROVE  call' = call /\ db' = db /\ \A w \in Writers : result'[w] = result[w]
  BY <1>5, StrictAssumption DEF Read, Select, Accept, Reject, End, TypeOK
<1>6. CASE UNCHANGED vars
  BY <1>3, <1>6 DEF vars
<1>7. CASE Next
  <2>1. ASSUME NEW w \in Writers, Write(w) PROVE Ledger!Next \/ UNCHANGED <<call, Rows, Outcomes>>
    BY <2>1, <1>1, <1>2, <1>3, <1>4 DEF Ledger!Next
  <2>2. ASSUME NEW r \in Readers, Read(r) PROVE UNCHANGED <<call, Rows, Outcomes>>
    BY <2>2, <1>3, <1>5
  <2> QED BY <1>7, <2>1, <2>2 DEF Next
<1> QED BY <1>6, <1>7

\* The ledger is empty at first.
LEMMA LedgerInit == Init => Ledger!Init
<1> SUFFICES ASSUME Init PROVE Ledger!Init
  OBVIOUS
<1>1. \A x : x \notin Rows
  BY RowsAre DEF Init, Empty, Appended
<1>2. Rows = {} /\ Outcomes = [w \in Writers |-> None] /\ call \in [Writers -> Calls]
  BY <1>1 DEF Init, Outcomes
<1> QED BY <1>2 DEF Ledger!Init, Rows, Outcomes

\* The database implements EvidenceLedger: each call appends all its rows in one step, the
\* commit, or none, and no row is ever changed or removed.
THEOREM StoreIsLedger == Spec => ImplementsLedger
<1>1. Init => Ledger!Init
  BY LedgerInit
<1>2. TypeOK /\ StoreInvariant /\ [Next]_vars => [Ledger!Next]_<<call, Rows, Outcomes>>
  BY LedgerStep
<1>3. Spec => [](TypeOK /\ StoreInvariant)
  BY StoreTypeCorrect, TransactionsAreCoherent, PTL
<1> QED BY <1>1, <1>2, <1>3, PTL DEF Spec, ImplementsLedger, Ledger!Spec, Rows, Outcomes

-------------------------------------------------------------------------------
(* Lineage: what each statement does to linked rows.                       *)

\* After an upsert the assets are those before and the one given.
LEMMA UpsertIs ==
  ASSUME NEW d \in Stores, NEW b
  PROVE  /\ \A a : HasAsset(Upsert(d, b), a) <=> HasAsset(d, a) \/ a = b.asset
         /\ \A row \in Upsert(d, b).assets : row.asset = b.asset \/ HasAsset(d, row.asset)
         /\ \A t \in Appended : Upsert(d, b)[t] = d[t]
<1>1. \A row \in d.assets : [row EXCEPT !.updated = b.created].asset = row.asset
  BY DEF Stores
<1>2. CASE HasAsset(d, b.asset)
  <2>1. Upsert(d, b).assets = {IF row.asset = b.asset THEN [row EXCEPT !.updated = b.created] ELSE row :
                                 row \in d.assets}
    BY <1>2 DEF Upsert, Stores
  <2>2. \A a : HasAsset(Upsert(d, b), a) <=> HasAsset(d, a)
    BY <1>1, <2>1 DEF HasAsset
  <2>3. \A t \in Appended : Upsert(d, b)[t] = d[t]
    BY DEF Upsert, Appended, Stores
  <2>4. \A row \in Upsert(d, b).assets : HasAsset(d, row.asset)
    BY <2>2 DEF HasAsset
  <2> QED BY <1>2, <2>2, <2>3, <2>4
<1>3. CASE ~HasAsset(d, b.asset)
  <2>1. Upsert(d, b).assets = d.assets \cup {[asset |-> b.asset, created |-> b.created, updated |-> b.created]}
    BY <1>3 DEF Upsert, Stores
  <2>2. \A a : HasAsset(Upsert(d, b), a) <=> HasAsset(d, a) \/ a = b.asset
    <3> DEFINE new == [asset |-> b.asset, created |-> b.created, updated |-> b.created]
    <3>1. new.asset = b.asset /\ Upsert(d, b).assets = d.assets \cup {new}
      BY <2>1
    <3> HIDE DEF new
    <3> QED BY <3>1 DEF HasAsset
  <2>3. \A t \in Appended : Upsert(d, b)[t] = d[t]
    BY DEF Upsert, Appended, Stores
  <2>4. \A row \in Upsert(d, b).assets : row.asset = b.asset \/ HasAsset(d, row.asset)
    <3>1. \A row \in d.assets : HasAsset(d, row.asset)
      BY DEF HasAsset
    <3>2. \A row \in Upsert(d, b).assets :
            row \in d.assets \/ row = [asset |-> b.asset, created |-> b.created, updated |-> b.created]
      BY <2>1
    <3> QED BY <3>1, <3>2
  <2> QED BY <2>2, <2>3, <2>4
<1> QED BY <1>2, <1>3

\* An INSERT or update of an asset leaves its claims to be inserted.
LEMMA AssetStaysLinked ==
  ASSUME NEW d \in Stores, NEW b, LinkedBut(d, {}, {})
  PROVE  LinkedBut(Upsert(d, b), {b.asset}, {})
<1> DEFINE e == Upsert(d, b)
<1>1. /\ e.observations = d.observations /\ e.findings = d.findings
      /\ e.decisions = d.decisions /\ e.plans = d.plans
  <2>1. \A t \in Appended : e[t] = d[t]
    BY UpsertIs
  <2> HIDE DEF e
  <2> QED BY <2>1 DEF Appended
<1>2. /\ \A a : HasAsset(d, a) => HasAsset(e, a)
      /\ \A row \in e.assets : row.asset = b.asset \/ HasAsset(d, row.asset)
  BY UpsertIs
<1> HIDE DEF e
<1>3. \A row \in e.assets : row.asset \in {b.asset} \/ RetainedOf(e, row.asset) # {}
  BY <1>1, <1>2 DEF LinkedBut, HasAsset, RetainedOf
<1> QED
  <2>1. LinkedBut(e, {b.asset}, {})
    BY <1>1, <1>2, <1>3 DEF LinkedBut
  <2> QED BY <2>1 DEF e

\* The claims of b, at least one, none of them retained before.
LEMMA ObservationsStayLinked ==
  ASSUME NEW d \in Stores, NEW b, LinkedBut(d, {b.asset}, {}), ObservationsAllowed(d, b), b.keys # {}
  PROVE  LinkedBut([d EXCEPT !.observations = @ \cup ObservationRows(b)], {}, {})
<1> DEFINE e == [d EXCEPT !.observations = @ \cup ObservationRows(b)]
<1>1. /\ e.assets = d.assets /\ e.observations = d.observations \cup ObservationRows(b)
      /\ e.findings = d.findings /\ e.decisions = d.decisions /\ e.plans = d.plans
  BY DEF Stores
<1> HIDE DEF e
<1>2. \A row \in ObservationRows(b) : row.asset = b.asset /\ row.key \in b.keys /\ row.at = b.observed
  BY DEF ObservationRows
<1>3. ObservationRows(b) # {}
  BY DEF ObservationRows
<1>4. \A row \in e.assets : RetainedOf(e, row.asset) # {}
  <2> SUFFICES ASSUME NEW row \in e.assets PROVE RetainedOf(e, row.asset) # {}
    OBVIOUS
  <2>1. CASE row.asset = b.asset
    BY <1>1, <1>2, <1>3, <2>1 DEF RetainedOf
  <2>2. CASE row.asset # b.asset
    BY <1>1, <2>2 DEF LinkedBut, RetainedOf
  <2> QED BY <2>1, <2>2
<1>5. \A o1, o2 \in e.observations : o1.key = o2.key => o1 = o2
  <2>1. \A o1, o2 \in ObservationRows(b) : o1.key = o2.key => o1 = o2
    BY DEF ObservationRows
  <2>2. \A o1 \in d.observations, o2 \in ObservationRows(b) : o1.key # o2.key
    BY <1>2 DEF ObservationsAllowed
  <2>3. \A o1, o2 \in d.observations : o1.key = o2.key => o1 = o2
    BY DEF LinkedBut
  <2> QED BY <1>1, <2>1, <2>2, <2>3
<1>6. \A row \in e.observations \cup e.decisions \cup e.findings : HasAsset(e, row.asset)
  BY <1>1, <1>2 DEF LinkedBut, ObservationsAllowed, HasAsset
<1> QED
  <2>1. LinkedBut(e, {}, {})
    BY <1>1, <1>4, <1>5, <1>6 DEF LinkedBut
  <2> QED BY <2>1 DEF e

\* A finding, new by its identifier: its plan cannot be there yet.
LEMMA FindingStaysLinked ==
  ASSUME NEW d \in Stores, NEW b, LinkedBut(d, {}, {}), FindingAllowed(d, b)
  PROVE  LinkedBut([d EXCEPT !.findings = @ \cup {FindingRow(b)}], {}, {b.finding})
<1> DEFINE e == [d EXCEPT !.findings = @ \cup {FindingRow(b)}]
<1>1. /\ e.assets = d.assets /\ e.observations = d.observations
      /\ e.findings = d.findings \cup {FindingRow(b)} /\ e.decisions = d.decisions /\ e.plans = d.plans
  BY DEF Stores
<1> HIDE DEF e
<1>2. FindingRow(b).finding = b.finding /\ FindingRow(b).asset = b.asset
  BY DEF FindingRow
<1>3. \A f \in d.findings : f.finding # b.finding
  BY DEF FindingAllowed
<1>4. \A row \in e.assets : RetainedOf(e, row.asset) # {}
  BY <1>1 DEF LinkedBut, RetainedOf
<1>5. \A row \in e.observations \cup e.decisions \cup e.findings : HasAsset(e, row.asset)
  BY <1>1, <1>2 DEF LinkedBut, FindingAllowed, HasAsset
<1>6. \A f, g \in e.findings : f.finding = g.finding => f = g
  <2>1. \A f, g \in d.findings : f.finding = g.finding => f = g
    BY DEF LinkedBut
  <2> QED BY <1>1, <1>2, <1>3, <2>1
<1>7. \A f \in e.findings : f.finding \in {b.finding}
                         \/ /\ \E row \in e.decisions : row.asset = f.asset
                            /\ \E p \in e.plans : p.finding = f.finding
  BY <1>1, <1>2 DEF LinkedBut
<1>8. \A p \in e.plans : \E f \in e.findings : f.finding = p.finding
  BY <1>1, <1>3 DEF LinkedBut
<1> QED
  <2>1. LinkedBut(e, {}, {b.finding})
    BY <1>1, <1>4, <1>5, <1>6, <1>7, <1>8 DEF LinkedBut
  <2> QED BY <2>1 DEF e

\* A decision about the asset of the finding: the plan is still to come.
LEMMA DecisionStaysLinked ==
  ASSUME NEW d \in Stores, NEW b, LinkedBut(d, {}, {b.finding}), DecisionAllowed(d, b)
  PROVE  LinkedBut([d EXCEPT !.decisions = @ \cup {DecisionRow(b)}], {}, {b.finding})
<1> DEFINE e == [d EXCEPT !.decisions = @ \cup {DecisionRow(b)}]
<1>1. /\ e.assets = d.assets /\ e.observations = d.observations
      /\ e.findings = d.findings /\ e.decisions = d.decisions \cup {DecisionRow(b)} /\ e.plans = d.plans
  BY DEF Stores
<1> HIDE DEF e
<1>2. DecisionRow(b).asset = b.asset
  BY DEF DecisionRow
<1>3. \A row \in e.assets : RetainedOf(e, row.asset) # {}
  BY <1>1 DEF LinkedBut, RetainedOf
<1>4. \A row \in e.observations \cup e.decisions \cup e.findings : HasAsset(e, row.asset)
  BY <1>1, <1>2 DEF LinkedBut, DecisionAllowed, HasAsset
<1> QED
  <2>1. LinkedBut(e, {}, {b.finding})
    BY <1>1, <1>3, <1>4 DEF LinkedBut
  <2> QED BY <2>1 DEF e

\* The plan of the finding under way closes it.
LEMMA PlanStaysLinked ==
  ASSUME NEW d \in Stores, NEW b, LinkedBut(d, {}, {b.finding}),
         FindingRow(b) \in d.findings, DecisionRow(b) \in d.decisions
  PROVE  LinkedBut([d EXCEPT !.plans = @ \cup {PlanRow(b)}], {}, {})
<1> DEFINE e == [d EXCEPT !.plans = @ \cup {PlanRow(b)}]
<1>1. /\ e.assets = d.assets /\ e.observations = d.observations
      /\ e.findings = d.findings /\ e.decisions = d.decisions /\ e.plans = d.plans \cup {PlanRow(b)}
  BY DEF Stores
<1> HIDE DEF e
<1>2. /\ PlanRow(b).finding = b.finding /\ DecisionRow(b).asset = b.asset
      /\ FindingRow(b).finding = b.finding /\ FindingRow(b).asset = b.asset
  BY DEF PlanRow, DecisionRow, FindingRow
<1>3. \A row \in e.assets : RetainedOf(e, row.asset) # {}
  BY <1>1 DEF LinkedBut, RetainedOf
<1>4. \A row \in e.observations \cup e.decisions \cup e.findings : HasAsset(e, row.asset)
  BY <1>1 DEF LinkedBut, HasAsset
<1>5. \A f \in e.findings : /\ \E row \in e.decisions : row.asset = f.asset
                            /\ \E p \in e.plans : p.finding = f.finding
  <2> SUFFICES ASSUME NEW f \in e.findings
               PROVE  /\ \E row \in e.decisions : row.asset = f.asset
                      /\ \E p \in e.plans : p.finding = f.finding
    OBVIOUS
  <2>1. CASE f.finding = b.finding
    <3>1. f = FindingRow(b)
      BY <1>1, <1>2, <2>1 DEF LinkedBut
    <3> QED BY <1>1, <1>2, <3>1
  <2>2. CASE f.finding # b.finding
    BY <1>1, <2>2 DEF LinkedBut
  <2> QED BY <2>1, <2>2
<1>6. \A p \in e.plans : \E f \in e.findings : f.finding = p.finding
  BY <1>1, <1>2 DEF LinkedBut
<1> QED
  <2>1. LinkedBut(e, {}, {})
    BY <1>1, <1>3, <1>4, <1>5, <1>6 DEF LinkedBut
  <2> QED BY <2>1 DEF e

-------------------------------------------------------------------------------
(* ... and what each step of a writer does.                                *)

\* What a writer about to INSERT sees is linked, but for the item it is at.
LEMMA SeenIsLinked ==
  ASSUME TypeOK, StoreInvariant, LinkedWithin, NEW w \in Writers,
         pc[w] \notin {"begin", "done"}, lock \in {None, w}
  PROVE  LinkedBut(Seen(w), AssetAt(w), FindingAt(w))
<1>1. CASE lock = w
  BY <1>1 DEF Seen, LinkedWithin
<1>2. CASE lock # w
  <2>1. pc[w] \in {"select", "finding", "asset"}
    BY <1>2 DEF StoreInvariant, LockedWhenWriting
  <2> QED BY <1>2, <2>1 DEF Seen, LinkedWithin, AssetAt, FindingAt
<1> QED BY <1>1, <1>2

\* An INSERT of w keeps the lineage if its new working copy is linked, but for the item at hand.
LEMMA InsertKeepsLinked ==
  ASSUME TypeOK, LinkedWithin, NEW w \in Writers, NEW d, Inserted(w, d),
         LinkedBut(d, AssetAt(w)', FindingAt(w)')
  PROVE  LinkedWithin'
<1>1. lock' = w /\ work' = d /\ db' = db
  BY DEF Inserted
<1>2. \A x \in Writers : lock' = x => x = w
  BY <1>1
<1>3. LinkedBut(db, {}, {})'
  BY <1>1 DEF LinkedWithin
<1>4. LinkedBut(work', AssetAt(w)', FindingAt(w)')
  BY <1>1
<1> HIDE DEF LinkedBut
<1> QED BY <1>2, <1>3, <1>4 DEF LinkedWithin

\* Where the item at hand is after a step of the call.
LEMMA AtNext ==
  ASSUME TypeOK, NEW w \in Writers, call' = call
  PROVE  /\ NextItem(w) => AssetAt(w)' = {} /\ FindingAt(w)' = {}
         /\ \A to : (Goto(w, to) /\ UNCHANGED item) =>
              /\ AssetAt(w)' = IF to = "observations" THEN {Now(w).asset} ELSE {}
              /\ FindingAt(w)' = IF to \in {"decision", "plan"} THEN {Now(w).finding} ELSE {}
<1>1. \A to : Goto(w, to) => pc'[w] = to
  BY DEF Goto, TypeOK
<1>2. NextItem(w) => pc'[w] \in {"select", "asset", "commit"}
  BY <1>1 DEF NextItem, First
<1> QED BY <1>1, <1>2 DEF AssetAt, FindingAt, Now

\* Every INSERT leaves the links that the next statement expects.
LEMMA LinkedInsertStep ==
  ASSUME TypeOK, StoreInvariant, LinkedWithin, NEW w \in Writers,
         InsertAsset(w) \/ InsertObservations(w) \/ InsertFinding(w) \/ InsertDecision(w) \/ InsertPlan(w)
  PROVE  LinkedWithin'
<1> DEFINE s == Seen(w)
           b == Now(w)
<1>1. pc[w] \notin {"begin", "done"} /\ lock \in {None, w} /\ call' = call
  BY DEF InsertAsset, InsertObservations, InsertFinding, InsertDecision, InsertPlan, Inserted
<1>2. s \in Stores /\ LinkedBut(s, AssetAt(w), FindingAt(w))
  BY <1>1, SeenIsStore, SeenIsLinked
<1>3. b.keys # {}
  <2>1. call[w] \in Calls /\ item[w] \in DOMAIN call[w].items
    BY NowIsItem, CallsAssumption
  <2> QED BY <2>1, ClaimsAssumption DEF Now
<1>4. CASE InsertAsset(w)
  <2>1. pc[w] = "asset" /\ Inserted(w, Upsert(s, b)) /\ Goto(w, "observations") /\ UNCHANGED item
    BY <1>4 DEF InsertAsset
  <2>2. AssetAt(w) = {} /\ FindingAt(w) = {} /\ AssetAt(w)' = {b.asset} /\ FindingAt(w)' = {}
    BY <1>1, <2>1, AtNext DEF AssetAt, FindingAt
  <2> HIDE DEF s, b
  <2>3. LinkedBut(Upsert(s, b), {b.asset}, {})
    BY <1>2, <2>2, AssetStaysLinked
  <2> QED BY <2>1, <2>2, <2>3, InsertKeepsLinked
<1>5. CASE InsertObservations(w)
  <2>1. /\ pc[w] = "observations" /\ ObservationsAllowed(s, b)
        /\ Inserted(w, [s EXCEPT !.observations = @ \cup ObservationRows(b)])
        /\ NextItem(w) \/ (Goto(w, "finding") /\ UNCHANGED item)
    BY <1>5 DEF InsertObservations
  <2>2. AssetAt(w) = {b.asset} /\ FindingAt(w) = {} /\ AssetAt(w)' = {} /\ FindingAt(w)' = {}
    <3>1. AssetAt(w)' = {} /\ FindingAt(w)' = {}
      BY <1>1, <2>1, AtNext
    <3>2. AssetAt(w) = {b.asset} /\ FindingAt(w) = {}
      BY <2>1 DEF AssetAt, FindingAt
    <3> QED BY <3>1, <3>2
  <2> HIDE DEF s, b
  <2>3. LinkedBut([s EXCEPT !.observations = @ \cup ObservationRows(b)], {}, {})
    BY <1>2, <1>3, <2>1, <2>2, ObservationsStayLinked
  <2> QED BY <2>1, <2>2, <2>3, InsertKeepsLinked
<1>6. CASE InsertFinding(w)
  <2>1. /\ pc[w] = "finding" /\ FindingAllowed(s, b)
        /\ Inserted(w, [s EXCEPT !.findings = @ \cup {FindingRow(b)}])
        /\ Goto(w, "decision") /\ UNCHANGED item
    BY <1>6 DEF InsertFinding
  <2>2. AssetAt(w) = {} /\ FindingAt(w) = {} /\ AssetAt(w)' = {} /\ FindingAt(w)' = {b.finding}
    BY <1>1, <2>1, AtNext DEF AssetAt, FindingAt
  <2> HIDE DEF s, b
  <2>3. LinkedBut([s EXCEPT !.findings = @ \cup {FindingRow(b)}], {}, {b.finding})
    BY <1>2, <2>1, <2>2, FindingStaysLinked
  <2> QED BY <2>1, <2>2, <2>3, InsertKeepsLinked
<1>7. CASE InsertDecision(w)
  <2>1. /\ pc[w] = "decision" /\ DecisionAllowed(s, b)
        /\ Inserted(w, [s EXCEPT !.decisions = @ \cup {DecisionRow(b)}])
        /\ Goto(w, "plan") /\ UNCHANGED item
    BY <1>7 DEF InsertDecision
  <2>2. AssetAt(w) = {} /\ FindingAt(w) = {b.finding} /\ AssetAt(w)' = {} /\ FindingAt(w)' = {b.finding}
    BY <1>1, <2>1, AtNext DEF AssetAt, FindingAt
  <2> HIDE DEF s, b
  <2>3. LinkedBut([s EXCEPT !.decisions = @ \cup {DecisionRow(b)}], {}, {b.finding})
    BY <1>2, <2>1, <2>2, DecisionStaysLinked
  <2> QED BY <2>1, <2>2, <2>3, InsertKeepsLinked
<1>8. CASE InsertPlan(w)
  <2>1. /\ pc[w] = "plan" /\ Inserted(w, [s EXCEPT !.plans = @ \cup {PlanRow(b)}]) /\ NextItem(w)
    BY <1>8 DEF InsertPlan
  <2>2. AssetAt(w) = {} /\ FindingAt(w) = {b.finding} /\ AssetAt(w)' = {} /\ FindingAt(w)' = {}
    BY <1>1, <2>1, AtNext DEF AssetAt, FindingAt
  <2>3. FindingRow(b) \in s.findings /\ DecisionRow(b) \in s.decisions
    <3>1. \A t \in {"findings", "decisions"} : Behind(w, t, item[w])
      BY <2>1, AfterIs DEF Behind
    <3>2. AddedBy(call[w].op, "findings", b) = {FindingRow(b)} /\ AddedBy(call[w].op, "decisions", b) = {DecisionRow(b)}
      BY <2>1, OpOf DEF AddedBy
    <3>3. item[w] \in 1..Len(call[w].items)
      BY NowIsItem
    <3>4. FindingRow(b) \in SoFar(w, "findings") /\ DecisionRow(b) \in SoFar(w, "decisions")
      BY <3>1, <3>2, <3>3, SoFarRows DEF Appended, Now
    <3>5. \A t \in Appended : s[t] = db[t] \cup SoFar(w, t)
      BY <1>1, SeenIsSoFar
    <3> QED BY <3>4, <3>5 DEF Appended
  <2> HIDE DEF s, b
  <2>4. LinkedBut([s EXCEPT !.plans = @ \cup {PlanRow(b)}], {}, {})
    BY <1>2, <2>2, <2>3, PlanStaysLinked
  <2> QED BY <2>1, <2>2, <2>4, InsertKeepsLinked
<1> QED BY <1>4, <1>5, <1>6, <1>7, <1>8

\* The database is linked after a commit because the working copy was before it.
LEMMA LinkedStep ==
  ASSUME TypeOK, StoreInvariant, LinkedWithin, [Next]_vars
  PROVE  LinkedWithin'
<1>1. ASSUME NEW w \in Writers,
             InsertAsset(w) \/ InsertObservations(w) \/ InsertFinding(w) \/ InsertDecision(w) \/ InsertPlan(w)
      PROVE  LinkedWithin'
  BY <1>1, LinkedInsertStep
\* The holder of the lock, when it does not move, has the item at hand it had.
<1>2. ASSUME NEW x \in Writers, pc'[x] = pc[x], item'[x] = item[x], call' = call
      PROVE  AssetAt(x)' = AssetAt(x) /\ FindingAt(x)' = FindingAt(x)
  BY <1>2 DEF AssetAt, FindingAt, Now
<1>3. ASSUME UNCHANGED <<db, work, lock>>,
             \A x \in Writers : lock = x => AssetAt(x)' = AssetAt(x) /\ FindingAt(x)' = FindingAt(x)
      PROVE  LinkedWithin'
  <2> HIDE DEF LinkedBut
  <2> QED BY <1>3 DEF LinkedWithin
<1>4. ASSUME NEW w \in Writers, Begin(w) \/ SelectObservations(w) PROVE LinkedWithin'
  <2>1. UNCHANGED <<db, work, lock, call, item>> /\ \E to \in {First(w), "finding"} : Goto(w, to)
    BY <1>4 DEF Begin, SelectObservations
  <2>2. \A x \in Writers \ {w} : pc'[x] = pc[x] /\ item'[x] = item[x]
    BY <2>1 DEF Goto, TypeOK
  <2>3. AssetAt(w)' = {} /\ FindingAt(w)' = {}
    BY <2>1, AtNext DEF First
  <2>4. AssetAt(w) = {} /\ FindingAt(w) = {}
    BY <1>4 DEF Begin, SelectObservations, AssetAt, FindingAt
  <2> QED BY <1>2, <1>3, <2>1, <2>2, <2>3, <2>4
<1>5. ASSUME NEW w \in Writers, Commit(w) PROVE LinkedWithin'
  <2>1. lock = w /\ pc[w] = "commit" /\ db' = work /\ lock' = None
    BY <1>5, CommitIsWhole DEF Commit
  <2>2. LinkedBut(work, {}, {})
    BY <2>1 DEF LinkedWithin, AssetAt, FindingAt
  <2>3. \A x \in Writers : lock' # x
    BY <2>1, NoneAssumption
  <2>4. LinkedBut(db, {}, {})'
    BY <2>1, <2>2
  <2> HIDE DEF LinkedBut
  <2> QED BY <2>3, <2>4 DEF LinkedWithin
<1>6. ASSUME NEW w \in Writers, Fail(w) PROVE LinkedWithin'
  <2>1. db' = db /\ UNCHANGED <<call, item>> /\ Goto(w, "done")
    BY <1>6 DEF Fail
  <2>2. \A x \in Writers \ {w} : pc'[x] = pc[x] /\ item'[x] = item[x]
    BY <2>1 DEF Goto, TypeOK
  <2>3. CASE lock = w
    <3>1. \A x \in Writers : lock' # x
      BY <1>6, <2>3, NoneAssumption DEF Fail
    <3>2. LinkedBut(db, {}, {})'
      BY <2>1 DEF LinkedWithin
    <3> HIDE DEF LinkedBut
    <3> QED BY <3>1, <3>2 DEF LinkedWithin
  <2>4. CASE lock # w
    <3>1. UNCHANGED <<db, work, lock>>
      BY <1>6, <2>4 DEF Fail
    <3> QED BY <1>2, <1>3, <2>1, <2>2, <2>4, <3>1
  <2> QED BY <2>3, <2>4
<1>7. ASSUME UNCHANGED <<db, work, lock, call, pc, item>> PROVE LinkedWithin'
  BY <1>2, <1>3, <1>7
<1>8. ASSUME NEW r \in Readers, Read(r) PROVE LinkedWithin'
  BY <1>7, <1>8 DEF Read, Select, Accept, Reject
<1>9. CASE UNCHANGED vars
  BY <1>7, <1>9 DEF vars
<1> QED BY <1>1, <1>4, <1>5, <1>6, <1>8, <1>9 DEF Next, Write

-------------------------------------------------------------------------------
(* What was compared inside the transaction, and what was stored.          *)

\* An assessment writes no claims, and while it has the lock nobody else does.
LEMMA ComparedStep ==
  ASSUME TypeOK, StoreInvariant, ComparedWithin, [Next]_vars
  PROVE  ComparedWithin'
\* What was behind stays compared, if the claims of the working copy stay.
<1>1. ASSUME NEW w \in Writers, call' = call, lock' = w, call[w].op = "assess",
             work'.observations = Seen(w).observations, lock \in {None, w},
             pc[w] \notin {"begin", "done"},
             \A i \in 1..Len(call[w].items) :
               Behind(w, "observations", i)' =>
                 \/ Behind(w, "observations", i)
                 \/ RetainedOf(Seen(w), call[w].items[i].asset) = ObservationRows(call[w].items[i])
      PROVE  ComparedWithin'
  <2>1. SUFFICES ASSUME NEW x \in Writers, lock' = x, NEW i \in 2..Len(call[x].items),
                        Behind(x, "observations", i)'
                 PROVE  RetainedOf(work', call[x].items[i].asset) = ObservationRows(call[x].items[i])
    BY <1>1 DEF ComparedWithin
  <2>2. x = w /\ i \in 1..Len(call[w].items) /\ i # 1
    BY <1>1, <2>1, NowIsItem
  <2>3. RetainedOf(work', call[w].items[i].asset) = RetainedOf(Seen(w), call[w].items[i].asset)
    BY <1>1 DEF RetainedOf
  <2>4. CASE RetainedOf(Seen(w), call[w].items[i].asset) = ObservationRows(call[w].items[i])
    BY <2>2, <2>3, <2>4
  <2>5. CASE Behind(w, "observations", i)
    <3>1. lock = w
      <4>1. SUFFICES ASSUME lock # w PROVE FALSE
        OBVIOUS
      <4>2. item[w] = 1
        BY <1>1, <4>1 DEF StoreInvariant, LockedWhenWriting
      <4> QED BY <2>2, <2>5, <4>2 DEF Behind
    <3>2. RetainedOf(work, call[w].items[i].asset) = ObservationRows(call[w].items[i])
      BY <1>1, <2>1, <2>2, <2>5, <3>1 DEF ComparedWithin
    <3> QED BY <2>2, <2>3, <3>1, <3>2 DEF Seen
  <2> QED BY <1>1, <2>1, <2>2, <2>4, <2>5
<1>2. ASSUME NEW w \in Writers, InsertAsset(w) \/ InsertObservations(w) PROVE ComparedWithin'
  <2>1. pc[w] \in {"asset", "observations"} /\ lock' = w /\ call' = call
    BY <1>2 DEF InsertAsset, InsertObservations, Inserted
  <2>2. call[w].op # "assess"
    BY <2>1, OpOf
  <2>3. \A x \in Writers : lock' = x => call'[x].op # "assess"
    BY <2>1, <2>2
  <2> QED BY <2>3 DEF ComparedWithin
<1>3. ASSUME NEW w \in Writers, InsertFinding(w) \/ InsertDecision(w) \/ InsertPlan(w) PROVE ComparedWithin'
  <2>1. pc[w] \in {"finding", "decision", "plan"} /\ lock' = w /\ call' = call /\ lock \in {None, w}
    BY <1>3 DEF InsertFinding, InsertDecision, InsertPlan, Inserted
  <2>2. work'.observations = Seen(w).observations
    BY <1>3, SeenIsStore DEF InsertFinding, InsertDecision, InsertPlan, Inserted, Stores
  <2>3. \A i \in 1..Len(call[w].items) : Behind(w, "observations", i)' => Behind(w, "observations", i)
    <3>1. item[w] \in 1..Len(call[w].items) /\ Len(call[w].items) \in Nat /\ pc[w] \in After["observations"]
      BY <2>1, NowIsItem, AfterIs
    <3>2. \A i \in 1..Len(call[w].items) : Behind(w, "observations", i)' => i <= item[w]
      <4>1. CASE InsertPlan(w)
        <5>1. NextItem(w)
          BY <4>1 DEF InsertPlan
        <5> QED BY <2>1, <5>1, NextItemStep DEF Appended
      <4>2. CASE InsertFinding(w) \/ InsertDecision(w)
        <5>1. item' = item
          BY <4>2 DEF InsertFinding, InsertDecision
        <5> QED BY <3>1, <5>1 DEF Behind
      <4> QED BY <1>3, <4>1, <4>2
    <3> QED BY <3>1, <3>2 DEF Behind
  <2>4. CASE call[w].op = "assess"
    BY <1>1, <2>1, <2>2, <2>3, <2>4
  <2>5. CASE call[w].op # "assess"
    BY <2>1, <2>5 DEF ComparedWithin
  <2> QED BY <2>4, <2>5
<1>4. ASSUME UNCHANGED <<work, lock, call>>,
             \A x \in Writers : lock = x => pc'[x] = pc[x] /\ item'[x] = item[x]
      PROVE  ComparedWithin'
  <2>1. SUFFICES ASSUME NEW x \in Writers, lock' = x, call'[x].op = "assess",
                        NEW i \in 2..Len(call[x].items), Behind(x, "observations", i)'
                 PROVE  RetainedOf(work', call[x].items[i].asset) = ObservationRows(call[x].items[i])
    BY <1>4 DEF ComparedWithin
  <2>2. lock = x /\ Behind(x, "observations", i) /\ call[x].op = "assess"
    BY <1>4, <2>1 DEF Behind
  <2> QED BY <1>4, <2>1, <2>2 DEF ComparedWithin
<1>5. ASSUME NEW w \in Writers, SelectObservations(w) PROVE ComparedWithin'
  <2>1. /\ pc[w] = "select" /\ Goto(w, "finding") /\ UNCHANGED <<db, work, lock, call, item>>
        /\ RetainedOf(Seen(w), Now(w).asset) = ObservationRows(Now(w))
    BY <1>5 DEF SelectObservations
  <2>2. CASE lock = w
    <3>1. call[w].op = "assess" /\ work'.observations = Seen(w).observations /\ lock' = w
      BY <2>1, <2>2, OpOf DEF Seen
    <3>2. pc'[w] = "finding"
      BY <2>1 DEF Goto, TypeOK
    <3>3. \A i \in 1..Len(call[w].items) : Behind(w, "observations", i)' =>
            \/ Behind(w, "observations", i)
            \/ RetainedOf(Seen(w), call[w].items[i].asset) = ObservationRows(call[w].items[i])
      BY <2>1 DEF Behind, Now
    <3> QED BY <1>1, <2>1, <2>2, <3>1, <3>3
  <2>3. CASE lock # w
    <3>1. \A x \in Writers : lock = x => pc'[x] = pc[x] /\ item'[x] = item[x]
      BY <2>1, <2>3 DEF Goto, TypeOK
    <3> QED BY <1>4, <2>1, <3>1
  <2> QED BY <2>2, <2>3
<1>6. ASSUME NEW w \in Writers, Begin(w) PROVE ComparedWithin'
  <2>1. lock # w /\ UNCHANGED <<work, lock, call, item>>
    BY <1>6 DEF Begin, StoreInvariant, LockedWhenWriting
  <2>2. \A x \in Writers : lock = x => pc'[x] = pc[x] /\ item'[x] = item[x]
    BY <1>6, <2>1 DEF Begin, Goto, TypeOK
  <2> QED BY <1>4, <2>1, <2>2
<1>7. ASSUME lock' = None PROVE ComparedWithin'
  BY <1>7, NoneAssumption DEF ComparedWithin
<1>8. ASSUME NEW w \in Writers, Fail(w) PROVE ComparedWithin'
  <2>1. CASE lock = w
    BY <1>7, <1>8, <2>1 DEF Fail
  <2>2. CASE lock # w
    <3>1. UNCHANGED <<work, lock, call, item>>
      BY <1>8, <2>2 DEF Fail
    <3>2. \A x \in Writers : lock = x => pc'[x] = pc[x] /\ item'[x] = item[x]
      BY <1>8, <2>2, <3>1 DEF Fail, Goto, TypeOK
    <3> QED BY <1>4, <3>1, <3>2
  <2> QED BY <2>1, <2>2
<1>9. ASSUME NEW w \in Writers, Commit(w) PROVE ComparedWithin'
  BY <1>7, <1>9 DEF Commit
<1>10. ASSUME NEW r \in Readers, Read(r) PROVE ComparedWithin'
  BY <1>4, <1>10 DEF Read, Select, Accept, Reject
<1>11. CASE UNCHANGED vars
  BY <1>4, <1>11 DEF vars
<1> QED BY <1>2, <1>3, <1>5, <1>6, <1>8, <1>9, <1>10, <1>11 DEF Next, Write

\* How the results of the calls change, and what is committed when.
LEMMA ResultsOf ==
  ASSUME TypeOK, StoreInvariant, [Next]_vars
  PROVE  /\ call' = call
         /\ \A w \in Writers : (result'[w] = "stored" /\ result[w] # "stored") => Commit(w)
         /\ \A t \in Appended : db[t] \subseteq db'[t]
<1>1. ASSUME NEW w \in Writers, Commit(w)
      PROVE  /\ call' = call /\ \A x \in Writers \ {w} : result'[x] = result[x]
             /\ \A t \in Appended : db[t] \subseteq db'[t]
  BY <1>1, CommitIsWhole DEF Commit, End, TypeOK
<1>2. ASSUME NEW w \in Writers, Fail(w)
      PROVE  call' = call /\ db' = db /\ \A x \in Writers : result'[x] \in {result[x], "failed"}
  BY <1>2 DEF Fail, End, TypeOK
<1>3. ASSUME NEW w \in Writers, Write(w), ~Commit(w), ~Fail(w)
      PROVE  call' = call /\ db' = db /\ result' = result
  BY <1>3 DEF Write, Begin, InsertAsset, InsertObservations, SelectObservations, InsertFinding,
              InsertDecision, InsertPlan, Inserted
<1>4. ASSUME NEW r \in Readers, Read(r)
      PROVE  call' = call /\ db' = db /\ \A x \in Writers : result'[x] = result[x]
  BY <1>4, StrictAssumption DEF Read, Select, Accept, Reject, End, TypeOK
<1>5. CASE UNCHANGED vars
  BY <1>5 DEF vars
<1> QED
  <2>1. ASSUME NEW w \in Writers, Write(w)
        PROVE  /\ call' = call
               /\ \A x \in Writers : (result'[x] = "stored" /\ result[x] # "stored") => Commit(x)
               /\ \A t \in Appended : db[t] \subseteq db'[t]
    BY <2>1, <1>1, <1>2, <1>3
  <2>2. ASSUME NEW r \in Readers, Read(r)
        PROVE  /\ call' = call
               /\ \A x \in Writers : (result'[x] = "stored" /\ result[x] # "stored") => Commit(x)
               /\ \A t \in Appended : db[t] \subseteq db'[t]
    BY <2>2, <1>4
  <2> QED BY <1>5, <2>1, <2>2 DEF Next

\* A committed bundle has its claims and its finding, and the claims are new.
LEMMA BundleCommits ==
  ASSUME TypeOK, StoreInvariant, NEW w \in Writers, Commit(w), call[w].op = "bundle"
  PROVE  /\ FindingRow(call[w].items[1]) \in db'.findings
         /\ ObservationRows(call[w].items[1]) \cap db.observations = {}
<1>1. pc[w] = "commit" /\ db' = work
  BY DEF Commit
<1>2. 1 \in 1..Len(call[w].items)
  BY NowIsItem
<1>3. /\ AddedBy(call[w].op, "findings", call[w].items[1]) = {FindingRow(call[w].items[1])}
      /\ AddedBy(call[w].op, "observations", call[w].items[1]) = ObservationRows(call[w].items[1])
  BY DEF AddedBy
<1>4. /\ \A t \in Appended : db'[t] = db[t] \cup SoFar(w, t) /\ SoFar(w, t) \cap db[t] = {}
      /\ \A t \in Appended : \A row :
           row \in SoFar(w, t) <=>
             \E i \in 1..Len(call[w].items) : row \in AddedBy(call[w].op, t, call[w].items[i])
  BY <1>1, CommitIsWhole
<1>5. "findings" \in Appended /\ "observations" \in Appended
  BY DEF Appended
<1>6. FindingRow(call[w].items[1]) \in SoFar(w, "findings")
  BY <1>2, <1>3, <1>4, <1>5
<1>7. ObservationRows(call[w].items[1]) \subseteq SoFar(w, "observations")
  BY <1>2, <1>3, <1>4, <1>5
<1> QED BY <1>4, <1>5, <1>6, <1>7

\* Every step keeps the findings of stored bundles.
LEMMA StoredStep ==
  ASSUME TypeOK, StoreInvariant, StoredIsThere, [Next]_vars
  PROVE  StoredIsThere'
<1>1. SUFFICES ASSUME NEW w \in Writers, result'[w] = "stored", call[w].op = "bundle"
               PROVE  FindingRow(call[w].items[1]) \in db'.findings
  BY ResultsOf DEF StoredIsThere
<1>2. CASE result[w] = "stored"
  <2>1. FindingRow(call[w].items[1]) \in db.findings
    BY <1>1, <1>2 DEF StoredIsThere
  <2> QED BY <2>1, ResultsOf DEF Appended
<1>3. CASE result[w] # "stored"
  BY <1>1, <1>3, ResultsOf, BundleCommits
<1> QED BY <1>2, <1>3

-------------------------------------------------------------------------------
(* Readers.                                                                *)

\* A SELECT sees at least what the earlier ones saw, and linked.
LEMMA SelectFollows ==
  ASSUME TypeOK, StoreInvariant, LinkedWithin, StoredIsThere, ReadersFollow, NEW r \in Readers, Select(r)
  PROVE  ReadersFollow'
<1> DEFINE n == next[r]
           t == Tables[n]
           a == AssetOf[r]
           rows == RowsFor(db, t, a)
           s == snap[r]
           e == snap'[r]
<1>1. /\ n \in 1..5 /\ result[r] = None /\ UNCHANGED <<db, call, result>>
      /\ next' = [next EXCEPT ![r] = n + 1] /\ snap' = [snap EXCEPT ![r] = [s EXCEPT ![t] = rows]]
  BY DEF Select, TypeOK, ReadOrder, Tables
<1>2. next'[r] = n + 1 /\ \A x \in Readers \ {r} : next'[x] = next[x] /\ snap'[x] = snap[x]
  BY <1>1 DEF TypeOK
<1>3. e = [s EXCEPT ![t] = rows]
  BY <1>1 DEF TypeOK
<1>4. /\ n = 1 => t = "assets"
      /\ n = 2 => t = "observations"
      /\ n = 3 => t = "findings"
      /\ n = 4 => t = "decisions"
      /\ n = 5 => t = "plans"
  BY DEF Tables
<1>5. /\ e.observations = IF n = 2 THEN rows ELSE s.observations
      /\ e.findings = IF n = 3 THEN rows ELSE s.findings
      /\ e.decisions = IF n = 4 THEN rows ELSE s.decisions
      /\ e.plans = IF n = 5 THEN rows ELSE s.plans
  <2>1. s \in Stores
    BY DEF TypeOK
  <2> HIDE DEF n, t, a, rows, s, e
  <2> QED BY <1>1, <1>3, <1>4, <2>1 DEF Stores
<1>6. /\ n = 2 => rows = {row \in db.observations : row.asset = a}
      /\ n = 3 => rows = {row \in db.findings : row.asset = a}
      /\ n = 4 => rows = {row \in db.decisions : row.asset = a}
      /\ n = 5 => rows = {p \in db.plans : \E f \in db.findings : f.finding = p.finding /\ f.asset = a}
  BY <1>4 DEF RowsFor
<1>7. s.findings \subseteq db.findings /\ s.observations \subseteq db.observations
  BY DEF StoreInvariant, SnapshotIsGrounded, Appended
<1>8. \A row \in s.observations \cup s.findings : row.asset = a
  BY DEF ReadersFollow
<1> HIDE DEF n, t, a, rows, s, e
<1>9. result[r] # "read"
  BY <1>1, NoneAssumption
<1>10. \A row \in e.observations \cup e.findings : row.asset = a
  BY <1>5, <1>6, <1>8
<1>11. ASSUME n + 1 > 3, NEW w \in Writers, result[w] = "stored", call[w].op = "bundle",
              ObservationRows(call[w].items[1]) \cap e.observations # {}
       PROVE  FindingRow(call[w].items[1]) \in e.findings
  <2>1. CASE n = 3
    <3>1. FindingRow(call[w].items[1]) \in db.findings
      BY <1>11 DEF StoredIsThere
    <3>2. FindingRow(call[w].items[1]).asset = a
      <4>1. PICK o \in ObservationRows(call[w].items[1]) : o \in e.observations
        BY <1>11
      <4>2. o.asset = call[w].items[1].asset
        BY <4>1 DEF ObservationRows
      <4> QED BY <1>10, <4>1, <4>2 DEF FindingRow
    <3> QED BY <1>5, <1>6, <2>1, <3>1, <3>2
  <2>2. CASE n # 3
    <3>1. n > 3 /\ e.findings = s.findings /\ e.observations = s.observations
      BY <1>1, <1>5, <1>11, <2>2
    <3> QED BY <1>11, <3>1 DEF ReadersFollow, n, s
  <2> QED BY <2>1, <2>2
<1>12. ASSUME n + 1 > 4, e.findings # {} PROVE e.decisions # {}
  <2>1. e.findings = s.findings
    BY <1>1, <1>5, <1>12
  <2>2. CASE n = 4
    <3>1. PICK f \in s.findings : TRUE
      BY <1>12, <2>1
    <3>2. f \in db.findings /\ f.asset = a
      BY <1>7, <1>8
    <3>3. \E row \in db.decisions : row.asset = f.asset
      BY <3>2 DEF LinkedWithin, LinkedBut
    <3> QED BY <1>5, <1>6, <2>2, <3>2, <3>3
  <2>3. CASE n # 4
    <3>1. n > 4 /\ e.decisions = s.decisions
      BY <1>1, <1>5, <1>12, <2>3
    <3> QED BY <1>12, <2>1, <3>1 DEF ReadersFollow, n, s
  <2> QED BY <2>2, <2>3
<1>13. ASSUME n + 1 > 5, NEW f \in e.findings PROVE \E p \in e.plans : p.finding = f.finding
  <2>1. n = 5 /\ f \in s.findings
    BY <1>1, <1>5, <1>13
  <2>2. f \in db.findings /\ f.asset = a
    BY <1>7, <1>8, <2>1
  <2>3. PICK p \in db.plans : p.finding = f.finding
    BY <2>2 DEF LinkedWithin, LinkedBut
  <2> QED BY <1>5, <1>6, <2>1, <2>2, <2>3
<1>14. SUFFICES ASSUME NEW x \in Readers
                PROVE  /\ result'[x] = "read" => next'[x] > 5
                       /\ \A row \in snap'[x].observations \cup snap'[x].findings : row.asset = AssetOf[x]
                       /\ next'[x] > 3 => \A w \in Writers : (result'[w] = "stored" /\ call'[w].op = "bundle") =>
                            (ObservationRows(call'[w].items[1]) \cap snap'[x].observations # {}
                               => FindingRow(call'[w].items[1]) \in snap'[x].findings)
                       /\ next'[x] > 4 => (snap'[x].findings # {} => snap'[x].decisions # {})
                       /\ next'[x] > 5 => \A f \in snap'[x].findings :
                            \E p \in snap'[x].plans : p.finding = f.finding
  BY DEF ReadersFollow
<1>15. CASE x = r
  BY <1>1, <1>2, <1>9, <1>10, <1>11, <1>12, <1>13, <1>15 DEF a, e
<1>16. CASE x # r
  BY <1>1, <1>2, <1>16 DEF ReadersFollow
<1> QED BY <1>15, <1>16

\* Every step keeps readers in line with the lineage.
LEMMA FollowStep ==
  ASSUME TypeOK, StoreInvariant, LinkedWithin, StoredIsThere, ReadersFollow, [Next]_vars
  PROVE  ReadersFollow'
\* A bundle committed after the claims were fetched is not among them.
<1>1. ASSUME next' = next, snap' = snap, \A r \in Readers : result'[r] = "read" => next[r] > 5
      PROVE  ReadersFollow'
  <2>1. call' = call
    BY ResultsOf
  <2>2. ASSUME NEW r \in Readers, next[r] > 3, NEW w \in Writers, result'[w] = "stored", call[w].op = "bundle",
               ObservationRows(call[w].items[1]) \cap snap[r].observations # {}
        PROVE  FindingRow(call[w].items[1]) \in snap[r].findings
    <3>1. CASE result[w] = "stored"
      BY <2>2, <3>1 DEF ReadersFollow
    <3>2. CASE result[w] # "stored"
      <4>1. Commit(w)
        BY <2>2, <3>2, ResultsOf
      <4>2. ObservationRows(call[w].items[1]) \cap db.observations = {}
        BY <2>2, <4>1, BundleCommits
      <4>3. snap[r].observations \subseteq db.observations
        BY DEF StoreInvariant, SnapshotIsGrounded, Appended
      <4> QED BY <2>2, <4>2, <4>3
    <3> QED BY <3>1, <3>2
  <2>3. \A r \in Readers :
          /\ \A row \in snap[r].observations \cup snap[r].findings : row.asset = AssetOf[r]
          /\ next[r] > 4 => (snap[r].findings # {} => snap[r].decisions # {})
          /\ next[r] > 5 => \A f \in snap[r].findings : \E p \in snap[r].plans : p.finding = f.finding
    BY DEF ReadersFollow
  <2> QED BY <1>1, <2>1, <2>2, <2>3 DEF ReadersFollow
<1>2. ASSUME NEW w \in Writers, Write(w) PROVE ReadersFollow'
  <2>1. UNCHANGED <<next, snap>>
    BY <1>2 DEF Write, Begin, InsertAsset, InsertObservations, SelectObservations, InsertFinding,
                InsertDecision, InsertPlan, Inserted, Commit, Fail, reading
  <2>2. \A r \in Readers : result'[r] = result[r]
    BY <1>2, StrictAssumption
       DEF Write, Begin, InsertAsset, InsertObservations, SelectObservations, InsertFinding,
           InsertDecision, InsertPlan, Inserted, Commit, Fail, End, TypeOK
  <2> QED BY <1>1, <2>1, <2>2 DEF ReadersFollow
<1>3. ASSUME NEW r \in Readers, Select(r) PROVE ReadersFollow'
  BY <1>3, SelectFollows
<1>4. ASSUME NEW r \in Readers, Accept(r) PROVE ReadersFollow'
  <2>1. next[r] > 5 /\ UNCHANGED <<next, snap>> /\ \A x \in Readers \ {r} : result'[x] = result[x]
    BY <1>4 DEF Accept, ReadOrder, Tables, End, TypeOK, reading
  <2> QED BY <1>1, <2>1 DEF ReadersFollow
<1>5. ASSUME NEW r \in Readers, Reject(r) PROVE ReadersFollow'
  <2>1. UNCHANGED <<next, snap>> /\ \A x \in Readers : result'[x] \in {result[x], "failed"}
    BY <1>5 DEF Reject, End, TypeOK, reading
  <2> QED BY <1>1, <2>1 DEF ReadersFollow
<1>6. CASE UNCHANGED vars
  BY <1>1, <1>6 DEF vars, reading, ReadersFollow
<1> QED BY <1>2, <1>3, <1>4, <1>5, <1>6 DEF Next, Read

\* The lineage invariant holds before any call.
LEMMA LineageInit == Init => LineageInvariant
<1> SUFFICES ASSUME Init PROVE LineageInvariant
  OBVIOUS
<1>1. \A w \in Writers : lock # w /\ result[w] # "stored"
  BY NoneAssumption DEF Init
<1>2. LinkedBut(db, {}, {})
  BY DEF Init, Empty, LinkedBut
<1>3. ReadersFollow
  <2>1. \A r \in Readers : next[r] = 1 /\ snap[r] = Empty /\ result[r] # "read"
    BY NoneAssumption DEF Init
  <2> QED BY <2>1 DEF ReadersFollow, Empty
<1> QED BY <1>1, <1>2, <1>3 DEF LineageInvariant, LinkedWithin, ComparedWithin, StoredIsThere

\* The second inductive invariant: the database is linked and the transaction under way is,
\* but for the item at hand; what it compared is unchanged; readers have followed the lineage.
THEOREM LineageIsKept == Spec => []LineageInvariant
<1>1. Init => LineageInvariant
  BY LineageInit
<1>2. TypeOK /\ StoreInvariant /\ LineageInvariant /\ [Next]_vars => LineageInvariant'
  BY LinkedStep, ComparedStep, StoredStep, FollowStep DEF LineageInvariant
<1> QED BY <1>1, <1>2, StoreTypeCorrect, TransactionsAreCoherent, PTL DEF Spec

\* Every asset has retained claims, every claim one asset, every finding its asset, a
\* decision about it and a plan, whatever calls ran, failed or were refused.
THEOREM EvidenceStaysLinked == Spec => []EvidenceIsLinked
<1>1. LineageInvariant => EvidenceIsLinked
  BY DEF LineageInvariant, LinkedWithin, LinkedBut, EvidenceIsLinked
<1> QED BY <1>1, LineageIsKept, PTL

\* A snapshot read in five steps while writers commit has the plan and a decision of each
\* finding in it, and the finding of each stored bundle it has a claim of.
THEOREM SnapshotsFollowLineage == Spec => []SnapshotFollowsLineage
<1>1. ReadersFollow /\ TypeOK => SnapshotFollowsLineage
  <2> SUFFICES ASSUME ReadersFollow, TypeOK, NEW r \in Readers, result[r] = "read"
               PROVE  /\ \A f \in snap[r].findings : \E p \in snap[r].plans : p.finding = f.finding
                      /\ snap[r].findings # {} => snap[r].decisions # {}
                      /\ \A w \in Writers : (result[w] = "stored" /\ call[w].op = "bundle") =>
                           (ObservationRows(call[w].items[1]) \cap snap[r].observations # {}
                              => FindingRow(call[w].items[1]) \in snap[r].findings)
    BY DEF SnapshotFollowsLineage
  <2>1. next[r] > 5 /\ next[r] \in Nat
    <3>1. Len(Tables) = 5
      BY DEF Tables
    <3>2. next[r] \in 1..6
      BY <3>1 DEF TypeOK
    <3> QED BY <3>2 DEF ReadersFollow
  <2>2. next[r] > 3 /\ next[r] > 4
    BY <2>1
  <2> QED BY <2>1, <2>2 DEF ReadersFollow
<1>2. LineageInvariant => ReadersFollow
  BY DEF LineageInvariant
<1> QED BY <1>1, <1>2, LineageIsKept, StoreTypeCorrect, PTL

\* When an assessment commits, the claims retained for its second item and the later ones
\* are those it was made from.
THEOREM LaterItemsAllMatch == Spec => LaterItemsMatch
<1> DEFINE Matched == \A w \in Writers : Assesses(w) => \A i \in 2..Len(call[w].items) : Retained(w, i)
<1>1. TypeOK /\ StoreInvariant /\ LineageInvariant /\ [Next]_vars => [Matched]_vars
  <2> SUFFICES ASSUME TypeOK, StoreInvariant, LineageInvariant, [Next]_vars,
                      NEW w \in Writers, Assesses(w), NEW i \in 2..Len(call[w].items)
               PROVE  Retained(w, i)
    OBVIOUS
  <2>1. Commit(w) /\ call[w].op = "assess"
    BY ResultsOf DEF Assesses
  <2>2. pc[w] = "commit" /\ db' = work /\ lock = w
    BY <2>1, CommitIsWhole DEF Commit
  <2>3. Behind(w, "observations", i)
    <3>1. item[w] = Len(call[w].items) /\ Len(call[w].items) \in Nat
      BY <2>2, NowIsItem DEF StoreInvariant, LockedWhenWriting
    <3> QED BY <2>2, <3>1, AfterIs DEF Behind
  <2>4. RetainedOf(work, call[w].items[i].asset) = ObservationRows(call[w].items[i])
    BY <2>1, <2>2, <2>3 DEF LineageInvariant, ComparedWithin
  <2> QED BY <2>2, <2>4 DEF Retained
<1>2. Spec => [](TypeOK /\ StoreInvariant /\ LineageInvariant)
  BY StoreTypeCorrect, TransactionsAreCoherent, LineageIsKept, PTL
<1> QED BY <1>1, <1>2, PTL DEF Spec, LaterItemsMatch
==============================================================================
