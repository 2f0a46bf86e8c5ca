------------------------ MODULE ClosedCaptureProofs ------------------------
(***************************************************************************)
(* Proofs about ClosedCapture, for any number of pages, any pins and any   *)
(* number of transactions.                                                 *)
(*                                                                         *)
(* Nothing is assumed of what the replay accepts.  That a copy is of one  *)
(* transaction follows from the checks around the reading (ReadsAreSeen):  *)
(* as long as the times have not moved every page read is the page there,  *)
(* and without a journal those are the committed ones.                     *)
(***************************************************************************)
EXTENDS ClosedCapture, TLAPS

\* Each step of the copier keeps the invariant.
LEMMA CopyKeeps ==
  ASSUME CaptureInvariant, Copy
  PROVE  CaptureInvariant'
<1> USE CaptureAssumption DEF CaptureInvariant, TypeOK, WriterIsCoherent, ReadsAreSeen,
        CopyFollows, Go, source, history, Content
<1>1. CASE Look
  BY <1>1 DEF Look
<1>2. CASE OpenSource
  BY <1>2 DEF OpenSource
<1>3. CASE ReadPage
  BY <1>3 DEF ReadPage
<1>4. CASE Restat
  BY <1>4 DEF Restat, Stat
<1>5. CASE LookAgain
  BY <1>5 DEF LookAgain
<1>6. CASE Verify
  BY <1>6 DEF Verify
<1>7. CASE PublishCopy
  BY <1>7 DEF PublishCopy
<1>8. CASE Refuse
  BY <1>8 DEF Refuse
<1> QED BY <1>1, <1>2, <1>3, <1>4, <1>5, <1>6, <1>7, <1>8 DEF Copy

\* So does each step of the writer: what it does behind the copier's back is in the history.
LEMMA WriteKeeps ==
  ASSUME CaptureInvariant, Write
  PROVE  CaptureInvariant'
<1> USE CaptureAssumption DEF CaptureInvariant, TypeOK, WriterIsCoherent, ReadsAreSeen,
        CopyFollows, copier, history, Content
<1>1. CASE BeginWrite
  BY <1>1 DEF BeginWrite
<1>2. ASSUME NEW p \in Pages, NEW n \in Nat, SetPage(p, n), journal # None PROVE CaptureInvariant'
  BY <1>2 DEF SetPage
<1>3. CASE WritePage
  BY <1>2, <1>3 DEF WritePage
<1>4. CASE RollBackPage
  BY <1>2, <1>4 DEF RollBackPage
<1>5. CASE Commit \/ RolledBack
  <2>1. ended' \in BOOLEAN /\ (ended => ended') /\ (pc = "again" /\ atRest = None => ended')
    BY <1>5 DEF Commit, RolledBack, EndWrite
  <2>2. /\ journal = committed /\ journal' = None /\ pages' = pages /\ pages = Content(committed')
        /\ committed' \in 0..last /\ UNCHANGED <<last, copier, moved, hidden, atRest>>
    BY <1>5 DEF Commit, RolledBack, EndWrite
  <2>3. TypeOK' /\ WriterIsCoherent' /\ CopyFollows'
    BY <2>1, <2>2
  <2>4. ReadsAreSeen'
    BY <2>1, <2>2
  <2> QED BY <2>3, <2>4
<1> QED BY <1>1, <1>3, <1>4, <1>5 DEF Write

\* The inductive invariant: the writer's journal and pages fit together, and what the copier
\* has read and checked follows from how far it is.
THEOREM CapturesAreCoherent == Spec => []CaptureInvariant
<1>1. Init => CaptureInvariant
  <2> SUFFICES ASSUME Init PROVE CaptureInvariant
    OBVIOUS
  <2>1. DOMAIN data = {}
    BY DEF Init
  <2>2. moved \in BOOLEAN /\ hidden \in BOOLEAN /\ ended \in BOOLEAN
    BY Zenon DEF Init
  <2>3. TypeOK
    BY <2>1, <2>2, CaptureAssumption DEF Init, TypeOK, Content
  <2>4. WriterIsCoherent
    BY DEF Init, WriterIsCoherent
  <2>5. ReadsAreSeen /\ CopyFollows
    BY <2>1 DEF Init, ReadsAreSeen, CopyFollows
  <2> QED BY <2>3, <2>4, <2>5 DEF CaptureInvariant
<1>2. CaptureInvariant /\ [Next]_vars => CaptureInvariant'
  <2>1. CaptureInvariant /\ Copy => CaptureInvariant'
    BY CopyKeeps
  <2>2. CaptureInvariant /\ Write => CaptureInvariant'
    BY WriteKeeps
  <2>3. CaptureInvariant /\ UNCHANGED vars => CaptureInvariant'
    BY DEF vars, history, CaptureInvariant, TypeOK, WriterIsCoherent, ReadsAreSeen, CopyFollows
  <2> QED BY <2>1, <2>2, <2>3 DEF Next
<1> QED BY <1>1, <1>2, PTL DEF Spec

\* A published copy is one state of the database, the committed one if none was under way,
\* unless a page was written within the clock's tick or the transaction under way at the
\* second fstat ended before the second look (_closed_bytes).
THEOREM CopiesAreOneState == Spec => []CopyIsOneState
<1>1. CaptureInvariant => CopyIsOneState
  <2> SUFFICES ASSUME CaptureInvariant, published # None, ~hidden, ~ended
               PROVE  \E n \in 0..last : published = Content(n) /\ atRest \in {n, None}
    BY DEF CopyIsOneState
  <2>1. published = data /\ pc = "done"
    BY DEF CaptureInvariant, CopyFollows
  <2>2. atRest # None /\ data = Content(atRest)
    BY <2>1 DEF CaptureInvariant, ReadsAreSeen
  <2>3. atRest \in 0..last
    BY <2>2 DEF CaptureInvariant, TypeOK
  <2> QED BY <2>1, <2>2, <2>3
<1> QED BY <1>1, CapturesAreCoherent, PTL
=============================================================================
