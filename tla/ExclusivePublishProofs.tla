----------------------- MODULE ExclusivePublishProofs -----------------------
(***************************************************************************)
(* Proofs about ExclusivePublish, for any publishers, names and faults.    *)
(*                                                                         *)
(* PublishInvariant is inductive together with TypeOK.  A body may only be *)
(* linked when all of it is on the disk, and a linked body is written no   *)
(* more; so a power loss can take a name away but never what it shows.  A  *)
(* name that has reached the disk is the one the memory shows, so that a   *)
(* power loss gives back what every reader has seen.  A staging name may   *)
(* be on the disk and no longer in the memory: it comes back then.         *)
(***************************************************************************)
EXTENDS ExclusivePublish, TLAPS

\* Before the fsync is over nothing says that the body is complete.
BodiesFollow ==
  \A p \in Publishers :
    /\ pc[p] \in {"create", "write"} => body[p] # "complete" /\ stored[p] # "complete"
    /\ pc[p] = "fsync" => body[p] = "complete"
    /\ pc[p] \in {"link", "sync_dir", "unlink"} => stored[p] = "complete"
    /\ stored[p] = "complete" => body[p] = "complete"
    /\ answer[p] = "ok" => stored[p] = "complete"

\* A name shows the body of a process that linked it there, and the whole of it.
NamesAreLinked ==
  \A q \in Paths :
    /\ entry[q] # None => PathOf[entry[q]] = q /\ stored[entry[q]] = "complete"
    /\ durable[q] # None => durable[q] = entry[q]

\* What a process knows of its own name, and what it has told.
OwnNames ==
  \A p \in Publishers :
    /\ pc[p] \in {"sync_dir", "unlink"} => entry[PathOf[p]] = p
    /\ pc[p] = "unlink" /\ p \in SyncsDir => durable[PathOf[p]] = p
    /\ answer[p] # None => pc[p] = "done"
    /\ answer[p] = "ok" /\ p \in SyncsDir => durable[PathOf[p]] = p

\* Only processes that have begun have a staging name, in the memory or on the disk, so
\* that an outage brings back none but of processes it has struck.
StagingIsOwn ==
  /\ \A p \in staged \cup remains : pc[p] # "create"
  /\ \A p \in staged : pc[p] = "done" => p \in stuck \cup struck

PublishInvariant ==
  BodiesFollow /\ NamesAreLinked /\ OwnNames /\ AcknowledgedIsKept /\ StagingIsOwn

-------------------------------------------------------------------------------
\* Every reachable state is well typed.
THEOREM PublishTypeCorrect == Spec => []TypeOK
<1>1. Init => TypeOK
  <2> SUFFICES ASSUME Init PROVE TypeOK
    OBVIOUS
  <2>1. faults \in 0..MaxFaults
    BY FaultsAssumption DEF Init
  <2>2. /\ pc \in [Publishers -> {"create", "done"} \cup Running]
        /\ answer \in [Publishers -> {None, "ok", "error"}]
        /\ body \in [Publishers -> Written] /\ stored \in [Publishers -> Written]
    BY DEF Init, Written
  <2>3. entry \in [Paths -> Publishers \cup {None}] /\ durable \in [Paths -> Publishers \cup {None}]
    BY DEF Init
  <2> QED BY <2>1, <2>2, <2>3 DEF Init, TypeOK
<1>2. TypeOK /\ [Next]_vars => TypeOK'
  <2> SUFFICES ASSUME TypeOK, [Next]_vars PROVE TypeOK'
    OBVIOUS
  <2> USE PathOfAssumption, SyncsDirAssumption, FaultsAssumption DEF TypeOK, Running, Written, files, history
  <2>1. ASSUME NEW p \in Publishers, Stage(p) PROVE TypeOK'
    BY <2>1 DEF Stage, Step
  <2>2. ASSUME NEW p \in Publishers, Write(p) PROVE TypeOK'
    BY <2>2 DEF Write, Step
  <2>3. ASSUME NEW p \in Publishers, Fsync(p) PROVE TypeOK'
    BY <2>3 DEF Fsync, Step
  <2>4. ASSUME NEW p \in Publishers, Link(p) PROVE TypeOK'
    BY <2>4 DEF Link, Step
  <2>5. ASSUME NEW p \in Publishers, Collide(p) PROVE TypeOK'
    BY <2>5 DEF Collide, Step
  <2>6. ASSUME NEW p \in Publishers, SyncDir(p) PROVE TypeOK'
    BY <2>6 DEF SyncDir, Step, Beside
  <2>7. ASSUME NEW p \in Publishers, Unlink(p) PROVE TypeOK'
    BY <2>7 DEF Unlink, Step
  <2>8. ASSUME NEW p \in Publishers, IoError(p) PROVE TypeOK'
    BY <2>8 DEF IoError
  <2>9. ASSUME NEW p \in Publishers, Kill(p) PROVE TypeOK'
    BY <2>9 DEF Kill
  <2>10. ASSUME NEW p \in Publishers, WriteBackBody(p) PROVE TypeOK'
    BY <2>10 DEF WriteBackBody
  <2>11. ASSUME NEW q \in Paths, WriteBackEntry(q) PROVE TypeOK'
    BY <2>11 DEF WriteBackEntry
  <2>12. ASSUME NEW p \in Publishers, WriteBackStaging(p) PROVE TypeOK'
    BY <2>12 DEF WriteBackStaging
  <2>13. CASE PowerLoss
    BY <2>13 DEF PowerLoss
  <2>14. CASE UNCHANGED vars
    BY <2>14 DEF vars
  <2> QED BY <2>1, <2>2, <2>3, <2>4, <2>5, <2>6, <2>7, <2>8, <2>9, <2>10, <2>11, <2>12, <2>13, <2>14
          DEF Next, Publish
<1> QED BY <1>1, <1>2, PTL DEF Spec

-------------------------------------------------------------------------------
\* The inductive invariant: only complete bodies are linked, they stay as they are, and what
\* has reached the disk is what the memory shows.
THEOREM PublicationsAreCoherent == Spec => []PublishInvariant
<1> USE PathOfAssumption, SyncsDirAssumption, NoneAssumption
<1>1. Init => PublishInvariant
  BY DEF Init, PublishInvariant, BodiesFollow, NamesAreLinked, OwnNames, AcknowledgedIsKept, StagingIsOwn
<1>2. TypeOK /\ PublishInvariant /\ [Next]_vars => PublishInvariant'
  <2> SUFFICES ASSUME TypeOK, PublishInvariant, [Next]_vars PROVE PublishInvariant'
    OBVIOUS
  <2> USE DEF TypeOK, PublishInvariant, BodiesFollow, NamesAreLinked, OwnNames, AcknowledgedIsKept,
              StagingIsOwn, Running, files, history
  <2>1. ASSUME NEW p \in Publishers, Stage(p) PROVE PublishInvariant'
    BY <2>1 DEF Stage, Step
  <2>2. ASSUME NEW p \in Publishers, Write(p) PROVE PublishInvariant'
    BY <2>2 DEF Write, Step
  <2>3. ASSUME NEW p \in Publishers, Fsync(p) PROVE PublishInvariant'
    BY <2>3 DEF Fsync, Step
  <2>4. ASSUME NEW p \in Publishers, Link(p) PROVE PublishInvariant'
    BY <2>4 DEF Link, Step
  <2>5. ASSUME NEW p \in Publishers, Collide(p) PROVE PublishInvariant'
    BY <2>5 DEF Collide, Step
  <2>6. ASSUME NEW p \in Publishers, SyncDir(p) PROVE PublishInvariant'
    BY <2>6 DEF SyncDir, Step, Beside
  <2>7. ASSUME NEW p \in Publishers, Unlink(p) PROVE PublishInvariant'
    BY <2>7 DEF Unlink, Step
  <2>8. ASSUME NEW p \in Publishers, IoError(p) PROVE PublishInvariant'
    BY <2>8 DEF IoError
  <2>9. ASSUME NEW p \in Publishers, Kill(p) PROVE PublishInvariant'
    BY <2>9 DEF Kill
  <2>10. ASSUME NEW p \in Publishers, WriteBackBody(p) PROVE PublishInvariant'
    BY <2>10 DEF WriteBackBody
  <2>11. ASSUME NEW q \in Paths, WriteBackEntry(q) PROVE PublishInvariant'
    BY <2>11 DEF WriteBackEntry
  <2>12. ASSUME NEW p \in Publishers, WriteBackStaging(p) PROVE PublishInvariant'
    BY <2>12 DEF WriteBackStaging
  <2>13. CASE PowerLoss
    BY <2>13 DEF PowerLoss
  <2>14. CASE UNCHANGED vars
    BY <2>14 DEF vars
  <2> QED BY <2>1, <2>2, <2>3, <2>4, <2>5, <2>6, <2>7, <2>8, <2>9, <2>10, <2>11, <2>12, <2>13, <2>14
          DEF Next, Publish
<1> QED BY <1>1, <1>2, PublishTypeCorrect, PTL DEF Spec

-------------------------------------------------------------------------------
\* No destination name ever shows an unfinished file, whatever is killed or loses power
\* (the fsync of _publish comes before os.link).
THEOREM PublishedAreComplete == Spec => []PublishedIsComplete
<1>1. TypeOK /\ PublishInvariant => PublishedIsComplete
  BY NoneAssumption DEF TypeOK, PublishInvariant, BodiesFollow, NamesAreLinked, PublishedIsComplete
<1> QED BY <1>1, PublishTypeCorrect, PublicationsAreCoherent, PTL

\* A call that returned keeps its name, and two that returned never share one.
THEOREM AcknowledgedAreKept == Spec => []AcknowledgedIsKept
<1>1. PublishInvariant => AcknowledgedIsKept
  BY DEF PublishInvariant
<1> QED BY <1>1, PublicationsAreCoherent, PTL

\* A staging name is left only by a process that was killed or could not unlink it, and
\* by a power loss that undoes the unlink; of a call that returned it is then a link to the
\* whole body, which was on the disk before the name was made.
THEOREM StagingNamesGo == Spec => []StagingIsRemoved
<1>1. PublishInvariant /\ TypeOK => StagingIsRemoved
  BY DEF PublishInvariant, TypeOK, BodiesFollow, StagingIsOwn, StagingIsRemoved
<1> QED BY <1>1, PublicationsAreCoherent, PublishTypeCorrect, PTL

\* No step gives a name another body; only a power loss takes one away, if it had not
\* reached the disk.
THEOREM NamesAreNeverReplaced == Spec => NeverReplaced
<1>1. TypeOK /\ PublishInvariant /\ [Next]_vars =>
        [\A q \in Paths : entry[q] # None =>
           \/ entry'[q] = entry[q]
           \/ entry[q] \in struck' /\ durable[q] = None /\ entry'[q] = None]_vars
  <2> SUFFICES ASSUME TypeOK, PublishInvariant, Next, NEW q \in Paths, entry[q] # None
               PROVE  \/ entry'[q] = entry[q]
                      \/ entry[q] \in struck' /\ durable[q] = None /\ entry'[q] = None
    OBVIOUS
  <2>1. ASSUME NEW p \in Publishers, Link(p) PROVE entry'[q] = entry[q]
    BY <2>1 DEF Link, TypeOK
  <2>2. CASE PowerLoss
    BY <2>2 DEF PowerLoss, PublishInvariant, NamesAreLinked, BodiesFollow, TypeOK
  <2>3. CASE UNCHANGED entry
    BY <2>3
  <2> QED BY <2>1, <2>2, <2>3
          DEF Next, Publish, Stage, Write, Fsync, Collide, SyncDir, Unlink, IoError, Kill,
              WriteBackBody, WriteBackStaging, WriteBackEntry, files
<1> QED BY <1>1, PublishTypeCorrect, PublicationsAreCoherent, PTL DEF Spec, NeverReplaced

\* What is on the disk is written once, and a publisher that syncs the directory tells what
\* is on the disk: the initial state maps to the initial state, a directory entry that
\* reaches the disk to Write, such a return to Tell, everything else to a stutter.
THEOREM PublicationIsWriteOnce == Spec => ImplementsWriteOnce
<1> USE PathOfAssumption, SyncsDirAssumption, NoneAssumption
<1> DEFINE told == [p \in Publishers |-> IF answer[p] = "ok" /\ p \in SyncsDir THEN p ELSE None]
<1>1. Init => Abstract!Init
  BY DEF Init, Abstract!Init
<1>2. TypeOK /\ PublishInvariant /\ [Next]_vars => [Abstract!Next]_(Abstract!vars)
  <2> SUFFICES ASSUME TypeOK, PublishInvariant, [Next]_vars PROVE [Abstract!Next]_(Abstract!vars)
    OBVIOUS
  <2>1. ASSUME NEW q \in Paths, durable' = [durable EXCEPT ![q] = entry[q]], told' = told
        PROVE  [Abstract!Next]_(Abstract!vars)
    <3>1. CASE durable[q] = entry[q]
      <4>1. durable' = durable
        BY <2>1, <3>1 DEF TypeOK
      <4> QED BY <2>1, <4>1 DEF Abstract!vars
    <3>2. CASE durable[q] # entry[q]
      <4>1. durable[q] = None /\ entry[q] \in Publishers
        BY <3>2 DEF TypeOK, PublishInvariant, NamesAreLinked
      <4>2. durable'[q] = entry[q]
        BY <2>1 DEF TypeOK
      <4>3. Abstract!Write(q)
        BY <2>1, <4>1, <4>2 DEF Abstract!Write
      <4> QED BY <4>3 DEF Abstract!Next
    <3> QED BY <3>1, <3>2
  <2>2. ASSUME NEW p \in Publishers, SyncDir(p) PROVE [Abstract!Next]_(Abstract!vars)
    <3>1. told' = told
      BY <2>2 DEF SyncDir
    <3> QED BY <2>1, <2>2, <3>1 DEF SyncDir
  <2>3. ASSUME NEW q \in Paths, WriteBackEntry(q) PROVE [Abstract!Next]_(Abstract!vars)
    <3>1. told' = told
      BY <2>3 DEF WriteBackEntry
    <3> QED BY <2>1, <2>3, <3>1 DEF WriteBackEntry
  <2>4. ASSUME NEW p \in Publishers, Unlink(p) PROVE [Abstract!Next]_(Abstract!vars)
    <3>1. durable' = durable
      BY <2>4 DEF Unlink
    <3>2. CASE pc[p] = "unlink" /\ p \in SyncsDir
      <4>1. durable[PathOf[p]] = p
        BY <3>2 DEF PublishInvariant, OwnNames
      <4>2. answer' = [answer EXCEPT ![p] = "ok"]
        BY <2>4, <3>2 DEF Unlink, Step
      <4>3. told' = [told EXCEPT ![p] = p]
        BY <4>2, <3>2 DEF TypeOK
      <4>4. Abstract!Tell(p)
        BY <3>1, <4>1, <4>3 DEF Abstract!Tell
      <4> QED BY <4>4 DEF Abstract!Next
    <3>3. CASE ~(pc[p] = "unlink" /\ p \in SyncsDir)
      <4>1. answer[p] = None
        BY <2>4 DEF Unlink, Step, PublishInvariant, OwnNames
      <4>2. told' = told
        BY <2>4, <3>3, <4>1 DEF Unlink, Step, TypeOK
      <4> QED BY <3>1, <4>2 DEF Abstract!vars
    <3> QED BY <3>2, <3>3
  <2>5. ASSUME NEW p \in Publishers, Kill(p) PROVE [Abstract!Next]_(Abstract!vars)
    <3>1. answer[p] = None
      BY <2>5 DEF Kill, Running, PublishInvariant, OwnNames
    <3>2. durable' = durable /\ told' = told
      BY <2>5, <3>1 DEF Kill, files, TypeOK
    <3> QED BY <3>2 DEF Abstract!vars
  <2>6. CASE PowerLoss
    <3>1. \A p \in Publishers : pc[p] \in Running => answer[p] = None
      BY DEF Running, PublishInvariant, OwnNames
    <3>2. durable' = durable /\ told' = told
      BY <2>6, <3>1 DEF PowerLoss, TypeOK
    <3> QED BY <3>2 DEF Abstract!vars
  <2>7. CASE durable' = durable /\ answer' = answer
    BY <2>7 DEF Abstract!vars
  <2> QED BY <2>2, <2>3, <2>4, <2>5, <2>6, <2>7
          DEF Next, Publish, Stage, Write, Fsync, Link, Collide, IoError, WriteBackBody, WriteBackStaging,
              files, vars
<1> QED BY <1>1, <1>2, PublishTypeCorrect, PublicationsAreCoherent, PTL
        DEF Spec, Abstract!Spec, ImplementsWriteOnce
=============================================================================
