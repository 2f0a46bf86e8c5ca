---------------------------- MODULE ClosedCapture ----------------------------
(***************************************************************************)
(* Copying a database that is meant to be closed (assessment_backup.py,    *)
(* ec2_history_backup.py): look for sidecar files, open, fstat, read,      *)
(* fstat and look again, compare with a pin, replay the bytes captured,    *)
(* publish those bytes.  A SQLite writer works at the same time; copiers   *)
(* do not touch the source and never meet, so there is one.                *)
(*                                                                         *)
(* A page is the number of the transaction that wrote it, a digest the     *)
(* bytes it digests.  A journal is the transaction its pages go back to; a *)
(* writer that is killed leaves it behind, and the next one rolls back.    *)
(* The replay compares the rows it knows and not the bytes, so that it may *)
(* accept captured bytes that mix two transactions: which, is a constant.  *)
(***************************************************************************)
EXTENDS Naturals, FiniteSets

CONSTANTS
    Pages,           \* pages of the database
    Replayed,        \* the bytes whose replay reproduces the evidence
    Pins,            \* digests a caller may demand, None for a backup
    None,
    MaxTransactions  \* bound of the model

ASSUME CaptureAssumption ==
    /\ Pages # {} /\ MaxTransactions \in Nat
    /\ Replayed \subseteq [Pages -> Nat]
    /\ Pins \subseteq [Pages -> Nat] \cup {None}
    /\ None \notin [Pages -> Nat] /\ None \notin Nat

VARIABLES
    pages, journal,  \* the database and its -journal
    committed,       \* the transaction a reader that recovers would see
    last,            \* the last transaction begun
    pc, pin, data,   \* the copier: position, digest demanded, pages read so far
    moved,           \* size, mtime or ctime have changed since its first fstat
    hidden,          \* history: a page written between its fstats left the times as they were
    atRest,          \* history: what was committed at its second fstat, None if a transaction
                     \* was under way
    ended,           \* history: and whether that one ended before its second look
    published        \* the copy it published

source == <<pages, journal, committed, last>>
copier == <<pc, pin, data, published>>
history == <<hidden, atRest, ended>>
vars == <<pages, journal, committed, last, pc, pin, data, moved, history, published>>

Content(n) == [p \in Pages |-> n]

Init ==
    /\ pages = Content(0) /\ journal = None /\ committed = 0 /\ last = 0
    /\ pc = "look" /\ pin \in Pins /\ data = <<>>
    /\ moved = FALSE /\ hidden = FALSE /\ atRest = None /\ ended = FALSE /\ published = None

-----------------------------------------------------------------------------
(* The copier *)

Go(from, to) == pc = from /\ pc' = to

Look ==
    /\ journal = None
    /\ Go("look", "open")
    /\ UNCHANGED <<source, pin, data, moved, history, published>>

OpenSource ==
    /\ Go("open", "read")
    /\ moved' = FALSE
    /\ UNCHANGED <<source, pin, data, history, published>>

ReadPage ==
    /\ pc = "read"
    /\ \E p \in Pages \ DOMAIN data :
          data' = [q \in DOMAIN data \cup {p} |-> IF q = p THEN pages[p] ELSE data[q]]
    /\ UNCHANGED <<source, pc, pin, moved, history, published>>

\* What the file system tells of the source once more ends the reading.
Stat ==
    /\ DOMAIN data = Pages
    /\ Go("read", "again")
    /\ atRest' = IF journal = None THEN committed ELSE None
    /\ UNCHANGED <<source, pin, data, moved, hidden, ended, published>>

\* Mutant: size and times are not compared.
RestatUncompared == Stat

Restat == ~moved /\ Stat

\* Mutant: the sidecars are looked for once only.
LookOnce ==
    /\ Go("again", "verify")
    /\ UNCHANGED <<source, pin, data, moved, history, published>>

LookAgain ==
    /\ journal = None
    /\ Go("again", "verify")
    /\ UNCHANGED <<source, pin, data, moved, history, published>>

\* The pin and the replay of the captured bytes.
Verify ==
    /\ pin # None => data = pin
    /\ data \in Replayed
    /\ Go("verify", "publish")
    /\ UNCHANGED <<source, pin, data, moved, history, published>>

\* Whatever was written since: the captured bytes are published.
PublishCopy ==
    /\ Go("publish", "done")
    /\ published' = data
    /\ UNCHANGED <<source, pin, data, moved, history>>

\* A check that fails ends the call.
Refuse ==
    /\ \/ pc \in {"look", "again"} /\ journal # None
       \/ pc = "read" /\ DOMAIN data = Pages /\ moved
       \/ pc = "verify" /\ ~(data \in Replayed /\ (pin # None => data = pin))
    /\ pc' = "refused"
    /\ UNCHANGED <<source, pin, data, moved, history, published>>

Copy == Look \/ OpenSource \/ ReadPage \/ Restat \/ LookAgain \/ Verify \/ PublishCopy \/ Refuse

-----------------------------------------------------------------------------
(* The writer *)

BeginWrite ==
    /\ journal = None /\ last < MaxTransactions
    /\ journal' = committed /\ last' = last + 1
    /\ UNCHANGED <<pages, committed, copier, moved, history>>

\* A write within one tick of the file system's clock leaves the times as they are.
SetPage(p, n) ==
    /\ pages[p] # n
    /\ pages' = [pages EXCEPT ![p] = n]
    /\ moved' \in {moved, TRUE}
    /\ hidden' = (hidden \/ (pc = "read" /\ ~moved'))
    /\ UNCHANGED <<journal, committed, last, copier, atRest, ended>>

WritePage == journal # None /\ \E p \in Pages : SetPage(p, last)
RollBackPage == journal # None /\ \E p \in Pages : SetPage(p, journal)

EndWrite ==
    /\ journal # None /\ journal' = None
    /\ ended' = (ended \/ (pc = "again" /\ atRest = None))
    /\ UNCHANGED <<pages, last, copier, moved, hidden, atRest>>

Commit == pages = Content(last) /\ committed' = last /\ EndWrite

RolledBack == pages = Content(journal) /\ UNCHANGED committed /\ EndWrite

Write == BeginWrite \/ WritePage \/ RollBackPage \/ Commit \/ RolledBack

Next == Copy \/ Write

Spec == Init /\ [][Next]_vars

-----------------------------------------------------------------------------
(* Properties *)

\* The looks and the fstats are no lock, and the replay does not see every byte.  Still a
\* copy that is published is, byte for byte, the content of one transaction, the committed
\* one if none was under way when the reading ended, but for two things a writer can do
\* behind the copier's back: write a page while it reads, within the clock's tick, or, with
\* a transaction under way at the second fstat, write the last pages and remove the journal
\* before the second look (_closed_bytes compares the fields first and looks for sidecars
\* after).
CopyIsOneState ==
    (published # None /\ ~hidden /\ ~ended) =>
        \E n \in 0..last : published = Content(n) /\ atRest \in {n, None}

-----------------------------------------------------------------------------
(* Why this holds *)

\* Every variable holds a value of its kind.
TypeOK ==
    /\ pages \in [Pages -> Nat] /\ journal \in Nat \cup {None}
    /\ committed \in 0..last /\ last \in 0..MaxTransactions
    /\ pc \in {"look", "open", "read", "again", "verify", "publish", "done", "refused"}
    /\ pin \in Pins /\ moved \in BOOLEAN
    /\ hidden \in BOOLEAN /\ ended \in BOOLEAN /\ atRest \in 0..last \cup {None}
    /\ DOMAIN data \subseteq Pages
    /\ DOMAIN data # {} => data = [p \in DOMAIN data |-> data[p]]
    /\ published \in {None, data}

\* Without a journal the pages are the committed ones, and a journal goes back to them.
WriterIsCoherent ==
    IF journal = None THEN pages = Content(committed) ELSE journal = committed

\* What is read stays what the file holds until a write is seen, or hidden by the clock;
\* what was read by the second fstat was at rest, or the transaction is still under way
\* unless it ended behind the copier's back.
ReadsAreSeen ==
    /\ pc = "read" /\ ~moved /\ ~hidden => \A p \in DOMAIN data : data[p] = pages[p]
    /\ pc = "again" /\ ~ended => atRest # None \/ journal # None
    /\ pc \in {"verify", "publish", "done"} /\ ~ended => atRest # None
    /\ pc \in {"again", "verify", "publish", "done"} /\ ~hidden /\ atRest # None => data = Content(atRest)

\* How far the copier is tells what it has read.
CopyFollows ==
    /\ pc \in {"look", "open"} => DOMAIN data = {}
    /\ pc \in {"again", "verify", "publish", "done"} => DOMAIN data = Pages
    /\ published # None => pc = "done" /\ published = data

CaptureInvariant == TypeOK /\ WriterIsCoherent /\ ReadsAreSeen /\ CopyFollows
=============================================================================
