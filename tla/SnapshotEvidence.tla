-------------------------- MODULE SnapshotEvidence --------------------------
(***************************************************************************)
(* Comparing two exported snapshots of an asset (evidence_diff.py) and     *)
(* sealing one with a keyed manifest (evidence_auth.py) under a keyring    *)
(* with key states and validity windows (evidence_keyring.py).             *)
(*                                                                         *)
(* A snapshot is [asset, sections, digest]: asset a function of fields,    *)
(* sections the lists of items [id, body], the digest the body it was      *)
(* taken of.  An ID is <<value, padding>>, which strip takes away; a field *)
(* is <<value, text>>: JSON's 1, 1.0 and true are one value to Python and  *)
(* three texts to the digest.  An item's body is its text.  A MAC is its   *)
(* key and message.  A result is a value, or Rejected where the code       *)
(* raises.                                                                 *)
(***************************************************************************)
EXTENDS Naturals, Sequences, FiniteSets, SequencesExt

CONSTANTS Null, Rejected

Strip(text) == <<text[1], "">>

Body(s) == [asset |-> s.asset, sections |-> s.sections]

ValidateSnapshot(s) ==
    /\ \A name \in DOMAIN s.sections : \A i, j \in 1..Len(s.sections[name]) :
          i # j => Strip(s.sections[name][i].id) # Strip(s.sections[name][j].id)
    /\ s.digest = Body(s)

\* Mutant: items that both snapshots have are not compared.
SectionMembership(base, current) ==
    LET ids(items) == {Strip(items[i].id) : i \in 1..Len(items)} IN
    [added |-> ids(current) \ ids(base), removed |-> ids(base) \ ids(current), modified |-> {}]

SectionChanges(base, current) ==
    LET ids(items)    == {Strip(items[i].id) : i \in 1..Len(items)}
        item(x, items) == CHOOSE it \in ToSet(items) : Strip(it.id) = x
    IN  [added |-> ids(current) \ ids(base), removed |-> ids(base) \ ids(current),
         modified |-> {x \in ids(base) \cap ids(current) : item(x, base) # item(x, current)}]

\* asset.get(f), as != compares it: null and a field that is not there are None.
Field(asset, f) == IF f \in DOMAIN asset THEN asset[f][1] ELSE Null

CompareSnapshots(base, current) ==
    IF \/ ~ValidateSnapshot(base) \/ ~ValidateSnapshot(current)
       \/ Strip(base.asset.asset_id) # Strip(current.asset.asset_id)
    THEN Rejected
    ELSE [fields |-> {f \in (DOMAIN base.asset \cup DOMAIN current.asset) \ {"asset_id"} :
                        Field(base.asset, f) # Field(current.asset, f)},
          sections |-> [name \in DOMAIN base.sections |->
                          SectionChanges(base.sections[name], current.sections[name])]]

Changed(diff) ==
    \/ diff.fields # {}
    \/ \E name \in DOMAIN diff.sections : \E kind \in {"added", "removed", "modified"} :
          diff.sections[name][kind] # {}

-----------------------------------------------------------------------------
(* Keys: a keyring is a list of [key_id, state, activate, verify_until], or Null *)

\* Mutant: the window includes its end.
WithinClosed(entry, at) == entry.activate <= at /\ at <= entry.verify_until

Within(entry, at) == entry.activate <= at /\ at < entry.verify_until

AuthorizeKeyUse(keyring, key_id, operation, at) ==
    /\ keyring # <<>>
    /\ \A i, j \in 1..Len(keyring) : keyring[i].key_id = keyring[j].key_id => i = j
    /\ \E i \in 1..Len(keyring) :
          /\ keyring[i].key_id = key_id
          /\ keyring[i].state \in {"active", "retired"}
          /\ keyring[i].activate < keyring[i].verify_until
          /\ Within(keyring[i], at)
          /\ operation = "create" => keyring[i].state = "active"

Authorize(keyring, key_id, operation, at) ==
    keyring = Null \/ AuthorizeKeyUse(keyring, key_id, operation, at)

Message(key_id, asset_id, digest) == <<key_id, asset_id, digest>>

CreateManifest(snapshot, key, key_id, keyring, at) ==
    LET asset_id == Strip(snapshot.asset.asset_id) IN
    IF ~Authorize(keyring, key_id, "create", at) \/ CompareSnapshots(snapshot, snapshot) = Rejected
    THEN Rejected
    ELSE [key_id |-> key_id, asset_id |-> asset_id, snapshot |-> snapshot.digest,
          hmac |-> <<key, Message(key_id, asset_id, snapshot.digest)>>]

VerifyManifest(snapshot, manifest, key, key_id, keyring, at) ==
    LET expected == CreateManifest(snapshot, key, key_id, Null, at) IN
    /\ Authorize(keyring, key_id, "verify", at)
    /\ manifest.key_id = key_id
    /\ expected # Rejected
    /\ manifest.hmac = expected.hmac
    /\ manifest.asset_id = expected.asset_id
    /\ manifest.snapshot = expected.snapshot

-----------------------------------------------------------------------------
(* Properties *)

\* A comparison says "unchanged" exactly of two snapshots with the same evidence: asset
\* fields of the same values, but for nulls, and the same items in every section, to the
\* text and in whatever order.  One that swaps the two tells the same changes the other
\* way round (compare_snapshots).
SameEvidence(base, current) ==
    LET evidence(s) == [fields |-> {<<f, s.asset[f][1]>> : f \in {g \in DOMAIN s.asset \ {"asset_id"} :
                                                                    s.asset[g][1] # Null}},
                        items |-> [name \in DOMAIN s.sections |-> ToSet(s.sections[name])]]
        diff == CompareSnapshots(base, current)
        back == CompareSnapshots(current, base)
    IN  /\ diff = Rejected <=> back = Rejected
        /\ diff # Rejected =>
              /\ ~Changed(diff) <=> evidence(base) = evidence(current)
              /\ \A name \in DOMAIN diff.sections :
                    /\ diff.sections[name].added = back.sections[name].removed
                    /\ diff.sections[name].modified = back.sections[name].modified

\* "Asset field changes are listed separately" (docs/architecture.md): a field that both
\* snapshots have, with another text, is listed, as an item with another text is.  But
\* asset fields are compared with !=, so this does not hold when 1 has become true.
ListsFieldChanges(base, current) ==
    LET diff == CompareSnapshots(base, current) IN
    diff # Rejected =>
      \A f \in (DOMAIN base.asset \cap DOMAIN current.asset) \ {"asset_id"} :
        base.asset[f] # current.asset[f] => f \in diff.fields

\* A manifest that was created verifies for the snapshot it was created of and for no
\* other, with its own key only, and through the whole window of the key even after the
\* key was retired, while a retired key creates none (create_manifest, verify_manifest).
SealsOneSnapshot(snapshot, other, key, used, key_id, entry, state, at, later) ==
    LET ring(s)  == << [entry EXCEPT !.state = s] >>
        manifest == CreateManifest(snapshot, key, key_id, ring(entry.state), at)
    IN  manifest # Rejected =>
          /\ entry.state = "active"
          /\ VerifyManifest(other, manifest, used, key_id, ring(state), later)
               <=> /\ Body(other) = Body(snapshot) /\ ValidateSnapshot(other)
                   /\ used = key
                   /\ entry.activate <= later /\ later < entry.verify_until
=============================================================================
