---------------------------- MODULE Correlation ----------------------------
(***************************************************************************)
(* correlate_assets (engine/correlation/asset_graph.py): observations that *)
(* share a strong identity key, directly or through others, become one     *)
(* asset; and convert_export (engine/discovery/aws_discovery.py), which    *)
(* makes the observations of a saved EC2 export.                           *)
(*                                                                         *)
(* An observation is [source, source_record_id, fqdn, cloud, tags]; fqdn   *)
(* and cloud are Missing where models.py makes no key of them.             *)
(***************************************************************************)
EXTENDS Naturals, Sequences, FiniteSets, SequencesExt

CONSTANTS Missing, Invalid, ReviewTags

IdentityKeys(o) ==
    {<<"source", o.source, o.source_record_id>>}
      \cup (IF o.fqdn = Missing THEN {} ELSE {<<"fqdn", o.fqdn>>})
      \cup (IF o.cloud = Missing THEN {} ELSE {<<"cloud", o.cloud>>})

\* find: the loop walks to the root and halves the path on the way; at the root it is over.
Halve(walk) ==
    LET next == walk.parents[walk.parents[walk.at]] IN
    IF walk.parents[walk.at] = walk.at THEN walk
    ELSE [at |-> next, parents |-> [walk.parents EXCEPT ![walk.at] = next]]

\* Each round goes down, so there are no more of them than observations.
Find(parents, i) ==
    LET walk[k \in 0..Len(parents)] ==
          IF k = 0 THEN [at |-> i, parents |-> parents] ELSE Halve(walk[k - 1])
    IN  walk[Len(parents)]

\* Mutant: the observations are united, not their roots.
UnionOfItems(parents, left, right) == [parents EXCEPT ![left] = right]

Union(parents, left, right) ==
    LET l == Find(parents, left)
        r == Find(l.parents, right)
    IN  IF l.at = r.at THEN r.parents
        ELSE IF l.at < r.at THEN [r.parents EXCEPT ![r.at] = l.at]
        ELSE [r.parents EXCEPT ![l.at] = r.at]

\* The first observation with a key owns it; later ones are united with the owner.
Link(acc, i, key) ==
    IF key \in DOMAIN acc.owner
    THEN [acc EXCEPT !.parents = Union(acc.parents, i, acc.owner[key])]
    ELSE [acc EXCEPT !.owner = [k \in DOMAIN acc.owner \cup {key} |->
                                  IF k = key THEN i ELSE acc.owner[k]]]

\* The keys of an observation in the order of identity_keys, which sorts them.
LinkKeys(acc, i, o) ==
    LET cloud == IF o.cloud = Missing THEN acc ELSE Link(acc, i, <<"cloud", o.cloud>>)
        fqdn  == IF o.fqdn = Missing THEN cloud ELSE Link(cloud, i, <<"fqdn", o.fqdn>>)
    IN  Link(fqdn, i, <<"source", o.source, o.source_record_id>>)

\* The groups, as sets of positions: link every observation, then find the root of each.
Correlate(items) ==
    LET N == Len(items)
        linked[n \in 0..N] ==
          IF n = 0 THEN [parents |-> [i \in 1..N |-> i], owner |-> <<>>]
          ELSE LinkKeys(linked[n - 1], n, items[n])
        found[n \in 0..N] ==
          IF n = 0 THEN [at |-> 0, parents |-> linked[N].parents]
          ELSE Find(found[n - 1].parents, n)
        roots == [i \in 1..N |-> found[i].at]
    IN  {{j \in 1..N : roots[j] = roots[i]} : i \in 1..N}

\* The identity of an asset is the digest of all keys of its group.
AssetId(items, group) == UNION {IdentityKeys(items[i]) : i \in group}

-----------------------------------------------------------------------------
(* An export is [next_token, reservations], a reservation [owner, instances], an *)
(* instance [id, tags] with tags a sequence of <<key, value>>.                   *)

Arn(account, region, id) == <<region, account, id>>

Instances(export) == FlattenSeq([r \in 1..Len(export.reservations) |-> export.reservations[r].instances])

ConvertExport(export, account, region) ==
    LET found == Instances(export)
        asset(i) == [source |-> "aws-ec2-export", source_record_id |-> Arn(account, region, found[i].id),
                     fqdn |-> Missing, cloud |-> <<"aws", account, Arn(account, region, found[i].id)>>,
                     tags |-> {t \in ToSet(found[i].tags) : t[1] \in ReviewTags}]
    IN  IF \/ export.next_token
           \/ \E r \in 1..Len(export.reservations) : export.reservations[r].owner # account
           \/ \E i, j \in 1..Len(found) : i # j /\ found[i].id = found[j].id
           \/ \E i \in 1..Len(found) : \E s, t \in 1..Len(found[i].tags) :
                 s # t /\ found[i].tags[s][1] = found[i].tags[t][1]
        THEN Invalid
        ELSE [i \in 1..Len(found) |-> asset(i)]

-----------------------------------------------------------------------------
(* Properties *)

Shares(items, i, j) == IdentityKeys(items[i]) \cap IdentityKeys(items[j]) # {}

\* The groups are the connected components of sharing a key: whatever the order of the
\* observations and the trees the unions built, they partition the observations, no two
\* assets have an identity key in common, and no asset splits into parts that have none.
AreComponents(items) ==
    LET groups == Correlate(items)
    IN  /\ UNION groups = 1..Len(items)
        /\ \A g, h \in groups : g # h => /\ g \cap h = {}
                                       /\ AssetId(items, g) \cap AssetId(items, h) = {}
        /\ \A g \in groups : \A part \in (SUBSET g) \ {{}, g} :
              \E i \in part, j \in g \ part : Shares(items, i, j)

\* An accepted export is complete and gives every instance an asset of its own, with the
\* one value of each review tag: the readers that expect one observation for each EC2
\* asset (_records) never meet a merged one.
StayApart(export, account, region) ==
    LET items == ConvertExport(export, account, region) IN
    items # Invalid =>
        /\ ~export.next_token
        /\ Len(items) = Cardinality({i.id : i \in ToSet(Instances(export))})
        /\ Correlate(items) = {{i} : i \in 1..Len(items)}
        /\ \A i \in 1..Len(items) : \A s, t \in items[i].tags : s[1] = t[1] => s = t
=============================================================================
