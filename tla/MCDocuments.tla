----------------------------- MODULE MCDocuments -----------------------------
(***************************************************************************)
(* The pure algorithms over bounded inputs: a step chooses an input of one *)
(* kind, as Documents says of them.                                        *)
(***************************************************************************)
EXTENDS Documents

Tags2 == {"env"}
Owner3 == [p1 |-> "x", p2 |-> "y", p3 |-> "x"]

UpTo(set, n) == UNION {[1..k -> set] : k \in 0..n}

-----------------------------------------------------------------------------
(* Batches: two assets, two values; up to MAX_BATCHES + 1 of them *)

Claims == [{"x", "y"} -> {0, 1, 2}]
Batch(context, at, bytes, claims) ==
    [context |-> context, observed_at |-> at, input |-> bytes,
     claims |-> [x \in {y \in DOMAIN claims : claims[y] # 0} |-> [name |-> claims[x]]]]
Ordered(n) == {[i \in 1..n |-> Batch("c", i, i, s[i])] : s \in [1..n -> Claims]}
Late == {<<Batch(c, t, 1, p), Batch("c", 2, 2, q)>> : c \in {"c", "d"}, t \in 1..3, p, q \in Claims}

Slot == [observed_at : 1..3, input : {1, 2}]
Supplied == {[i \in DOMAIN s |-> Batch("c", s[i].observed_at, s[i].input, [x |-> 1])] : s \in UpTo(Slot, 3)}
Checkpoints == [context : {"c"}, slots : {s \in UpTo(Slot, 3) : Len(s) > 1}]

ChooseBatches == \E n \in 1..MAX_BATCHES + 1 :
    \E b \in IF n = 2 THEN Late ELSE IF n > MAX_BATCHES THEN {[i \in 1..n |-> Batch("c", i, i, [x |-> 1])]}
             ELSE Ordered(n) :
       input' = [kind |-> "batches", batches |-> b]

ChooseCheckpoint == \E b \in Supplied, c \in Checkpoints :
    input' = [kind |-> "checkpoint", batches |-> b, checkpoint |-> c]

-----------------------------------------------------------------------------
(* Observations: four of them, two host names, one cloud identifier; and exports *)

Observation(id, fqdn, cloud) == [source |-> "s", source_record_id |-> id, fqdn |-> fqdn, cloud |-> cloud]

ChooseObservations == \E f \in [1..5 -> {Missing, "h1", "h2"}], c \in [1..5 -> {Missing, "c1"}] :
    input' = [kind |-> "observations", items |-> [i \in 1..5 |-> Observation(i, f[i], c[i])]]

Tagged == UpTo({<<"env", 1>>, <<"env", 2>>, <<"name", 1>>}, 2)
Found == [id : {"i1", "i2"}, tags : Tagged]

ChooseExport == \E o \in [1..2 -> {"us", "them"}], i \in [1..2 -> Found], more \in BOOLEAN :
    input' = [kind |-> "export", export |->
       [next_token |-> more, reservations |-> [n \in 1..2 |-> [owner |-> o[n], instances |-> <<i[n]>>]]]]

-----------------------------------------------------------------------------
(* Findings: all factors; days around the ends of the service levels *)

Finding(id, asset, severity, exposure, exploit, control) ==
    [id |-> id, asset |-> asset, severity |-> severity, exposure |-> exposure,
     exploit |-> exploit, control |-> control]
Findings == {Finding(<<1, "">>, <<"x", "">>, v, e, x, c) :
    v \in DOMAIN P!SEVERITY_POINTS, e \in DOMAIN P!EXPOSURE_POINTS,
    x \in DOMAIN P!EXPLOIT_POINTS, c \in DOMAIN P!CONTROL_POINTS}
Days == {1, 2, 8, 31}

ChooseUrgency == \E m \in Findings, w \in Findings, o \in {None, "t1"}, r \in {None, 7}, d, l \in Days :
    /\ P!SEVERITY_POINTS[m.severity] <= P!SEVERITY_POINTS[w.severity]
    /\ P!EXPOSURE_POINTS[m.exposure] <= P!EXPOSURE_POINTS[w.exposure]
    /\ P!EXPLOIT_POINTS[m.exploit] <= P!EXPLOIT_POINTS[w.exploit]
    /\ P!CONTROL_POINTS[m.control] <= P!CONTROL_POINTS[w.control]
    /\ d <= l
    /\ input' = [kind |-> "urgency", milder |-> m, worse |-> w, owner |-> o, requested |-> r,
                 as_of |-> d, later |-> l]

Key(name, spelling) == <<name, spelling>>
Tagging(keys) == [k \in keys |-> "v"]
AssetTags == {Tagging({}), Tagging({Key("env", "")}), Tagging({Key("env", "up"), Key("tier", "")}),
              Tagging({Key("env", ""), Key("env", "up")})}
Rule(id, team, names) == [id |-> id, team |-> team, tags |-> Tagging({Key(n, "") : n \in names})]
Env == Rule(1, "t1", {"env"})
Both == Rule(2, "t2", {"env", "tier"})
Directories == [teams : {{"t1", "t2"}},
    rules : {<<Env, Both>>, <<Env, Rule(3, "t2", {"env"})>>, <<Both, Rule(3, "t1", {"env", "tier"}), Env>>,
             <<Rule(3, "t2", {"tier"}), Env>>, <<Env, Env>>, <<Env, Rule(3, "t9", {"env"})>>, <<>>}]
Records(ids, assets, tags) ==
    [finding : {Finding(i, a, v, "internal", "none", "unknown") : i \in ids, a \in assets,
                v \in {"low", "critical"}},
     tags : tags, opened : {0, 3}, requested : {None, 4}]
Spelled == Records({<<1, "">>, <<1, " ">>, <<2, "">>}, {<<"x", "">>}, AssetTags)
Strange == Records({<<2, "">>}, {<<"x", " ">>, <<"z", "">>, <<"y", "">>}, {Tagging({Key("env", "")})})
Owned == {<<"x", "">>, <<"y", "">>}

ChooseQueues == \E r \in UpTo(Spelled, 1) \cup {<<p, q>> : p \in Spelled, q \in Strange \cup
                          Records({<<1, "">>, <<2, "">>}, {<<"x", "">>}, {Tagging({Key("env", "")})})},
                   d \in Directories :
    input' = [kind |-> "queues", records |-> r, directory |-> d, as_of |-> 4,
               assets |-> Owned]

ChooseReviewDates == \E r \in Records({<<1, "">>}, {<<"x", "">>}, {Tagging({Key("env", "")})}),
                        q \in Records({<<2, "">>}, {<<"x", "">>}, {Tagging({})}),
                        d \in 0..5, l \in 0..5 :
    input' = [kind |-> "dates", records |-> <<r, q>>, baseline |-> d, as_of |-> l, assets |-> Owned,
              directory |-> [teams |-> {"t1"}, rules |-> <<Env>>]]

-----------------------------------------------------------------------------
(* Snapshots: an asset with one further field, one section of up to two items *)

Snapshot(id, fields, items, sound) ==
    LET body == [asset |-> [f \in {"asset_id"} \cup DOMAIN fields |->
                              IF f = "asset_id" THEN id ELSE fields[f]],
                 sections |-> [findings |-> items]]
    IN  [asset |-> body.asset, sections |-> body.sections,
         digest |-> IF sound THEN body ELSE [body EXCEPT !.sections.findings = <<>>]]
Items == UpTo([id : {<<1, "">>, <<1, " ">>, <<2, "">>}, body : {1, 2}], 2)
Named == {<<>>} \cup [{"name"} -> {<<Null, "null">>, <<1, "1">>, <<1, "true">>}]
One == << [id |-> <<1, "">>, body |-> 1] >>
Snapshots == {Snapshot(<<"x", "">>, <<>>, i, TRUE) : i \in Items}
Renamed == {Snapshot(i, n, One, s) : i \in {<<"x", "">>, <<"x", " ">>, <<"y", "">>}, n \in Named, s \in BOOLEAN}

Compared == Renamed \cup {Snapshot(<<"x", "">>, [name |-> <<2, "2">>], One, TRUE)}

ChooseSnapshots == \E set \in {Snapshots, Compared} : \E b, c \in set :
    input' = [kind |-> "snapshots", base |-> b, current |-> c]

ChooseManifest == \E s, o \in Renamed, used \in {"k1", "k2"}, state \in {"active", "retired", "lost"},
                     now \in {"active", "retired"}, from \in 0..1, until \in 1..3, at, later \in 0..3 :
    /\ s.asset.asset_id = <<"x", "">> /\ DOMAIN s.asset = DOMAIN o.asset
    /\ input' = [kind |-> "manifest", snapshot |-> s, other |-> o, used |-> used, now |-> now, at |-> at, later |-> later,
                 key |-> "k1",
                 entry |-> [key_id |-> "id", state |-> state, activate |-> from, verify_until |-> until]]

-----------------------------------------------------------------------------
(* Assessments: splices of two that were retained *)

Export(bytes, payloads) == [bytes |-> bytes, payloads |-> payloads]
Exports == {Export("e1", {"p1", "p2"}), Export("e2", {"p1", "p2"}), Export("e3", {"p1", "p2", "p3"})}
Issue(id, asset, due) == [id |-> id, asset |-> asset, opened |-> 1, due |-> due]
IssueSets == {{Issue(1, "x", 1)}, {Issue(1, "y", 1)}, {Issue(1, "x", 2), Issue(2, "y", 2)}}
Teams == {[x |-> "t1", y |-> "t1"], [x |-> "t1", y |-> "t2"]}
Splice(left, right, fields) == [f \in DOMAIN left |-> IF f \in fields THEN right[f] ELSE left[f]]
Swap(rows) == {[asset |-> IF r.asset = "x" THEN "y" ELSE "x", payload |-> r.payload] : r \in rows}

Retained(e, check, findings, team, day, model) ==
    R!RetainAssessment(R!StoreExport(e, "owned", 2), findings, team, day, 4,
                       IF check THEN e ELSE None, model)
Base == Retained(Export("e1", {"p1", "p2"}), TRUE, {Issue(1, "x", 1)}, [x |-> "t1", y |-> "t1"], 1, "m1")
Databases == {Retained(e, c, f, t, 2, "m1") : e \in Exports, c \in BOOLEAN, f \in IssueSets, t \in Teams}
Others == {Base, [Base EXCEPT !.rows = Swap(@)], [Base EXCEPT !.model = "m2"], [Base EXCEPT !.model = None]}

ChooseAssessment == \E d \in Databases, o \in Others, fields \in SUBSET DOMAIN Base, e \in Exports,
                       m \in {"m1", "m2"}, required \in BOOLEAN :
    /\ e = Export("e2", {"p1", "p2"}) => m = "m1"
    /\ input' = [kind |-> "assessment", made |-> d, altered |-> Splice(d, o, fields), export |-> e,
                 model |-> m, required |-> required]

Batches == {R!StoreExport(e, s, t) : e \in Exports, s \in {"owned", "synthetic"}, t \in 2..3}
             \cup Databases
ChooseReview == \E b, c \in Batches, e \in Exports \cup {None}, bind, swap \in BOOLEAN :
    input' = [kind |-> "review", base |-> b, export |-> e, bind |-> bind,
              current |-> IF swap THEN [c EXCEPT !.rows = Swap(@)] ELSE c]

Ec2(e) == R!StoreEc2(e, [scope |-> "owned", observed_at |-> 2, input |-> None, projection |-> None])
Receipt(e, f, t, day, at) == R!RetainEc2(Ec2(e), f, t, e, day, at, "m1")
ReceiptsMade == {Receipt(e, f, t, d, 4) : e \in {Export("e1", {"p1", "p2"})}, f \in IssueSets, t \in Teams, d \in 1..2}
First == Receipt(Export("e2", {"p1", "p2"}), {Issue(1, "x", 1)}, [x |-> "t1", y |-> "t2"], 1, 3)

ChooseReceipts == \E p, c \in ReceiptsMade, fields \in SUBSET DOMAIN First, m \in {"m1", "m2"} :
    input' = [kind |-> "receipts", previous |-> p, current |-> Splice(c, First, fields),
              export |-> Export("e1", {"p1", "p2"}), model |-> m]

-----------------------------------------------------------------------------
Next ==
    /\ input.kind = "none"
    /\ \/ ChooseBatches \/ ChooseCheckpoint
       \/ ChooseObservations \/ ChooseExport
       \/ ChooseUrgency \/ ChooseQueues \/ ChooseReviewDates
       \/ ChooseSnapshots \/ ChooseManifest
       \/ ChooseAssessment \/ ChooseReview \/ ChooseReceipts
    /\ InputOK'

MCSpec == Init /\ [][Next]_input
=============================================================================
