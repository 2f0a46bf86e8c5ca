------------------------ MODULE ObservationTimeline ------------------------
(***************************************************************************)
(* Comparing saved EC2 batches: two of them (ec2_inventory_compare.py), an *)
(* ordered sequence (ec2_observation_timeline.py), and a sequence against  *)
(* a recipient's checkpoint (ec2_timeline_checkpoint.py), which an archive *)
(* retains with it (ec2_sequence_archive.py).                              *)
(*                                                                         *)
(* A batch is what read_ec2 returns of one database and its export:        *)
(*   [context, observed_at, input, claims]                                 *)
(* where context is scope, account and region together, input the digest   *)
(* of the export and claims the fields of each asset.  A result is a       *)
(* record, or Rejected where the code raises.  Byte limits are left out.   *)
(***************************************************************************)
EXTENDS Naturals, Sequences, FiniteSets, SequencesExt, FiniteSetsExt

CONSTANTS MAX_BATCHES, Absent, Rejected
ASSUME TimelineAssumption == MAX_BATCHES \in Nat /\ MAX_BATCHES >= 2

Observed(batch) == DOMAIN batch.claims
Get(claims, field) == IF field \in DOMAIN claims THEN claims[field] ELSE Absent
ChangedFields(left, right) ==
    {k \in DOMAIN left \cup DOMAIN right : Get(left, k) # Get(right, k)}

-----------------------------------------------------------------------------
(* Two batches *)

CompareInventories(old, new) ==
    LET common  == Observed(old) \cap Observed(new)
        fields  == [x \in common |-> ChangedFields(old.claims[x], new.claims[x])]
        changed == {x \in common : fields[x] # {}}
    IN  IF old.context # new.context \/ new.observed_at <= old.observed_at THEN Rejected
        ELSE [added |-> Observed(new) \ Observed(old), not_observed |-> Observed(old) \ Observed(new),
              changes |-> [x \in changed |-> fields[x]], unchanged |-> common \ changed,
              source_bytes_changed |-> old.input # new.input]

-----------------------------------------------------------------------------
(* A sequence of batches *)

OrderedBatches(batches) ==
    /\ Len(batches) \in 2..MAX_BATCHES
    /\ \A i \in 2..Len(batches) :
          /\ batches[i].context = batches[i - 1].context
          /\ batches[i].observed_at > batches[i - 1].observed_at

STATUSES == {"first_observed", "changed", "unchanged", "observed_again", "not_observed"}

\* Mutant: an asset that comes back counts as a new one.
StatusByBatch(x, batch, previous, last) ==
    IF x \notin previous THEN "first_observed"
    ELSE IF ChangedFields(last[x].claims, batch.claims[x]) # {} THEN "changed" ELSE "unchanged"

\* The status of an asset present in a batch, from the last time each asset was seen.
Status(x, batch, previous, last) ==
    IF x \notin DOMAIN last THEN "first_observed"
    ELSE IF x \notin previous THEN "observed_again"
    ELSE IF ChangedFields(last[x].claims, batch.claims[x]) # {} THEN "changed" ELSE "unchanged"

Count(step, status) == Cardinality({x \in DOMAIN step : step[x].status = status})

\* One batch: present assets in turn update last_seen, then the absent ones are reported.
Step(acc, batch) ==
    LET present == Observed(batch)
        n       == Len(acc.steps) + 1
        prior   == [x \in present \cup acc.previous |->
                      IF x \in DOMAIN acc.last THEN acc.last[x] ELSE Absent]
        status  == [x \in present \cup acc.previous |->
                      IF x \in present THEN Status(x, batch, acc.previous, acc.last)
                      ELSE "not_observed"]
        step    == [x \in DOMAIN status |-> [status |-> status[x], previous_observation |-> prior[x]]]
    IN  [steps    |-> Append(acc.steps, step),
         totals   |-> [s \in STATUSES |-> acc.totals[s] + Count(step, s)],
         previous |-> present,
         last     |-> [x \in DOMAIN acc.last \cup present |->
                         IF x \in present THEN [sequence |-> n, claims |-> batch.claims[x]]
                         ELSE acc.last[x]]]

BuildTimeline(batches) ==
    LET run[n \in 0..Len(batches)] ==
          IF n = 0 THEN [steps |-> <<>>, totals |-> [s \in STATUSES |-> 0], previous |-> {}, last |-> <<>>]
          ELSE Step(run[n - 1], batches[n])
        end == run[Len(batches)]
    IN  IF ~OrderedBatches(batches) THEN Rejected
        ELSE [batches |-> batches, steps |-> end.steps, event_totals |-> end.totals,
              unique_asset_count |-> Cardinality(DOMAIN end.last)]

-----------------------------------------------------------------------------
(* A recipient's checkpoint: [context, slots], a slot being [observed_at, input] *)

ReadCheckpoint(checkpoint) ==
    /\ Len(checkpoint.slots) \in 2..MAX_BATCHES
    /\ \A i \in 2..Len(checkpoint.slots) :
          checkpoint.slots[i].observed_at > checkpoint.slots[i - 1].observed_at

\* Mutant: a batch at the time expected is enough, whatever its export.
SlotPresent(slot, batches) ==
    IF \E i \in 1..Len(batches) : batches[i].observed_at = slot.observed_at THEN "matched" ELSE "missing_batch"

\* observed: the supplied batch of a claimed time; later entries of a time replace earlier.
SlotStatus(slot, batches) ==
    LET at == {i \in 1..Len(batches) : batches[i].observed_at = slot.observed_at} IN
    IF at = {} THEN "missing_batch"
    ELSE IF batches[Max(at)].input = slot.input THEN "matched" ELSE "export_mismatch"

AssessSequence(batches, checkpoint) ==
    LET timeline   == BuildTimeline(batches)
        slots      == [i \in 1..Len(checkpoint.slots) |-> SlotStatus(checkpoint.slots[i], batches)]
        unexpected == {i \in 1..Len(batches) :
                         \A j \in 1..Len(checkpoint.slots) :
                            checkpoint.slots[j].observed_at # batches[i].observed_at}
    IN  IF \/ ~ReadCheckpoint(checkpoint) \/ timeline = Rejected
           \/ \E i \in 1..Len(batches) : batches[i].context # checkpoint.context
        THEN Rejected
        ELSE [timeline |-> timeline, slots |-> slots, unexpected |-> unexpected,
              requirements_satisfied |-> /\ \A i \in DOMAIN slots : slots[i] = "matched"
                                         /\ unexpected = {}]

\* An archive holds the batches, the checkpoint, the coverage report and the sources.
CreateArchive(batches, checkpoint, sources) ==
    LET coverage == AssessSequence(batches, checkpoint) IN
    IF coverage = Rejected THEN Rejected
    ELSE [batches |-> batches, checkpoint |-> checkpoint, coverage |-> coverage, sources |-> sources]

LoadArchive(archive, pin, checkpoint, sources) ==
    /\ archive = pin /\ archive.sources = sources /\ archive.checkpoint = checkpoint
    /\ AssessSequence(archive.batches, checkpoint) # Rejected
    /\ archive.coverage = AssessSequence(archive.batches, checkpoint)

-----------------------------------------------------------------------------
(* Properties *)

\* Each step of a timeline tells what comparing the two batches beside it tells (both are
\* coded on their own): the same additions, losses and changed assets; an asset that comes
\* back is an addition that is told apart from a new one by an earlier batch.
AgreesWithComparisons(batches) ==
    LET timeline == BuildTimeline(batches) IN
    timeline # Rejected => \A i \in 2..Len(batches) :
        LET step == timeline.steps[i]
            pair == CompareInventories(batches[i - 1], batches[i])
            Is(status) == {x \in DOMAIN step : step[x].status = status}
        IN  /\ pair # Rejected
            /\ pair.added = Is("first_observed") \cup Is("observed_again")
            /\ pair.not_observed = Is("not_observed")
            /\ DOMAIN pair.changes = Is("changed")
            /\ pair.unchanged = Is("unchanged")
            /\ Is("observed_again") = {x \in pair.added : \E j \in 1..i-2 : x \in Observed(batches[j])}

\* What an event calls the previous observation is the latest earlier batch that has the
\* asset, and the totals balance: the assets of the last batch are those that came, less
\* those that went, and no asset came for the first time twice.
Balances(batches) ==
    LET timeline == BuildTimeline(batches)
        totals   == timeline.event_totals
    IN timeline # Rejected =>
        /\ Cardinality(Observed(Last(batches))) + totals["not_observed"]
             = totals["first_observed"] + totals["observed_again"]
        /\ totals["first_observed"] = timeline.unique_asset_count
        /\ \A i \in 1..Len(batches) : \A x \in DOMAIN timeline.steps[i] :
              LET earlier == {j \in 1..i-1 : x \in Observed(batches[j])}
                  prior   == timeline.steps[i][x].previous_observation
              IN  IF earlier = {} THEN prior = Absent
                  ELSE prior = [sequence |-> Max(earlier), claims |-> batches[Max(earlier)].claims[x]]

\* A checkpoint is satisfied by one sequence only: the batches expected, each with the
\* exact export, in order, none missing and none besides.  An archive of a sequence loads
\* again, and one that lost a batch on the way into it does not, even under its own pin.
ExactWhenSatisfied(batches, checkpoint) ==
    LET review == AssessSequence(batches, checkpoint)
        supplied == [i \in 1..Len(batches) |->
                       [observed_at |-> batches[i].observed_at, input |-> batches[i].input]]
        archive == CreateArchive(batches, checkpoint, "sources")
        Loads(a) == LoadArchive(a, a, checkpoint, "sources")
    IN  review # Rejected =>
        /\ review.requirements_satisfied <=> supplied = checkpoint.slots
        /\ Loads(archive)
        /\ \A i \in 1..Len(batches) : ~Loads([archive EXCEPT !.batches = RemoveAt(@, i)])
=============================================================================
