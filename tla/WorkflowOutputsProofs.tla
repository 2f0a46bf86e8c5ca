------------------------ MODULE WorkflowOutputsProofs -------------------------
(***************************************************************************)
(* Proofs about WorkflowOutputs, for any number of calls and kills: runs   *)
(* that do not overlap never take each other's evidence.                   *)
(***************************************************************************)
EXTENDS WorkflowOutputs, TLAPS

\* Every step keeps the types.
LEMMA OutputsTypeStep == TypeOK /\ [Next]_vars => TypeOK'
<1> SUFFICES ASSUME TypeOK, [Next]_vars PROVE TypeOK'
  OBVIOUS
<1> USE KillsAssumption DEF TypeOK, files, Step, End
<1>1. ASSUME NEW c \in Callers, Check(c) PROVE TypeOK'
  BY <1>1 DEF Check, Start, Running
<1>2. ASSUME NEW c \in Callers, ApplySchema(c) PROVE TypeOK'
  BY <1>2 DEF ApplySchema
<1>3. ASSUME NEW c \in Callers, Load(c) \/ BeginBundle(c) \/ CommitBundle(c) PROVE TypeOK'
  BY <1>3 DEF Load, BeginBundle, CommitBundle
<1>4. ASSUME NEW c \in Callers, OpenReport(c) \/ WriteReport(c) PROVE TypeOK'
  BY <1>4 DEF OpenReport, WriteReport
<1>5. ASSUME NEW c \in Callers, Fail(c) \/ Unlink(c) \/ UnlinkReport(c) PROVE TypeOK'
  BY <1>5 DEF Fail, Unlink, UnlinkReport
<1>6. ASSUME NEW c \in Callers, Kill(c) PROVE TypeOK'
  <2>1. kills \in 0..MaxKills
    OBVIOUS
  <2> HIDE DEF TypeOK, Step, End
  <2>2. kills' \in 0..MaxKills
    BY <1>6, <2>1 DEF Kill
  <2>3. /\ UNCHANGED <<db, evidence, report, written, overlap>>
        /\ pc' = [pc EXCEPT ![c] = "done"] /\ End(c, "killed")
    BY <1>6 DEF Kill
  <2> QED BY <2>2, <2>3 DEF TypeOK, End
<1>7. CASE UNCHANGED vars
  BY <1>7 DEF vars
<1> QED BY <1>1, <1>2, <1>3, <1>4, <1>5, <1>6, <1>7 DEF Next, Run

\* A call runs between its check and its end.
LEMMA RunningIsPc ==
  /\ \A c \in Callers : c \in Running <=> pc[c] \notin {"check", "done"}
  /\ \A c \in Callers : (c \in Running)' <=> pc'[c] \notin {"check", "done"}
BY DEF Running

\* While d runs, the other calls that never overlapped neither run nor have succeeded.
LEMMA OnlyOneRuns ==
  ASSUME OutputsInvariant, NEW d \in Callers, d \in Running, NEW c \in Callers \ overlap, c # d
  PROVE  c \notin Running /\ answer[c] # "success"
BY DEF OutputsInvariant, LoneCall

\* The check of the names keeps what is said of calls that do not overlap.
LEMMA CheckStep ==
  ASSUME OutputsInvariant, NEW d \in Callers, Check(d)
  PROVE  LoneCall' /\ EarlierRunIsKept'
<1>1. pc[d] = "check" /\ UNCHANGED <<db, evidence, report, written, kills>>
  BY DEF Check, Step, files
<1>2. \A c \in Callers \ {d} : pc'[c] = pc[c] /\ answer'[c] = answer[c]
  BY DEF Check, Step, End, OutputsInvariant, TypeOK
<1>3. CASE pc'[d] = "done"
  <2>1. answer'[d] = "failed" /\ overlap' = overlap
    BY <1>3 DEF Check, Step, End, OutputsInvariant, TypeOK
  <2>2. \A c \in Callers : (c \in Running)' <=> c \in Running
    BY <1>1, <1>2, <1>3, RunningIsPc
  <2>3. d \notin Running
    BY <1>1, RunningIsPc
  <2>4. LoneCall'
    BY <1>1, <1>2, <1>3, <2>1, <2>2, <2>3 DEF OutputsInvariant, LoneCall
  <2>5. EarlierRunIsKept'
    BY <1>1, <1>2, <2>1 DEF OutputsInvariant, EarlierRunIsKept
  <2> QED BY <2>4, <2>5
<1>4. CASE pc'[d] = "schema"
  <2>1. db = None /\ report = None /\ Start(d) /\ answer' = answer
    BY <1>4 DEF Check, Step, End, OutputsInvariant, TypeOK
  <2>2. overlap \subseteq overlap' /\ \A c \in Callers : c \in Running => {c, d} \subseteq overlap'
    BY <2>1 DEF Start
  <2>3. ASSUME NEW c \in Callers \ overlap' PROVE answer[c] # "success"
    BY <2>1, <2>2, NoneAssumption DEF OutputsInvariant, EarlierRunIsKept
  <2>4. answer[d] # None => pc[d] = "done" \/ d \in overlap
    BY DEF OutputsInvariant, LoneCall
  <2>5. LoneCall'
    BY <1>1, <1>2, <1>4, <2>1, <2>2, <2>3, <2>4, RunningIsPc DEF OutputsInvariant, LoneCall
  <2>6. EarlierRunIsKept'
    BY <2>1, <2>3 DEF EarlierRunIsKept
  <2> QED BY <2>5, <2>6
<1> QED BY <1>3, <1>4 DEF Check, Step, OutputsInvariant, TypeOK

-------------------------------------------------------------------------------
\* What the invariant asks of a call that has never overlapped another one.
LoneAt(c) ==
  /\ pc[c] = "schema" => db = None /\ report = None
  /\ pc[c] \in {"load", "store", "commit", "unlink"} => db = c /\ report = None
  /\ pc[c] \in {"open", "unlink both"} => db = c /\ c \in evidence /\ report \in {None, c}
  /\ pc[c] = "open" => report = None
  /\ pc[c] = "write" => db = c /\ c \in evidence /\ report = c
  /\ pc[c] = "unlink report" => db = None /\ report \in {None, c}
  /\ answer[c] = "success" => db = c /\ c \in evidence /\ report = c /\ c \in written

\* Nobody else runs, so a step of a running call d only has to keep what is said of d.
LEMMA RunningStep ==
  ASSUME OutputsInvariant, NEW d \in Callers, d \in Running,
         overlap' = overlap,
         \A c \in Callers \ {d} : pc'[c] = pc[c] /\ answer'[c] = answer[c],
         pc'[d] # "check",
         d \notin overlap => LoneAt(d)' /\ (answer'[d] # None => pc'[d] = "done")
  PROVE  LoneCall' /\ EarlierRunIsKept'
<1>1. ASSUME NEW c \in Callers \ overlap, c # d
      PROVE  pc'[c] \in {"check", "done"} /\ answer'[c] # "success" /\ c \notin Running'
  BY <1>1, OnlyOneRuns, RunningIsPc
<1>2. ASSUME NEW c \in Callers \ {d}, d \notin overlap PROVE c \notin Running'
  <2>1. c \notin Running
    BY <1>2 DEF OutputsInvariant, LoneCall
  <2> QED BY <2>1, RunningIsPc
<1>3. \A c \in Callers \ overlap : answer'[c] # None => pc'[c] = "done"
  BY DEF OutputsInvariant, LoneCall
<1>4. d \notin overlap /\ answer'[d] = "success" => d \notin Running'
  BY NoneAssumption, RunningIsPc
<1>5. LoneCall'
  <2> SUFFICES ASSUME NEW c \in Callers \ overlap
               PROVE  /\ (c \in Running)' => \A e \in Callers \ {c} : (e \notin Running)'
                      /\ LoneAt(c)'
                      /\ answer'[c] = "success" => \A e \in Callers : (e \notin Running)'
                      /\ answer'[c] # None => pc'[c] = "done"
    BY DEF LoneCall, LoneAt
  <2>1. CASE c = d
    BY <1>2, <1>3, <1>4, <2>1
  <2>2. CASE c # d
    BY <1>1, <1>3, <2>2 DEF LoneAt
  <2> QED BY <2>1, <2>2
<1>6. EarlierRunIsKept'
  BY <1>1 DEF EarlierRunIsKept, LoneAt
<1> QED BY <1>5, <1>6

\* Every later step of a call keeps it.
LEMMA WorkStep ==
  ASSUME OutputsInvariant, NEW d \in Callers,
         \/ ApplySchema(d) \/ Load(d) \/ BeginBundle(d) \/ CommitBundle(d) \/ OpenReport(d)
         \/ WriteReport(d) \/ Fail(d) \/ Unlink(d) \/ UnlinkReport(d) \/ Kill(d)
  PROVE  LoneCall' /\ EarlierRunIsKept'
<1> USE DEF Step, End
<1>1. d \in Running
  BY RunningIsPc DEF ApplySchema, Load, BeginBundle, CommitBundle, OpenReport, WriteReport,
                     Fail, Unlink, UnlinkReport, Kill
<1>2. overlap' = overlap
  BY DEF ApplySchema, Load, BeginBundle, CommitBundle, OpenReport, WriteReport,
         Fail, Unlink, UnlinkReport, Kill
<1>3. \A c \in Callers \ {d} : pc'[c] = pc[c] /\ answer'[c] = answer[c]
  BY DEF ApplySchema, Load, BeginBundle, CommitBundle, OpenReport, WriteReport,
         Fail, Unlink, UnlinkReport, Kill, OutputsInvariant, TypeOK
<1>4. pc'[d] # "check"
  BY DEF ApplySchema, Load, BeginBundle, CommitBundle, OpenReport, WriteReport,
         Fail, Unlink, UnlinkReport, Kill, OutputsInvariant, TypeOK
<1>5. d \notin overlap => LoneAt(d) /\ answer[d] = None
  <2>1. d \notin overlap => answer[d] = None
    BY <1>1, RunningIsPc DEF OutputsInvariant, LoneCall
  <2> QED BY <2>1, NoneAssumption DEF OutputsInvariant, LoneCall, LoneAt
<1>6. d \notin overlap => LoneAt(d)' /\ (answer'[d] # None => pc'[d] = "done")
  <2> SUFFICES ASSUME d \notin overlap PROVE LoneAt(d)' /\ (answer'[d] # None => pc'[d] = "done")
    OBVIOUS
  <2>1. LoneAt(d) /\ answer[d] = None /\ d # None
    BY <1>5, NoneAssumption
  <2>2. CASE ApplySchema(d)
    BY <2>1, <2>2, NoneAssumption DEF ApplySchema, LoneAt, OutputsInvariant, TypeOK
  <2>3. CASE Load(d) \/ BeginBundle(d)
    BY <2>1, <2>3, NoneAssumption DEF Load, BeginBundle, files, LoneAt, OutputsInvariant, TypeOK
  <2>4. CASE CommitBundle(d)
    BY <2>1, <2>4, NoneAssumption DEF CommitBundle, LoneAt, OutputsInvariant, TypeOK
  <2>5. CASE OpenReport(d)
    BY <2>1, <2>5, NoneAssumption DEF OpenReport, LoneAt, OutputsInvariant, TypeOK
  <2>6. CASE WriteReport(d)
    BY <2>1, <2>6, NoneAssumption DEF WriteReport, LoneAt, OutputsInvariant, TypeOK
  <2>7. CASE Fail(d)
    BY <2>1, <2>7, NoneAssumption DEF Fail, files, LoneAt, OutputsInvariant, TypeOK
  <2>8. CASE Unlink(d)
    BY <2>1, <2>8, NoneAssumption DEF Unlink, LoneAt, OutputsInvariant, TypeOK
  <2>9. CASE UnlinkReport(d) \/ Kill(d)
    BY <2>1, <2>9, NoneAssumption DEF UnlinkReport, Kill, LoneAt, OutputsInvariant, TypeOK
  <2> QED BY <2>2, <2>3, <2>4, <2>5, <2>6, <2>7, <2>8, <2>9
<1> QED BY <1>1, <1>2, <1>3, <1>4, <1>6, RunningStep

-------------------------------------------------------------------------------
\* Calls that do not overlap find the names free or stop, and have them to themselves.
THEOREM LoneCallsAreAlone == Spec => []OutputsInvariant
<1>1. Init => OutputsInvariant
  BY KillsAssumption, NoneAssumption
     DEF Init, OutputsInvariant, TypeOK, LoneCall, EarlierRunIsKept, Running
<1>2. OutputsInvariant /\ [Next]_vars => OutputsInvariant'
  <2> SUFFICES ASSUME OutputsInvariant, [Next]_vars PROVE OutputsInvariant'
    OBVIOUS
  <2>1. TypeOK'
    BY OutputsTypeStep DEF OutputsInvariant
  <2>2. LoneCall' /\ EarlierRunIsKept'
    <3>1. CASE Next
      BY <3>1, CheckStep, WorkStep DEF Next, Run
    <3>2. CASE UNCHANGED vars
      BY <3>2 DEF vars, files, OutputsInvariant, LoneCall, EarlierRunIsKept, Running
    <3> QED BY <3>1, <3>2
  <2> QED BY <2>1, <2>2 DEF OutputsInvariant
<1> QED BY <1>1, <1>2, PTL DEF Spec

\* The docstring's promise, for runs that do not overlap.
THEOREM EarlierRunsAreKept == Spec => []EarlierRunIsKept
<1>1. OutputsInvariant => EarlierRunIsKept
  BY DEF OutputsInvariant
<1> QED BY <1>1, LoneCallsAreAlone, PTL

-------------------------------------------------------------------------------
\* What is incomplete is of a call that runs or was killed: one step of a call.
LEMMA ExplainedStep ==
  ASSUME ExplainedInvariant, TypeOK', NEW d \in Callers, Run(d) \/ Kill(d)
  PROVE  OutputsFollowCall' /\ IncompleteIsExplained'
<1> USE NoneAssumption DEF Step, End, files
<1>1. \A c \in Callers \ {d} : pc'[c] = pc[c] /\ answer'[c] = answer[c] /\ ((c \in Running)' <=> c \in Running)
  <2>1. \E to, how : /\ pc' = [pc EXCEPT ![d] = to]
                     /\ answer' = answer \/ answer' = [answer EXCEPT ![d] = how]
    BY DEF Run, Check, ApplySchema, Load, BeginBundle, CommitBundle, OpenReport, WriteReport,
           Fail, Unlink, UnlinkReport, Kill
  <2>2. DOMAIN pc = Callers /\ DOMAIN answer = Callers
    BY DEF ExplainedInvariant, TypeOK
  <2>3. \A c \in Callers \ {d} : pc'[c] = pc[c] /\ answer'[c] = answer[c]
    BY <2>1, <2>2
  <2> QED BY <2>3, RunningIsPc
<1>2. /\ d # None /\ d \in Callers
      /\ (d \in Running)' <=> pc'[d] \notin {"check", "done"}
      /\ d \in Running <=> pc[d] \notin {"check", "done"}
  BY RunningIsPc
<1> DEFINE Of(c) == /\ answer[c] = "killed" => pc[c] = "done"
                    /\ pc[c] = "check" => db # c
                    /\ pc[c] \in {"check", "schema", "load", "store", "commit", "unlink"} => report # c
                    /\ pc[c] \in {"open", "write", "unlink both", "unlink report"} => c \in evidence
           Said(c) == /\ db = c => c \in evidence \/ c \in Running \/ answer[c] = "killed"
                      /\ report = c => c \in written \/ c \in Running \/ answer[c] = "killed"
<1>3. \A c \in Callers : Of(c) /\ Said(c)
  BY DEF ExplainedInvariant, OutputsFollowCall, IncompleteIsExplained
<1>4. /\ evidence \subseteq evidence' /\ written \subseteq written'
      /\ db' \in {db, d, None} /\ report' \in {report, d, None}
  BY DEF Run, Check, ApplySchema, Load, BeginBundle, CommitBundle, OpenReport, WriteReport,
         Fail, Unlink, UnlinkReport, Kill
<1>5. ASSUME NEW c \in Callers \ {d} PROVE Of(c)' /\ Said(c)'
  <2>1. c # None /\ c # d /\ Of(c) /\ Said(c)
    BY <1>3, <1>5
  <2>2. pc'[c] = pc[c] /\ answer'[c] = answer[c] /\ ((c \in Running)' <=> c \in Running)
    BY <1>1
  <2>3. (db' = c => db = c) /\ (report' = c => report = c)
    BY <1>4, <2>1
  <2>4. Of(c)'
    BY <1>4, <2>1, <2>2, <2>3
  <2>5. Said(c)'
    BY <1>4, <2>1, <2>2, <2>3
  <2> QED BY <2>4, <2>5
<1>6. Of(d)' /\ Said(d)'
  <2>1. Of(d) /\ Said(d) /\ pc \in [Callers -> {"check", "schema", "load", "store", "commit", "open", "write",
                         "unlink", "unlink both", "unlink report", "done"}] /\ DOMAIN answer = Callers
    BY <1>3 DEF ExplainedInvariant, TypeOK
  <2>2. CASE Check(d)
    BY <1>2, <2>1, <2>2 DEF Check
  <2>3. CASE ApplySchema(d)
    BY <1>2, <2>1, <2>3 DEF ApplySchema
  <2>4. CASE Load(d) \/ BeginBundle(d)
    BY <1>2, <2>1, <2>4 DEF Load, BeginBundle
  <2>5. CASE CommitBundle(d)
    BY <1>2, <2>1, <2>5 DEF CommitBundle
  <2>6. CASE OpenReport(d)
    BY <1>2, <2>1, <2>6 DEF OpenReport
  <2>7. CASE WriteReport(d)
    BY <1>2, <2>1, <2>7 DEF WriteReport
  <2>8. CASE Fail(d)
    BY <1>2, <2>1, <2>8 DEF Fail
  <2>9. CASE Unlink(d)
    BY <1>2, <2>1, <2>9 DEF Unlink
  <2>10. CASE UnlinkReport(d)
    BY <1>2, <2>1, <2>10 DEF UnlinkReport
  <2>11. CASE Kill(d)
    BY <1>2, <2>1, <2>11 DEF Kill
  <2> QED BY <2>2, <2>3, <2>4, <2>5, <2>6, <2>7, <2>8, <2>9, <2>10, <2>11 DEF Run
<1>7. \A c \in Callers : Of(c)' /\ Said(c)'
  BY <1>5, <1>6
<1> HIDE DEF Of, Said
<1>8. OutputsFollowCall'
  BY <1>7 DEF OutputsFollowCall, Of
<1>9. IncompleteIsExplained'
  BY <1>7 DEF IncompleteIsExplained, TypeOK, Said
<1> QED BY <1>8, <1>9

\* An incomplete database or report is explained in every reachable state.
THEOREM OutputsAreExplained == Spec => []ExplainedInvariant
<1>1. Init => ExplainedInvariant
  BY KillsAssumption, NoneAssumption
     DEF Init, ExplainedInvariant, TypeOK, OutputsFollowCall, IncompleteIsExplained
<1>2. ExplainedInvariant /\ [Next]_vars => ExplainedInvariant'
  <2> SUFFICES ASSUME ExplainedInvariant, [Next]_vars PROVE ExplainedInvariant'
    OBVIOUS
  <2>1. TypeOK'
    BY OutputsTypeStep DEF ExplainedInvariant
  <2>2. CASE Next
    BY <2>1, <2>2, ExplainedStep DEF Next, ExplainedInvariant
  <2>3. CASE UNCHANGED vars
    BY <2>3 DEF vars, files, ExplainedInvariant, TypeOK, OutputsFollowCall, IncompleteIsExplained, Running
  <2> QED BY <2>2, <2>3
<1> QED BY <1>1, <1>2, PTL DEF Spec

\* However calls overlap, what is left incomplete belongs to one that still runs or
\* was killed: a call that fails removes its own outputs.
THEOREM IncompleteOutputsAreExplained == Spec => []IncompleteIsExplained
<1>1. ExplainedInvariant => IncompleteIsExplained
  BY DEF ExplainedInvariant
<1> QED BY <1>1, OutputsAreExplained, PTL
===============================================================================
