------------------------- MODULE EvidencePipelineProofs -------------------------
(***************************************************************************)
(* Proofs about EvidencePipeline for every catalog, results file, fixture, *)
(* waiting time, --tail and length of the stream.  The argument: while the *)
(* loop runs, the outcomes held are the evaluation of the events held      *)
(* (EvaluatedFromEvents); the loop is left for publication only by a lost  *)
(* stream, in demo mode, or when its condition is false (LeftForAReason);  *)
(* so what Publish writes is consistent, and after it nothing changes.     *)
(***************************************************************************)
EXTENDS EvidencePipeline, TLAPS

USE PipelineAssumption

\* In a demo run every scenario counts as executed.
DemoRunsAll ==
  mode = "demo" => \A s \in Scenarios : s \in DOMAIN runs /\ runs[s].status = "executed"

\* What is held after a collection belongs together.
EvaluatedFromEvents ==
  pc \in {"decide", "recollect", "publish"} => outcome = Evaluation(mode, runs, events)

\* Why the pipeline is where it is.
LeftForAReason ==
  /\ pc = "collect" => \A s \in Scenarios : outcome[s] = "not_run"
  /\ pc \in {"decide", "recollect"} => mode = "live" /\ collector \in {"ok", "degraded"}
  /\ pc = "publish" /\ mode = "live" /\ collector # "unavailable"
       => ~ (waited < WaitSeconds /\ Failed(outcome))
  /\ waited < WaitSeconds + 2

\* A line is still visible, unless the tail has overflowed.
StillVisible ==
  pc \in {"decide", "recollect"} /\ Len(log) <= TailLines => events \subseteq CapturedEvents

PipelineInv ==
  /\ TypeOK /\ log \in Seq(Lines)
  /\ DemoRunsAll /\ EvaluatedFromEvents /\ LeftForAReason /\ StillVisible
  /\ PassedIsBacked /\ LostStreamConfirmsNothing /\ ExitMatchesManifest
  /\ FailedOnlyAfterFullWait
---------------------------------------------------------------------------------
(* One evaluation *)

\* evaluate_scenario returns one of the five statuses.
LEMMA EvaluationType ==
  ASSUME NEW m, NEW rs, NEW evs
  PROVE  Evaluation(m, rs, evs) \in [Scenarios -> OutcomeStatuses]
  BY DEF Evaluation, EvaluateScenario, OutcomeStatuses

\* What it takes to pass: a line in the results file, and none of the reasons to fail.
LEMMA PassedMeans ==
  ASSUME NEW m, NEW rs, NEW evs, NEW s \in Scenarios,
         Evaluation(m, rs, evs)[s] = "passed"
  PROVE  LET own == ScenarioEvents(m, s, rs, evs, Grace) IN
         /\ s \in DOMAIN rs /\ rs[s].status \notin {"blocked", "skipped"}
         /\ Catalog[s].rules \subseteq DetectedRules(own)
         /\ Catalog[s].rules = {} => DetectedRules(own) = {} /\ own # {}
         /\ Catalog[s].enforcement = "block" =>
              EnforcementObserved(own) /\ (m = "live" => rs[s].exit = EXIT_KILLED)
         /\ Catalog[s].enforcement # "block" => ~ (m = "live" /\ rs[s].exit = EXIT_KILLED)
<1> DEFINE own == ScenarioEvents(m, s, rs, evs, Grace)
           reasons == {"not_killed", "no_kill_evidence", "killed", "missing_rule",
                       "false_alert", "silence"}
<1>1. s \in DOMAIN rs /\ rs[s].status \notin {"blocked", "skipped"}
  BY DEF Evaluation, EvaluateScenario
<1>2. FailureReasons(Catalog[s], rs[s].exit, own, m = "live") = {}
  BY DEF Evaluation, EvaluateScenario
<1> HIDE DEF own
<1>3. \A r \in reasons : ~ (
        \/ r = "not_killed"       /\ Catalog[s].enforcement = "block" /\ m = "live" /\ ~ (rs[s].exit = EXIT_KILLED)
        \/ r = "no_kill_evidence" /\ Catalog[s].enforcement = "block" /\ ~EnforcementObserved(own)
        \/ r = "killed"           /\ ~ (Catalog[s].enforcement = "block") /\ m = "live" /\ rs[s].exit = EXIT_KILLED
        \/ r = "missing_rule"     /\ ~ (Catalog[s].rules \subseteq DetectedRules(own))
        \/ r = "false_alert"      /\ Catalog[s].rules = {} /\ DetectedRules(own) # {}
        \/ r = "silence"          /\ Catalog[s].rules = {} /\ own = {})
  BY <1>2 DEF FailureReasons
<1>4. /\ Catalog[s].rules \subseteq DetectedRules(own)
      /\ Catalog[s].rules = {} => DetectedRules(own) = {} /\ own # {}
      /\ Catalog[s].enforcement = "block" =>
           EnforcementObserved(own) /\ (m = "live" => rs[s].exit = EXIT_KILLED)
      /\ Catalog[s].enforcement # "block" => ~ (m = "live" /\ rs[s].exit = EXIT_KILLED)
  BY <1>3
<1> QED
  BY <1>1, <1>4 DEF own

\* More events never turn the verdict on an attack scenario from passed to failed.
LEMMA AttackMonotone ==
  ASSUME NEW m, NEW rs, NEW evs, NEW more, evs \subseteq more,
         NEW s \in Scenarios, Catalog[s].rules # {},
         Evaluation(m, rs, evs)[s] = "passed"
  PROVE  Evaluation(m, rs, more)[s] # "failed"
<1> DEFINE few  == ScenarioEvents(m, s, rs, evs, Grace)
           many == ScenarioEvents(m, s, rs, more, Grace)
<1>1. few \subseteq many
  BY DEF ScenarioEvents, EventsInWindow
<1>2. /\ s \in DOMAIN rs /\ rs[s].status \notin {"blocked", "skipped"}
      /\ Catalog[s].rules \subseteq DetectedRules(few)
      /\ Catalog[s].enforcement = "block" =>
           EnforcementObserved(few) /\ (m = "live" => rs[s].exit = EXIT_KILLED)
      /\ Catalog[s].enforcement # "block" => ~ (m = "live" /\ rs[s].exit = EXIT_KILLED)
  BY PassedMeans
<1> HIDE DEF few, many
<1>3. DetectedRules(few) \subseteq DetectedRules(many)
      /\ (EnforcementObserved(few) => EnforcementObserved(many))
  BY <1>1 DEF DetectedRules, EnforcementObserved
<1>4. FailureReasons(Catalog[s], rs[s].exit, many, m = "live") = {}
  BY <1>2, <1>3 DEF FailureReasons
<1> QED
  BY <1>2, <1>4 DEF Evaluation, EvaluateScenario, many
---------------------------------------------------------------------------------
(* The stream *)

\* Everything visible was exported.
LEMMA VisibleType ==
  ASSUME log \in Seq(Lines)
  PROVE  Visible \subseteq Lines /\ CapturedEvents \subseteq AllEvents
<1>1. Visible \subseteq Lines
  <2> SUFFICES ASSUME NEW i \in (IF Len(log) > TailLines THEN Len(log) - TailLines + 1 ELSE 1) .. Len(log)
               PROVE  log[i] \in Lines
    BY DEF Visible
  <2>1. i \in 1 .. Len(log)
    OBVIOUS
  <2> QED
    BY <2>1
<1> QED
  BY <1>1 DEF CapturedEvents, AllEvents

\* Until the tail overflows, a line that was visible stays so.
LEMMA ExportKeeps ==
  ASSUME log \in Seq(Lines), NEW l \in Lines, log' = Append(log, l),
         Len(log') <= TailLines
  PROVE  Len(log) <= TailLines /\ CapturedEvents \subseteq CapturedEvents'
<1>1. /\ Len(log) \in Nat /\ Len(log') = Len(log) + 1
      /\ \A i \in 1 .. Len(log) : log'[i] = log[i]
  OBVIOUS
<1>2. ~ (Len(log) > TailLines) /\ ~ (Len(log') > TailLines)
  BY <1>1
<1>3. Visible = {log[i] : i \in 1 .. Len(log)} /\ Visible' = {log'[i] : i \in 1 .. Len(log')}
  BY <1>2 DEF Visible
<1>4. Visible \subseteq Visible'
  BY <1>1, <1>3
<1> QED
  BY <1>2, <1>4 DEF CapturedEvents
---------------------------------------------------------------------------------
(* The invariant *)

\* Nothing is published before the last step, and the bound on waiting is LeftForAReason's.
LEMMA Unpublished ==
  ASSUME LeftForAReason', pc' # "done"
  PROVE  /\ PassedIsBacked' /\ LostStreamConfirmsNothing' /\ ExitMatchesManifest'
         /\ FailedOnlyAfterFullWait'
  BY DEF LeftForAReason, PassedIsBacked, LostStreamConfirmsNothing, ExitMatchesManifest,
         FailedOnlyAfterFullWait, Published

\* run_pipeline starts with nothing collected.
LEMMA InitInv == Init => PipelineInv
<1> SUFFICES ASSUME Init PROVE PipelineInv
  OBVIOUS
<1>1. TypeOK /\ log \in Seq(Lines)
  BY DEF Init, TypeOK, CollectorStatuses, OutcomeStatuses
<1>2. DemoRunsAll
  BY DEF Init, DemoRunsAll
<1>3. EvaluatedFromEvents /\ LeftForAReason /\ StillVisible
  BY DEF Init, EvaluatedFromEvents, LeftForAReason, StillVisible
<1>4. PassedIsBacked /\ LostStreamConfirmsNothing /\ ExitMatchesManifest /\ FailedOnlyAfterFullWait
  BY DEF Init, PassedIsBacked, LostStreamConfirmsNothing, ExitMatchesManifest,
         FailedOnlyAfterFullWait, Published
<1> QED
  BY <1>1, <1>2, <1>3, <1>4 DEF PipelineInv

\* A collection that succeeds replaces events and outcomes together.
LEMMA CapturedInv ==
  ASSUME PipelineInv, mode = "live", Captured,
         UNCHANGED <<mode, runs, log, waited, manifest, exit>>
  PROVE  PipelineInv'
<1>1. TypeOK' /\ (log \in Seq(Lines))'
  BY VisibleType, EvaluationType
  DEF PipelineInv, TypeOK, Captured, CaptureStatus, CollectorStatuses
<1>2. DemoRunsAll'
  BY DEF PipelineInv, DemoRunsAll
<1>3. EvaluatedFromEvents'
  BY DEF Captured, EvaluatedFromEvents
<1>4. LeftForAReason'
  BY DEF PipelineInv, Captured, CaptureStatus, LeftForAReason
<1>5. StillVisible'
  BY DEF Captured, StillVisible, CapturedEvents, Visible
<1> QED
  BY <1>1, <1>2, <1>3, <1>4, <1>5, Unpublished DEF PipelineInv, Captured

\* Losing the stream, and replaying the fixture, lead to publication at once.
LEMMA CollectInv ==
  ASSUME PipelineInv, CollectDemo \/ CollectLive
  PROVE  PipelineInv'
<1>1. CASE CollectLive /\ Captured
  BY <1>1, CapturedInv DEF CollectLive
<1>2. CASE CollectDemo \/ (CollectLive /\ collector' = "unavailable" /\ ~ Captured)
  <2>1. TypeOK' /\ (log \in Seq(Lines))'
    BY <1>2, EvaluationType
    DEF PipelineInv, TypeOK, CollectDemo, CollectLive, CollectorStatuses, AllEvents, Captured
  <2>2. DemoRunsAll'
    BY <1>2 DEF PipelineInv, DemoRunsAll, CollectDemo, CollectLive
  <2>3. EvaluatedFromEvents'
    BY <1>2 DEF EvaluatedFromEvents, CollectDemo, CollectLive, Captured
  <2>4. LeftForAReason'
    BY <1>2 DEF PipelineInv, LeftForAReason, CollectDemo, CollectLive, Captured
  <2>5. pc' = "publish"
    BY <1>2 DEF CollectDemo, CollectLive
  <2>6. StillVisible'
    BY <2>5 DEF StillVisible
  <2> QED
    BY <2>1, <2>2, <2>3, <2>4, <2>5, <2>6, Unpublished DEF PipelineInv
<1> QED
  BY <1>1, <1>2 DEF CollectLive

\* Sleeping, and leaving the loop, change neither events nor outcomes.
LEMMA LoopInv ==
  ASSUME PipelineInv, Sleep \/ LeaveLoop
  PROVE  PipelineInv'
<1>1. TypeOK' /\ (log \in Seq(Lines))'
  BY DEF PipelineInv, TypeOK, Sleep, LeaveLoop
<1>2. DemoRunsAll'
  BY DEF PipelineInv, DemoRunsAll, Sleep, LeaveLoop
<1>3. EvaluatedFromEvents'
  BY DEF PipelineInv, EvaluatedFromEvents, Sleep, LeaveLoop
<1>4. LeftForAReason'
  BY DEF PipelineInv, TypeOK, LeftForAReason, Sleep, LeaveLoop
<1>5. StillVisible'
  BY DEF PipelineInv, StillVisible, CapturedEvents, Visible, Sleep, LeaveLoop
<1>6. pc' # "done"
  BY DEF Sleep, LeaveLoop
<1> QED
  BY <1>1, <1>2, <1>3, <1>4, <1>5, <1>6, Unpublished DEF PipelineInv

\* A later collection, or the loss of the stream in the middle of the loop.
LEMMA RecollectInv ==
  ASSUME PipelineInv, Recollect
  PROVE  PipelineInv'
<1>1. CASE Captured
  BY <1>1, CapturedInv DEF Recollect, PipelineInv, LeftForAReason
<1>2. CASE ~ Captured
  <2>1. TypeOK' /\ (log \in Seq(Lines))'
    BY <1>2 DEF PipelineInv, TypeOK, Recollect, CollectorStatuses
  <2>2. DemoRunsAll'
    BY DEF PipelineInv, DemoRunsAll, Recollect
  <2>3. EvaluatedFromEvents'
    BY <1>2 DEF PipelineInv, EvaluatedFromEvents, Recollect
  <2>4. LeftForAReason'
    BY <1>2 DEF PipelineInv, LeftForAReason, Recollect
  <2>5. pc' = "publish"
    BY <1>2 DEF Recollect
  <2>6. StillVisible'
    BY <2>5 DEF StillVisible
  <2> QED
    BY <2>1, <2>2, <2>3, <2>4, <2>5, <2>6, Unpublished DEF PipelineInv
<1> QED
  BY <1>1, <1>2

\* What was confirmed is withdrawn when the stream is gone, and kept otherwise.
LEMMA FinalStatus ==
  ASSUME NEW s \in Scenarios
  PROVE  /\ collector # "unavailable" => FinalOutcome[s] = outcome[s]
         /\ collector = "unavailable" => FinalOutcome[s] \notin {"passed", "failed"}
  BY DEF FinalOutcome

\* Publication: manifest and exit code agree with each other and with the evidence.
LEMMA PublishInv ==
  ASSUME PipelineInv, Publish
  PROVE  PipelineInv'
<1>1. /\ pc = "publish" /\ pc' = "done" /\ Published'
      /\ manifest'.collector = collector /\ manifest'.scenarios = FinalOutcome
      /\ manifest'.raw = events /\ manifest'.detections = [s \in Scenarios |-> Detections(s)]
      /\ outcome' = FinalOutcome /\ exit' = ExitCode(FinalOutcome)
      /\ UNCHANGED <<mode, runs, log, collector, events, waited>>
  BY DEF Publish, Published
<1>2. TypeOK' /\ (log \in Seq(Lines))'
  BY <1>1 DEF PipelineInv, TypeOK, FinalOutcome, ExitCode, OutcomeStatuses
<1>3. DemoRunsAll' /\ EvaluatedFromEvents' /\ StillVisible'
  BY <1>1 DEF PipelineInv, DemoRunsAll, EvaluatedFromEvents, StillVisible
<1>4. LeftForAReason'
  BY <1>1 DEF PipelineInv, LeftForAReason
<1>5. PassedIsBacked'
  <2> SUFFICES ASSUME NEW s \in Scenarios, FinalOutcome[s] = "passed"
               PROVE  LET own == ScenarioEvents(mode, s, runs, events, Grace) IN
                      /\ collector # "unavailable"
                      /\ s \in DOMAIN runs /\ runs[s].status = "executed"
                      /\ Catalog[s].rules \subseteq {e.rule : e \in Detections(s)}
                      /\ Catalog[s].rules = {} => Detections(s) = {} /\ own # {}
                      /\ Catalog[s].enforcement = "block" =>
                           (\E e \in own : e.kill) /\ (mode = "live" => runs[s].exit = EXIT_KILLED)
    BY <1>1 DEF PassedIsBacked
  <2> DEFINE own == ScenarioEvents(mode, s, runs, events, Grace)
  <2>1. collector # "unavailable" /\ outcome[s] = "passed"
    BY FinalStatus
  <2>2. Evaluation(mode, runs, events)[s] = "passed"
    BY <1>1, <2>1 DEF PipelineInv, EvaluatedFromEvents
  <2>3. /\ s \in DOMAIN runs
        /\ Catalog[s].rules \subseteq DetectedRules(own)
        /\ Catalog[s].rules = {} => DetectedRules(own) = {} /\ own # {}
        /\ Catalog[s].enforcement = "block" =>
             EnforcementObserved(own) /\ (mode = "live" => runs[s].exit = EXIT_KILLED)
    BY <2>2, PassedMeans
  <2>4. DetectedRules(own) = {e.rule : e \in Detections(s)}
        /\ (DetectedRules(own) = {} => Detections(s) = {})
    BY DEF DetectedRules, Detections
  <2>5. runs[s].status = "executed"
    <3>1. CASE mode = "demo"
      BY <3>1 DEF PipelineInv, DemoRunsAll
    <3>2. CASE mode # "demo" /\ runs[s].status # "executed"
      <4>1. own = {}
        BY <3>2 DEF ScenarioEvents
      <4>2. DetectedRules(own) = {}
        BY <4>1 DEF DetectedRules
      <4> QED
        BY <2>3, <4>1, <4>2
    <3> QED
      BY <3>1, <3>2
  <2>6. Catalog[s].enforcement = "block" => \E e \in own : e.kill
    BY <2>3 DEF EnforcementObserved
  <2> QED
    BY <2>1, <2>3, <2>4, <2>5, <2>6
<1>6. LostStreamConfirmsNothing'
  <2>1. collector = "unavailable" => \A s \in Scenarios : FinalOutcome[s] \notin {"passed", "failed"}
    BY FinalStatus
  <2>2. ExitCode(FinalOutcome) = EXIT_BLOCKED <=> collector = "unavailable"
    BY DEF ExitCode, EXIT_BLOCKED, EXIT_FAILED, EXIT_OK
  <2> QED
    BY <1>1, <2>1, <2>2 DEF LostStreamConfirmsNothing, EXIT_BLOCKED
<1>7. ExitMatchesManifest'
  <2>1. ExitCode(FinalOutcome) = EXIT_OK <=>
          /\ collector # "unavailable"
          /\ \A s \in Scenarios : Catalog[s].required => FinalOutcome[s] = "passed"
    BY DEF ExitCode, EXIT_BLOCKED, EXIT_FAILED, EXIT_OK
  <2> QED
    BY <1>1, <2>1 DEF ExitMatchesManifest, EXIT_OK
<1>8. FailedOnlyAfterFullWait'
  <2>1. mode = "live" /\ Failed(FinalOutcome) => waited >= WaitSeconds
    <3> SUFFICES ASSUME mode = "live", NEW s \in Scenarios, FinalOutcome[s] = "failed"
                 PROVE  waited >= WaitSeconds
      BY DEF Failed
    <3>1. collector # "unavailable" /\ outcome[s] = "failed"
      BY FinalStatus
    <3>2. ~ (waited < WaitSeconds /\ Failed(outcome))
      BY <1>1, <3>1 DEF PipelineInv, LeftForAReason
    <3>3. Failed(outcome)
      BY <3>1 DEF Failed
    <3> QED
      BY <3>2, <3>3 DEF PipelineInv, TypeOK
  <2> QED
    BY <1>1, <2>1 DEF FailedOnlyAfterFullWait, PipelineInv, LeftForAReason
<1> QED
  BY <1>2, <1>3, <1>4, <1>5, <1>6, <1>7, <1>8 DEF PipelineInv

\* The sensor touches nothing but its stream, and stops being watched once all is published.
LEMMA ExportInv ==
  ASSUME PipelineInv, NEW l \in Lines, Export(l)
  PROVE  PipelineInv'
<1>1. /\ pc # "done" /\ pc' = pc /\ log' = Append(log, l)
      /\ UNCHANGED <<mode, runs, collector, events, outcome, waited, manifest, exit>>
  BY DEF Export, pipelineVars
<1>2. TypeOK' /\ (log \in Seq(Lines))'
  BY <1>1 DEF PipelineInv, TypeOK
<1>3. DemoRunsAll' /\ EvaluatedFromEvents'
  BY <1>1 DEF PipelineInv, DemoRunsAll, EvaluatedFromEvents
<1>4. LeftForAReason'
  BY <1>1 DEF PipelineInv, LeftForAReason
<1>5. StillVisible'
  BY <1>1, ExportKeeps DEF PipelineInv, StillVisible
<1> QED
  BY <1>1, <1>2, <1>3, <1>4, <1>5, Unpublished DEF PipelineInv

\* A step that changes nothing.
LEMMA StutterInv == PipelineInv /\ UNCHANGED vars => PipelineInv'
<1> SUFFICES ASSUME PipelineInv, UNCHANGED vars PROVE PipelineInv'
  OBVIOUS
<1>1. UNCHANGED <<mode, runs, log, pc, collector, events, outcome, waited, manifest, exit>>
  BY DEF vars, pipelineVars
<1>2. TypeOK' /\ (log \in Seq(Lines))'
  BY <1>1 DEF PipelineInv, TypeOK
<1>3. DemoRunsAll' /\ EvaluatedFromEvents' /\ LeftForAReason'
  BY <1>1 DEF PipelineInv, DemoRunsAll, EvaluatedFromEvents, LeftForAReason
<1>4. StillVisible'
  BY <1>1 DEF PipelineInv, StillVisible, CapturedEvents, Visible
<1>5. PassedIsBacked'
  BY <1>1 DEF PipelineInv, PassedIsBacked, Published
<1>6. LostStreamConfirmsNothing' /\ ExitMatchesManifest' /\ FailedOnlyAfterFullWait'
  BY <1>1 DEF PipelineInv, LostStreamConfirmsNothing, ExitMatchesManifest,
              FailedOnlyAfterFullWait, Published
<1> QED
  BY <1>2, <1>3, <1>4, <1>5, <1>6 DEF PipelineInv

\* Every behaviour of run_pipeline keeps the invariant.
THEOREM PipelineInvariant == Spec => []PipelineInv
<1>1. PipelineInv /\ [Next]_vars => PipelineInv'
  <2> SUFFICES ASSUME PipelineInv, [Next]_vars PROVE PipelineInv'
    OBVIOUS
  <2>1. CASE CollectDemo \/ CollectLive
    BY <2>1, CollectInv
  <2>2. CASE Sleep \/ LeaveLoop
    BY <2>2, LoopInv
  <2>3. CASE Recollect
    BY <2>3, RecollectInv
  <2>4. CASE Publish
    BY <2>4, PublishInv
  <2>5. CASE \E l \in Lines : Export(l)
    BY <2>5, ExportInv
  <2>6. CASE UNCHANGED vars
    BY <2>6, StutterInv
  <2> QED
    BY <2>1, <2>2, <2>3, <2>4, <2>5, <2>6 DEF Next, Pipeline
<1> QED
  BY <1>1, InitInv, PTL DEF Spec
---------------------------------------------------------------------------------
(* What the runs check on a small catalog, for every one *)

\* The type invariant.
THEOREM PipelineTypes == Spec => []TypeOK
<1>1. PipelineInv => TypeOK
  BY DEF PipelineInv
<1> QED
  BY <1>1, PipelineInvariant, PTL

\* A published pass is backed by the evidence published beside it.
THEOREM PassesAreBacked == Spec => []PassedIsBacked
<1>1. PipelineInv => PassedIsBacked
  BY DEF PipelineInv
<1> QED
  BY <1>1, PipelineInvariant, PTL

\* A lost stream publishes no verdict and exits as blocked, and nothing else does.
THEOREM LostStream == Spec => []LostStreamConfirmsNothing
<1>1. PipelineInv => LostStreamConfirmsNothing
  BY DEF PipelineInv
<1> QED
  BY <1>1, PipelineInvariant, PTL

\* The exit code says what the manifest says.
THEOREM ExitAgrees == Spec => []ExitMatchesManifest
<1>1. PipelineInv => ExitMatchesManifest
  BY DEF PipelineInv
<1> QED
  BY <1>1, PipelineInvariant, PTL

\* No failure is published before the waiting time is used up.
THEOREM FullWait == Spec => []FailedOnlyAfterFullWait
<1>1. PipelineInv => FailedOnlyAfterFullWait
  BY DEF PipelineInv
<1> QED
  BY <1>1, PipelineInvariant, PTL

\* Collecting again does not spoil a pass on an attack scenario unless the tail overflowed.
\* Only a collection changes outcomes towards failure, and until the overflow it finds all
\* the events held before (StillVisible, AttackMonotone).
THEOREM PassIsStable == Spec => AttackPassIsStable
<1> DEFINE Stable == \A s \in Scenarios :
                       /\ Catalog[s].rules # {}
                       /\ outcome[s] = "passed" /\ outcome'[s] = "failed"
                       => Len(log) > TailLines
<1>1. PipelineInv /\ [Next]_vars => [Stable]_vars
  <2> SUFFICES ASSUME PipelineInv, Next, NEW s \in Scenarios, Catalog[s].rules # {},
                      outcome[s] = "passed", outcome'[s] = "failed"
               PROVE  Len(log) > TailLines
    OBVIOUS
  <2>1. CASE Recollect /\ Captured
    <3>1. pc = "recollect" /\ outcome' = Evaluation(mode, runs, CapturedEvents)
      BY <2>1 DEF Recollect, Captured
    <3>2. Evaluation(mode, runs, events)[s] = "passed"
      BY <3>1 DEF PipelineInv, EvaluatedFromEvents
    <3>3. ~ (events \subseteq CapturedEvents)
      BY <3>1, <3>2, AttackMonotone
    <3> QED
      BY <3>1, <3>3 DEF PipelineInv, StillVisible
  <2>2. CASE CollectDemo \/ CollectLive
    \* nothing has passed before the first collection
    BY <2>2 DEF PipelineInv, LeftForAReason, CollectDemo, CollectLive
  <2>3. CASE Publish
    BY <2>3 DEF Publish, FinalOutcome
  <2>4. CASE Sleep \/ LeaveLoop \/ (Recollect /\ ~ Captured) \/ \E l \in Lines : Export(l)
    BY <2>4 DEF Sleep, LeaveLoop, Recollect, Export, pipelineVars
  <2> QED
    BY <2>1, <2>2, <2>3, <2>4 DEF Next, Pipeline
<1> QED
  BY <1>1, PipelineInvariant, PTL DEF Spec, AttackPassIsStable
=================================================================================
