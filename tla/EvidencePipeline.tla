---------------------------- MODULE EvidencePipeline ----------------------------
(***************************************************************************)
(* One call of run_pipeline (runtime/pipeline.py): collect the sensor's    *)
(* export stream, decide every scenario of the catalog from it, and, while *)
(* something failed, wait and collect again, because evidence may reach    *)
(* the stream after the command that caused it has returned.  Meanwhile    *)
(* the sensor goes on exporting, in any order, also lines that are         *)
(* malformed or belong to other pods, and any kubectl call may fail.       *)
(*                                                                         *)
(* A collection and the evaluation that follows it are one step: nothing   *)
(* between them reads the stream.  What is written to disk is one record   *)
(* here; how it reaches the disk is ArtifactPublication.  Risk scoring,    *)
(* incidents and the wording of reasons are left out.                      *)
(***************************************************************************)
EXTENDS ScenarioEvaluation, Sequences

CONSTANTS
  Catalog,    \* scenario id -> [required, rules, enforcement]
  RunChoices, \* the dicts parse_results_file may return
  Fixture,    \* events of the demo trace
  Lines,      \* what the sensor may export: [kind, event]
  Grace,      \* WINDOW_GRACE
  WaitSeconds,\* --wait
  TailLines,  \* --tail of kubectl logs
  MaxLog,     \* bound of the model: lines the sensor exports
  Nothing     \* not written yet

ASSUME PipelineAssumption ==
  /\ \A r \in RunChoices : DOMAIN r \subseteq DOMAIN Catalog
  /\ WaitSeconds \in Nat
  /\ TailLines \in Nat \ {0}
  /\ MaxLog \in Nat

Scenarios == DOMAIN Catalog

VARIABLES
  mode,      \* "live" or "demo"
  runs,      \* what the orchestrator recorded
  log,       \* the stream since SINCE, oldest line first
  pc,        \* where run_pipeline is
  collector, \* collection.status, "not_applicable" in demo mode
  events,    \* the events last kept
  outcome,   \* status of every scenario
  waited,    \* seconds slept so far
  manifest,  \* what is published, or Nothing
  exit       \* exit code, or Nothing

pipelineVars == <<mode, runs, pc, collector, events, outcome, waited, manifest, exit>>
vars == <<pipelineVars, log>>

EXIT_OK      == 0
EXIT_FAILED  == 1
EXIT_BLOCKED == 2

CollectorStatuses == {"none", "ok", "degraded", "unavailable", "not_applicable"}
AllEvents == {l.event : l \in Lines} \cup Fixture

Evaluation(m, rs, evs) ==
  [s \in Scenarios |->
     EvaluateScenario(m, Catalog[s], s, rs, ScenarioEvents(m, s, rs, evs, Grace))]

Failed(out) == \E s \in Scenarios : out[s] = "failed"

Init ==
  /\ mode \in {"live", "demo"}
  /\ runs \in IF mode = "demo" THEN {[s \in Scenarios |-> [status |-> "executed", exit |-> 0, start |-> 0, end |-> 0]]}
                               ELSE RunChoices
  /\ log = << >>
  /\ pc = "collect"
  /\ collector = "none"
  /\ events = {}
  /\ outcome = [s \in Scenarios |-> "not_run"]
  /\ waited = 0
  /\ manifest = Nothing
  /\ exit = Nothing
---------------------------------------------------------------------------------
(* The stream *)

\* what is exported after the process has ended is not looked at
Export(l) ==
  /\ pc # "done" /\ Len(log) < MaxLog
  /\ log' = Append(log, l)
  /\ UNCHANGED pipelineVars

\* mutant: only the line exported last is read
VisibleNewest == {log[i] : i \in {Len(log)} \ {0}}

\* kubectl logs --tail: the newest lines only
Visible == LET from == IF Len(log) > TailLines THEN Len(log) - TailLines + 1 ELSE 1
           IN {log[i] : i \in from .. Len(log)}

\* collect_live_events on what kubectl printed: other pods' lines are dropped,
\* duplicates collapse, a malformed line makes the capture degraded
CapturedEvents == {l.event : l \in {k \in Visible : k.kind = "target"}}
CaptureStatus  == IF \E l \in Visible : l.kind = "malformed" THEN "degraded" ELSE "ok"
---------------------------------------------------------------------------------
(* run_pipeline *)

CollectDemo ==
  /\ pc = "collect" /\ mode = "demo"
  /\ collector' = "not_applicable"
  /\ events' = Fixture
  /\ outcome' = Evaluation(mode, runs, Fixture)
  /\ pc' = "publish"
  /\ UNCHANGED <<mode, runs, log, waited, manifest, exit>>

\* mutant: the outcomes are renewed, the events to publish are not
CapturedKeepsEvents ==
  /\ collector' = CaptureStatus
  /\ events' = events
  /\ outcome' = Evaluation(mode, runs, CapturedEvents)
  /\ pc' = "decide"

\* kubectl logs answered: the events replace the ones held, everything is evaluated anew
Captured ==
  /\ collector' = CaptureStatus
  /\ events' = CapturedEvents
  /\ outcome' = Evaluation(mode, runs, CapturedEvents)
  /\ pc' = "decide"

CollectLive ==
  /\ pc = "collect" /\ mode = "live"
  /\ \/ Captured
     \/ /\ collector' = "unavailable"
        /\ events' = {}
        /\ outcome' = Evaluation(mode, runs, {})
        /\ pc' = "publish"
  /\ UNCHANGED <<mode, runs, log, waited, manifest, exit>>

\* mutant: the time slept is not counted
SleepUncounted ==
  /\ pc = "decide"
  /\ waited < WaitSeconds /\ Failed(outcome)
  /\ pc' = "recollect"
  /\ UNCHANGED <<mode, runs, log, collector, events, outcome, waited, manifest, exit>>

\* while waited < wait_seconds and any(o.status == "failed"): sleep(2); waited += 2
Sleep ==
  /\ pc = "decide"
  /\ waited < WaitSeconds /\ Failed(outcome)
  /\ waited' = waited + 2
  /\ pc' = "recollect"
  /\ UNCHANGED <<mode, runs, log, collector, events, outcome, manifest, exit>>

\* mutant: the loop is left as soon as one scenario has passed
LeaveLoopEarly ==
  /\ pc = "decide"
  /\ (waited < WaitSeconds /\ Failed(outcome)) => \E s \in Scenarios : outcome[s] = "passed"
  /\ pc' = "publish"
  /\ UNCHANGED <<mode, runs, log, collector, events, outcome, waited, manifest, exit>>

LeaveLoop ==
  /\ pc = "decide"
  /\ ~ (waited < WaitSeconds /\ Failed(outcome))
  /\ pc' = "publish"
  /\ UNCHANGED <<mode, runs, log, collector, events, outcome, waited, manifest, exit>>

\* an unavailable stream ends the loop; events and outcomes of the last capture stay
Recollect ==
  /\ pc = "recollect"
  /\ \/ Captured
     \/ /\ collector' = "unavailable"
        /\ pc' = "publish"
        /\ UNCHANGED <<events, outcome>>
  /\ UNCHANGED <<mode, runs, log, waited, manifest, exit>>

\* mutant: only the passes are withdrawn
FinalOutcomeKeepsFailed ==
  [s \in Scenarios |->
     IF collector = "unavailable" /\ outcome[s] = "passed" THEN "blocked" ELSE outcome[s]]

\* Without a working event stream nothing can be confirmed either way.
FinalOutcome ==
  [s \in Scenarios |->
     IF collector = "unavailable" /\ outcome[s] \in {"passed", "failed"} THEN "blocked"
     ELSE outcome[s]]

\* mutant: a scenario that was never run does not count against the run
ExitCodeFailedOnly(out) ==
  IF collector = "unavailable" THEN EXIT_BLOCKED
  ELSE IF \E s \in Scenarios : Catalog[s].required /\ out[s] = "failed" THEN EXIT_FAILED
  ELSE EXIT_OK

ExitCode(out) ==
  IF collector = "unavailable" THEN EXIT_BLOCKED
  ELSE IF \E s \in Scenarios : Catalog[s].required /\ out[s] # "passed" THEN EXIT_FAILED
  ELSE EXIT_OK

\* the detections of one scenario that go into runtime-events.json
Detections(s) ==
  {e \in ScenarioEvents(mode, s, runs, events, Grace) : e.rule # NoRule}

Publish ==
  /\ pc = "publish"
  /\ outcome' = FinalOutcome
  /\ manifest' = [origin     |-> IF mode = "live" THEN "LIVE" ELSE "SIMULATED",
                  collector  |-> collector,
                  scenarios  |-> FinalOutcome,
                  raw        |-> events,
                  detections |-> [s \in Scenarios |-> Detections(s)]]
  /\ exit' = ExitCode(FinalOutcome)
  /\ pc' = "done"
  /\ UNCHANGED <<mode, runs, log, collector, events, waited>>

Pipeline == CollectDemo \/ CollectLive \/ Sleep \/ LeaveLoop \/ Recollect \/ Publish

Next == Pipeline \/ \E l \in Lines : Export(l)

\* Every kubectl call returns within its 60 s timeout and sleep returns, so the process
\* always gets on; nothing obliges the sensor to export anything.
Spec == Init /\ [][Next]_vars /\ WF_vars(Pipeline)
---------------------------------------------------------------------------------
TypeOK ==
  /\ mode \in {"live", "demo"}
  /\ pc \in {"collect", "decide", "recollect", "publish", "done"}
  /\ collector \in CollectorStatuses
  /\ events \subseteq AllEvents
  /\ outcome \in [Scenarios -> OutcomeStatuses]
  /\ waited \in Nat
  /\ exit \in {Nothing, EXIT_OK, EXIT_FAILED, EXIT_BLOCKED}

Published == pc = "done"

\* A scenario the manifest calls passed is backed by the evidence published next to it,
\* not by evidence of an earlier or a partial capture: it ran, the stream was readable,
\* every expected rule is among its published detections, a block left kill evidence and
\* exit code 137, and a benign control has sensor events but no detection.
PassedIsBacked ==
  Published => \A s \in Scenarios :
    manifest.scenarios[s] = "passed" =>
      LET own == ScenarioEvents(mode, s, runs, manifest.raw, Grace) IN
      /\ manifest.collector # "unavailable"
      /\ s \in DOMAIN runs /\ runs[s].status = "executed"
      /\ Catalog[s].rules \subseteq {e.rule : e \in manifest.detections[s]}
      /\ Catalog[s].rules = {} => manifest.detections[s] = {} /\ own # {}
      /\ Catalog[s].enforcement = "block" =>
           (\E e \in own : e.kill) /\ (mode = "live" => runs[s].exit = EXIT_KILLED)

\* An event stream lost at the first or at any later collection confirms nothing either
\* way, whatever earlier captures showed: no verdict is published and the exit code is
\* BLOCKED; conversely BLOCKED is never used for anything else.
LostStreamConfirmsNothing ==
  Published =>
    /\ manifest.collector = "unavailable" =>
         \A s \in Scenarios : manifest.scenarios[s] \notin {"passed", "failed"}
    /\ exit = EXIT_BLOCKED <=> manifest.collector = "unavailable"

\* Success is never reported with a required scenario that did not pass, and failure is
\* never reported when all of them did.
ExitMatchesManifest ==
  Published =>
    (exit = EXIT_OK <=>
       /\ manifest.collector # "unavailable"
       /\ \A s \in Scenarios : Catalog[s].required => manifest.scenarios[s] = "passed")

\* A published failure was given the whole waiting time for late evidence, and the loop
\* never sleeps more than one round beyond it.
FailedOnlyAfterFullWait ==
  /\ waited < WaitSeconds + 2
  /\ Published /\ mode = "live" /\ Failed(manifest.scenarios) => waited >= WaitSeconds

\* Collecting again can repair the verdict on an attack scenario but not spoil it, as
\* long as no line has been pushed out of the --tail window.
AttackPassIsStable ==
  [][\A s \in Scenarios :
       /\ Catalog[s].rules # {}
       /\ outcome[s] = "passed" /\ outcome'[s] = "failed"
       => Len(log) > TailLines]_vars

\* The retry loop ends however the stream and kubectl behave.
Terminates == <>Published
=================================================================================
