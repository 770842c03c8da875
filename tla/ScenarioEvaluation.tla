--------------------------- MODULE ScenarioEvaluation ---------------------------
(***************************************************************************)
(* How one scenario's outcome is decided from what the orchestrator        *)
(* recorded and what the sensor exported: runtime/scenarios.py, the window *)
(* selection of runtime/pipeline.py and of runtime/collector.py.  Pure     *)
(* operators, no state; the modules that have state EXTEND this one.       *)
(*                                                                         *)
(* A sensor event is a record                                              *)
(*   at    its own timestamp (node clock); an event without a readable     *)
(*         timestamp is in no window, as one stamped outside all of them   *)
(*   rule  the RUNTIME rule the detection engine raises for it, or NoRule: *)
(*         the engine is a function of the event, so its verdict stands    *)
(*         for the event's binary, path or address                         *)
(*   kill  the event shows a SIGKILL (process_exit signal, kprobe action)  *)
(*   tag   the fixture's _scenario label, NoScenario for sensor events     *)
(***************************************************************************)
EXTENDS Integers

NoRule     == "no-rule"
NoScenario == "no-scenario"

\* exit codes the orchestrator gives a meaning to
EXIT_KILLED    == 137   \* the sensor killed the process
EXIT_PREREQ    == 125   \* require_target: cluster or target pod missing
EXIT_NOT_FOUND == 127   \* the scenario script itself could not be run

\* the status column run_simulations.sh writes for an exit code
RunStatus(rc) == IF rc \in {EXIT_PREREQ, EXIT_NOT_FOUND} THEN "blocked" ELSE "executed"

\* events_in_window: the closed interval [lo, hi]
EventsInWindow(events, lo, hi) == {e \in events : lo <= e.at /\ e.at <= hi}

\* mutant: the tolerance is only granted after the end
ScenarioEventsLateOnly(mode, s, runs, events, grace) ==
  IF mode = "demo" THEN {e \in events : e.tag = s}
  ELSE IF s \in DOMAIN runs /\ runs[s].status = "executed"
       THEN EventsInWindow(events, runs[s].start, runs[s].end + grace)
       ELSE {}

(***************************************************************************)
(* _scenario_events.  runs is the dict parse_results_file returns: a       *)
(* function whose domain is the scenarios that have a line.                *)
(***************************************************************************)
ScenarioEvents(mode, s, runs, events, grace) ==
  IF mode = "demo" THEN {e \in events : e.tag = s}
  ELSE IF s \in DOMAIN runs /\ runs[s].status = "executed"
       THEN EventsInWindow(events, runs[s].start - grace, runs[s].end + grace)
       ELSE {}

DetectedRules(events) == {e.rule : e \in events} \ {NoRule}

EnforcementObserved(events) == \E e \in events : e.kill

(***************************************************************************)
(* The reasons evaluate_scenario collects for a scenario that was run; the *)
(* scenario failed exactly when there is one.                              *)
(***************************************************************************)
FailureReasons(scenario, exitCode, events, checkExit) ==
  LET detected == DetectedRules(events)
      blocks   == scenario.enforcement = "block"
      killed   == exitCode = EXIT_KILLED
  IN {r \in {"not_killed", "no_kill_evidence", "killed", "missing_rule", "false_alert", "silence"} :
        \/ r = "not_killed"       /\ blocks /\ checkExit /\ ~killed
        \/ r = "no_kill_evidence" /\ blocks /\ ~EnforcementObserved(events)
        \/ r = "killed"           /\ ~blocks /\ checkExit /\ killed
        \/ r = "missing_rule"     /\ ~ (scenario.rules \subseteq detected)
        \/ r = "false_alert"      /\ scenario.rules = {} /\ detected # {}
        \/ r = "silence"          /\ scenario.rules = {} /\ events = {}}

\* evaluate_scenario; the three statuses before the evidence is looked at come first
EvaluateScenario(mode, scenario, s, runs, events) ==
  IF s \notin DOMAIN runs THEN "not_run"
  ELSE IF runs[s].status \in {"blocked", "skipped"} THEN runs[s].status
  ELSE IF FailureReasons(scenario, runs[s].exit, events, mode = "live") = {} THEN "passed"
  ELSE "failed"

OutcomeStatuses == {"not_run", "blocked", "skipped", "passed", "failed"}
=================================================================================
