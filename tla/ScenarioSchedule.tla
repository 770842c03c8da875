---------------------------- MODULE ScenarioSchedule ----------------------------
(***************************************************************************)
(* The live loop of simulations/run_simulations.sh: the scenarios of the   *)
(* catalog are run one after the other, each gets a line with its start    *)
(* and end on the HOST clock, and the loop sleeps before the next one.     *)
(* Meanwhile the sensor stamps the events a scenario causes on the NODE    *)
(* clock, which is up to MaxSkew away.  Later runtime/pipeline.py gives    *)
(* every scenario the events whose stamp falls into its recorded interval  *)
(* widened by WINDOW_GRACE.  Nothing but the clock links an event to the   *)
(* scenario that caused it, so this module asks when that link is right.   *)
(*                                                                         *)
(* One unit of time is whatever divides Grace and Pause evenly.  The host  *)
(* clock is monotone: a step of the host's own clock is not modelled.      *)
(***************************************************************************)
EXTENDS ScenarioEvaluation, Sequences, FiniteSets

CONSTANTS
  N,          \* number of scenarios in the catalog
  Grace,      \* WINDOW_GRACE: 1.5 s
  Pause,      \* SCENARIO_PAUSE_SECONDS: 4 s unless the environment says otherwise
  Timeout,    \* timeout_seconds of the catalog: parsed, then used by nothing
  MaxSkew,    \* how far the node clock may be from the host clock
  Horizon,    \* bound of the model: the last instant of the host clock
  MaxEvents   \* bound of the model: events one scenario causes

ASSUME ScheduleAssumption ==
  /\ N \in Nat \ {0}
  /\ Grace \in Nat /\ Pause \in Nat /\ Timeout \in Nat /\ MaxSkew \in Nat
  /\ Horizon \in Nat /\ MaxEvents \in Nat

VARIABLES
  now,      \* the host clock
  phase,    \* where the loop is
  since,    \* SINCE: start of the capture window
  started,  \* start of the scenario that is running
  rc,       \* SCENARIO_STATUS: first non-zero exit code of the running scenario
  results,  \* the lines of scenario-results.tsv, in the order they are appended
  events    \* what the sensor has seen: [owner, at], owner is not in the event itself

vars == <<now, phase, since, started, rc, results, events>>

Phases    == {"begin", "next", "running", "pause", "evaluate"}
StepCodes == {0, 1, EXIT_NOT_FOUND, EXIT_KILLED}   \* 127: no such binary, no such applet
Current   == Len(results) + 1
EventsOf(i) == {e \in events : e.owner = i}

TypeOK ==
  /\ now \in Nat /\ since \in Nat /\ started \in Nat
  /\ phase \in Phases
  /\ rc \in StepCodes
  /\ results \in Seq([status : {"executed", "blocked"},
                      exit : StepCodes \cup {EXIT_PREREQ, EXIT_NOT_FOUND},
                      start : Nat, end : Nat])
  /\ events \subseteq [owner : 1 .. N, at : Int]

Init ==
  /\ now = 0 /\ since = 0 /\ started = 0
  /\ phase = "begin"
  /\ rc = 0
  /\ results = << >>
  /\ events = {}

Tick ==
  /\ now < Horizon
  /\ now' = now + 1
  /\ UNCHANGED <<phase, since, started, rc, results, events>>

\* SINCE="$(now)"; : > "${RESULTS_FILE}"
Begin ==
  /\ phase = "begin"
  /\ phase' = "next"
  /\ since' = now
  /\ results' = << >>
  /\ UNCHANGED <<now, started, rc, events>>

Launch ==
  /\ phase = "next"
  /\ phase' = "running"
  /\ started' = now
  /\ rc' = 0
  /\ UNCHANGED <<now, since, results, events>>

\* one `step` of the scenario script: the process runs in the pod and the sensor sees it,
\* or kubectl exec fails and nothing runs
Step(code, skew) ==
  /\ phase = "running"
  /\ \/ /\ Cardinality(EventsOf(Current)) < MaxEvents
        /\ events' = events \cup {[owner |-> Current, at |-> now + skew]}
     \/ /\ code \in {1, EXIT_NOT_FOUND}
        /\ UNCHANGED events
  /\ rc' = IF rc = 0 THEN code ELSE rc
  /\ UNCHANGED <<now, phase, since, started, results>>

\* the script ends: its line is appended and the loop sleeps
Record(code) ==
  /\ results' = Append(results, [status |-> RunStatus(code), exit |-> code,
                                 start |-> started, end |-> now])
  /\ phase' = "pause"
  /\ UNCHANGED <<now, since, started, rc, events>>

Finish ==
  /\ phase = "running"
  /\ Record(rc)

\* the script never gets to a step: no target pod, or no script
FinishBlocked(code) ==
  /\ phase = "running"
  /\ rc = 0 /\ EventsOf(Current) = {}
  /\ Record(code)

\* mutant: no sleep between scenarios
ResumeAtOnce ==
  /\ phase = "pause"
  /\ phase' = IF Len(results) = N THEN "evaluate" ELSE "next"
  /\ UNCHANGED <<now, since, started, rc, results, events>>

\* sleep "${PAUSE_SECONDS}", also after the last scenario
Resume ==
  /\ phase = "pause"
  /\ now >= results[Len(results)].end + Pause
  /\ phase' = IF Len(results) = N THEN "evaluate" ELSE "next"
  /\ UNCHANGED <<now, since, started, rc, results, events>>

Next ==
  \/ Tick
  \/ Begin
  \/ Launch
  \/ \E code \in StepCodes, skew \in -MaxSkew .. MaxSkew : Step(code, skew)
  \/ Finish
  \/ \E code \in {EXIT_PREREQ, EXIT_NOT_FOUND} : FinishBlocked(code)
  \/ Resume

Spec == Init /\ [][Next]_vars
---------------------------------------------------------------------------------
(* What the pipeline makes of it *)

\* the events the pipeline gives to the scenario of the i-th line
Window(i) == ScenarioEvents("live", i, results, events, Grace)

\* kubectl logs --since-time: SINCE, a host time, is compared with the node's time of the
\* log line, which is the event's own stamp when the export itself takes no time
Collected == {e \in events : e.at >= since}

\* The configurations the comment on WINDOW_GRACE admits: the skew is within the
\* tolerance and the tolerance is below half the pause (pipeline.py:49-51).
Tolerable == MaxSkew <= Grace /\ 2 * Grace < Pause

\* Every executed scenario is given exactly the events it caused: none of its own is
\* missed, none is taken from another scenario, the one now running included, although
\* nothing but clocks that disagree links the two (pipeline.py:118-129, WINDOW_GRACE).
AttributionExact ==
  Tolerable => \A i \in 1 .. Len(results) :
                 results[i].status = "executed" => Window(i) = EventsOf(i)

\* No scenario starts while the events of an earlier one may still be stamped into
\* its window: recorded windows, widened by the tolerance on both sides, are disjoint
\* and in catalog order (run_simulations.sh:93, pipeline.py:50-51).
WindowsDisjoint ==
  2 * Grace < Pause =>
    \A i, j \in 1 .. Len(results) :
      i < j => results[i].end + Grace < results[j].start - Grace

\* The inductive strengthening: where every event's stamp can lie, and that whatever
\* starts next starts at least a pause after every recorded end.
EventBounds ==
  \A e \in events :
    \/ /\ e.owner \in 1 .. Len(results)
       /\ results[e.owner].start - MaxSkew <= e.at
       /\ e.at <= results[e.owner].end + MaxSkew
    \/ /\ phase = "running" /\ e.owner = Current
       /\ started - MaxSkew <= e.at /\ e.at <= now + MaxSkew

LineBounds ==
  /\ started <= now
  /\ \A i \in 1 .. Len(results) : results[i].start <= results[i].end /\ results[i].end <= now
  /\ \A i, j \in 1 .. Len(results) : i < j => results[i].end + Pause <= results[j].start
  /\ phase = "running" => \A i \in 1 .. Len(results) : results[i].end + Pause <= started
  /\ phase \in {"next", "evaluate"} => \A i \in 1 .. Len(results) : results[i].end + Pause <= now

PhaseBounds ==
  /\ phase = "begin" => results = << >> /\ events = {}
  /\ phase \in {"next", "running"} => Len(results) < N
  /\ phase = "pause" => Len(results) \in 1 .. N
  /\ phase = "evaluate" => Len(results) = N

ScheduleInv == TypeOK /\ EventBounds /\ LineBounds /\ PhaseBounds

\* What the comment on WINDOW_GRACE promises of skew within the tolerance, carried
\* through to the capture: the events a scenario caused are also read from the stream.
SkewTolerated ==
  Tolerable => \A i \in 1 .. Len(results) : EventsOf(i) \subseteq Collected

\* The comment on the codes 125 and 127 (run_simulations.sh:86-87): a scenario is recorded
\* as blocked when it could not be run, so the sensor has seen nothing of it.
BlockedMeansNotRun ==
  \A i \in 1 .. Len(results) : results[i].status = "blocked" => EventsOf(i) = {}

\* Scenario.timeout_seconds (30 s for every entry of the catalog): a scenario is not
\* left running longer than its timeout.
TimeoutRespected == phase = "running" => now - started <= Timeout
=================================================================================
