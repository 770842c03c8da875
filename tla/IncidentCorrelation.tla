--------------------------- MODULE IncidentCorrelation ---------------------------
(***************************************************************************)
(* correlate_incidents (correlation/kubernetes.py) groups the events of a  *)
(* run by workload into incidents; the same events are scored for risk     *)
(* (RiskScoring).  Events arrive in any order, one at a time, and          *)
(* everything is computed again from the list so far.                      *)
(*                                                                         *)
(* Timestamps are compared as text.  Within one second the code meets      *)
(* three forms, in this textual order: "plus" (12:00:00+00:00), "frac"     *)
(* (12:00:00.5 with either suffix) and "zulu" (12:00:00Z).                 *)
(***************************************************************************)
EXTENDS RiskScoring, SequencesExt

CONSTANTS
  Events,    \* [id, ns, pod, severity, tactic, technique, net, stamp]
  Specs,     \* pod specifications a workload may have
  MaxEvents  \* bound of the model

CorrelationAssumption ==
  /\ WeightAssumption /\ MaxEvents \in Nat /\ NoSpec \in Specs
  /\ \A e \in Events : e.severity \in ToSet(Severities) /\ e.stamp.sec \in Nat

NoTactic == "" \* the event has none

\* datetime.fromisoformat, to the second
Parsed(evs) == [i \in 1 .. Len(evs) |->
  [severity |-> evs[i].severity, technique |-> evs[i].technique, net |-> evs[i].net,
   at |-> evs[i].stamp.sec]]

\* the order of the strings, and that of the moments they name
TextOrder(stamp) ==
  3 * stamp.sec + CASE stamp.form = "plus" -> 0 [] stamp.form = "frac" -> 1 [] OTHER -> 2
Moment(stamp) == 2 * stamp.sec + (IF stamp.form = "frac" THEN 1 ELSE 0)

\* the events' values, each once, in order, without the empty one
InOrder(values, empty) ==
  FoldLeft(LAMBDA seen, v : IF v = empty \/ Contains(seen, v) THEN seen ELSE Append(seen, v),
           <<>>, values)

\* the highest severity, from LOW upwards
Highest(evs) ==
  LET index(s) == CHOOSE k \in 1 .. Len(Severities) : Severities[k] = s
  IN Severities[Max({index("LOW")} \cup {index(evs[i].severity) : i \in 1 .. Len(evs)})]

Workload(e)  == [ns |-> e.ns, pod |-> e.pod]
Grouped(evs) == {Workload(evs[i]) : i \in 1 .. Len(evs)}
Places(evs, ref) == {i \in 1 .. Len(evs) : Workload(evs[i]) = ref}

\* mutant: the order of arrival
Arrived(evs, j, i) == j <= i

\* the order of sorted(key=timestamp), which is stable
Precedes(evs, j, i) ==
  \/ TextOrder(evs[j].stamp) < TextOrder(evs[i].stamp)
  \/ TextOrder(evs[j].stamp) = TextOrder(evs[i].stamp) /\ j <= i

\* the events of a workload, sorted
Group(evs, ref) ==
  LET places  == Places(evs, ref)
      rank(i) == Cardinality({j \in places : Precedes(evs, j, i)})
  IN [r \in 1 .. Cardinality(places) |-> evs[CHOOSE i \in places : rank(i) = r]]

Incident(group) ==
  [severity   |-> Highest(group),
   tactics    |-> InOrder([i \in 1 .. Len(group) |-> group[i].tactic], NoTactic),
   techniques |-> InOrder([i \in 1 .. Len(group) |-> group[i].technique], NoTechnique),
   events     |-> group]

CorrelateIncidents(evs) == [ref \in Grouped(evs) |-> Incident(Group(evs, ref))]
----------------------------------------------------------------------------------
VARIABLES
  events, \* security_events, in the order they were collected
  spec    \* workload_spec

vars == <<events, spec>>

Init == events = <<>> /\ spec \in Specs

Collect(e) ==
  /\ Len(events) < MaxEvents /\ ~Contains(events, e)
  /\ events' = Append(events, e)
  /\ UNCHANGED spec

Next == \E e \in Events : Collect(e)

Spec == Init /\ [][Next]_vars
----------------------------------------------------------------------------------
(* Properties *)

Incidents == CorrelateIncidents(events)
Ref == [ns |-> "threatguard", pod |-> "threatguard-target-pod"] \* the workload that is scored
ScoreOf(evs) == Score(Parsed(evs), Ref, spec)

\* No event is lost, doubled or filed under another workload, and no incident is
\* reported as less severe than one of its events.
EventsAccountedFor ==
  /\ \A i \in 1 .. Len(events) :
       LET inc == Incidents[Workload(events[i])]
       IN /\ Cardinality({k \in 1 .. Len(inc.events) : inc.events[k] = events[i]}) = 1
          /\ SeverityPoints(inc.severity) >= SeverityPoints(events[i].severity)
  /\ SumFunction([ref \in DOMAIN Incidents |-> Len(Incidents[ref].events)]) = Len(events)

\* The order in which events were collected does not show in an incident, as long
\* as no two of a workload have the same timestamp.
ArrivalOrderIrrelevant ==
  LET n == Len(events)
      distinct == \A i, j \in 1 .. n :
        i # j /\ Workload(events[i]) = Workload(events[j])
        => TextOrder(events[i].stamp) # TextOrder(events[j].stamp)
      orders == {p \in [1 .. n -> 1 .. n] : \A i, j \in 1 .. n : i # j => p[i] # p[j]}
  IN distinct => \A p \in orders : CorrelateIncidents([i \in 1 .. n |-> events[p[i]]]) = Incidents

\* Every point of the score is attributed to a contributor ("with full
\* attribution", risk.py:4), before the list is cut to five.
AttributionComplete ==
  LET evs == Parsed(events)
  IN SumFunction(Contributors(evs, Ref, spec)) = RawTotal(Breakdown(evs, Ref, spec))

\* The score of the workload, and that of each incident, falls by no more than the
\* points for a burst, which a later event may end.
KeepsScores ==
  /\ ScoreOf(events') + 3 * 12 >= ScoreOf(events)
  /\ \A ref \in Grouped(events) :
       ScoreOf(Group(events', ref)) + 3 * 12 >= ScoreOf(Group(events, ref))

\* A further event never discounts what is known already.
EvidenceNeverDiscounted == [][KeepsScores]_vars

\* "{len(events)} events occurred within {int(delta_sec)} seconds" (risk.py:219): the
\* points for a burst say that all events fall into two minutes.
BurstIsABurst ==
  Burst(Parsed(events)) > 0 =>
    \A i, j \in 1 .. Len(events) : Gap(events[i].stamp.sec, events[j].stamp.sec) < 120

\* The tiers are 0-39, 40-69, 70-89 and 90-100 (the comments at risk.py:16-19).
TierAsCommented ==
  LET s == ScoreOf(events)
  IN Tier(s) = IF s >= 360 THEN "CRITICAL" ELSE IF s >= 280 THEN "HIGH"
               ELSE IF s >= 160 THEN "MEDIUM" ELSE "LOW"

\* "Group by Workload & Time Window" (docs/operations/incident-response.md:9), with
\* window_seconds = 300: two events of an incident are at most that far apart.
WithinWindow ==
  \A ref \in DOMAIN Incidents :
    LET evs == Incidents[ref].events
    IN \A i, j \in 1 .. Len(evs) : Gap(evs[i].stamp.sec, evs[j].stamp.sec) <= 300

\* "Calculate chronological timeline" (reporting/incidents.py:57): an incident's
\* events are in the order in which they happened.
TimelineChronological ==
  \A ref \in DOMAIN Incidents :
    LET evs == Incidents[ref].events
    IN \A i, j \in 1 .. Len(evs) : i < j => Moment(evs[i].stamp) <= Moment(evs[j].stamp)
==================================================================================
