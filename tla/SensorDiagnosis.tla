----------------------------- MODULE SensorDiagnosis -----------------------------
(***************************************************************************)
(* runtime/sensor_check.py: policy counters of one agent before and after  *)
(* three probe commands in the target pod, the exported stream of all      *)
(* agents since then, and a verdict from the two.  Meanwhile other pods    *)
(* use the nodes, the pod does its own work, agents restart, and events    *)
(* are exported late or never.  A policy that is not listed reads as zero. *)
(***************************************************************************)
EXTENDS Integers

CONSTANTS
  Nodes,        \* each with its agent and that agent's counters
  PodNode,      \* where the target pod runs
  Tracing,      \* the tracing policies
  Probes,       \* number of probe commands
  MaxTroubles,  \* bound: what happens in the cluster besides the probes
  None          \* no agent yet

DiagnosisAssumption ==
  /\ PodNode \in Nodes /\ None \notin Nodes
  /\ Probes \in Nat /\ MaxTroubles \in Nat

VARIABLES
  step,      \* the next thing diagnose does
  agent,     \* the node of the agent it reads
  counter,   \* node -> the counters of its agent
  before,    \* the counters as first read
  probed,    \* probe commands run
  code,      \* exit code, -1 before the end
  since,     \* whether the window of the stream has begun
  pending,   \* kprobe events of the pod that are posted and not yet exported
  lost,      \* what the pod triggered and no export will show
  lines,     \* its kprobe lines exported in the window
  troubles,
  triggered, \* probes that triggered the policy (history)
  podActed,  \* whether the pod triggered it by itself once the counters were read (history)
  strangers  \* nodes where another pod did so (history)

diagnosis == <<step, agent, before, probed, code, since>>
cluster   == <<counter, pending, lost, lines>>
history   == <<triggered, podActed, strangers>>
vars      == <<diagnosis, cluster, troubles, history>>

\* NPOST and NENFORCE of each policy
Columns == Tracing \X {"posted", "enforced"}

Zero == [c \in Columns |-> 0]

\* the agents have counted nothing yet, or have been counting
Init ==
  /\ step = "agent" /\ agent = None /\ before = Zero /\ probed = 0 /\ code = -1 /\ since = FALSE
  /\ \E start \in {0, 1} : counter = [n \in Nodes |-> [c \in Columns |-> start]]
  /\ pending = 0 /\ lost = 0 /\ lines = 0
  /\ troubles = 0 /\ triggered = 0 /\ podActed = FALSE /\ strangers = {}

\* the counters that one act can raise: of one policy, posting an event, enforcing, or both
Effects == {raised \in SUBSET Columns : \A c, d \in raised : c[1] = d[1]}

Moved(n, effect) ==
  [counter EXCEPT ![n] = [c \in Columns |-> IF c \in effect THEN @[c] + 1 ELSE @[c]]]

Posts(effect) == \E c \in effect : c[2] = "posted"

\* enforcement without an event leaves nothing to export
ActInPod(effect) ==
  /\ counter' = Moved(PodNode, effect)
  /\ pending' = IF Posts(effect) THEN pending + 1 ELSE pending
  /\ lost' = IF effect = {} \/ Posts(effect) THEN lost ELSE lost + 1
  /\ UNCHANGED lines
--------------------------------------------------------------------------------
(* diagnose *)

Blocked == step' = "done" /\ code' = 2

\* items[0] of the agents, in no order that has to do with the pod
FindAgent ==
  /\ step = "agent"
  /\ \/ Blocked /\ UNCHANGED agent
     \/ agent' \in Nodes /\ step' = "before" /\ UNCHANGED code
  /\ UNCHANGED <<before, probed, since, cluster, troubles, history>>

ReadBefore ==
  /\ step = "before"
  /\ \/ Blocked /\ UNCHANGED before
     \/ before' = counter[agent] /\ step' = "since" /\ UNCHANGED code
  /\ UNCHANGED <<agent, probed, since, cluster, troubles, history>>

TakeSince ==
  /\ step = "since"
  /\ since' = TRUE /\ step' = "probe"
  /\ UNCHANGED <<agent, before, probed, code, cluster, troubles, history>>

\* the result of the command is not looked at: it may not have run, or trigger nothing
Probe ==
  /\ step = "probe" /\ probed < Probes
  /\ \E effect \in Effects :
       /\ ActInPod(effect)
       /\ triggered' = IF effect = {} THEN triggered ELSE triggered + 1
  /\ probed' = probed + 1
  /\ step' = IF probed' = Probes THEN "after" ELSE "probe"
  /\ UNCHANGED <<agent, before, code, since, troubles, podActed, strangers>>

\* sensor_activity: the rises are summed, a counter that fell does not count against them
Activity(was, now) == \E c \in Columns : now[c] > was[c]

\* the counters move between the two reads only: what the stream shows is looked at last
ReadAfter ==
  /\ step = "after"
  /\ \/ Blocked
     \/ /\ step' = IF Activity(before, counter[agent]) THEN "collect-moved" ELSE "collect-idle"
        /\ UNCHANGED code
  /\ UNCHANGED <<agent, before, probed, since, cluster, troubles, history>>

\* mutant: a quiet stream is taken as nothing posted
VerdictOfStream(moved, exported) == IF moved /\ exported > 0 THEN 0 ELSE 3

Verdict(moved, exported) ==
  CASE ~moved -> 3
    [] moved /\ exported > 0 -> 0
    [] OTHER -> 1

Collect ==
  /\ step \in {"collect-idle", "collect-moved"}
  /\ \/ Blocked
     \/ step' = "done" /\ code' = Verdict(step = "collect-moved", lines)
  /\ UNCHANGED <<agent, before, probed, since, cluster, troubles, history>>
--------------------------------------------------------------------------------
(* The cluster *)

Export ==
  /\ step # "done" /\ pending > 0
  /\ pending' = pending - 1
  /\ \/ lines' = (IF since THEN lines + 1 ELSE lines) /\ UNCHANGED lost
     \/ lost' = lost + 1 /\ UNCHANGED lines
  /\ UNCHANGED <<diagnosis, counter, troubles, history>>

Trouble == step # "done" /\ troubles < MaxTroubles /\ troubles' = troubles + 1

\* another pod of the node triggers the policy; its lines are dropped by pod
Stranger(n) ==
  /\ Trouble
  /\ \E effect \in Effects \ {{}} : counter' = Moved(n, effect)
  /\ strangers' = strangers \cup {n}
  /\ UNCHANGED <<diagnosis, pending, lost, lines, triggered, podActed>>

\* the target pod triggers it without a probe
PodActs ==
  /\ Trouble
  /\ \E effect \in Effects \ {{}} : ActInPod(effect)
  /\ IF step \in {"agent", "before"} THEN UNCHANGED podActed ELSE podActed' = TRUE
  /\ UNCHANGED <<diagnosis, triggered, strangers>>

\* an agent starts again, its counters at zero
Restart(n) ==
  /\ Trouble
  /\ counter' = [counter EXCEPT ![n] = Zero]
  /\ UNCHANGED <<diagnosis, pending, lost, lines, history>>

Next ==
  \/ FindAgent \/ ReadBefore \/ TakeSince \/ Probe \/ ReadAfter \/ Collect
  \/ Export \/ PodActs
  \/ \E n \in Nodes : Stranger(n) \/ Restart(n)

Spec == Init /\ [][Next]_vars
--------------------------------------------------------------------------------
(* Properties *)

TypeOK ==
  /\ step \in {"agent", "before", "since", "probe", "after", "collect-idle", "collect-moved", "done"}
  /\ agent \in Nodes \cup {None} /\ (step \in {"agent", "done"} \/ agent # None)
  /\ counter \in [Nodes -> [Columns -> Nat]] /\ before \in [Columns -> Nat]
  /\ code \in {-1, 0, 1, 2, 3} /\ (code = -1 <=> step # "done")
  /\ probed \in 0 .. Probes /\ triggered \in 0 .. probed
  /\ pending \in Nat /\ lost \in Nat /\ lines \in Nat

\* The verdict against what the docstring says it means (lines 14-19), when the agent is the
\* pod's own and nothing but the probes happened: 3 when no probe triggered, 1 when nothing of
\* what they triggered was exported by then, 0 when something was.
ExactWhenQuiet ==
  step = "done" /\ code # 2 /\ agent = PodNode /\ troubles = 0 =>
    code = CASE triggered = 0 -> 3 [] triggered > 0 /\ lines = 0 -> 1 [] OTHER -> 0

\* A gap is only reported when the counters that were read could speak of the pod (lines 12-15):
\* without a stranger on the agent's node, the agent is the pod's and the pod did trigger.
GapIsOfThePod ==
  code = 1 /\ agent \notin strangers => agent = PodNode /\ (triggered > 0 \/ podActed)

\* "1 events were posted but not exported" (lines 17-18)
GapMeansUnexported == code = 1 => pending > 0 \/ lost > 0

\* "3 inconclusive (the probe did not trigger any policy)" (lines 18-19)
InconclusiveMeansUntriggered == code = 3 => triggered = 0
================================================================================
