-------------------------- MODULE WorkloadInvestigation --------------------------
(***************************************************************************)
(* The dossier of one Pod (reporting/investigation.py): which events it    *)
(* takes and the process tree it builds from them.  Processes fork and     *)
(* exit and their pids are used again; some are seen by a rule, and their  *)
(* events arrive in any order.  Whether an event names the pid of the      *)
(* parent is up to who wrote it: the detection engine does not, the events *)
(* of tests/unit/reporting/test_investigation.py do.                       *)
(***************************************************************************)
EXTENDS Integers, Sequences, SequencesExt, FiniteSetsExt

CONSTANTS
  Pods,      \* Pods of one namespace
  Pod,       \* the Pod investigated
  Matching,  \* Pods whose name contains that of Pod: "pod_name in e.pod"
  Pids,      \* process ids that the node hands out
  MaxProcs   \* bound: processes

InvestigationAssumption ==
  /\ Pod \in Matching /\ Matching \subseteq Pods
  /\ 1 \notin Pids /\ MaxProcs \in Nat

VARIABLES
  procs,  \* the processes in the order they started: pod, pid, parent (0: the entrypoint)
  alive,  \* indices of those that run
  sent,   \* indices of those whose start a rule detected
  told,   \* those of them whose event holds metadata.ppid, the parent's pid
  events  \* indices in the order their events arrived

vars == <<procs, alive, sent, told, events>>

Init == procs = <<>> /\ alive = {} /\ sent = {} /\ told = {} /\ events = <<>>

Fork(pod, pid, parent, detected, names) ==
  LET n == Len(procs) + 1
  IN /\ n <= MaxProcs /\ \A p \in alive : procs[p].pid # pid
     /\ parent = 0 \/ (parent \in alive /\ procs[parent].pod = pod)
     /\ procs' = Append(procs, [pod |-> pod, pid |-> pid, parent |-> parent])
     /\ alive' = alive \cup {n}
     /\ sent' = IF detected THEN sent \cup {n} ELSE sent
     /\ told' = IF detected /\ names THEN told \cup {n} ELSE told
     /\ UNCHANGED events

Exit(p) == p \in alive /\ alive' = alive \ {p} /\ UNCHANGED <<procs, sent, told, events>>

Arrive(p) ==
  /\ p \in sent \ ToSet(events) /\ events' = Append(events, p)
  /\ UNCHANGED <<procs, alive, sent, told>>

Next ==
  \/ \E pod \in Pods, pid \in Pids, parent \in {0} \cup alive, detected, names \in BOOLEAN :
       Fork(pod, pid, parent, detected, names)
  \/ \E p \in DOMAIN procs : Exit(p) \/ Arrive(p)

Spec == Init /\ [][Next]_vars

Pid(p) == procs[p].pid

\* metadata.get("ppid", 1); the entrypoint has pid 1
Ppid(p) == IF p \in told /\ procs[p].parent # 0 THEN Pid(procs[p].parent) ELSE 1

\* investigate: the events of this workload, in the order given
Records == {k \in 1 .. Len(events) : procs[events[k]].pod \in Matching}

\* mutant: the first process of a pid stays its node
ParentFirst(k) ==
  LET earlier == {j \in Records : j <= k /\ Pid(events[j]) = Ppid(events[k])}
  IN IF earlier = {} THEN 0 ELSE Min(earlier)

\* reconstruct_process_tree: the node under which record k hangs is the last one of that pid
\* so far, record k included, and the root if there is none
Parent(k) ==
  LET earlier == {j \in Records : j <= k /\ Pid(events[j]) = Ppid(events[k])}
  IN IF earlier = {} THEN 0 ELSE Max(earlier)

\* the process whose child record k is shown to be
Shown(k) == IF Parent(k) = 0 THEN 0 ELSE events[Parent(k)]
--------------------------------------------------------------------------------
(* Properties *)

InOrder  == \A j, k \in Records : j < k => events[j] < events[k]
Recorded == {events[k] : k \in Records}

\* Every record hangs under an earlier one or the root, so that the tree holds them all.
TypeOK ==
  /\ alive \cup sent \subseteq DOMAIN procs /\ told \cup ToSet(events) \subseteq sent
  /\ \A k \in Records : Parent(k) \in 0 .. (k - 1)

\* "parent-child process tree from chronological process records" (line 191), for records
\* in order, however often a pid is used again: one that does not name its parent's pid
\* hangs under the entrypoint, one that does hangs under its parent if that is recorded,
\* and under a stranger only if it is not and the stranger had the parent's pid before it.
TreeIsReal ==
  InOrder =>
    \A k \in Records :
      LET p == events[k]
          parent == procs[p].parent
      IN /\ p \notin told => Shown(k) = 0
         /\ p \in told /\ parent \in Recorded \cup {0} => Shown(k) = parent
         /\ Shown(k) \notin {0, parent} =>
              /\ parent \notin Recorded
              /\ Shown(k) < parent /\ Pid(Shown(k)) = Pid(parent)

\* "chronological process records" (line 191): what is shown does not depend on arrival.
ArrivalIrrelevant ==
  \A k \in Records :
    procs[events[k]].parent \in Recorded => Shown(k) = procs[events[k]].parent

\* "Reconstructs parent-child process tree" (line 191): no process is shown as the child of
\* one that did not start it.
NoStrangerAsParent ==
  InOrder => \A k \in Records : Shown(k) \in {0, procs[events[k]].parent}

\* "Filter events for this specific workload" (line 96)
OnlyThisWorkload == \A p \in Recorded : procs[p].pod = Pod

\* "Parent/child process execution tree reconstruction" (line 5): with the metadata that
\* the detection engine writes.
TreeHasLevels ==
  InOrder => \A k \in Records : procs[events[k]].parent \in Recorded => Shown(k) # 0
================================================================================
