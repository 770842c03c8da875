--------------------------- MODULE NetworkPolicyCheck ---------------------------
(***************************************************************************)
(* The NetworkPolicy check (runtime/network_check.py): the canary that     *)
(* asks whether the CNI enforces policies, the matrix of connections, the  *)
(* verdict and the cleanup.  The cluster answers late: policies are        *)
(* programmed and objects removed some time after the call.  A command can *)
(* fail although the cluster is well, and the process can die and be run   *)
(* again over what it left.                                                *)
(***************************************************************************)
EXTENDS Integers, SequencesExt

CONSTANTS
  Tries,     \* connections tried after the canary policy (5 in the code)
  MaxFaults, \* bound: failing commands and deaths together
  MaxRuns    \* bound: how often the check is run

NetworkAssumption == Tries \in Nat \ {0} /\ MaxFaults \in Nat /\ MaxRuns \in Nat

Canary == <<"canary_ns", "canary_server", "canary_client">>
Probers == <<"probe_ns", "egress_probe", "client", "xns_client">>
Objects == ToSet(Canary) \cup ToSet(Probers) \cup {"canary_policy"}

\* the namespace among these objects that holds o; the application's namespace is not one
Home(o) ==
  CASE o \in {"canary_server", "canary_client", "canary_policy"} -> "canary_ns"
    [] o = "xns_client" -> "probe_ns"
    [] OTHER -> "none"

Matrix == <<"ingress_same", "ingress_cross", "dns", "internet", "api", "another_pod">>
Cases == ToSet(Matrix)
Allowed == {"ingress_same", "dns"}

\* the pod that connects
Source(c) ==
  CASE c = "ingress_same" -> "client"
    [] c = "ingress_cross" -> "xns_client"
    [] OTHER -> "egress_probe"

VARIABLES
  enforces, \* the CNI filters traffic
  open,     \* cases whose traffic flows while no policy stops it
  denied,   \* cases that the project's policy stops, once programmed
  app,      \* an application pod is running
  objects,  \* object -> "absent", "live", "terminating"
  active,   \* of "canary_policy" and "egress_probe": those whose policy the CNI has programmed
  pc, step, \* where the check is; the next object, try or case
  created,  \* self.created
  results,  \* case -> "connected", "failed"
  ready,    \* every probe pod became Ready
  status,   \* of the report; "none" before
  faults,   \* failing commands and deaths so far
  fresh,    \* this run began with no object
  failed,   \* what commands of this run failed at: objects, and kinds of query
  runs      \* runs so far

world == <<enforces, open, denied, app>>
vars == <<enforces, open, denied, app, objects, active, pc, step, created, results, ready,
          status, faults, fresh, failed, runs>>

NoResult == <<>>  \* no case yet

Init ==
  /\ enforces \in BOOLEAN /\ app \in BOOLEAN
  /\ open \in {Cases, Cases \ {"internet"}, Cases \ {"dns"}}
  /\ denied \in {Cases \ Allowed, Cases \ (Allowed \cup {"api"})}
  /\ objects = [o \in Objects |-> "absent"] /\ active = {}
  /\ pc = "idle" /\ step = 1 /\ created = <<>> /\ results = NoResult /\ ready = TRUE
  /\ status = "none" /\ faults = 0 /\ fresh = TRUE /\ failed = {} /\ runs = 0

Fault(what) == faults < MaxFaults /\ faults' = faults + 1 /\ failed' = failed \cup {what}
NoFault == UNCHANGED <<faults, failed>>
Go(to) == pc' = to /\ step' = 1

\* return BLOCKED, PASS or FAIL: the report is made and cleanup follows
Decide(verdict) == status' = verdict /\ Go("cleanup")

\* run_check: cluster-info
Start ==
  /\ pc \in {"idle", "done"} /\ runs < MaxRuns
  /\ runs' = runs + 1 /\ results' = NoResult /\ ready' = TRUE /\ created' = <<>>
  /\ fresh' = (\A o \in Objects : objects[o] = "absent")
  /\ \/ Go("canary") /\ status' = "none" /\ failed' = {} /\ UNCHANGED faults
     \/ Fault("answer") /\ Decide("BLOCKED")
  /\ UNCHANGED <<world, objects, active>>

CanExist(o) == \A ns \in {Home(o)} \ {"none"} : objects[ns] = "live"

Lives(o) == objects' = [objects EXCEPT ![o] = "live"]

\* mutant: only an object that was not there is recorded
ApplyNew(o, ok) ==
  \/ /\ ok /\ objects[o] # "absent" /\ UNCHANGED <<objects, created>> /\ NoFault
  \/ /\ ok /\ objects[o] = "absent" /\ CanExist(o)
     /\ Lives(o) /\ created' = Append(created, o) /\ NoFault
  \/ ~ok /\ ~CanExist(o) /\ objects[o] = "absent" /\ UNCHANGED <<objects, created>> /\ NoFault
  \/ ~ok /\ Fault(o) /\ UNCHANGED <<objects, created>>
  \/ ~ok /\ Fault(o) /\ CanExist(o) /\ objects[o] = "absent" /\ Lives(o) /\ UNCHANGED created

\* kubectl apply: an object that is there, even one that terminates, is left as it is; a
\* command that timed out may have had its effect.
Apply(o, ok) ==
  \/ /\ ok /\ created' = Append(created, o) /\ NoFault
     /\ \/ objects[o] # "absent" /\ UNCHANGED objects
        \/ objects[o] = "absent" /\ CanExist(o) /\ Lives(o)
  \/ ~ok /\ ~CanExist(o) /\ objects[o] = "absent" /\ UNCHANGED <<objects, created>> /\ NoFault
  \/ ~ok /\ Fault(o) /\ UNCHANGED <<objects, created>>
  \/ ~ok /\ Fault(o) /\ CanExist(o) /\ objects[o] = "absent" /\ Lives(o) /\ UNCHANGED created

\* wait_ready, pod_ip: what a pod that is there gives, unless the command fails
Answers(pods, ok) ==
  \/ ok /\ (\A o \in pods : objects[o] # "absent") /\ NoFault
  \/ ~ok /\ (\E o \in pods : objects[o] # "live") /\ NoFault
  \/ ~ok /\ Fault("answer")

\* canary: its namespace and pods
CanarySetup ==
  /\ pc = "canary" /\ step <= Len(Canary)
  /\ \/ Apply(Canary[step], TRUE) /\ step' = step + 1 /\ UNCHANGED <<pc, status>>
     \/ Apply(Canary[step], FALSE) /\ Decide("BLOCKED")
  /\ UNCHANGED <<world, active, results, ready, fresh, runs>>

CanaryReady ==
  /\ pc = "canary" /\ step > Len(Canary)
  /\ \/ Answers({"canary_server", "canary_client"}, TRUE) /\ Go("baseline") /\ UNCHANGED status
     \/ Answers({"canary_server", "canary_client"}, FALSE) /\ Decide("BLOCKED")
  /\ UNCHANGED <<world, objects, active, created, results, ready, fresh, runs>>

\* connect: exit code 0 only if the connection was made
CanaryFlows ==
  /\ \A o \in {"canary_server", "canary_client"} : objects[o] # "absent"
  /\ ~(enforces /\ "canary_policy" \in active)

Connects(flows, ok) ==
  \/ ok /\ flows /\ NoFault
  \/ ~ok /\ ~flows /\ NoFault
  \/ ~ok /\ Fault("connection")

Baseline ==
  /\ pc = "baseline"
  /\ \/ Connects(CanaryFlows, TRUE) /\ Go("policy") /\ UNCHANGED status
     \/ Connects(CanaryFlows, FALSE) /\ Decide("BLOCKED")
  /\ UNCHANGED <<world, objects, active, created, results, ready, fresh, runs>>

DenyAll ==
  /\ pc = "policy"
  /\ \/ Apply("canary_policy", TRUE) /\ Go("settle") /\ UNCHANGED status
     \/ Apply("canary_policy", FALSE) /\ Decide("BLOCKED")
  /\ UNCHANGED <<world, active, results, ready, fresh, runs>>

\* mutant: the settle loop gives up one way only
SettleTrusting ==
  /\ pc = "settle"
  /\ \/ Connects(CanaryFlows, FALSE) /\ Go("probes") /\ UNCHANGED status
     \/ /\ Connects(CanaryFlows, TRUE) /\ UNCHANGED status
        /\ IF step < Tries THEN step' = step + 1 /\ pc' = pc ELSE Go("probes")
  /\ UNCHANGED <<world, objects, active, created, results, ready, fresh, runs>>

\* the first connection that fails counts as enforcement
Settle ==
  /\ pc = "settle"
  /\ \/ Connects(CanaryFlows, FALSE) /\ Go("probes") /\ UNCHANGED status
     \/ /\ Connects(CanaryFlows, TRUE)
        /\ \/ step < Tries /\ step' = step + 1 /\ UNCHANGED <<pc, status>>
           \/ step = Tries /\ Decide("BLOCKED")
  /\ UNCHANGED <<world, objects, active, created, results, ready, fresh, runs>>

\* matrix: what apply returns is not looked at
ProbeSetup ==
  /\ pc = "probes" /\ step <= Len(Probers)
  /\ \E ok \in BOOLEAN : Apply(Probers[step], ok)
  /\ step' = step + 1
  /\ UNCHANGED <<world, active, pc, results, ready, status, fresh, runs>>

\* a probe that is not Ready, or no application pod, is a failed case named setup
ProbesReady ==
  /\ pc = "probes" /\ step > Len(Probers)
  /\ \E ok \in BOOLEAN :
       /\ Answers(ToSet(Tail(Probers)), ok)
       /\ ready' = (ok /\ app)
       /\ IF ready' THEN Go("case") /\ UNCHANGED status ELSE Decide("FAIL")
  /\ UNCHANGED <<world, objects, active, created, results, fresh, runs>>

\* policies reach the egress probe when the CNI has seen it; the application pods are known
Programmed(c) == enforces /\ c \in denied /\ (Source(c) = "egress_probe" => "egress_probe" \in active)
Flows(c) == c \in open /\ ~Programmed(c)

Record(c, outcome) ==
  results' = [x \in DOMAIN results \cup {c} |-> IF x = c THEN outcome ELSE results[x]]

Matched(c) == results[c] = (IF c \in Allowed THEN "connected" ELSE "failed")

\* a case; that of the API is left out when its address could not be read
Try ==
  /\ pc = "case" /\ step <= Len(Matrix)
  /\ LET c == Matrix[step]
         flows == Flows(c) /\ objects[Source(c)] # "absent"
     IN \/ Connects(flows, TRUE) /\ Record(c, "connected")
        \/ Connects(flows, FALSE) /\ Record(c, "failed")
        \/ c = "api" /\ Fault("address") /\ UNCHANGED results
  /\ step' = step + 1
  /\ UNCHANGED <<world, objects, active, pc, created, ready, status, fresh, runs>>

Report ==
  /\ pc = "case" /\ step > Len(Matrix)
  /\ Decide(IF \A c \in DOMAIN results : Matched(c) THEN "PASS" ELSE "FAIL")
  /\ UNCHANGED <<world, objects, active, created, results, ready, faults, fresh, failed, runs>>

\* kubectl delete --wait=false: a policy goes at once, a pod when its grace period ends, a
\* namespace takes what it holds along
Removed(o) ==
  [x \in Objects |->
     IF (x # o /\ Home(x) # o) \/ objects[x] = "absent" THEN objects[x]
     ELSE IF x = "canary_policy" THEN "absent" ELSE "terminating"]

\* cleanup, in reverse order, whatever a command returns
Cleanup ==
  /\ pc = "cleanup" /\ created # <<>>
  /\ \/ objects' = Removed(Last(created)) /\ NoFault
     \/ UNCHANGED objects /\ Fault(Last(created))
  /\ created' = Front(created)
  /\ active' = {o \in active : objects'[o] # "absent"}
  /\ UNCHANGED <<world, pc, step, results, ready, status, fresh, runs>>

Finish ==
  /\ pc = "cleanup" /\ created = <<>> /\ Go("done")
  /\ UNCHANGED <<world, objects, active, created, results, ready, status, faults, fresh, failed, runs>>

\* the process is killed: finally does not run
Die ==
  /\ pc \notin {"idle", "done"} /\ faults < MaxFaults /\ faults' = faults + 1
  /\ Go("idle") /\ status' = "none" /\ created' = <<>>
  /\ UNCHANGED <<world, objects, active, results, ready, fresh, failed, runs>>

\* the cluster: the CNI programs a policy, an object that terminates is gone
Program(o) ==
  /\ enforces /\ objects[o] # "absent" /\ o \notin active
  /\ active' = active \cup {o}
  /\ UNCHANGED <<world, objects, pc, step, created, results, ready, status, faults, fresh, failed, runs>>

Gone(o) ==
  /\ objects[o] = "terminating" /\ \A x \in Objects : Home(x) = o => objects[x] = "absent"
  /\ objects' = [objects EXCEPT ![o] = "absent"] /\ active' = active \ {o}
  /\ UNCHANGED <<world, pc, step, created, results, ready, status, faults, fresh, failed, runs>>

Next ==
  \/ Start \/ CanarySetup \/ CanaryReady \/ Baseline \/ DenyAll \/ Settle \/ ProbeSetup
  \/ ProbesReady \/ Try \/ Report \/ Cleanup \/ Finish \/ Die
  \/ \E o \in {"canary_policy", "egress_probe"} : Program(o)
  \/ \E o \in Objects : Gone(o)

Spec == Init /\ [][Next]_vars
--------------------------------------------------------------------------------
(* Properties *)

TypeOK ==
  /\ objects \in [Objects -> {"absent", "live", "terminating"}] /\ active \subseteq Objects
  /\ ToSet(created) \subseteq Objects /\ (pc \in {"idle", "done"} => created = <<>>)
  /\ DOMAIN results \subseteq Cases
  /\ failed \subseteq Objects \cup {"answer", "connection", "address"}
  /\ status \in {"none", "PASS", "FAIL", "BLOCKED"}
  /\ pc \in {"idle", "canary", "baseline", "policy", "settle", "probes", "case", "cleanup", "done"}

\* The verdict of a run that began with nothing left and in which no connection failed but
\* for the traffic, whatever other commands failed or timed out: PASS only when the CNI
\* filters, of every claim that was tried just the forbidden traffic is stopped, and only
\* the API is left out, if its address could not be read; FAIL only on a CNI that filters
\* (docstring lines 6-14).
SoundVerdict ==
  fresh /\ "connection" \notin failed /\ pc = "cleanup" /\ objects["egress_probe"] = "live" =>
    /\ status = "PASS" =>
         /\ enforces
         /\ \A c \in Cases : c \in DOMAIN results \/ (c = "api" /\ "address" \in failed)
         /\ \A c \in DOMAIN results : Flows(c) <=> c \in Allowed
    /\ status = "FAIL" => enforces

\* A run that passes leaves nothing alive, whatever earlier runs left or lost, but what its
\* own apply or delete failed at (the finally of run_check): what timed out and was made all
\* the same is not in self.created, and a delete is not tried again.
PassLeavesNothing ==
  pc = "done" /\ status = "PASS" => \A o \in Objects \ failed : objects[o] # "live"

\* "the result is BLOCKED rather than a false pass or fail" (docstring lines 9-11): a
\* verdict is reached only on a CNI that filters.
VerdictNeedsEnforcement == status \in {"PASS", "FAIL"} => enforces

\* "Matrix: probe pods exercise each allowance and denial" (docstring line 12).
EveryClaimTried == status = "PASS" => DOMAIN results = Cases

\* "Traffic must flow before a deny-all policy exists" (docstring line 8).
BaselineBeforePolicy == pc = "baseline" => objects["canary_policy"] = "absent"

\* A false fail is what the canary is there to prevent (docstring line 11): FAIL means that
\* there is no application, or that traffic goes wrong once policies are programmed.
FailIsReal ==
  status = "FAIL" /\ fresh /\ failed = {} =>
    ~app \/ \E c \in Cases : (c \in open /\ c \notin denied) # (c \in Allowed)
================================================================================
