------------------------- MODULE CrossDomainCorrelation -------------------------
(***************************************************************************)
(* CrossDomainCorrelationEngine with the adapters that feed it, the risk   *)
(* evaluator and the incident built from a cluster (correlation/           *)
(* cross_domain).  Findings about cloud identities and events of the       *)
(* cluster arrive in any order and more than once, identity bindings are   *)
(* registered meanwhile, and correlate() may run at any point.             *)
(*                                                                         *)
(* A finding is [origin, principal, role, action, says, score, severity]   *)
(* and an event [origin, kind, ns, label, stem, pod, signs, at, score,     *)
(* severity]: says and signs stand for what the evaluator looks for in the *)
(* texts, stem for the name of the Pod without what looks like a suffix,   *)
(* and a score of 0 for none given.  "none" is an empty field, names are   *)
(* in lower case, and scores are in tenths.  An adapter leaves out when an *)
(* event happened: what it makes of it is stamped when it makes it, and    *)
(* ingested some time later.  The lists of the code hold events in the     *)
(* order they came in, which is that of their ids: they are sets here, and *)
(* sequences where the code sorts them.                                    *)
(***************************************************************************)
EXTENDS Integers, Sequences, FiniteSets, SequencesExt, FiniteSetsExt

CONSTANTS
  Findings,     \* of CloudGraphGuard
  Detections,   \* events of ThreatGuard
  Bindings,     \* [identity, ns, workload], workload "none" when it names no workload
  Times,        \* when an adapter may convert an event
  MaxEvents,    \* bound of the model: events ingested
  MaxIncidents  \* bound of the model: incidents created

ASSUME CrossDomainAssumption ==
  /\ MaxEvents \in Nat /\ MaxIncidents \in Nat /\ Times \subseteq Nat
  /\ \A x \in Findings \cup Detections : x.score \in Nat /\ x.score <= 1000

NoBinding == [identity |-> "none", ns |-> "none", workload |-> "none"]

--------------------------------------------------------------------------------
(* The adapters *)

\* CloudGraphGuardAdapter: an event of its own, with a new id
FromFinding(f, id) ==
  [id |-> id, origin |-> f.origin, source |-> "cloudgraphguard", kind |-> "iam_risk",
   key |-> IF f.role # "none" THEN f.role ELSE f.principal,
   ns |-> "none", pod |-> "none", action |-> f.action, signs |-> {f.says}, at |-> 0,
   score |-> f.score, severity |-> f.severity]

\* EVENT_TYPE_MAP, SEVERITY_MAP and SEVERITY_SCORE_MAP, with their defaults
EventType(kind) ==
  IF kind = "policy_violation" THEN "admission_violation"
  ELSE IF kind \in {"admission_violation", "network_anomaly", "attack_simulation", "incident"} THEN kind
  ELSE "runtime_detection"

MappedSeverity(s) ==
  IF s = "info" THEN "low" ELSE IF s \in {"critical", "high", "medium", "low"} THEN s ELSE "high"

SeverityScore == [critical |-> 900, high |-> 750, medium |-> 500, low |-> 250]

InferWorkload(d) == IF d.label # "none" THEN d.label ELSE d.stem

\* ThreatGuardAdapter: keyed by the workload, or else by the pod
FromDetection(d, id, now) ==
  [id |-> id, origin |-> d.origin, source |-> "threatguard", kind |-> EventType(d.kind),
   key |-> IF InferWorkload(d) # "none" THEN InferWorkload(d) ELSE d.pod,
   ns |-> d.ns, pod |-> d.pod, action |-> "none", signs |-> d.signs, at |-> now,
   score |-> IF d.score = 0 THEN SeverityScore[MappedSeverity(d.severity)] ELSE d.score,
   severity |-> MappedSeverity(d.severity)]

--------------------------------------------------------------------------------
(* Correlation *)

IsIam(e)       == e.source = "cloudgraphguard"
IsAdmission(e) == e.source = "threatguard" /\ e.kind = "admission_violation"
IsRuntime(e)   == e.source = "threatguard" /\ e.kind # "admission_violation"

KeyedBy(S, key) == {e \in S : e.key = key}

Cluster(binding, iam, all, key) ==
  [binding |-> binding, iam |-> iam, runtime |-> KeyedBy({e \in all : IsRuntime(e)}, key),
   admission |-> KeyedBy({e \in all : IsAdmission(e)}, key)]

EventsOf(c) == c.iam \cup c.runtime \cup c.admission
CrossDomain(c) == c.iam # {} /\ (c.runtime # {} \/ c.admission # {})

ClusterOf(binding, all) ==
  Cluster(binding, KeyedBy({e \in all : IsIam(e)}, binding.identity), all, binding.workload)

\* 1. one cluster for every binding with an event on either side
BoundClusters(registered, all) ==
  {c \in {ClusterOf(b, all) : b \in registered} : EventsOf(c) # {}}

\* 2. one for every workload with a runtime event and no cluster so far
UnboundClusters(registered, all) ==
  LET taken == {c.binding.workload : c \in BoundClusters(registered, all)}
  IN {Cluster(NoBinding, {}, all, e.key) : e \in {e \in all : IsRuntime(e) /\ e.key \notin taken}}

CorrelateAll(registered, all) ==
  BoundClusters(registered, all) \cup UnboundClusters(registered, all)

Stage(domain, e) == [domain |-> domain, id |-> e.id]
Stages(domain, s) == [k \in DOMAIN s |-> Stage(domain, s[k])]

\* the elements of a set, each at its place
Arranged(place) == [k \in 1 .. Cardinality(DOMAIN place) |-> CHOOSE e \in DOMAIN place : place[e] = k]

AsIngested(S) == Arranged([e \in S |-> Cardinality({x \in S : x.id <= e.id})])

\* sorted(key=timestamp), which is stable
ByTime(S) == Arranged([e \in S |->
  Cardinality({x \in S : x.at < e.at \/ (x.at = e.at /\ x.id <= e.id)})])

\* mutant: runtime events in the order they came in
BuildChainUnsorted(c) ==
  Stages("CLOUD_IAM", AsIngested(c.iam)) \o Stages("K8S_ADMISSION", AsIngested(c.admission))
  \o Stages("K8S_RUNTIME", AsIngested(c.runtime))

\* _build_attack_chain: identity, transition, admission, then what ran, by time
BuildChain(c) ==
  Stages("CLOUD_IAM", AsIngested(c.iam))
  \o (IF c.binding # NoBinding /\ CrossDomain(c)
      THEN <<[domain |-> "EKS_ACCESS_TRANSITION", id |-> 0]>> ELSE <<>>)
  \o Stages("K8S_ADMISSION", AsIngested(c.admission))
  \o Stages("K8S_RUNTIME", ByTime(c.runtime))

Least(a, b) == IF a <= b THEN a ELSE b

CompositeRisk(c) ==
  LET top == Max({e.score : e \in EventsOf(c)})
  IN IF CrossDomain(c) /\ Len(BuildChain(c)) >= 3 THEN Least(1000, top + 50) ELSE top

--------------------------------------------------------------------------------
(* CrossDomainRiskEvaluator *)

Escalates(e)  == "escalation" \in e.signs \/ e.action = "iam:PassRole"
IsWildcard(e) == "wildcard" \in e.signs \/ e.action = "*"

Earliest(S) == CHOOSE e \in S : \A x \in S : e.id <= x.id
Latest(S)   == CHOOSE e \in S : \A x \in S : x.id <= e.id

Factor(name, points) == [name |-> name, points |-> points]

\* to the nearest tenth of a point
Share(e, percent, cap) == Least(cap, (percent * e.score + 50) \div 100)

Hits(iam) == {e \in iam : Escalates(e) \/ IsWildcard(e)}

\* mutant: the last matching finding decides
IamFactorLatest(iam) ==
  LET e == Latest(IF Hits(iam) = {} THEN iam ELSE Hits(iam))
  IN IF Hits(iam) = {} THEN Factor("iam_excessive_permission", Share(e, 30, 250))
     ELSE IF Escalates(e) THEN Factor("iam_privilege_escalation", Share(e, 40, 350))
     ELSE Factor("iam_wildcard_permission", Share(e, 35, 300))

\* the first escalating or wildcard finding decides, the first finding when there is none
Deciding(iam) == Earliest(IF Hits(iam) = {} THEN iam ELSE Hits(iam))

IamFactor(iam) ==
  LET e == Deciding(iam)
  IN IF Hits(iam) = {} THEN Factor("iam_excessive_permission", Share(e, 30, 250))
     ELSE IF Escalates(e) THEN Factor("iam_privilege_escalation", Share(e, 40, 350))
     ELSE Factor("iam_wildcard_permission", Share(e, 35, 300))

\* each event counts for the first of the three that it matches
CountsAs(e) ==
  IF "token" \in e.signs THEN "credential_access"
  ELSE IF "shell" \in e.signs THEN "runtime_shell_execution"
  ELSE IF "egress" \in e.signs THEN "external_network_egress" ELSE "none"

Points == [credential_access |-> 400, runtime_shell_execution |-> 250, external_network_egress |-> 150,
           admission_policy_violation |-> 100, cross_domain_kill_chain_correlation |-> 100]

\* the factors of the runtime side, and of the cluster as a whole
RuntimeFactors(c) ==
  {n \in {"credential_access", "runtime_shell_execution", "external_network_egress"} :
     \E e \in c.runtime : CountsAs(e) = n}
  \cup {n \in {"admission_policy_violation"} : c.admission # {}}

\* evaluate_cluster: both domains, and two factors or more, amplify
RiskFactors(c) ==
  RuntimeFactors(c) \cup (IF c.iam = {} THEN {} ELSE {IamFactor(c.iam).name})
  \cup {n \in {"cross_domain_kill_chain_correlation"} : CrossDomain(c) /\ RuntimeFactors(c) # {}}

Weight(c, n) == IF n \in RiskFactors(c) THEN Points[n] ELSE 0

OverallRisk(c) ==
  Least(1000, (IF c.iam = {} THEN 0 ELSE IamFactor(c.iam).points)
              + Weight(c, "credential_access") + Weight(c, "runtime_shell_execution")
              + Weight(c, "external_network_egress") + Weight(c, "admission_policy_violation")
              + Weight(c, "cross_domain_kill_chain_correlation"))

--------------------------------------------------------------------------------
(* What the detector's scores and the score map keep to (escalation.py:43-66,          *)
(* tg_adapter.py:33); an adapter takes any score and severity it is given.               *)

\* a score that makes an incident critical is of critical severity
CriticalScores ==
  /\ \A f \in Findings : f.score >= 850 => f.severity = "critical"
  /\ \A d \in Detections : d.score >= 850 => MappedSeverity(d.severity) = "critical"

\* an escalation, or a wildcard, weighs more than any other finding can
HitsAreSevere ==
  \A f \in Findings :
    LET e == FromFinding(f, 0)
    IN (Escalates(e) => f.score >= 700) /\ (IsWildcard(e) => f.score >= 850)

--------------------------------------------------------------------------------
(* The incident *)

\* ContributingFinding.from_event
Contribution(e) == [id |-> e.id, source |-> e.source, kind |-> e.kind, severity |-> e.severity]

SeverityOf(risk) == IF risk >= 850 THEN "critical" ELSE IF risk < 500 THEN "medium" ELSE "high"

\* only the first event of the runtime side names the Pod to isolate
Proposals(c) ==
  (IF c.iam = {} THEN {}
   ELSE IF \E e \in c.iam : e.action = "iam:PassRole" THEN {<<"constrain PassRole">>}
   ELSE {<<"permission boundary", c.binding.identity>>})
  \cup (IF c.runtime = {} THEN {}
        ELSE {<<"isolate", IF c.binding = NoBinding THEN "threatguard" ELSE c.binding.ns,
                IF Earliest(c.runtime).pod = "none" THEN "target-pod" ELSE Earliest(c.runtime).pod>>})

\* mutant: the incident forgets what admission denied
CreateFromClusterWithoutAdmission(c) ==
  [risk |-> CompositeRisk(c), severity |-> SeverityOf(CompositeRisk(c)), cluster |-> c,
   findings |-> {Contribution(e) : e \in c.iam \cup c.runtime},
   proposals |-> Proposals(c)]

\* create_from_cluster
CreateFromCluster(c) ==
  [risk |-> CompositeRisk(c), severity |-> SeverityOf(CompositeRisk(c)), cluster |-> c,
   findings |-> {Contribution(e) : e \in EventsOf(c)},
   proposals |-> Proposals(c)]

--------------------------------------------------------------------------------
VARIABLES
  bindings,   \* the registry
  events,     \* the engine's events, in the order they came in
  seen,       \* _seen_event_ids
  clusters,   \* what the last correlate() returned
  known,      \* how many events there were at that time
  incidents   \* in the manager

vars == <<bindings, events, seen, clusters, known, incidents>>

Init ==
  /\ bindings = {} /\ events = <<>> /\ seen = {}
  /\ clusters = {} /\ known = 0 /\ incidents = <<>>

Register(b) ==
  /\ bindings' = bindings \cup {b}
  /\ UNCHANGED <<events, seen, clusters, known, incidents>>

\* ingest_event
Ingest(e) ==
  /\ events' = IF e.id \in seen THEN events ELSE Append(events, e)
  /\ seen' = seen \cup {e.id}
  /\ UNCHANGED <<bindings, clusters, known, incidents>>

\* whatever an adapter converts is a new event
FreshId == Len(events) + 1

IngestFinding(f) == Len(events) < MaxEvents /\ Ingest(FromFinding(f, FreshId))
IngestDetection(d, now) == Len(events) < MaxEvents /\ Ingest(FromDetection(d, FreshId, now))

\* the same converted event again
IngestAgain(k) == k \in DOMAIN events /\ Ingest(events[k])

Correlate ==
  /\ clusters' = CorrelateAll(bindings, Range(events))
  /\ known' = Len(events)
  /\ UNCHANGED <<bindings, events, seen, incidents>>

Raise(c) ==
  /\ Len(incidents) < MaxIncidents
  /\ incidents' = Append(incidents, CreateFromCluster(c))
  /\ UNCHANGED <<bindings, events, seen, clusters, known>>

Next ==
  \/ \E b \in Bindings : Register(b)
  \/ \E f \in Findings : IngestFinding(f)
  \/ \E d \in Detections, now \in Times : IngestDetection(d, now)
  \/ \E k \in DOMAIN events : IngestAgain(k)
  \/ Correlate
  \/ \E c \in clusters : Raise(c)

Spec == Init /\ [][Next]_vars
--------------------------------------------------------------------------------
(* Properties *)

TypeOK ==
  /\ bindings \subseteq Bindings
  /\ Len(events) <= MaxEvents /\ known \in 0 .. Len(events)
  /\ seen = {e.id : e \in Range(events)}
  /\ Len(incidents) <= MaxIncidents
  /\ \A c \in clusters : EventsOf(c) # {}

\* Whatever ran in a container is in a cluster, be its workload bound, unbound, or bound
\* only by now; and a cluster invents nothing.
RuntimeNeverLost ==
  LET clustered == UNION {EventsOf(c) : c \in clusters}
  IN /\ clustered \subseteq Range(events)
     /\ \A k \in 1 .. known : IsRuntime(events[k]) => events[k] \in clustered

Rank == [CLOUD_IAM |-> 1, EKS_ACCESS_TRANSITION |-> 2, K8S_ADMISSION |-> 3, K8S_RUNTIME |-> 4]

\* one stage comes before another: it is closer to the identity, or both ran and it was
\* converted first
Precedes(x, y) ==
  \/ Rank[x.domain] < Rank[y.domain]
  \/ /\ x.domain = y.domain
     /\ y.domain = "K8S_RUNTIME" => events[x.id].at <= events[y.id].at

\* "builds causal attack chains" (correlation_engine.py:68): the chain of a cluster names
\* each of its events once, from the identity to the container, and what ran in the order
\* of its timestamps, in whatever order the events were ingested.
ChainIsCausal ==
  \A c \in clusters :
    LET chain == BuildChain(c)
    IN /\ {chain[k].id : k \in DOMAIN chain} \ {0} = {e.id : e \in EventsOf(c)}
       /\ \A j, k \in DOMAIN chain : j < k =>
            chain[j].id # chain[k].id /\ Precedes(chain[j], chain[k])

\* "Stage 4: Runtime activity (sorted chronologically)" (correlation_engine.py:182): in the
\* order in which it happened.
RuntimeChronological ==
  \A c \in clusters :
    LET chain == BuildChain(c)
        Happened(s) == (CHOOSE d \in Detections : d.origin = events[s.id].origin).at
    IN \A j, k \in DOMAIN chain :
         j < k /\ chain[j].domain = "K8S_RUNTIME" => Happened(chain[j]) <= Happened(chain[k])

\* A finding is an event as its source reported it.
Tells(f, e) == f.id = e.id /\ f.source = e.source /\ f.kind = e.kind /\ f.severity = e.severity

\* "preserved with its own severity so it survives correlation" (models/incident.py:43):
\* every event of an incident's cluster is among its findings, with the severity its own
\* source gave, and they name no other; an incident of critical risk has a source that is
\* critical or the two domains together.
FindingsSurvive ==
  \A i \in Range(incidents) :
    /\ \A e \in EventsOf(i.cluster) : \E f \in i.findings : Tells(f, e)
    /\ \A f \in i.findings : \E k \in DOMAIN events :
         events[k] \in EventsOf(i.cluster) /\ Tells(f, events[k])
    /\ i.severity = "critical" =>
         CrossDomain(i.cluster) \/ \E f \in i.findings : f.severity = "critical"

\* More evidence never lowers a risk: whatever arrives between two correlations, the risk
\* of a binding that had a cluster does not fall.
EvidenceNeverLowersRisk ==
  [][\A c \in clusters : c.binding # NoBinding =>
       \E d \in clusters' : d.binding = c.binding /\ OverallRisk(d) >= OverallRisk(c)]_clusters

\* "Ingest event with automatic deduplication" (correlation_engine.py:52): no cluster
\* holds a finding or event twice.
NothingTwice ==
  \A c \in clusters : \A e, f \in EventsOf(c) : e.origin = f.origin => e = f

\* "resolving relationships through the IdentityMappingRegistry" (correlation_engine.py:43),
\* where a binding is of a workload in a namespace: nothing from another namespace.
NamespaceRespected ==
  \A c \in clusters : c.binding # NoBinding =>
    \A e \in c.runtime \cup c.admission : e.ns = c.binding.ns

\* "Isolate compromised pod" (docs/development/cloudgraphguard-integration.md:140): the
\* Pod to isolate, with its namespace, is one of the incident.
IsolationTargetsPod ==
  \A i \in Range(incidents) : i.cluster.binding = NoBinding =>
    \A p \in i.proposals : p[1] = "isolate" =>
      \E e \in i.cluster.runtime : e.ns = p[2] /\ e.pod = p[3]

\* "Privilege Escalation vector (iam:PassRole, iam:AttachRolePolicy): up to +35.0 pts"
\* (docs/development/cloudgraphguard-integration.md:114): either weighs as an escalation.
EscalationWeighed ==
  \A c \in clusters :
    (c.iam # {} /\ \A e \in c.iam : e.action \in {"iam:PassRole", "iam:AttachRolePolicy"})
      => "iam_privilege_escalation" \in RiskFactors(c)

\* "Active progression from initial cloud identity compromise to runtime container
\* exploitation" (docs/development/cloudgraphguard-integration.md:123): there is one.
AmplifierNeedsRuntime ==
  \A c \in clusters :
    "cross_domain_kill_chain_correlation" \in RiskFactors(c) => c.runtime # {}
================================================================================
