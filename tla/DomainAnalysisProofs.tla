--------------------------- MODULE DomainAnalysisProofs ---------------------------
(***************************************************************************)
(* For any findings, events and bindings, any policies and any incidents,  *)
(* in any order: nothing that ran in a container is lost and no severity   *)
(* with it, the chain of a cluster is causal and complete, more evidence   *)
(* never lowers a risk, the detector is exact on literal policies, the     *)
(* search finds the simple paths of a graph and no other, and the store    *)
(* accumulates with counts that agree.                                     *)
(***************************************************************************)
EXTENDS DomainAnalysis, FiniteSetTheorems, TLAPS

\* A set of natural numbers that is not empty has a least one.
LEMMA LeastNatural ==
  ASSUME NEW S \in SUBSET Nat, S # {}
  PROVE  \E m \in S : \A k \in S : m <= k
<1>1. PICK m \in S : \A k \in S : ~(<<k, m>> \in OpToRel(<, Nat))
  BY NatLessThanWellFounded, WFMin
<1>2. \A k \in S : ~(k < m)
  BY <1>1 DEF OpToRel
<1> QED
  BY <1>2

\* A set of numbers with an upper bound has a greatest one.
LEMMA GreatestNatural ==
  ASSUME NEW S \in SUBSET Nat, S # {}, NEW b \in Nat, \A k \in S : k <= b
  PROVE  \E m \in S : \A k \in S : m >= k
<1>1. PICK T : T = {b - k : k \in S}
  OBVIOUS
<1>2. \A k \in S : k \in Nat /\ k <= b /\ b - k \in Nat
  OBVIOUS
<1>3. T \in SUBSET Nat /\ T # {}
  BY <1>1, <1>2
<1>4. PICK t \in T : \A k \in T : t <= k
  BY <1>3, LeastNatural
<1>5. PICK m \in S : t = b - m
  BY <1>1, <1>4
<1>6. \A k \in S : b - m <= b - k
  BY <1>1, <1>4, <1>5
<1> QED
  BY <1>6

LEMMA ListElements ==
  ASSUME NEW T, NEW s \in Seq(T)
  PROVE  \A k \in 1 .. Len(s) : s[k] \in T
OBVIOUS

IsList(s) == \E T : s \in Seq(T)

LEMMA ListMore ==
  ASSUME NEW s, IsList(s), NEW e
  PROVE  /\ IsList(Append(s, e)) /\ Len(Append(s, e)) = Len(s) + 1 /\ Len(s) \in Nat
         /\ Append(s, e)[Len(s) + 1] = e
         /\ \A k \in 1 .. Len(s) : Append(s, e)[k] = s[k]
<1>1. PICK T : s \in Seq(T)
  BY DEF IsList
<1>2. PICK U : U = T \cup {e}
  OBVIOUS
<1>3. s \in Seq(U) /\ e \in U
  BY <1>1, <1>2
<1> QED
  BY <1>3 DEF IsList

LEMMA ListDomain ==
  ASSUME NEW s, IsList(s)
  PROVE  DOMAIN s = 1 .. Len(s) /\ Len(s) \in Nat /\ Range(s) = {s[k] : k \in 1 .. Len(s)}
<1>1. PICK T : s \in Seq(T)
  BY DEF IsList
<1>2. DOMAIN s = 1 .. Len(s) /\ Len(s) \in Nat
  BY <1>1
<1> QED
  BY <1>2 DEF Range
----------------------------------------------------------------------------------
(* Events and clusters *)

\* the events that came first
Upto(n) == {events[k] : k \in 1 .. n}

\* An event is what an adapter made of a finding or of a detection.
FromAdapter(e) ==
  \/ \E f \in Findings : e = FromFinding(f, e.id)
  \/ \E d \in Detections, t \in Times : e = FromDetection(d, e.id, t)

\* The ids are the places, and every place holds what an adapter made.
EventsInv ==
  /\ IsList(events) /\ Len(events) <= MaxEvents
  /\ \A k \in 1 .. Len(events) : events[k].id = k /\ FromAdapter(events[k])
  /\ seen = 1 .. Len(events)

\* The clusters are those of the bindings and events there were at the last correlation.
ClustersInv ==
  /\ bindings \subseteq Bindings /\ known \in 0 .. Len(events)
  /\ \E registered \in SUBSET bindings : clusters = CorrelateAll(registered, Upto(known))

\* An incident is what was made of a cluster of such events.
FromCluster(i) ==
  /\ i = CreateFromCluster(i.cluster)
  /\ EventsOf(i.cluster) # {} /\ EventsOf(i.cluster) \subseteq Upto(Len(events))

IncidentsInv ==
  /\ IsList(incidents) /\ Len(incidents) <= MaxIncidents
  /\ \A k \in 1 .. Len(incidents) : FromCluster(incidents[k])

CorrelationInv == EventsInv /\ ClustersInv /\ IncidentsInv

LEMMA AdapterFacts ==
  ASSUME NEW n \in Nat, NEW x
  PROVE  /\ x \in Findings => LET e == FromFinding(x, n) IN
              e.id = n /\ e.at = 0 /\ FromAdapter(e) /\ IsIam(e) /\ e.score = x.score /\ e.severity = x.severity
              /\ ~IsRuntime(e) /\ ~IsAdmission(e) /\ e.action = x.action /\ e.signs = {x.says}
         /\ x \in Detections => \A t \in Times : LET e == FromDetection(x, n, t) IN
              e.id = n /\ e.at = t /\ FromAdapter(e) /\ ~IsIam(e) /\ e.severity = MappedSeverity(x.severity)
              /\ e.score \in Nat /\ e.score <= 1000
              /\ (e.score = x.score \/ e.score = SeverityScore[MappedSeverity(x.severity)])
<1>1. ASSUME x \in Findings
      PROVE  LET e == FromFinding(x, n) IN
              e.id = n /\ e.at = 0 /\ FromAdapter(e) /\ IsIam(e) /\ e.score = x.score /\ e.severity = x.severity
              /\ ~IsRuntime(e) /\ ~IsAdmission(e) /\ e.action = x.action /\ e.signs = {x.says}
  <2>1. PICK e : e = FromFinding(x, n)
    OBVIOUS
  <2>2. /\ e.id = n /\ e.at = 0 /\ e.score = x.score /\ e.severity = x.severity /\ e.source = "cloudgraphguard"
        /\ e.action = x.action /\ e.signs = {x.says}
    BY <2>1 DEF FromFinding
  <2>3. FromAdapter(e)
    BY <1>1, <2>1, <2>2 DEF FromAdapter
  <2> QED
    BY <2>1, <2>2, <2>3 DEF IsIam, IsRuntime, IsAdmission
<1>2. ASSUME x \in Detections, NEW t \in Times
      PROVE  LET e == FromDetection(x, n, t) IN
              e.id = n /\ e.at = t /\ FromAdapter(e) /\ ~IsIam(e) /\ e.severity = MappedSeverity(x.severity)
              /\ e.score \in Nat /\ e.score <= 1000
              /\ (e.score = x.score \/ e.score = SeverityScore[MappedSeverity(x.severity)])
  <2>1. PICK e : e = FromDetection(x, n, t)
    OBVIOUS
  <2>2. /\ e.id = n /\ e.at = t /\ e.source = "threatguard" /\ e.severity = MappedSeverity(x.severity)
        /\ e.score = IF x.score = 0 THEN SeverityScore[MappedSeverity(x.severity)] ELSE x.score
    BY <2>1 DEF FromDetection
  <2>3. FromAdapter(e)
    BY <1>2, <2>1, <2>2 DEF FromAdapter
  <2>4. /\ SeverityScore[MappedSeverity(x.severity)] \in Nat /\ x.score \in Nat
        /\ SeverityScore[MappedSeverity(x.severity)] <= 1000 /\ x.score <= 1000
    BY <1>2, CrossDomainAssumption DEF SeverityScore, MappedSeverity
  <2> QED
    BY <2>1, <2>2, <2>3, <2>4 DEF IsIam
<1> QED
  BY <1>1, <1>2

\* What a cluster holds are events, each under its key.
LEMMA ClusterFacts ==
  ASSUME NEW b, NEW iam, NEW all, NEW key
  PROVE  LET c == Cluster(b, iam, all, key) IN
           /\ c.binding = b /\ c.iam = iam
           /\ c.runtime = {e \in all : IsRuntime(e) /\ e.key = key}
           /\ c.admission = {e \in all : IsAdmission(e) /\ e.key = key}
BY DEF Cluster, KeyedBy

LEMMA ClusterOfFacts ==
  ASSUME NEW b, NEW all
  PROVE  LET c == ClusterOf(b, all) IN
           /\ c.binding = b /\ c.iam = {e \in all : IsIam(e) /\ e.key = b.identity}
           /\ c.runtime = {e \in all : IsRuntime(e) /\ e.key = b.workload}
           /\ c.admission = {e \in all : IsAdmission(e) /\ e.key = b.workload}
BY ClusterFacts DEF ClusterOf, KeyedBy

\* Clusters are of the events there are, none is empty, and what ran is in one.
LEMMA CorrelateFacts ==
  ASSUME NEW registered, NEW all
  PROVE  /\ \A c \in CorrelateAll(registered, all) : EventsOf(c) # {} /\ EventsOf(c) \subseteq all
         /\ \A e \in all : IsRuntime(e) => \E c \in CorrelateAll(registered, all) : e \in EventsOf(c)
         /\ \A c \in CorrelateAll(registered, all) : c.binding # NoBinding =>
              \E b \in registered : b = c.binding /\ c = ClusterOf(b, all)
<1>1. ASSUME NEW c \in BoundClusters(registered, all)
      PROVE  /\ EventsOf(c) # {} /\ EventsOf(c) \subseteq all
             /\ \E b \in registered : b = c.binding /\ c = ClusterOf(b, all)
  <2>1. PICK b \in registered : c = ClusterOf(b, all) /\ EventsOf(c) # {}
    BY DEF BoundClusters
  <2> QED
    BY <2>1, ClusterOfFacts DEF EventsOf
<1>2. ASSUME NEW c \in UnboundClusters(registered, all)
      PROVE  EventsOf(c) # {} /\ EventsOf(c) \subseteq all /\ c.binding = NoBinding
  <2>1. PICK e \in all : IsRuntime(e) /\ c = Cluster(NoBinding, {}, all, e.key)
    BY DEF UnboundClusters
  <2>2. /\ c.binding = NoBinding /\ c.iam = {}
        /\ c.runtime = {x \in all : IsRuntime(x) /\ x.key = e.key}
        /\ c.admission = {x \in all : IsAdmission(x) /\ x.key = e.key}
    BY <2>1, ClusterFacts
  <2> QED
    BY <2>1, <2>2 DEF EventsOf
<1>3. ASSUME NEW e \in all, IsRuntime(e)
      PROVE  \E c \in CorrelateAll(registered, all) : e \in EventsOf(c)
  <2>1. CASE e.key \in {c.binding.workload : c \in BoundClusters(registered, all)}
    <3>1. PICK c \in BoundClusters(registered, all) : e.key = c.binding.workload
      BY <2>1
    <3>2. PICK b \in registered : b = c.binding /\ c = ClusterOf(b, all)
      BY <1>1
    <3>3. e \in c.runtime
      BY <1>3, <3>1, <3>2, ClusterOfFacts
    <3> QED
      BY <3>3 DEF EventsOf, CorrelateAll
  <2>2. CASE e.key \notin {c.binding.workload : c \in BoundClusters(registered, all)}
    <3>1. PICK c : c = Cluster(NoBinding, {}, all, e.key)
      OBVIOUS
    <3>2. c \in UnboundClusters(registered, all)
      BY <1>3, <2>2, <3>1 DEF UnboundClusters
    <3>3. e \in c.runtime
      BY <1>3, <3>1, ClusterFacts
    <3> QED
      BY <3>2, <3>3 DEF EventsOf, CorrelateAll
  <2> QED
    BY <2>1, <2>2
<1> QED
  BY <1>1, <1>2, <1>3 DEF CorrelateAll

LEMMA CorrelationStarts == Init => CorrelationInv
<1> SUFFICES ASSUME Init PROVE CorrelationInv
  OBVIOUS
<1>1. /\ bindings = {} /\ events = <<>> /\ seen = {}
      /\ clusters = {} /\ known = 0 /\ incidents = <<>>
  BY DEF Init
<1>2. IsList(<<>>) /\ Len(<<>>) = 0 /\ 1 .. 0 = {}
  <2>1. <<>> \in Seq({})
    OBVIOUS
  <2> QED
    BY <2>1 DEF IsList
<1>3. Upto(0) = {}
  BY <1>2 DEF Upto
<1>4. CorrelateAll({}, {}) = {}
  BY DEF CorrelateAll, BoundClusters, UnboundClusters
<1>5. EventsInv
  BY <1>1, <1>2, CrossDomainAssumption DEF EventsInv
<1>6. ClustersInv
  <2>1. {} \in SUBSET bindings /\ clusters = CorrelateAll({}, Upto(known))
    BY <1>1, <1>3, <1>4
  <2> QED
    BY <1>1, <1>2, <2>1 DEF ClustersInv
<1>7. IncidentsInv
  BY <1>1, <1>2, CrossDomainAssumption DEF IncidentsInv
<1> QED
  BY <1>5, <1>6, <1>7 DEF CorrelationInv

\* What came first stays what came first.
LEMMA UptoStays ==
  ASSUME IsList(events), NEW n \in 0 .. Len(events), NEW e,
         events' = events \/ events' = Append(events, e)
  PROVE  Upto(n)' = Upto(n)
<1>1. \A k \in 1 .. n : events'[k] = events[k]
  BY ListMore
<1> QED
  BY <1>1 DEF Upto

\* What does not touch events or incidents keeps what is said of them.
LEMMA Untouched ==
  ASSUME EventsInv, IncidentsInv, UNCHANGED events
  PROVE  /\ \A n : Upto(n)' = Upto(n)
         /\ UNCHANGED seen => EventsInv'
         /\ UNCHANGED incidents => IncidentsInv'
<1>1. \A n : Upto(n)' = Upto(n)
  BY DEF Upto
<1>2. UNCHANGED seen => EventsInv'
  BY DEF EventsInv, FromAdapter
<1>3. \A i : FromCluster(i)' <=> FromCluster(i)
  BY <1>1 DEF FromCluster
<1>4. UNCHANGED incidents => IncidentsInv'
  BY <1>3 DEF IncidentsInv
<1> QED
  BY <1>1, <1>2, <1>4

\* An event that is known already changes nothing, and a new one is the last.
LEMMA IngestStep ==
  ASSUME CorrelationInv, NEW e, Ingest(e), Len(events') <= MaxEvents,
         e.id \notin seen => e.id = Len(events) + 1 /\ FromAdapter(e)
  PROVE  CorrelationInv'
<1>1. /\ bindings' = bindings /\ clusters' = clusters /\ known' = known /\ incidents' = incidents
      /\ events' = events \/ events' = Append(events, e)
  BY DEF Ingest
<1>2. EventsInv /\ ClustersInv /\ IncidentsInv /\ Len(events) \in Nat
  BY ListMore DEF CorrelationInv, EventsInv
<1>3. EventsInv' /\ Len(events') \in Nat /\ Len(events) <= Len(events')
  <2>1. CASE e.id \in seen
    <3>1. events' = events /\ seen' = seen
      BY <2>1 DEF Ingest
    <3> QED
      BY <1>2, <3>1 DEF EventsInv, FromAdapter
  <2>2. CASE e.id \notin seen
    <3>1. events' = Append(events, e) /\ seen' = seen \cup {e.id}
      BY <2>2 DEF Ingest
    <3>2. /\ IsList(events') /\ Len(events') = Len(events) + 1 /\ events'[Len(events) + 1] = e
          /\ \A k \in 1 .. Len(events) : events'[k] = events[k]
      BY <1>2, <3>1, ListMore DEF EventsInv
    <3>3. \A k \in 1 .. Len(events') : events'[k].id = k /\ FromAdapter(events'[k])
      BY <1>2, <2>2, <3>2 DEF EventsInv
    <3>4. seen' = 1 .. Len(events')
      BY <1>2, <2>2, <3>1, <3>2 DEF EventsInv
    <3> QED
      BY <1>2, <3>2, <3>3, <3>4 DEF EventsInv, FromAdapter
  <2> QED
    BY <2>1, <2>2
<1>4. \A n \in 0 .. Len(events) : Upto(n)' = Upto(n)
  BY <1>1, <1>2, UptoStays DEF EventsInv
<1>5. ClustersInv'
  <2>1. known' \in 0 .. Len(events') /\ Upto(known)' = Upto(known)
    BY <1>1, <1>2, <1>3, <1>4 DEF ClustersInv, Upto
  <2> QED
    BY <1>1, <1>2, <2>1 DEF ClustersInv
<1>6. IncidentsInv'
  <2>1. Upto(Len(events)) \subseteq Upto(Len(events))'
    <3>1. \A k \in 1 .. Len(events) : events'[k] = events[k] /\ k \in 1 .. Len(events')
      BY <1>1, <1>2, <1>3, ListMore DEF EventsInv
    <3> QED
      BY <3>1 DEF Upto
  <2>2. ASSUME NEW k \in 1 .. Len(incidents) PROVE FromCluster(incidents[k])'
    BY <1>1, <1>2, <2>1, <2>2 DEF IncidentsInv, FromCluster
  <2> QED
    BY <1>1, <1>2, <2>2 DEF IncidentsInv
<1> QED
  BY <1>3, <1>5, <1>6 DEF CorrelationInv

LEMMA RaiseStep ==
  ASSUME CorrelationInv, NEW c \in clusters, Raise(c)
  PROVE  CorrelationInv'
<1>1. EventsInv /\ ClustersInv /\ IncidentsInv
  BY DEF CorrelationInv
<1>2. /\ UNCHANGED <<bindings, events, seen, clusters, known>>
      /\ incidents' = Append(incidents, CreateFromCluster(c)) /\ Len(incidents) < MaxIncidents
  BY DEF Raise
<1>3. EventsInv' /\ ClustersInv'
  BY <1>1, <1>2 DEF EventsInv, ClustersInv, Upto
<1>4. PICK i : i = CreateFromCluster(c)
  OBVIOUS
<1>5. i.cluster = c
  BY <1>4 DEF CreateFromCluster
<1>6. EventsOf(c) # {} /\ EventsOf(c) \subseteq Upto(known)
  BY <1>1, CorrelateFacts DEF ClustersInv
<1>7. Upto(known) \subseteq Upto(Len(events))
  BY <1>1, ListDomain DEF ClustersInv, EventsInv, Upto
<1>8. FromCluster(i)
  BY <1>4, <1>5, <1>6, <1>7 DEF FromCluster
<1>9. /\ IsList(incidents') /\ Len(incidents') = Len(incidents) + 1 /\ Len(incidents) \in Nat
      /\ incidents'[Len(incidents) + 1] = i
      /\ \A k \in 1 .. Len(incidents) : incidents'[k] = incidents[k]
  BY <1>1, <1>2, <1>4, ListMore DEF IncidentsInv
<1>10. ASSUME NEW k \in 1 .. Len(incidents') PROVE FromCluster(incidents'[k])
  <2>1. k \in 1 .. Len(incidents) \/ k = Len(incidents) + 1
    BY <1>9
  <2> QED
    BY <1>1, <1>8, <1>9, <2>1 DEF IncidentsInv
<1>11. ASSUME NEW k \in 1 .. Len(incidents') PROVE FromCluster(incidents[k])'
  <2>1. FromCluster(incidents'[k])
    BY <1>10
  <2> QED
    BY <1>2, <2>1 DEF FromCluster, Upto
<1> QED
  BY <1>2, <1>3, <1>9, <1>11, CrossDomainAssumption DEF IncidentsInv, CorrelationInv

LEMMA CorrelationStep ==
  ASSUME CorrelationInv, [Next]_vars
  PROVE  CorrelationInv'
<1>1. CASE UNCHANGED vars
  <2>1. UNCHANGED <<bindings, events, seen, clusters, known, incidents>>
    BY <1>1 DEF vars
  <2> QED
    BY <2>1, Untouched DEF CorrelationInv, ClustersInv
<1>2. ASSUME NEW b \in Bindings, Register(b) PROVE CorrelationInv'
  <2>1. bindings' = bindings \cup {b} /\ UNCHANGED <<events, seen, clusters, known, incidents>>
    BY <1>2 DEF Register
  <2>2. EventsInv' /\ IncidentsInv' /\ Upto(known)' = Upto(known)
    BY <2>1, Untouched DEF CorrelationInv
  <2>3. bindings' \subseteq Bindings /\ bindings \subseteq bindings'
    BY <2>1 DEF CorrelationInv, ClustersInv
  <2> QED
    BY <2>1, <2>2, <2>3 DEF CorrelationInv, ClustersInv
<1>3. CASE (\E f \in Findings : IngestFinding(f)) \/ (\E d \in Detections, t \in Times : IngestDetection(d, t))
  <2>1. Len(events) \in Nat /\ FreshId = Len(events) + 1 /\ Len(events) < MaxEvents
    BY <1>3, ListMore DEF FreshId, IngestFinding, IngestDetection, CorrelationInv, EventsInv
  <2>2. PICK e : Ingest(e) /\ e.id = Len(events) + 1 /\ FromAdapter(e)
    BY <1>3, <2>1, AdapterFacts DEF IngestFinding, IngestDetection
  <2>3. Len(events') <= MaxEvents
    BY <2>1, <2>2, ListMore, CrossDomainAssumption DEF Ingest, CorrelationInv, EventsInv
  <2> QED
    BY <2>2, <2>3, IngestStep
<1>4. ASSUME NEW k \in DOMAIN events, IngestAgain(k) PROVE CorrelationInv'
  <2>1. Ingest(events[k]) /\ k \in 1 .. Len(events)
    BY <1>4, ListDomain DEF IngestAgain, CorrelationInv, EventsInv
  <2>2. events[k].id \in seen /\ events' = events
    BY <2>1 DEF CorrelationInv, EventsInv, Ingest
  <2>3. Len(events') <= MaxEvents
    BY <2>2 DEF CorrelationInv, EventsInv
  <2> QED
    BY <2>1, <2>2, <2>3, IngestStep
<1>5. CASE Correlate
  <2>1. /\ clusters' = CorrelateAll(bindings, Range(events)) /\ known' = Len(events)
        /\ UNCHANGED <<bindings, events, seen, incidents>>
    BY <1>5 DEF Correlate
  <2>2. Range(events) = Upto(Len(events)) /\ Len(events) \in 0 .. Len(events)
    BY ListDomain DEF CorrelationInv, EventsInv, Upto
  <2>3. EventsInv' /\ IncidentsInv' /\ Upto(known)' = Upto(Len(events))
    BY <2>1, Untouched DEF CorrelationInv
  <2> QED
    BY <2>1, <2>2, <2>3 DEF CorrelationInv, ClustersInv
<1> QED
  BY <1>1, <1>2, <1>3, <1>4, <1>5, RaiseStep DEF Next

\* What an adapter makes: a number as id and a score, and severity with it.
LEMMA IngestedFacts ==
  ASSUME EventsInv, NEW k \in 1 .. Len(events)
  PROVE  /\ events[k].id = k /\ events[k].at \in Nat
         /\ events[k].score \in Nat /\ events[k].score <= 1000
         /\ CriticalScores => (events[k].score >= 850 => events[k].severity = "critical")
         /\ HitsAreSevere /\ IsIam(events[k]) =>
              /\ Escalates(events[k]) => events[k].score >= 700
              /\ IsWildcard(events[k]) => events[k].score >= 850
<1>1. events[k].id = k /\ k \in Nat /\ FromAdapter(events[k])
  BY ListDomain DEF EventsInv
<1>2. PICK e : e = events[k]
  OBVIOUS
<1>3. CASE \E f \in Findings : e = FromFinding(f, k)
  <2>1. PICK f \in Findings : e = FromFinding(f, k)
    BY <1>3
  <2>2. /\ e.score = f.score /\ e.severity = f.severity /\ e.action = f.action /\ e.signs = {f.says}
        /\ f.score \in Nat /\ f.score <= 1000 /\ e.at = 0
    <3>1. FromFinding(f, k).at = 0
      BY <1>1, AdapterFacts
    <3>2. LET a == FromFinding(f, k) IN
            a.score = f.score /\ a.severity = f.severity /\ a.action = f.action /\ a.signs = {f.says}
      BY <1>1, AdapterFacts
    <3>3. f.score \in Nat /\ f.score <= 1000
      BY CrossDomainAssumption
    <3> QED
      BY <2>1, <3>1, <3>2, <3>3
  <2>3. FromFinding(f, 0).action = f.action /\ FromFinding(f, 0).signs = {f.says}
    BY AdapterFacts
  <2>4. /\ Escalates(e) => Escalates(FromFinding(f, 0))
        /\ IsWildcard(e) => IsWildcard(FromFinding(f, 0))
    BY <2>2, <2>3 DEF Escalates, IsWildcard
  <2>5. e.score \in Nat /\ e.score <= 1000 /\ e.at \in Nat
    BY <2>2
  <2>6. /\ CriticalScores /\ e.score >= 850 => e.severity = "critical"
        /\ HitsAreSevere /\ Escalates(e) => e.score >= 700
        /\ HitsAreSevere /\ IsWildcard(e) => e.score >= 850
    BY <2>2, <2>4 DEF CriticalScores, HitsAreSevere
  <2> QED
    BY <1>1, <1>2, <2>5, <2>6
<1>4. CASE \E d \in Detections, t \in Times : e = FromDetection(d, k, t)
  <2>1. PICK d \in Detections, t \in Times : e = FromDetection(d, k, t)
    BY <1>4
  <2>2. /\ e.severity = MappedSeverity(d.severity) /\ e.score \in Nat /\ e.score <= 1000 /\ ~IsIam(e)
        /\ e.score = d.score \/ e.score = SeverityScore[MappedSeverity(d.severity)]
    <3>1. LET a == FromDetection(d, k, t) IN
            a.id = k /\ FromAdapter(a) /\ ~IsIam(a) /\ a.severity = MappedSeverity(d.severity)
            /\ a.score \in Nat /\ a.score <= 1000
            /\ (a.score = d.score \/ a.score = SeverityScore[MappedSeverity(d.severity)])
      BY <1>1, AdapterFacts
    <3> QED
      BY <2>1, <3>1
  <2>3. SeverityScore[MappedSeverity(d.severity)] >= 850 => MappedSeverity(d.severity) = "critical"
    BY DEF SeverityScore, MappedSeverity
  <2>4. CriticalScores /\ e.score >= 850 => e.severity = "critical"
    BY <2>1, <2>2, <2>3 DEF CriticalScores
  <2>5. e.score \in Nat /\ e.score <= 1000 /\ e.at \in Nat
    <3>1. FromDetection(d, k, t).at = t /\ t \in Nat
      BY <1>1, AdapterFacts, CrossDomainAssumption
    <3> QED
      BY <2>1, <2>2, <3>1
  <2> QED
    BY <1>1, <1>2, <2>2, <2>4, <2>5
<1> QED
  BY <1>1, <1>2, <1>3, <1>4 DEF FromAdapter

\* The top score is one of the scores.
LEMMA TopIsOne ==
  ASSUME NEW S \in SUBSET Nat, S # {}, \A k \in S : k <= 1000
  PROVE  Max(S) \in S
<1>1. \E m \in S : \A k \in S : m >= k
  <2>1. PICK b : b = 1000
    OBVIOUS
  <2>2. b \in Nat /\ \A k \in S : k <= b
    BY <2>1
  <2> QED
    BY <2>2, GreatestNatural
<1> QED
  BY <1>1 DEF Max

LEMMA NothingLost == CorrelationInv => RuntimeNeverLost
<1> SUFFICES ASSUME CorrelationInv PROVE RuntimeNeverLost
  OBVIOUS
<1>1. PICK registered : clusters = CorrelateAll(registered, Upto(known))
  BY DEF CorrelationInv, ClustersInv
<1>2. known \in 0 .. Len(events) /\ Len(events) \in Nat /\ Range(events) = Upto(Len(events))
  BY ListDomain DEF CorrelationInv, ClustersInv, EventsInv, Upto
<1>3. Upto(known) \subseteq Range(events)
  BY <1>2 DEF Upto
<1>4. ASSUME NEW k \in 1 .. known, IsRuntime(events[k])
      PROVE  \E c \in clusters : events[k] \in EventsOf(c)
  <2>1. events[k] \in Upto(known)
    BY DEF Upto
  <2> QED
    BY <1>1, <1>4, <2>1, CorrelateFacts
<1>5. \A c \in clusters : EventsOf(c) \subseteq Upto(known)
  BY <1>1, CorrelateFacts
<1> QED
  BY <1>3, <1>4, <1>5 DEF RuntimeNeverLost

\* An incident's findings are the events of its cluster, as their sources reported them.
LEMMA SeveritiesSurvive ==
  ASSUME CorrelationInv, CriticalScores
  PROVE  FindingsSurvive
<1>1. EventsInv /\ IncidentsInv /\ DOMAIN events = 1 .. Len(events)
  BY ListDomain DEF CorrelationInv, EventsInv
<1>2. ASSUME NEW i \in Range(incidents)
      PROVE  /\ \A e \in EventsOf(i.cluster) : \E f \in i.findings : Tells(f, e)
             /\ \A f \in i.findings : \E k \in DOMAIN events :
                  events[k] \in EventsOf(i.cluster) /\ Tells(f, events[k])
             /\ i.severity = "critical" =>
                  CrossDomain(i.cluster) \/ \E f \in i.findings : f.severity = "critical"
  <2>1. FromCluster(i)
    BY <1>1, <1>2, ListDomain DEF IncidentsInv
  <2>2. PICK c : c = i.cluster
    OBVIOUS
  <2>3. /\ EventsOf(c) # {} /\ EventsOf(c) \subseteq Upto(Len(events))
        /\ i.findings = {Contribution(e) : e \in EventsOf(c)}
        /\ i.severity = SeverityOf(CompositeRisk(c))
    BY <2>1, <2>2 DEF FromCluster, CreateFromCluster
  <2>4. ASSUME NEW e \in EventsOf(c)
        PROVE  \E k \in 1 .. Len(events) : e = events[k]
    BY <2>3 DEF Upto
  <2>5. \A e : Tells(Contribution(e), e)
    BY DEF Tells, Contribution
  <2>6. ASSUME NEW e \in EventsOf(c)
        PROVE  \E f \in i.findings : Tells(f, e)
    BY <2>3, <2>5
  <2>7. ASSUME NEW f \in i.findings
        PROVE  \E k \in DOMAIN events : events[k] \in EventsOf(c) /\ Tells(f, events[k])
    <3>1. PICK e \in EventsOf(c) : f = Contribution(e)
      BY <2>3
    <3>2. Tells(f, e)
      BY <2>5, <3>1
    <3> QED
      BY <1>1, <2>4, <3>2
  <2>8. ASSUME i.severity = "critical", ~CrossDomain(c)
        PROVE  \E f \in i.findings : f.severity = "critical"
    <3>1. PICK S : S = {e.score : e \in EventsOf(c)}
      OBVIOUS
    <3>2. CompositeRisk(c) = Max(S)
      BY <2>8, <3>1 DEF CompositeRisk
    <3>3. S \in SUBSET Nat /\ S # {} /\ \A k \in S : k <= 1000
      <4>1. \A e \in EventsOf(c) : e.score \in Nat /\ e.score <= 1000
        BY <1>1, <2>4, IngestedFacts
      <4>2. \A x \in S : \E e \in EventsOf(c) : x = e.score
        BY <3>1
      <4>3. PICK e : e \in EventsOf(c)
        BY <2>3
      <4>4. e.score \in S
        BY <3>1, <4>3
      <4> QED
        BY <4>1, <4>2, <4>4
    <3>4. PICK e \in EventsOf(c) : Max(S) = e.score
      <4>1. Max(S) \in S
        BY <3>3, TopIsOne
      <4> QED
        BY <3>1, <4>1
    <3>5. e.score >= 850
      BY <2>3, <2>8, <3>2, <3>4 DEF SeverityOf
    <3>6. e.severity = "critical"
      BY <1>1, <2>4, <3>5, IngestedFacts
    <3>7. Contribution(e) \in i.findings /\ Contribution(e).severity = e.severity
      BY <2>3 DEF Contribution
    <3> QED
      BY <3>6, <3>7
  <2> QED
    BY <2>2, <2>6, <2>7, <2>8
<1> QED
  BY <1>2 DEF FindingsSurvive

\* The composition runs the correlation as it is.
LEMMA CorrelationRuns == DomainSpec => Spec
<1>1. DomainInit => Init
  BY DEF DomainInit
<1>2. [DomainNext]_domainVars => [Next]_vars
  BY DEF DomainNext, Correlating, Analyzing, Searching, Storing, Scraping, domainVars
<1> QED
  BY <1>1, <1>2, PTL DEF DomainSpec, Spec

LEMMA CorrelationHolds == DomainSpec => []CorrelationInv
BY CorrelationRuns, CorrelationStarts, CorrelationStep, PTL DEF Spec

\* Where a critical score comes with critical severity: nothing that ran in a container is
\* lost on the way to a cluster (correlation_engine.py:112); the findings of an incident are
\* the events of its cluster, every one with the severity its source gave
\* (models/incident.py:43); and one of critical risk has a critical source or both domains.
THEOREM EvidenceIsKept ==
  ASSUME CriticalScores
  PROVE  DomainSpec => []EvidenceSurvives
<1>1. CorrelationInv => EvidenceSurvives
  BY NothingLost, SeveritiesSurvive DEF EvidenceSurvives
<1> QED
  BY <1>1, CorrelationHolds, PTL
----------------------------------------------------------------------------------
(* The risk of a binding *)

\* The name and the points a set of findings gives.
LEMMA IamFactorFacts ==
  ASSUME NEW iam
  PROVE  /\ Hits(iam) = {} => IamFactor(iam).points = Share(Deciding(iam), 30, 250)
         /\ Hits(iam) # {} /\ Escalates(Deciding(iam)) =>
              IamFactor(iam).points = Share(Deciding(iam), 40, 350)
         /\ Hits(iam) # {} /\ ~Escalates(Deciding(iam)) =>
              IamFactor(iam).points = Share(Deciding(iam), 35, 300)
         /\ IamFactor(iam).name \in {"iam_excessive_permission", "iam_privilege_escalation",
                                     "iam_wildcard_permission"}
BY DEF IamFactor, Factor

\* What a share of a score comes to.
LEMMA ShareFacts ==
  ASSUME NEW e, e.score \in Nat
  PROVE  /\ Share(e, 30, 250) \in Nat /\ Share(e, 30, 250) <= 250
         /\ Share(e, 40, 350) \in Nat /\ (e.score >= 700 => Share(e, 40, 350) >= 250)
         /\ Share(e, 35, 300) \in Nat /\ (e.score >= 850 => Share(e, 35, 300) >= 250)
<1>1. PICK s \in Nat : s = e.score
  OBVIOUS
<1>2. (30 * s + 50) \div 100 \in Nat
  OBVIOUS
<1>3. (40 * s + 50) \div 100 \in Nat /\ (s >= 700 => (40 * s + 50) \div 100 >= 250)
  OBVIOUS
<1>4. (35 * s + 50) \div 100 \in Nat /\ (s >= 850 => (35 * s + 50) \div 100 >= 250)
  OBVIOUS
<1>5. \A cap, x \in Nat : Least(cap, x) \in Nat /\ Least(cap, x) <= cap
                          /\ (cap >= 250 /\ x >= 250 => Least(cap, x) >= 250)
  BY DEF Least
<1>6. /\ Share(e, 30, 250) = Least(250, (30 * s + 50) \div 100)
      /\ Share(e, 40, 350) = Least(350, (40 * s + 50) \div 100)
      /\ Share(e, 35, 300) = Least(300, (35 * s + 50) \div 100)
  BY <1>1 DEF Share
<1>7. Share(e, 30, 250) \in Nat /\ Share(e, 30, 250) <= 250
  BY <1>2, <1>5, <1>6
<1>8. Share(e, 40, 350) \in Nat /\ (s >= 700 => Share(e, 40, 350) >= 250)
  BY <1>3, <1>5, <1>6
<1>9. Share(e, 35, 300) \in Nat /\ (s >= 850 => Share(e, 35, 300) >= 250)
  BY <1>4, <1>5, <1>6
<1> QED
  BY <1>1, <1>7, <1>8, <1>9

\* The earliest of some events is one of them, and stays it when only later ones come.
LEMMA EarliestStays ==
  ASSUME EventsInv, NEW n \in 0 .. Len(events), NEW S, NEW T, S # {},
         T \subseteq Range(events), S = {e \in T : e.id <= n}
  PROVE  Earliest(S) \in S /\ Earliest(T) = Earliest(S)
<1>1. \A e \in T : e.id \in Nat /\ e = events[e.id]
  <2>1. \A e \in T : \E k \in 1 .. Len(events) : e = events[k]
    BY ListDomain DEF EventsInv
  <2> QED
    BY <2>1, ListDomain DEF EventsInv
<1>2. PICK I : I = {e.id : e \in S}
  OBVIOUS
<1>3. I \in SUBSET Nat /\ I # {}
  BY <1>1, <1>2
<1>4. PICK m \in I : \A k \in I : m <= k
  BY <1>3, LeastNatural
<1>5. PICK e \in S : e.id = m
  BY <1>2, <1>4
<1>6. \A x \in S : e.id <= x.id
  BY <1>2, <1>4, <1>5
<1>7. \A x \in T : e.id <= x.id
  <2>1. n \in Nat /\ e.id <= n
    BY <1>5, ListDomain DEF EventsInv
  <2> QED
    BY <1>1, <1>5, <1>6, <2>1
<1>8. \A U : U \subseteq T /\ e \in U /\ (\A x \in U : e.id <= x.id) => Earliest(U) = e
  <2> SUFFICES ASSUME NEW U, U \subseteq T, e \in U, \A x \in U : e.id <= x.id
               PROVE  Earliest(U) = e
    OBVIOUS
  <2>1. PICK y : y = Earliest(U)
    OBVIOUS
  <2>2. y \in U /\ \A x \in U : y.id <= x.id
    BY <2>1 DEF Earliest
  <2>3. y.id = e.id
    BY <1>1, <2>2
  <2> QED
    BY <1>1, <2>1, <2>2, <2>3
<1> QED
  BY <1>5, <1>6, <1>7, <1>8

IamPoints(c) == IF c.iam = {} THEN 0 ELSE IamFactor(c.iam).points

\* The points of the first domain do not fall when findings come later.
LEMMA IamPointsGrow ==
  ASSUME EventsInv, HitsAreSevere, NEW n \in 0 .. Len(events), NEW c, NEW d,
         d.iam \subseteq Range(events), \A e \in d.iam : IsIam(e),
         c.iam = {e \in d.iam : e.id <= n}
  PROVE  IamPoints(c) \in Nat /\ IamPoints(d) \in Nat /\ IamPoints(c) <= IamPoints(d)
<1>1. PICK I, J : I = c.iam /\ J = d.iam
  OBVIOUS
<1>2. \A e \in J : /\ e.score \in Nat /\ e.id \in Nat
                   /\ Escalates(e) => e.score >= 700
                   /\ IsWildcard(e) => e.score >= 850
  <2>1. \A e \in J : \E k \in 1 .. Len(events) : e = events[k]
    BY <1>1, ListDomain DEF EventsInv
  <2>2. \A k \in 1 .. Len(events) : k \in Nat
    OBVIOUS
  <2> QED
    BY <1>1, <2>1, <2>2, IngestedFacts
<1>3. \A S \in SUBSET J : S # {} => Earliest(S) \in S
  <2> SUFFICES ASSUME NEW S \in SUBSET J, S # {} PROVE Earliest(S) \in S
    OBVIOUS
  <2>1. PICK m : m = Len(events) /\ m \in 0 .. Len(events)
    BY ListDomain DEF EventsInv
  <2>2. S \subseteq Range(events) /\ S = {e \in S : e.id <= m}
    BY <1>1, <2>1, ListDomain DEF EventsInv
  <2> QED
    BY <2>1, <2>2, EarliestStays
<1>4. ASSUME NEW S \in SUBSET J, S # {}
      PROVE  /\ Deciding(S) \in S /\ (Hits(S) # {} => Deciding(S) \in Hits(S))
             /\ IamFactor(S).points \in Nat
             /\ Hits(S) = {} => IamFactor(S).points <= 250
             /\ Hits(S) # {} => IamFactor(S).points >= 250
  <2>1. Hits(S) \in SUBSET J /\ Hits(S) \subseteq S
    BY DEF Hits
  <2>2. Deciding(S) \in S /\ (Hits(S) # {} => Deciding(S) \in Hits(S))
    BY <1>3, <1>4, <2>1 DEF Deciding
  <2>3. PICK t : t = Deciding(S)
    OBVIOUS
  <2>4. /\ t \in J /\ t.score \in Nat
        /\ Hits(S) # {} => Escalates(t) \/ IsWildcard(t)
    BY <1>2, <2>2, <2>3 DEF Hits
  <2>5. /\ Escalates(t) => t.score >= 700
        /\ IsWildcard(t) => t.score >= 850
    BY <1>2, <2>4
  <2>6. /\ Share(t, 30, 250) \in Nat /\ Share(t, 30, 250) <= 250
        /\ Share(t, 40, 350) \in Nat /\ (t.score >= 700 => Share(t, 40, 350) >= 250)
        /\ Share(t, 35, 300) \in Nat /\ (t.score >= 850 => Share(t, 35, 300) >= 250)
    BY <2>4, ShareFacts
  <2>7. /\ Hits(S) = {} => IamFactor(S).points = Share(t, 30, 250)
        /\ Hits(S) # {} /\ Escalates(t) => IamFactor(S).points = Share(t, 40, 350)
        /\ Hits(S) # {} /\ ~Escalates(t) => IamFactor(S).points = Share(t, 35, 300)
    BY <2>3, IamFactorFacts
  <2> QED
    BY <2>2, <2>4, <2>5, <2>6, <2>7
<1>5. /\ IamPoints(c) = IF I = {} THEN 0 ELSE IamFactor(I).points
      /\ IamPoints(d) = IF J = {} THEN 0 ELSE IamFactor(J).points
      /\ I \in SUBSET J /\ J \in SUBSET J
  BY <1>1 DEF IamPoints
<1>6. I # {} /\ (Hits(I) # {} \/ Hits(J) = {}) => Deciding(J) = Deciding(I) /\ (Hits(I) = {} <=> Hits(J) = {})
  <2> SUFFICES ASSUME I # {}, Hits(I) # {} \/ Hits(J) = {}
               PROVE  Deciding(J) = Deciding(I) /\ (Hits(I) = {} <=> Hits(J) = {})
    OBVIOUS
  <2>1. Hits(I) \subseteq Hits(J) /\ Hits(I) = {e \in Hits(J) : e.id <= n}
    BY <1>1 DEF Hits
  <2>2. Hits(I) # {} => Earliest(Hits(J)) = Earliest(Hits(I))
    BY <1>1, <2>1, EarliestStays DEF Hits
  <2>3. Earliest(J) = Earliest(I)
    BY <1>1, EarliestStays
  <2> QED
    BY <2>1, <2>2, <2>3 DEF Deciding
<1>7. I # {} /\ (Hits(I) # {} \/ Hits(J) = {}) => IamFactor(J).points = IamFactor(I).points
  <2> QED
    BY <1>6, IamFactorFacts
<1>8. I # {} /\ J = {} => FALSE
  BY <1>5
<1> QED
  BY <1>4, <1>5, <1>7, <1>8

\* The other points do not fall when no set of the cluster shrinks.
LEMMA WeightGrows ==
  ASSUME NEW c, NEW d, c.iam \subseteq d.iam, c.runtime \subseteq d.runtime,
         c.admission \subseteq d.admission, NEW n \in DOMAIN Points
  PROVE  Weight(c, n) \in Nat /\ Weight(d, n) \in Nat /\ Weight(c, n) <= Weight(d, n)
<1>1. DOMAIN Points = {"credential_access", "runtime_shell_execution", "external_network_egress",
                       "admission_policy_violation", "cross_domain_kill_chain_correlation"}
  BY DEF Points
<1>2. Points[n] \in Nat
  BY <1>1 DEF Points
<1>3. RuntimeFactors(c) \subseteq RuntimeFactors(d)
  BY DEF RuntimeFactors
<1>4. CrossDomain(c) => CrossDomain(d)
  BY DEF CrossDomain
<1>5. \A S : n # IamFactor(S).name
  <2>1. n \notin {"iam_excessive_permission", "iam_privilege_escalation", "iam_wildcard_permission"}
    BY <1>1
  <2> QED
    BY <2>1, IamFactorFacts
<1>6. n \in RiskFactors(c) => n \in RiskFactors(d)
  BY <1>3, <1>4, <1>5 DEF RiskFactors
<1> QED
  BY <1>2, <1>6 DEF Weight

LEMMA RiskGrows ==
  ASSUME EventsInv, HitsAreSevere, NEW n \in 0 .. Len(events), NEW b
  PROVE  OverallRisk(ClusterOf(b, Range(events))) >= OverallRisk(ClusterOf(b, Upto(n)))
<1>1. PICK c, d : c = ClusterOf(b, Upto(n)) /\ d = ClusterOf(b, Range(events))
  OBVIOUS
<1>2. /\ c.iam = {e \in Upto(n) : IsIam(e) /\ e.key = b.identity}
      /\ c.runtime = {e \in Upto(n) : IsRuntime(e) /\ e.key = b.workload}
      /\ c.admission = {e \in Upto(n) : IsAdmission(e) /\ e.key = b.workload}
  BY <1>1, ClusterOfFacts
<1>3. /\ d.iam = {e \in Range(events) : IsIam(e) /\ e.key = b.identity}
      /\ d.runtime = {e \in Range(events) : IsRuntime(e) /\ e.key = b.workload}
      /\ d.admission = {e \in Range(events) : IsAdmission(e) /\ e.key = b.workload}
  BY <1>1, ClusterOfFacts
<1>4. Upto(n) = {e \in Range(events) : e.id <= n}
  <2>1. Range(events) = {events[k] : k \in 1 .. Len(events)} /\ Len(events) \in Nat
    BY ListDomain DEF EventsInv
  <2>2. ASSUME NEW e \in Upto(n) PROVE e \in Range(events) /\ e.id <= n
    <3>1. PICK k \in 1 .. n : e = events[k]
      BY DEF Upto
    <3> QED
      BY <2>1, <3>1 DEF EventsInv
  <2>3. ASSUME NEW e \in Range(events), e.id <= n PROVE e \in Upto(n)
    <3>1. PICK k \in 1 .. Len(events) : e = events[k]
      BY <2>1
    <3> QED
      BY <2>1, <2>3, <3>1 DEF EventsInv, Upto
  <2> QED
    BY <2>2, <2>3
<1>5. /\ c.iam = {e \in d.iam : e.id <= n} /\ c.iam \subseteq d.iam
      /\ c.runtime \subseteq d.runtime /\ c.admission \subseteq d.admission
      /\ d.iam \subseteq Range(events) /\ \A e \in d.iam : IsIam(e)
  BY <1>2, <1>3, <1>4
<1>6. IamPoints(c) \in Nat /\ IamPoints(d) \in Nat /\ IamPoints(c) <= IamPoints(d)
  BY <1>5, IamPointsGrow
<1>7. \A w \in DOMAIN Points : Weight(c, w) \in Nat /\ Weight(d, w) \in Nat /\ Weight(c, w) <= Weight(d, w)
  BY <1>5, WeightGrows
<1>8. /\ "credential_access" \in DOMAIN Points /\ "runtime_shell_execution" \in DOMAIN Points
      /\ "external_network_egress" \in DOMAIN Points /\ "admission_policy_violation" \in DOMAIN Points
      /\ "cross_domain_kill_chain_correlation" \in DOMAIN Points
  BY DEF Points
<1>9. PICK c0, d0 \in Nat : c0 = IamPoints(c) /\ d0 = IamPoints(d)
  BY <1>6
<1>10. PICK c1, c2, c3, c4, c5 \in Nat :
         /\ c1 = Weight(c, "credential_access") /\ c2 = Weight(c, "runtime_shell_execution")
         /\ c3 = Weight(c, "external_network_egress") /\ c4 = Weight(c, "admission_policy_violation")
         /\ c5 = Weight(c, "cross_domain_kill_chain_correlation")
  BY <1>7, <1>8
<1>11. PICK d1, d2, d3, d4, d5 \in Nat :
         /\ d1 = Weight(d, "credential_access") /\ d2 = Weight(d, "runtime_shell_execution")
         /\ d3 = Weight(d, "external_network_egress") /\ d4 = Weight(d, "admission_policy_violation")
         /\ d5 = Weight(d, "cross_domain_kill_chain_correlation")
  BY <1>7, <1>8
<1>12. c0 <= d0 /\ c1 <= d1 /\ c2 <= d2 /\ c3 <= d3 /\ c4 <= d4 /\ c5 <= d5
  BY <1>6, <1>7, <1>8, <1>9, <1>10, <1>11
<1>13. /\ OverallRisk(c) = Least(1000, c0 + c1 + c2 + c3 + c4 + c5)
       /\ OverallRisk(d) = Least(1000, d0 + d1 + d2 + d3 + d4 + d5)
  BY <1>9, <1>10, <1>11 DEF OverallRisk, IamPoints
<1>14. PICK x, y \in Nat : /\ x = c0 + c1 + c2 + c3 + c4 + c5 /\ x <= y
                          /\ y = d0 + d1 + d2 + d3 + d4 + d5
  BY <1>12
<1>15. Least(1000, x) <= Least(1000, y) /\ Least(1000, x) \in Nat /\ Least(1000, y) \in Nat
  BY <1>14 DEF Least
<1> QED
  BY <1>1, <1>13, <1>14, <1>15

\* The binding of a cluster has one again after the next correlation, of no lower risk.
LEMMA CorrelateRaisesRisk ==
  ASSUME CorrelationInv, HitsAreSevere, Correlate, NEW c \in clusters, c.binding # NoBinding
  PROVE  \E d \in clusters' : d.binding = c.binding /\ OverallRisk(d) >= OverallRisk(c)
<1>1. EventsInv /\ known \in 0 .. Len(events) /\ Range(events) = Upto(Len(events))
  BY ListDomain DEF CorrelationInv, EventsInv, ClustersInv, Upto
<1>2. PICK registered \in SUBSET bindings : clusters = CorrelateAll(registered, Upto(known))
  BY DEF CorrelationInv, ClustersInv
<1>3. PICK b \in bindings : b = c.binding /\ c = ClusterOf(b, Upto(known))
  BY <1>2, CorrelateFacts
<1>4. EventsOf(c) # {} /\ Upto(known) \subseteq Range(events)
  BY <1>1, <1>2, CorrelateFacts, ListDomain DEF EventsInv, Upto
<1>5. PICK d : d = ClusterOf(b, Range(events))
  OBVIOUS
<1>6. d.binding = b /\ EventsOf(c) \subseteq EventsOf(d)
  BY <1>3, <1>4, <1>5, ClusterOfFacts DEF EventsOf
<1>7. d \in CorrelateAll(bindings, Range(events))
  BY <1>4, <1>5, <1>6 DEF CorrelateAll, BoundClusters
<1>8. d \in clusters'
  BY <1>7 DEF Correlate
<1>9. OverallRisk(d) >= OverallRisk(c)
  BY <1>1, <1>3, <1>5, RiskGrows
<1> QED
  BY <1>3, <1>6, <1>8, <1>9

\* Where an escalation or a wildcard weighs what the detector makes it weigh, more evidence
\* never lowers the risk of a binding (risk_evaluator.py:39): the first telling finding
\* decides, and what comes later only adds.
THEOREM EvidenceOnlyRaisesRisk ==
  ASSUME HitsAreSevere
  PROVE  DomainSpec => EvidenceNeverLowersRisk
<1>1. CorrelationInv /\ [DomainNext]_domainVars =>
        [\A c \in clusters : c.binding # NoBinding =>
           \E d \in clusters' : d.binding = c.binding /\ OverallRisk(d) >= OverallRisk(c)]_clusters
  <2> SUFFICES ASSUME CorrelationInv, [DomainNext]_domainVars, clusters' # clusters
               PROVE  \A c \in clusters : c.binding # NoBinding =>
                        \E d \in clusters' : d.binding = c.binding /\ OverallRisk(d) >= OverallRisk(c)
    OBVIOUS
  <2>1. Next
    BY DEF DomainNext, Correlating, Analyzing, Searching, Storing, Scraping, domainVars, vars
  <2>2. Correlate
    BY <2>1 DEF Next, Register, IngestFinding, IngestDetection, IngestAgain, Ingest, Raise
  <2> QED
    BY <2>2, CorrelateRaisesRisk
<1> QED
  BY <1>1, CorrelationHolds, PTL DEF DomainSpec, EvidenceNeverLowersRisk
----------------------------------------------------------------------------------
(* The detector on literal policies *)

\* What was reported is what the detector makes of the policies it was run on.
PrincipalInv ==
  /\ attached \subseteq Statements /\ examined \subseteq Statements
  /\ reported = Analysis!Analyze(examined)

LEMMA EscalationFacts ==
  ASSUME NEW v
  PROVE  Analysis!Escalation(v).kind = "escalation" /\ Analysis!Escalation(v).action = v
BY DEF Analysis!Escalation

\* The vectors reported are those whose signature is granted.
LEMMA FoundFacts ==
  ASSUME PrincipalInv
  PROVE  Analysis!FoundVectors =
           {v \in Analysis!Vectors : Analysis!Matches(v, Analysis!Named(examined, "Allow"))}
<1>1. PICK G, M : /\ G = Analysis!Named(examined, "Allow")
                  /\ M = {v \in Analysis!Vectors : Analysis!Matches(v, G)}
  OBVIOUS
<1>2. reported = {f \in {Analysis!Wildcard} : G \cap {"*", "*:*"} # {}}
                 \cup {Analysis!Escalation(v) : v \in M}
  BY <1>1 DEF PrincipalInv, Analysis!Analyze
<1>3. Analysis!Wildcard.kind # "escalation"
  BY DEF Analysis!Wildcard
<1>4. ASSUME NEW a \in Analysis!FoundVectors PROVE a \in M
  <2>1. PICK f \in reported : f.kind = "escalation" /\ a = f.action
    BY DEF Analysis!FoundVectors
  <2>2. PICK v \in M : f = Analysis!Escalation(v)
    BY <1>2, <1>3, <2>1
  <2> QED
    BY <2>1, <2>2, EscalationFacts
<1>5. ASSUME NEW v \in M PROVE v \in Analysis!FoundVectors
  <2>1. PICK f : f = Analysis!Escalation(v)
    OBVIOUS
  <2>2. f \in reported /\ f.kind = "escalation" /\ f.action = v
    BY <1>2, <2>1, EscalationFacts
  <2> QED
    BY <2>2 DEF Analysis!FoundVectors
<1> QED
  BY <1>1, <1>4, <1>5

\* What literal policies grant is what they name, or every action.
LEMMA LiteralGrants ==
  ASSUME Analysis!Literal(examined)
  PROVE  Analysis!Effective(examined) =
           {a \in Analysis!Actions : \E g \in Analysis!Named(examined, "Allow") : g = a \/ g = "*"}
<1>1. PICK G : G = Analysis!Named(examined, "Allow")
  OBVIOUS
<1>2. Analysis!Named(examined, "Deny") = {}
  <2>1. \A s \in examined : s.effect # "Deny"
    BY DEF Analysis!Literal
  <2> QED
    BY <2>1 DEF Analysis!Named
<1>3. "iam:*" \notin G /\ "*:*" \notin G
  BY <1>1 DEF Analysis!Literal
<1>4. Analysis!Effective(examined) = UNION {Analysis!Covers(p) : p \in G}
  BY <1>1, <1>2 DEF Analysis!Effective
<1>5. \A g \in G : \A a : a \in Analysis!Covers(g) <=> a \in Analysis!Actions /\ (g = a \/ g = "*")
  BY <1>3 DEF Analysis!Covers
<1> QED
  BY <1>1, <1>4, <1>5

LEMMA DetectorIsExact ==
  ASSUME PrincipalInv
  PROVE  Analysis!ExactOnLiteralPolicies
<1> SUFFICES ASSUME Analysis!Literal(examined)
             PROVE  Analysis!FoundVectors = Analysis!Reachable(examined)
  BY DEF Analysis!ExactOnLiteralPolicies
<1>1. PICK G : G = Analysis!Named(examined, "Allow")
  OBVIOUS
<1>2. \A v \in Analysis!Vectors : Analysis!Signature(v) \subseteq Analysis!Actions
  BY DEF Analysis!Actions
<1>3. \A v \in Analysis!Vectors : Analysis!Signature(v) # {}
  BY DEF Analysis!Signature
<1>4. \A v : Analysis!Matches(v, G) <=> \A a \in Analysis!Signature(v) : \E g \in G : g = a \/ g = "*"
  BY DEF Analysis!Matches
<1>5. \A v \in Analysis!Vectors :
        Analysis!Signature(v) \subseteq Analysis!Effective(examined) <=> Analysis!Matches(v, G)
  BY <1>1, <1>2, <1>4, LiteralGrants
<1> QED
  BY <1>1, <1>5, FoundFacts DEF Analysis!Reachable

LEMMA PrincipalStarts == Analysis!Init => PrincipalInv
<1> SUFFICES ASSUME Analysis!Init PROVE PrincipalInv
  OBVIOUS
<1>1. attached = {} /\ examined = {} /\ reported = {}
  BY DEF Analysis!Init
<1>2. Analysis!Named({}, "Allow") = {}
  BY DEF Analysis!Named
<1>3. \A v : ~Analysis!Matches(v, {})
  BY DEF Analysis!Matches, Analysis!Signature
<1>4. Analysis!Analyze({}) = {}
  BY <1>2, <1>3 DEF Analysis!Analyze
<1> QED
  BY <1>1, <1>4 DEF PrincipalInv

LEMMA PrincipalStep ==
  ASSUME PrincipalInv, [Analysis!Next]_principalVars
  PROVE  PrincipalInv'
<1>1. CASE UNCHANGED principalVars
  BY <1>1 DEF PrincipalInv, principalVars
<1>2. ASSUME NEW s \in Statements, Analysis!Attach(s) \/ Analysis!Detach(s) PROVE PrincipalInv'
  BY <1>2 DEF PrincipalInv, Analysis!Attach, Analysis!Detach
<1>3. CASE Analysis!RunAnalysis
  BY <1>3 DEF PrincipalInv, Analysis!RunAnalysis
<1> QED
  BY <1>1, <1>2, <1>3 DEF Analysis!Next

LEMMA PrincipalHolds == DomainSpec => []PrincipalInv
<1>1. DomainInit => Analysis!Init
  BY DEF DomainInit
<1>2. [DomainNext]_domainVars => [Analysis!Next]_principalVars
  BY DEF DomainNext, Correlating, Analyzing, Searching, Storing, Scraping, domainVars
<1> QED
  BY <1>1, <1>2, PrincipalStarts, PrincipalStep, PTL DEF DomainSpec

\* For any policies, edited and analysed in any order: where they only allow, and name
\* actions one by one or all with "*", the detector finds exactly what can be used to
\* escalate (escalation.py:35).
THEOREM DetectorExactOnLiteralPolicies == DomainSpec => []ExactOnLiteralPolicies
<1>1. PrincipalInv => ExactOnLiteralPolicies
  BY DetectorIsExact DEF ExactOnLiteralPolicies
<1> QED
  BY <1>1, PrincipalHolds, PTL
----------------------------------------------------------------------------------
(* The store *)

OneAtATime == \A p, q \in Procs : p = q

\* A manager's incidents have ids that were drawn, as those of the file have.
StoredInv ==
  /\ Store!StoreTypeOK
  /\ DOMAIN mem = Procs
  /\ \A p \in Procs : Store!Ids(mem[p]) \subseteq 1 .. made

\* What was saved is in the file or, while a process holds it, in that process; while one
\* writes, the file is torn.
SavedInv ==
  /\ StoredInv
  /\ store.kind = "absent" => saved = {}
  /\ store.kind = "whole" => saved \subseteq Store!Ids(store.incidents)
  /\ \A p \in Procs : pc[p] # "idle" => saved \subseteq Store!Ids(mem[p])
  /\ \A p \in Procs : pc[p] = "writing" => store.kind = "torn"

\* Creating adds one id, and changing a status none (register, update_status).
LEMMA IdOfIncident ==
  ASSUME NEW n, NEW t, NEW status
  PROVE  Store!Incident(n, t, status).id = n
BY DEF Store!Incident

LEMMA IdsOfNew ==
  ASSUME NEW S, NEW n, NEW t
  PROVE  Store!Ids(S \cup {Store!Incident(n, t, "NEW")}) = Store!Ids(S) \cup {n}
<1> DEFINE new == Store!Incident(n, t, "NEW")
<1>1. new.id = n
  BY IdOfIncident
<1> HIDE DEF new
<1>2. Store!Ids(S \cup {new}) = Store!Ids(S) \cup {n}
  BY <1>1 DEF Store!Ids
<1> QED
  BY <1>2 DEF new

LEMMA IdsOfChanged ==
  ASSUME NEW S, NEW i \in S, NEW status
  PROVE  Store!Ids((S \ {i}) \cup {Store!Incident(i.id, i, status)}) = Store!Ids(S)
<1> DEFINE new == Store!Incident(i.id, i, status)
<1>1. new.id = i.id
  BY IdOfIncident
<1> HIDE DEF new
<1>2. Store!Ids((S \ {i}) \cup {new}) = Store!Ids(S)
  BY <1>1 DEF Store!Ids
<1> QED
  BY <1>2 DEF new

LEMMA IdsOfNone == Store!Ids({}) = {}
BY DEF Store!Ids

LEMMA StoredStep ==
  ASSUME StoredInv, Store!StoreNext
  PROVE  StoredInv'
<1>1. /\ made \in 0 .. MaxSaved /\ made \in Nat
      /\ MaxSaved \in Nat
  BY DomainAssumptions DEF Store!StoreAssumption, StoredInv, Store!StoreTypeOK
<1> USE DEF StoredInv, Store!StoreTypeOK
<1>2. PICK p \in Procs :
        \/ Store!Load(p) \/ Store!Truncate(p) \/ Store!Fill(p) \/ Store!Die(p)
        \/ \E t \in Templates : Store!Create(p, t)
        \/ \E i \in mem[p], status \in {"TRIAGED", "RESOLVED"} : Store!UpdateStatus(p, i, status)
  BY DEF Store!StoreNext
<1>3. CASE Store!Load(p)
  BY <1>3 DEF Store!Load
<1>4. CASE Store!Truncate(p)
  BY <1>4, IdsOfNone DEF Store!Truncate, Store!Torn
<1>5. CASE Store!Fill(p)
  <2>1. store' = Store!Whole(mem[p]) \/ store' = Store!Torn
    BY <1>5 DEF Store!Fill
  <2>2. /\ store'.kind \in {"absent", "torn", "whole"}
        /\ Store!Ids(store'.incidents) \subseteq 1 .. made
    <3>1. Store!Ids(mem[p]) \subseteq 1 .. made
      OBVIOUS
    <3>2. \A S : Store!Whole(S).kind = "whole" /\ Store!Whole(S).incidents = S
      BY DEF Store!Whole
    <3>3. Store!Torn.kind = "torn" /\ Store!Torn.incidents = {}
      BY DEF Store!Torn
    <3>4. CASE store' = Store!Whole(mem[p])
      BY <3>1, <3>2, <3>4
    <3>5. CASE store' = Store!Torn
      BY <3>3, <3>5, IdsOfNone
    <3> QED
      BY <2>1, <3>4, <3>5
  <2> QED
    BY <1>5, <2>2, IdsOfNone DEF Store!Fill
<1>6. CASE Store!Die(p)
  BY <1>6, IdsOfNone DEF Store!Die
<1>7. CASE \E t \in Templates : Store!Create(p, t)
  <2>1. PICK t \in Templates : Store!Create(p, t)
    BY <1>7
  <2>2. Store!Ids(mem'[p]) = Store!Ids(mem[p]) \cup {made + 1}
    BY <2>1, IdsOfNew DEF Store!Create
  <2>3. /\ made' = made + 1 /\ made' \in 0 .. MaxSaved
        /\ 1 .. made \subseteq 1 .. made' /\ made + 1 \in 1 .. made'
    BY <1>1, <2>1 DEF Store!Create
  <2>4. ASSUME NEW q \in Procs
        PROVE  Store!Ids(mem'[q]) \subseteq 1 .. made'
    <3>1. CASE q = p
      BY <2>2, <2>3, <3>1
    <3>2. CASE q # p
      <4>1. mem'[q] = mem[q]
        BY <2>1, <3>2 DEF Store!Create
      <4> QED
        BY <2>3, <4>1
    <3> QED
      BY <3>1, <3>2
  <2> QED
    BY <2>1, <2>3, <2>4 DEF Store!Create
<1>8. CASE \E i \in mem[p], status \in {"TRIAGED", "RESOLVED"} : Store!UpdateStatus(p, i, status)
  <2>1. PICK i \in mem[p], status \in {"TRIAGED", "RESOLVED"} : Store!UpdateStatus(p, i, status)
    BY <1>8
  <2>2. mem'[p] = (mem[p] \ {i}) \cup {Store!Incident(i.id, i, status)}
    BY <2>1 DEF Store!UpdateStatus
  <2>3. Store!Ids(mem'[p]) = Store!Ids(mem[p])
    BY <2>2, IdsOfChanged
  <2> QED
    BY <2>1, <2>3 DEF Store!UpdateStatus
<1> QED
  BY <1>2, <1>3, <1>4, <1>5, <1>6, <1>7, <1>8

LEMMA SavedStep ==
  ASSUME OneAtATime, SavedInv, Store!StoreNext
  PROVE  SavedInv'
<1>1. StoredInv /\ StoredInv'
  BY StoredStep DEF SavedInv
<1>2. PICK p \in Procs :
        \/ Store!Load(p) \/ Store!Truncate(p) \/ Store!Fill(p) \/ Store!Die(p)
        \/ \E t \in Templates : Store!Create(p, t)
        \/ \E i \in mem[p], status \in {"TRIAGED", "RESOLVED"} : Store!UpdateStatus(p, i, status)
  BY DEF Store!StoreNext
<1>3. \A q \in Procs : q = p
  BY DEF OneAtATime
<1>4. /\ DOMAIN pc = Procs /\ DOMAIN mem = Procs
      /\ store.kind \in {"absent", "torn", "whole"}
  BY <1>1 DEF StoredInv, Store!StoreTypeOK
<1> USE DEF SavedInv
<1>5. CASE Store!Load(p)
  <2>1. saved \subseteq Store!Ids(store.incidents)
    BY <1>5, <1>4 DEF Store!Load
  <2> QED
    BY <1>1, <1>5, <1>3, <1>4, <2>1 DEF Store!Load
<1>6. CASE Store!Truncate(p)
  BY <1>1, <1>6, <1>3, <1>4 DEF Store!Truncate, Store!Torn
<1>7. CASE Store!Fill(p)
  <2>1. store' = Store!Whole(mem[p])
    BY <1>7 DEF Store!Fill
  <2>2. saved' = Store!Ids(store'.incidents)
    BY <1>7, <2>1 DEF Store!Fill, Store!Whole
  <2>3. \A q \in Procs : pc'[q] = "idle"
    BY <1>7, <1>3, <1>4 DEF Store!Fill
  <2> QED
    BY <1>1, <2>1, <2>2, <2>3 DEF Store!Whole
<1>8. CASE Store!Die(p)
  BY <1>1, <1>8, <1>3, <1>4 DEF Store!Die
<1>9. CASE \E t \in Templates : Store!Create(p, t)
  <2>1. PICK t \in Templates : Store!Create(p, t)
    BY <1>9
  <2>2. Store!Ids(mem'[p]) = Store!Ids(mem[p]) \cup {made + 1}
    BY <2>1, <1>4, IdsOfNew DEF Store!Create
  <2> QED
    BY <1>1, <1>3, <1>4, <2>1, <2>2 DEF Store!Create
<1>10. CASE \E i \in mem[p], status \in {"TRIAGED", "RESOLVED"} : Store!UpdateStatus(p, i, status)
  <2>1. PICK i \in mem[p], status \in {"TRIAGED", "RESOLVED"} : Store!UpdateStatus(p, i, status)
    BY <1>10
  <2>2. Store!Ids(mem'[p]) = Store!Ids(mem[p])
    BY <2>1, <1>4, IdsOfChanged DEF Store!UpdateStatus
  <2> QED
    BY <1>1, <1>3, <1>4, <2>1, <2>2 DEF Store!UpdateStatus
<1> QED
  BY <1>2, <1>5, <1>6, <1>7, <1>8, <1>9, <1>10

\* Whoever has loaded or saved incidents, each was made of a template.
Genuine(i) ==
  /\ IsFiniteSet(i.findings) /\ IsFiniteSet(i.targets)
  /\ \A f \in i.findings : f.source \in {"cloudgraphguard", "threatguard"} /\ f.severity \in Store!Severities

GenuineSet(S) == IsFiniteSet(S) /\ \A i \in S : Genuine(i)

ContentInv ==
  /\ GenuineSet(store.incidents)
  /\ DOMAIN mem = Procs /\ \A p \in Procs : GenuineSet(mem[p])

LEMMA GenuineChange ==
  ASSUME NEW S, GenuineSet(S), NEW T, GenuineSet(T), NEW U
  PROVE  GenuineSet((S \ U) \cup T) /\ GenuineSet(S \cup T) /\ GenuineSet({})
<1>1. IsFiniteSet(S \ U) /\ IsFiniteSet({})
  BY FS_Difference, FS_EmptySet DEF GenuineSet
<1>2. IsFiniteSet((S \ U) \cup T) /\ IsFiniteSet(S \cup T)
  BY <1>1, FS_Union DEF GenuineSet
<1> QED
  BY <1>1, <1>2 DEF GenuineSet

LEMMA GenuineIncident ==
  ASSUME NEW n, NEW t, t \in Templates \/ Genuine(t), NEW status
  PROVE  GenuineSet({Store!Incident(n, t, status)})
<1>1. PICK i : i = Store!Incident(n, t, status)
  OBVIOUS
<1>2. i.findings = t.findings /\ i.targets = t.targets
  BY <1>1 DEF Store!Incident
<1>3. Genuine(t)
  BY DomainAssumptions DEF Store!StoreAssumption, Genuine, Store!IsFiniteSet, IsFiniteSet
<1> QED
  BY <1>1, <1>2, <1>3, FS_Singleton DEF Genuine, GenuineSet

LEMMA ContentStarts == Store!StoreInit => ContentInv
BY GenuineChange, FS_EmptySet DEF Store!StoreInit, Store!Absent, ContentInv, GenuineSet

LEMMA ContentStep ==
  ASSUME ContentInv, [Store!StoreNext]_storeVars
  PROVE  ContentInv'
<1>1. CASE UNCHANGED storeVars
  BY <1>1 DEF storeVars, ContentInv, GenuineSet, Genuine
<1>2. CASE Store!StoreNext
  <2>1. PICK p \in Procs :
          \/ Store!Load(p) \/ Store!Truncate(p) \/ Store!Fill(p) \/ Store!Die(p)
          \/ \E t \in Templates : Store!Create(p, t)
          \/ \E i \in mem[p], status \in {"TRIAGED", "RESOLVED"} : Store!UpdateStatus(p, i, status)
    BY <1>2 DEF Store!StoreNext
  <2>2. GenuineSet({})
    BY FS_EmptySet DEF GenuineSet
  <2>3. GenuineSet(store.incidents) /\ GenuineSet(mem[p])
    BY DEF ContentInv
  <2>4. GenuineSet(store'.incidents)
    <3>1. CASE Store!Truncate(p) \/ Store!Fill(p)
      <4>1. store' = Store!Whole(mem[p]) \/ store' = Store!Torn
        BY <3>1 DEF Store!Truncate, Store!Fill
      <4>2. store'.incidents = mem[p] \/ store'.incidents = {}
        BY <4>1 DEF Store!Whole, Store!Torn
      <4> QED
        BY <2>2, <2>3, <4>2
    <3>2. CASE UNCHANGED store
      BY <2>3, <3>2
    <3> QED
      BY <2>1, <3>1, <3>2 DEF Store!Load, Store!Die, Store!Create, Store!UpdateStatus
  <2>5. mem' = mem \/ \E S : GenuineSet(S) /\ mem' = [mem EXCEPT ![p] = S]
    <3>1. CASE Store!Load(p)
      BY <2>3, <3>1 DEF Store!Load
    <3>2. CASE Store!Truncate(p)
      BY <3>2 DEF Store!Truncate
    <3>3. CASE Store!Fill(p) \/ Store!Die(p)
      BY <2>2, <3>3 DEF Store!Fill, Store!Die
    <3>4. ASSUME NEW t \in Templates, Store!Create(p, t)
          PROVE  \E S : GenuineSet(S) /\ mem' = [mem EXCEPT ![p] = S]
      <4>1. GenuineSet(mem[p] \cup {Store!Incident(made + 1, t, "NEW")})
        BY <2>3, GenuineIncident, GenuineChange
      <4> QED
        BY <3>4, <4>1 DEF Store!Create
    <3>5. ASSUME NEW i \in mem[p], NEW s, Store!UpdateStatus(p, i, s)
          PROVE  \E S : GenuineSet(S) /\ mem' = [mem EXCEPT ![p] = S]
      <4>1. Genuine(i)
        BY <2>3 DEF GenuineSet
      <4>2. GenuineSet((mem[p] \ {i}) \cup {Store!Incident(i.id, i, s)})
        BY <2>3, <4>1, GenuineIncident, GenuineChange
      <4> QED
        BY <3>5, <4>2 DEF Store!UpdateStatus
    <3> QED
      BY <2>1, <3>1, <3>2, <3>3, <3>4, <3>5
  <2>6. DOMAIN mem' = Procs /\ \A q \in Procs : GenuineSet(mem'[q])
    BY <2>5 DEF ContentInv
  <2>7. \A S : GenuineSet(S)' <=> GenuineSet(S)
    BY DEF GenuineSet, Genuine
  <2> QED
    BY <2>4, <2>6 DEF ContentInv, GenuineSet, Genuine
<1> QED
  BY <1>1, <1>2

LEMMA StoreCardinality == \A S : Store!Cardinality(S) = Cardinality(S)
BY DEF Store!Cardinality, Cardinality, Store!IsFiniteSet, IsFiniteSet

\* A function takes no more values than it has arguments.
LEMMA ImageBound ==
  ASSUME NEW S, IsFiniteSet(S), NEW f, DOMAIN f = S, NEW T, T \subseteq {f[x] : x \in S}
  PROVE  IsFiniteSet(T) /\ Cardinality(T) <= Cardinality(S)
<1>1. PICK R : R = {f[x] : x \in S}
  OBVIOUS
<1>2. PICK g : g = [x \in S |-> f[x]]
  OBVIOUS
<1>3. g \in Surjection(S, R)
  BY <1>1, <1>2 DEF Surjection
<1>4. IsFiniteSet(R) /\ Cardinality(R) <= Cardinality(S)
  BY <1>3, FS_Surjection
<1>5. IsFiniteSet(T) /\ Cardinality(T) <= Cardinality(R)
  BY <1>1, <1>4, FS_Subset
<1> QED
  BY <1>4, <1>5, FS_CardinalityType

\* Sets that are apart count together what they count each.
LEMMA TwoApart ==
  ASSUME NEW A, NEW B, IsFiniteSet(A), IsFiniteSet(B), A \cap B = {}
  PROVE  IsFiniteSet(A \cup B) /\ Cardinality(A \cup B) = Cardinality(A) + Cardinality(B)
<1>1. IsFiniteSet(A \cup B) /\ Cardinality(A \cup B) = Cardinality(A) + Cardinality(B) - Cardinality({})
  BY FS_Union
<1> QED
  BY <1>1, FS_EmptySet, FS_CardinalityType

LEMMA FourApart ==
  ASSUME NEW A, NEW B, NEW C, NEW D,
         IsFiniteSet(A), IsFiniteSet(B), IsFiniteSet(C), IsFiniteSet(D),
         A \cap B = {}, (A \cup B) \cap C = {}, (A \cup B \cup C) \cap D = {}
  PROVE  /\ IsFiniteSet(A \cup B \cup C \cup D)
         /\ Cardinality(A \cup B \cup C \cup D)
              = Cardinality(A) + Cardinality(B) + Cardinality(C) + Cardinality(D)
<1>1. IsFiniteSet(A \cup B) /\ Cardinality(A \cup B) = Cardinality(A) + Cardinality(B)
  BY TwoApart
<1>2. /\ IsFiniteSet((A \cup B) \cup C)
      /\ Cardinality((A \cup B) \cup C) = Cardinality(A \cup B) + Cardinality(C)
  BY <1>1, TwoApart
<1>3. /\ IsFiniteSet((A \cup B \cup C) \cup D)
      /\ Cardinality((A \cup B \cup C) \cup D) = Cardinality(A \cup B \cup C) + Cardinality(D)
  BY <1>2, TwoApart
<1> QED
  BY <1>1, <1>2, <1>3

\* Each counted finding is in one of the eight buckets, and in no other.
LEMMA BucketsCount ==
  ASSUME NEW I, NEW C, C = Store!Counted(I), IsFiniteSet(C), NEW source,
         \A p \in C : p[2].source = source => p[2].severity \in Store!Severities
  PROVE  Cardinality({p \in C : p[2].source = source})
           = Store!Bucket(I, source, "low") + Store!Bucket(I, source, "medium")
             + Store!Bucket(I, source, "high") + Store!Bucket(I, source, "critical")
<1>1. PICK L, M, H, K :
        /\ L = {p \in C : p[2].source = source /\ p[2].severity = "low"}
        /\ M = {p \in C : p[2].source = source /\ p[2].severity = "medium"}
        /\ H = {p \in C : p[2].source = source /\ p[2].severity = "high"}
        /\ K = {p \in C : p[2].source = source /\ p[2].severity = "critical"}
  OBVIOUS
<1>2. L \subseteq C /\ M \subseteq C /\ H \subseteq C /\ K \subseteq C
  BY <1>1
<1>3. IsFiniteSet(L) /\ IsFiniteSet(M) /\ IsFiniteSet(H) /\ IsFiniteSet(K)
  BY <1>2, FS_Subset
<1>4. L \cap M = {} /\ (L \cup M) \cap H = {} /\ (L \cup M \cup H) \cap K = {}
  BY <1>1
<1>5. {p \in C : p[2].source = source} = L \cup M \cup H \cup K
  BY <1>1 DEF Store!Severities
<1>6. Cardinality(L \cup M \cup H \cup K)
        = Cardinality(L) + Cardinality(M) + Cardinality(H) + Cardinality(K)
  BY <1>3, <1>4, FourApart
<1>7. /\ Store!Bucket(I, source, "low") = Cardinality(L)
      /\ Store!Bucket(I, source, "medium") = Cardinality(M)
      /\ Store!Bucket(I, source, "high") = Cardinality(H)
      /\ Store!Bucket(I, source, "critical") = Cardinality(K)
  BY <1>1, StoreCardinality DEF Store!Bucket
<1> QED
  BY <1>5, <1>6, <1>7

LEMMA CountsFit ==
  ASSUME NEW I, GenuineSet(I)
  PROVE  LET n == Store!Snapshot(I)
         IN Store!Total(n.iam) + Store!Total(n.runtime) = Cardinality(Store!Counted(I))
<1> DEFINE Telling(i) == {f \in i.findings : ~(f.source = "threatguard" /\ f.kind = "admission_violation")}
           Pairs(i) == {<<i, f>> : f \in Telling(i)}
<1>1. PICK C : C = Store!Counted(I)
  OBVIOUS
<1>2. C = UNION {Pairs(i) : i \in I}
  BY <1>1 DEF Store!Counted
<1>3. ASSUME NEW i \in I PROVE IsFiniteSet(Pairs(i))
  <2>1. IsFiniteSet(Telling(i))
    BY FS_Subset DEF GenuineSet, Genuine
  <2>2. PICK g : g = [f \in Telling(i) |-> <<i, f>>]
    OBVIOUS
  <2>3. DOMAIN g = Telling(i) /\ Pairs(i) \subseteq {g[f] : f \in Telling(i)}
    BY <2>2
  <2> QED
    BY <2>1, <2>3, ImageBound
<1>4. IsFiniteSet(C)
  <2>1. PICK g : g = [i \in I |-> Pairs(i)]
    OBVIOUS
  <2>2. PICK P : P = {Pairs(i) : i \in I}
    OBVIOUS
  <2>3. DOMAIN g = I /\ P \subseteq {g[i] : i \in I}
    BY <2>1, <2>2
  <2>4. IsFiniteSet(P)
    BY <2>3, ImageBound DEF GenuineSet
  <2>5. \A T \in P : IsFiniteSet(T)
    BY <1>3, <2>2
  <2> QED
    BY <1>2, <2>2, <2>4, <2>5, FS_UNION
<1>5. \A p \in C : p[2].source \in {"cloudgraphguard", "threatguard"} /\ p[2].severity \in Store!Severities
  BY <1>2 DEF GenuineSet, Genuine
<1>6. PICK A, B : /\ A = {p \in C : p[2].source = "cloudgraphguard"}
                  /\ B = {p \in C : p[2].source = "threatguard"}
  OBVIOUS
<1>7. A \subseteq C /\ B \subseteq C /\ A \cap B = {} /\ C = A \cup B
  BY <1>5, <1>6
<1>8. Cardinality(C) = Cardinality(A) + Cardinality(B)
  BY <1>4, <1>7, FS_Subset, TwoApart
<1>9. /\ \A p \in C : p[2].source = "cloudgraphguard" => p[2].severity \in Store!Severities
      /\ \A p \in C : p[2].source = "threatguard" => p[2].severity \in Store!Severities
  BY <1>5
<1>10. PICK n : n = Store!Snapshot(I)
  OBVIOUS
<1>11. \A s \in Store!Severities : /\ n.iam[s] = Store!Bucket(I, "cloudgraphguard", s)
                                   /\ n.runtime[s] = Store!Bucket(I, "threatguard", s)
  BY <1>10 DEF Store!Snapshot
<1>12. Store!Total(n.iam) = Cardinality(A)
  <2>1. Store!Total(n.iam) = Store!Bucket(I, "cloudgraphguard", "low") + Store!Bucket(I, "cloudgraphguard", "medium")
          + Store!Bucket(I, "cloudgraphguard", "high") + Store!Bucket(I, "cloudgraphguard", "critical")
    BY <1>11 DEF Store!Total, Store!Severities
  <2> QED
    BY <1>1, <1>4, <1>6, <1>9, <2>1, BucketsCount
<1>13. Store!Total(n.runtime) = Cardinality(B)
  <2>1. Store!Total(n.runtime) = Store!Bucket(I, "threatguard", "low") + Store!Bucket(I, "threatguard", "medium")
          + Store!Bucket(I, "threatguard", "high") + Store!Bucket(I, "threatguard", "critical")
    BY <1>11 DEF Store!Total, Store!Severities
  <2> QED
    BY <1>1, <1>4, <1>6, <1>9, <2>1, BucketsCount
<1> QED
  BY <1>1, <1>8, <1>10, <1>12, <1>13

LEMMA SnapshotFits ==
  ASSUME ContentInv
  PROVE  Store!SnapshotCoherent
<1>1. PICK I : I = store.incidents
  OBVIOUS
<1>2. GenuineSet(I) /\ IsFiniteSet(I)
  BY <1>1 DEF ContentInv, GenuineSet
<1>3. PICK O, X, H : /\ O = Store!Open(I) /\ X = {i \in O : i.cross} /\ H = Store!HighRisk(I)
  OBVIOUS
<1>4. O \subseteq I /\ X \subseteq O /\ H \subseteq O
  BY <1>3 DEF Store!Open, Store!HighRisk
<1>5. IsFiniteSet(O) /\ IsFiniteSet(H)
  BY <1>2, <1>4, FS_Subset
<1>6. /\ Cardinality(O) <= Cardinality(I) /\ Cardinality(X) <= Cardinality(O)
      /\ Cardinality(H) <= Cardinality(O)
  BY <1>2, <1>4, <1>5, FS_Subset
<1>7. PICK P, W : /\ P = Store!Named({i.principal : i \in H})
                  /\ W = Store!Named({i.workload : i \in H})
  OBVIOUS
<1>8. Cardinality(P) <= Cardinality(H)
  <2>1. PICK g : g = [i \in H |-> i.principal]
    OBVIOUS
  <2>2. DOMAIN g = H /\ P \subseteq {g[i] : i \in H}
    BY <1>7, <2>1 DEF Store!Named
  <2> QED
    BY <1>5, <2>2, ImageBound
<1>9. Cardinality(W) <= Cardinality(H)
  <2>1. PICK g : g = [i \in H |-> i.workload]
    OBVIOUS
  <2>2. DOMAIN g = H /\ W \subseteq {g[i] : i \in H}
    BY <1>7, <2>1 DEF Store!Named
  <2> QED
    BY <1>5, <2>2, ImageBound
<1>10. PICK n : n = Store!Snapshot(I)
  OBVIOUS
<1>11. /\ n.total = Cardinality(I) /\ n.open = Cardinality(O) /\ n.exploitable = Cardinality(X)
       /\ n.principals = Cardinality(P) /\ n.workloads = Cardinality(W)
       /\ n.resources = Cardinality(UNION {i.targets : i \in O})
  BY <1>3, <1>7, <1>10, StoreCardinality DEF Store!Snapshot
<1>12. IsFiniteSet(P) /\ IsFiniteSet(W)
  <2>1. PICK g, h : g = [i \in H |-> i.principal] /\ h = [i \in H |-> i.workload]
    OBVIOUS
  <2>2. DOMAIN g = H /\ P \subseteq {g[i] : i \in H} /\ DOMAIN h = H /\ W \subseteq {h[i] : i \in H}
    BY <1>7, <2>1 DEF Store!Named
  <2> QED
    BY <1>5, <2>2, ImageBound
<1>13. Cardinality(P) <= Cardinality(O) /\ Cardinality(W) <= Cardinality(O)
  BY <1>5, <1>6, <1>8, <1>9, <1>12, FS_CardinalityType
<1>14. n.open = 0 => n.resources = 0
  <2> SUFFICES ASSUME n.open = 0 PROVE n.resources = 0
    OBVIOUS
  <2>1. O = {}
    BY <1>5, <1>11, FS_EmptySet
  <2>2. UNION {i.targets : i \in O} = {}
    BY <2>1
  <2> QED
    BY <1>11, <2>2, FS_EmptySet
<1>15. Store!Total(n.iam) + Store!Total(n.runtime) = Store!Cardinality(Store!Counted(I))
  BY <1>2, <1>10, CountsFit, StoreCardinality
<1> QED
  BY <1>1, <1>6, <1>10, <1>11, <1>13, <1>14, <1>15 DEF Store!SnapshotCoherent

\* The composition runs the store as it is.
LEMMA StoreRuns ==
  /\ DomainInit => Store!StoreInit
  /\ [DomainNext]_domainVars => [Store!StoreNext]_storeVars
BY DEF DomainInit, DomainNext, Correlating, Analyzing, Searching, Storing, Scraping, domainVars

LEMMA StoreHolds == DomainSpec => [](StoredInv /\ ContentInv)
<1>1. Store!StoreInit => StoredInv
  BY DomainAssumptions, IdsOfNone DEF Store!StoreAssumption, Store!StoreInit, StoredInv,
     Store!StoreTypeOK, Store!Absent
<1>2. StoredInv /\ [Store!StoreNext]_storeVars => StoredInv'
  <2>1. CASE UNCHANGED storeVars
    BY <2>1 DEF storeVars, StoredInv, Store!StoreTypeOK, Store!Ids
  <2> QED
    BY <2>1, StoredStep
<1> QED
  BY <1>1, <1>2, StoreRuns, ContentStarts, ContentStep, PTL DEF DomainSpec

LEMMA SavedHolds ==
  ASSUME OneAtATime
  PROVE  DomainSpec => []SavedInv
<1>1. Store!StoreInit => SavedInv
  BY DomainAssumptions, IdsOfNone DEF Store!StoreAssumption, Store!StoreInit, SavedInv, StoredInv,
     Store!StoreTypeOK, Store!Absent
<1>2. SavedInv /\ [Store!StoreNext]_storeVars => SavedInv'
  <2>1. CASE UNCHANGED storeVars
    BY <2>1 DEF storeVars, SavedInv, StoredInv, Store!StoreTypeOK, Store!Ids
  <2> QED
    BY <2>1, SavedStep
<1> QED
  BY <1>1, <1>2, StoreRuns, PTL DEF DomainSpec

\* The counts fit each other whatever was saved, resolved or lost, and however many
\* processes save at once (cross_domain_metrics.py:72).
THEOREM CountsAlwaysFit == DomainSpec => []Store!SnapshotCoherent
BY StoreHolds, SnapshotFits, PTL

\* Processes that come one after the other, however often one dies, never lose an incident
\* that a save finished writing (deterministic_demo.py:170), and the counts fit.
THEOREM StoreAccumulates ==
  ASSUME OneAtATime
  PROVE  DomainSpec => []StoreSound
<1>1. SavedInv => Store!Accumulates
  BY DEF SavedInv, Store!Accumulates
<1>2. ContentInv => Store!SnapshotCoherent
  BY SnapshotFits
<1>3. SavedInv /\ ContentInv => StoreSound
  BY <1>1, <1>2 DEF StoreSound
<1> QED
  BY <1>3, SavedHolds, StoreHolds, PTL
----------------------------------------------------------------------------------
(* The scrape *)

AllContents == UNION {Exporter!Contents(n) : n \in Exporter!Names}

\* What was read so far are contents of artifacts, and the response keeps to it.
ScrapeInv ==
  /\ Exporter!TypeOK /\ Exporter!MissingIsNotZero
  /\ read \in Seq(AllContents)

LEMMA ArtifactFacts ==
  /\ Len(Exporter!Artifacts) = 4 /\ DOMAIN Exporter!Artifacts = 1 .. 4
  /\ \A k \in 1 .. 4 : Exporter!Artifacts[k] \in Exporter!Names
  /\ \A j, k \in 1 .. 4 : Exporter!Artifacts[j] = Exporter!Artifacts[k] => j = k
  /\ "run_manifest" \in Exporter!Names /\ Exporter!ReadOf("run_manifest") \in 1 .. 4
  /\ Exporter!Artifacts[Exporter!ReadOf("run_manifest")] = "run_manifest"
<1>1. Len(Exporter!Artifacts) = 4 /\ DOMAIN Exporter!Artifacts = 1 .. 4
  BY DEF Exporter!Artifacts
<1>2. \A k \in 1 .. 4 : Exporter!Artifacts[k] \in Exporter!Names
  BY <1>1 DEF Exporter!Names
<1>3. Exporter!Artifacts[3] = "run_manifest" /\ 3 \in 1 .. 4
  BY DEF Exporter!Artifacts
<1>4. \A j, k \in 1 .. 4 : Exporter!Artifacts[j] = Exporter!Artifacts[k] => j = k
  BY DEF Exporter!Artifacts
<1>5. /\ Exporter!ReadOf("run_manifest") \in 1 .. 4
      /\ Exporter!Artifacts[Exporter!ReadOf("run_manifest")] = "run_manifest"
  BY <1>1, <1>3 DEF Exporter!ReadOf
<1> QED
  BY <1>1, <1>2, <1>3, <1>4, <1>5

\* What a file can hold: origins that are one of three, and one at least if it is the
\* admission results or the manifest and valid.
LEMMA ContentFacts ==
  ASSUME NEW n, NEW c \in Exporter!Contents(n)
  PROVE  /\ c.origins \subseteq Exporter!Origins /\ c.up \in BOOLEAN
         /\ n \notin {"runtime_events", "security_report"} /\ Exporter!Valid(c) =>
              \E o \in c.origins : TRUE
<1>1. Exporter!OriginsOf(n) \subseteq SUBSET Exporter!Origins
  BY DEF Exporter!OriginsOf
<1>2. CASE \E s \in {"missing", "corrupt", "alien"} : c = Exporter!Artifact(s, {}, FALSE)
  BY <1>2 DEF Exporter!Artifact, Exporter!Valid
<1>3. CASE \E os \in Exporter!OriginsOf(n) : c = Exporter!Artifact("ok", os, FALSE)
  <2>1. PICK os \in Exporter!OriginsOf(n) : c = Exporter!Artifact("ok", os, FALSE)
    BY <1>3
  <2>2. c.origins = os /\ c.up = FALSE
    BY <2>1 DEF Exporter!Artifact
  <2>3. n \notin {"runtime_events", "security_report"} => \E o \in Exporter!Origins : os = {o}
    BY <2>1 DEF Exporter!OriginsOf
  <2> QED
    BY <1>1, <2>1, <2>2, <2>3
<1>4. CASE c = Exporter!Artifact("ok", {"live"}, TRUE)
  BY <1>4 DEF Exporter!Artifact, Exporter!Origins
<1> QED
  BY <1>2, <1>3, <1>4 DEF Exporter!Contents

LEMMA MissingIsContent ==
  \A n \in Exporter!Names :
    {Exporter!Missing, Exporter!Artifact("ok", {"live"}, FALSE)} \subseteq Exporter!Contents(n)
<1>1. \A n : {"live"} \in Exporter!OriginsOf(n)
  BY DEF Exporter!OriginsOf, Exporter!Origins
<1> QED
  BY <1>1 DEF Exporter!Contents, Exporter!Missing

\* What the four reads are.
ReadsInPlace ==
  /\ read \in Seq(AllContents) /\ Len(read) = 4
  /\ \A k \in DOMAIN read : read[k] \in Exporter!Contents(Exporter!Artifacts[k])

\* What a scrape answers after four reads.
LEMMA RenderFacts ==
  ASSUME ReadsInPlace, NEW b, b = Exporter!Render
  PROVE  /\ b.kind = "full" /\ b.valid \subseteq Exporter!Names /\ b.up \in BOOLEAN
         /\ b.series \subseteq Exporter!Names \X {"live", "demo", "unknown"}
         /\ \A s \in b.series : s[1] \in b.valid \/ s = <<"run_manifest", "unknown">>
         /\ b.up => "run_manifest" \in b.valid
         /\ \A n \in b.valid \ {"runtime_events", "security_report"} : \E s \in b.series : s[1] = n
         /\ \A k \in 1 .. 4, o \in {"live", "demo"} :
              <<Exporter!Artifacts[k], o>> \in b.series
                <=> Exporter!Valid(read[k]) /\ o \in read[k].origins
<1>1. PICK V : V = Exporter!ValidReads
  OBVIOUS
<1>2. V = {k \in 1 .. 4 : Exporter!Valid(read[k])}
  BY <1>1, ArtifactFacts DEF Exporter!ValidReads
<1>3. \A k \in 1 .. 4 : read[k] \in Exporter!Contents(Exporter!Artifacts[k])
  <2>1. DOMAIN read = 1 .. 4
    BY ListDomain DEF ReadsInPlace
  <2> QED
    BY <2>1 DEF ReadsInPlace
<1>4. \A k \in 1 .. 4 : read[k].origins \subseteq Exporter!Origins /\ read[k].up \in BOOLEAN
  BY <1>3, ContentFacts
<1>5. /\ b.kind = "full" /\ b.valid = {Exporter!Artifacts[k] : k \in V}
      /\ b.series = Exporter!Unread \cup UNION {Exporter!Series(k) : k \in V}
      /\ b.up = (Exporter!Valid(Exporter!Manifest) /\ Exporter!Manifest.up)
  BY <1>1 DEF Exporter!Render
<1>6. \A s \in b.series :
        \/ \E k \in V : \E o \in read[k].origins : s = <<Exporter!Artifacts[k], Exporter!Label(o)>>
        \/ s = <<"run_manifest", "unknown">>
  <2>1. \A s \in Exporter!Unread : s = <<"run_manifest", "unknown">>
    BY DEF Exporter!Unread
  <2>2. \A k \in V : \A s \in Exporter!Series(k) :
          \E o \in read[k].origins : s = <<Exporter!Artifacts[k], Exporter!Label(o)>>
    BY DEF Exporter!Series
  <2> QED
    BY <1>5, <2>1, <2>2
<1>7. ASSUME NEW k \in V, NEW o \in read[k].origins
      PROVE  <<Exporter!Artifacts[k], Exporter!Label(o)>> \in b.series
  <2>1. <<Exporter!Artifacts[k], Exporter!Label(o)>> \in Exporter!Series(k)
    BY DEF Exporter!Series
  <2> QED
    BY <1>5, <2>1
<1>8. /\ \A o \in Exporter!Origins : Exporter!Label(o) \in {"live", "demo", "unknown"}
      /\ \A o \in Exporter!Origins, x \in {"live", "demo"} : Exporter!Label(o) = x <=> o = x
  BY DEF Exporter!Origins, Exporter!Label
<1>9. b.valid \subseteq Exporter!Names
  BY <1>2, <1>5, ArtifactFacts
<1>10. ASSUME NEW s \in b.series
       PROVE  /\ s \in Exporter!Names \X {"live", "demo", "unknown"}
              /\ s[1] \in b.valid \/ s = <<"run_manifest", "unknown">>
  <2>1. CASE s = <<"run_manifest", "unknown">>
    BY <2>1, ArtifactFacts
  <2>2. CASE \E k \in V : \E o \in read[k].origins : s = <<Exporter!Artifacts[k], Exporter!Label(o)>>
    <3>1. PICK k \in V : \E o \in read[k].origins : s = <<Exporter!Artifacts[k], Exporter!Label(o)>>
      BY <2>2
    <3>2. PICK o \in read[k].origins : s = <<Exporter!Artifacts[k], Exporter!Label(o)>>
      BY <3>1
    <3>3. k \in 1 .. 4 /\ o \in Exporter!Origins /\ Exporter!Artifacts[k] \in b.valid
      BY <1>2, <1>4, <1>5, <3>2
    <3> QED
      BY <1>8, <3>2, <3>3, ArtifactFacts
  <2> QED
    BY <1>6, <2>1, <2>2
<1>11. b.up \in BOOLEAN /\ (b.up => "run_manifest" \in b.valid)
  <2>1. PICK m : m = Exporter!ReadOf("run_manifest")
    OBVIOUS
  <2>2. m \in 1 .. 4 /\ Exporter!Artifacts[m] = "run_manifest" /\ Exporter!Manifest = read[m]
    BY <2>1, ArtifactFacts DEF Exporter!Manifest
  <2>3. Exporter!Valid(read[m]) => "run_manifest" \in b.valid
    BY <1>2, <1>5, <2>2
  <2> QED
    BY <1>5, <2>2, <2>3
<1>12. ASSUME NEW n \in b.valid \ {"runtime_events", "security_report"}
       PROVE  \E s \in b.series : s[1] = n
  <2>1. PICK k \in V : n = Exporter!Artifacts[k]
    BY <1>5
  <2>2. \E o \in read[k].origins : TRUE
    BY <1>2, <1>3, <2>1, ContentFacts
  <2>3. PICK o \in read[k].origins : TRUE
    BY <2>2
  <2>4. <<n, Exporter!Label(o)>> \in b.series
    BY <1>7, <2>1
  <2>5. <<n, Exporter!Label(o)>>[1] = n
    OBVIOUS
  <2> QED
    BY <2>4, <2>5
<1>13. ASSUME NEW k \in 1 .. 4, NEW x \in {"live", "demo"}
       PROVE  <<Exporter!Artifacts[k], x>> \in b.series
                <=> Exporter!Valid(read[k]) /\ x \in read[k].origins
  <2>1. ASSUME Exporter!Valid(read[k]), x \in read[k].origins
        PROVE  <<Exporter!Artifacts[k], x>> \in b.series
    <3>1. k \in V /\ Exporter!Label(x) = x
      BY <1>2, <2>1 DEF Exporter!Label
    <3> QED
      BY <1>7, <2>1, <3>1
  <2>2. ASSUME <<Exporter!Artifacts[k], x>> \in b.series
        PROVE  Exporter!Valid(read[k]) /\ x \in read[k].origins
    <3>1. x # "unknown"
      OBVIOUS
    <3>2. PICK j \in V : \E o \in read[j].origins :
                <<Exporter!Artifacts[k], x>> = <<Exporter!Artifacts[j], Exporter!Label(o)>>
      BY <1>6, <2>2, <3>1
    <3>3. PICK o \in read[j].origins :
                <<Exporter!Artifacts[k], x>> = <<Exporter!Artifacts[j], Exporter!Label(o)>>
      BY <3>2
    <3>4. Exporter!Artifacts[k] = Exporter!Artifacts[j] /\ Exporter!Label(o) = x /\ j \in 1 .. 4
      BY <1>2, <3>3
    <3>5. j = k
      BY <3>4, ArtifactFacts
    <3>6. o = x
      BY <1>4, <1>8, <3>3, <3>4
    <3> QED
      BY <1>2, <3>2, <3>3, <3>5, <3>6
  <2> QED
    BY <2>1, <2>2
<1> QED
  BY <1>5, <1>9, <1>10, <1>11, <1>12, <1>13

LEMMA ScrapeStarts == Exporter!Init => ScrapeInv
<1> SUFFICES ASSUME Exporter!Init PROVE ScrapeInv
  OBVIOUS
<1>1. /\ read = <<>> /\ rewrites = 0 /\ body = Exporter!NoBody
      /\ art \in [Exporter!Names -> {Exporter!Missing, Exporter!Artifact("ok", {"live"}, FALSE)}]
  BY DEF Exporter!Init
<1>2. DOMAIN art = Exporter!Names /\ \A n \in Exporter!Names : art[n] \in Exporter!Contents(n)
  BY <1>1, MissingIsContent
<1>3. read \in Seq(AllContents) /\ Len(read) = 0 /\ DOMAIN read = {}
  BY <1>1
<1>4. body.kind = "none" /\ body.valid = {} /\ body.series = {} /\ body.up = FALSE
  BY <1>1 DEF Exporter!NoBody
<1> QED
  <2>1. Exporter!TypeOK
    <3>1. rewrites \in 0 .. MaxRewrites
      BY <1>1, DomainAssumptions DEF Exporter!ExporterAssumption
    <3>2. Len(read) <= Len(Exporter!Artifacts)
      BY <1>3, ArtifactFacts
    <3>3. \A k \in DOMAIN read : read[k] \in Exporter!Contents(Exporter!Artifacts[k])
      BY <1>3
    <3> QED
      BY <1>2, <1>4, <3>1, <3>2, <3>3 DEF Exporter!TypeOK
  <2>2. Exporter!MissingIsNotZero
    BY <1>4 DEF Exporter!MissingIsNotZero
  <2> QED
    BY <1>3, <2>1, <2>2 DEF ScrapeInv

\* A scrape that ends answers with nothing, or with what it read.
LEMMA FinishFacts ==
  ASSUME ScrapeInv, Exporter!Finish
  PROVE  /\ ReadsInPlace
         /\ body' = [Exporter!NoBody EXCEPT !.kind = "empty"] \/ body' = Exporter!Render
BY ArtifactFacts DEF Exporter!Finish, ScrapeInv, ReadsInPlace, Exporter!TypeOK

LEMMA ScrapeStep ==
  ASSUME ScrapeInv, [Exporter!Next]_exporterVars
  PROVE  ScrapeInv'
<1>1. /\ DOMAIN art = Exporter!Names /\ \A n \in Exporter!Names : art[n] \in Exporter!Contents(n)
      /\ rewrites \in 0 .. MaxRewrites
      /\ read \in Seq(AllContents) /\ Len(read) <= 4 /\ MaxRewrites \in Nat
      /\ \A k \in DOMAIN read : read[k] \in Exporter!Contents(Exporter!Artifacts[k])
  BY ArtifactFacts, DomainAssumptions DEF ScrapeInv, Exporter!TypeOK, Exporter!ExporterAssumption
<1>2. CASE UNCHANGED exporterVars
  BY <1>2 DEF exporterVars, ScrapeInv, Exporter!TypeOK, Exporter!MissingIsNotZero
<1>3. ASSUME NEW n \in Exporter!Names, NEW c \in Exporter!Contents(n), Exporter!Rewrite(n, c)
      PROVE  ScrapeInv'
  <2>1. /\ rewrites' = rewrites + 1 /\ rewrites < MaxRewrites /\ art' = [art EXCEPT ![n] = c]
        /\ read' = read /\ body' = body
    BY <1>3 DEF Exporter!Rewrite
  <2>2. rewrites' \in 0 .. MaxRewrites
    BY <1>1, <2>1
  <2>3. DOMAIN art' = Exporter!Names /\ \A x \in Exporter!Names : art'[x] \in Exporter!Contents(x)
    BY <1>1, <2>1
  <2> QED
    BY <2>1, <2>2, <2>3 DEF ScrapeInv, Exporter!TypeOK, Exporter!MissingIsNotZero
<1>4. CASE Exporter!ReadNext
  <2>1. PICK k : k = Len(read) + 1
    OBVIOUS
  <2>2. /\ Len(read) < 4 /\ read' = Append(read, art[Exporter!Artifacts[k]])
        /\ art' = art /\ rewrites' = rewrites /\ body' = body
    BY <1>4, <2>1, ArtifactFacts DEF Exporter!ReadNext
  <2>3. k \in 1 .. 4
    BY <1>1, <2>1, <2>2
  <2>4. PICK a : a = art[Exporter!Artifacts[k]]
    OBVIOUS
  <2>5. a \in Exporter!Contents(Exporter!Artifacts[k]) /\ a \in AllContents
    BY <1>1, <2>3, <2>4, ArtifactFacts DEF AllContents
  <2>6. read' = Append(read, a)
    BY <2>2, <2>4
  <2>7. read' \in Seq(AllContents) /\ Len(read') <= 4
    BY <1>1, <2>2, <2>5, <2>6
  <2>8. ASSUME NEW j \in DOMAIN read'
        PROVE  read'[j] \in Exporter!Contents(Exporter!Artifacts[j])
    <3>1. DOMAIN read' = 1 .. k /\ DOMAIN read = 1 .. Len(read) /\ k \in Nat
      BY <1>1, <2>1, <2>5, <2>6, <2>7, ListDomain
    <3>2. CASE j = k
      BY <1>1, <2>1, <2>5, <2>6, <3>2
    <3>3. CASE j \in DOMAIN read
      BY <1>1, <2>5, <2>6, <3>3
    <3> QED
      BY <2>1, <3>1, <3>2, <3>3
  <2> QED
    BY <2>2, <2>7, <2>8, ArtifactFacts DEF ScrapeInv, Exporter!TypeOK, Exporter!MissingIsNotZero
<1>5. CASE Exporter!Finish
  <2>1. read' = <<>> /\ art' = art /\ rewrites' = rewrites
    BY <1>5 DEF Exporter!Finish
  <2>2. /\ body'.kind \in {"none", "empty", "full"} /\ body'.valid \subseteq Exporter!Names
        /\ body'.series \subseteq Exporter!Names \X {"live", "demo", "unknown"}
        /\ body'.up \in BOOLEAN
        /\ Exporter!MissingIsNotZero'
    <3>1. CASE body' = [Exporter!NoBody EXCEPT !.kind = "empty"]
      <4>1. body'.kind = "empty" /\ body'.valid = {} /\ body'.series = {} /\ body'.up = FALSE
        BY <3>1 DEF Exporter!NoBody
      <4> QED
        BY <4>1 DEF Exporter!MissingIsNotZero
    <3>2. CASE body' = Exporter!Render
      BY <1>5, <3>2, FinishFacts, RenderFacts DEF Exporter!MissingIsNotZero
    <3> QED
      BY <1>5, <3>1, <3>2, FinishFacts
  <2>3. read' \in Seq(AllContents) /\ Len(read') = 0 /\ DOMAIN read' = {}
    BY <2>1
  <2> QED
    BY <1>1, <2>1, <2>2, <2>3, ArtifactFacts DEF ScrapeInv, Exporter!TypeOK
<1> QED
  BY <1>2, <1>3, <1>4, <1>5 DEF Exporter!Next

LEMMA ScrapeRuns ==
  /\ DomainInit => Exporter!Init
  /\ [DomainNext]_domainVars => [Exporter!Next]_exporterVars
BY DEF DomainInit, DomainNext, Correlating, Analyzing, Searching, Storing, Scraping, domainVars

LEMMA ScrapeHolds == DomainSpec => []ScrapeInv
BY ScrapeRuns, ScrapeStarts, ScrapeStep, PTL DEF DomainSpec

\* Whatever is rewritten between two reads of a scrape: no series of an artifact that it
\* does not call valid, but for those of the manifest, which stay, of unknown origin and
\* with a collector that is not up (metrics_exporter.py:10); and under live and demo
\* exactly the artifacts it read as such (metrics_exporter.py:38).
THEOREM ScrapesAreHonest == DomainSpec => ScrapeIsHonest
<1>1. ScrapeInv => Exporter!MissingIsNotZero
  BY DEF ScrapeInv
<1>2. ASSUME ScrapeInv, [Exporter!Next]_exporterVars
      PROVE  [Exporter!ShowsWhatItRead]_exporterVars
  <2> SUFFICES ASSUME read # <<>>, read' = <<>>, body'.kind = "full"
               PROVE  \A k \in 1 .. 4, o \in {"live", "demo"} :
                        <<Exporter!Artifacts[k], o>> \in body'.series
                          <=> Exporter!Valid(read[k]) /\ o \in read[k].origins
    BY ArtifactFacts DEF Exporter!ShowsWhatItRead
  <2>1. Exporter!Finish
    <3>1. ~Exporter!ReadNext
      <4>1. read \in Seq(AllContents)
        BY <1>2 DEF ScrapeInv
      <4>2. \A a : Append(read, a) # <<>>
        BY <4>1
      <4> QED
        BY <4>2 DEF Exporter!ReadNext
    <3> QED
      BY <1>2, <3>1 DEF exporterVars, Exporter!Next, Exporter!Rewrite
  <2>2. body' = Exporter!Render
    BY <1>2, <2>1, FinishFacts DEF Exporter!NoBody
  <2> QED
    BY <1>2, <2>1, <2>2, FinishFacts, RenderFacts
<1> QED
  BY <1>1, <1>2, ScrapeRuns, ScrapeHolds, PTL
     DEF DomainSpec, ScrapeIsHonest, Exporter!OriginsAsRead, exporterVars, Exporter!exporterVars
----------------------------------------------------------------------------------
(* The types *)

LEMMA GraphTypes == DomainSpec => []Graph!TypeOK
<1>1. DomainInit => Graph!TypeOK
  <2> SUFFICES ASSUME DomainInit PROVE Graph!TypeOK
    OBVIOUS
  <2>1. strict \in BOOLEAN /\ nodes = {} /\ edges = <<>> /\ refused = FALSE
    BY DEF DomainInit, Graph!Init
  <2>2. edges \in Seq(NodeIds \X NodeIds) /\ Len(edges) <= MaxEdges
    BY <2>1, DomainAssumptions DEF Graph!GraphAssumption
  <2> QED
    BY <2>1, <2>2 DEF Graph!TypeOK
<1>2. ASSUME Graph!TypeOK, [Graph!Next]_graphVars PROVE Graph!TypeOK'
  <2>1. edges \in Seq(NodeIds \X NodeIds) /\ Len(edges) <= MaxEdges /\ MaxEdges \in Nat
    BY <1>2, DomainAssumptions DEF Graph!TypeOK, Graph!GraphAssumption
  <2>2. CASE UNCHANGED graphVars
    BY <1>2, <2>2 DEF graphVars, Graph!TypeOK
  <2>3. ASSUME NEW x \in NodeIds, Graph!AddNode(x) PROVE Graph!TypeOK'
    BY <1>2, <2>3 DEF Graph!TypeOK, Graph!AddNode
  <2>4. ASSUME NEW s \in NodeIds, NEW t \in NodeIds, Graph!AddEdge(s, t) PROVE Graph!TypeOK'
    <3>1. PICK T, e : T = NodeIds \X NodeIds /\ e = <<s, t>> /\ e \in T
      <4>1. <<s, t>> \in NodeIds \X NodeIds
        OBVIOUS
      <4> QED
        BY <4>1, Zenon
    <3>2. Len(edges) < MaxEdges /\ (edges' = edges \/ edges' = Append(edges, e))
      BY <2>4, <3>1 DEF Graph!AddEdge
    <3>3. edges \in Seq(T)
      BY <2>1, <3>1
    <3>4. edges' \in Seq(T) /\ Len(edges') <= MaxEdges
      BY <2>1, <3>1, <3>2, <3>3
    <3>5. nodes' \subseteq NodeIds /\ strict' \in BOOLEAN
      BY <1>2, <2>4 DEF Graph!TypeOK, Graph!AddEdge
    <3>6. refused' \in BOOLEAN
      BY <2>4, Zenon DEF Graph!AddEdge, Graph!Known
    <3> QED
      BY <3>1, <3>4, <3>5, <3>6 DEF Graph!TypeOK
  <2> QED
    BY <1>2, <2>2, <2>3, <2>4 DEF Graph!Next
<1>3. [DomainNext]_domainVars => [Graph!Next]_graphVars
  BY DEF DomainNext, Correlating, Analyzing, Searching, Storing, Scraping, domainVars
<1> QED
  BY <1>1, <1>2, <1>3, PTL DEF DomainSpec

LEMMA CorrelationTypes == CorrelationInv => TypeOK
<1> SUFFICES ASSUME CorrelationInv PROVE TypeOK
  OBVIOUS
<1>1. PICK registered : clusters = CorrelateAll(registered, Upto(known))
  BY DEF CorrelationInv, ClustersInv
<1>2. \A c \in clusters : EventsOf(c) # {}
  BY <1>1, CorrelateFacts
<1>3. Range(events) = {events[k] : k \in 1 .. Len(events)}
  BY ListDomain DEF CorrelationInv, EventsInv
<1>4. seen = {e.id : e \in Range(events)}
  BY <1>3 DEF CorrelationInv, EventsInv
<1> QED
  BY <1>2, <1>4 DEF TypeOK, CorrelationInv, EventsInv, ClustersInv, IncidentsInv

LEMMA PrincipalTypes == PrincipalInv => Analysis!TypeOK
BY DEF PrincipalInv, Analysis!TypeOK, Analysis!Analyze

\* The type invariant of every part, for any findings, policies, graphs and incidents.
THEOREM DomainTypesHold == DomainSpec => []DomainTypes
<1>1. StoredInv => Store!StoreTypeOK
  BY DEF StoredInv
<1>2. CorrelationInv /\ PrincipalInv /\ Graph!TypeOK /\ StoredInv /\ ScrapeInv => DomainTypes
  BY <1>1, CorrelationTypes, PrincipalTypes DEF DomainTypes, ScrapeInv
<1> QED
  BY <1>2, CorrelationHolds, PrincipalHolds, GraphTypes, StoreHolds, ScrapeHolds, PTL
----------------------------------------------------------------------------------
(* The chain of a cluster *)

\* A sequence with the elements of a set and no other.
Lists(s, S) ==
  /\ Cardinality(S) \in Nat /\ DOMAIN s = 1 .. Cardinality(S)
  /\ \A k \in 1 .. Cardinality(S) : s[k] \in S
  /\ \A e \in S : \E k \in 1 .. Cardinality(S) : e = s[k]

\* An injection of a finite set into as many places fills each of them.
LEMMA ArrangedFacts ==
  ASSUME NEW S, IsFiniteSet(S), NEW place \in [S -> 1 .. Cardinality(S)],
         \A e, f \in S : place[e] = place[f] => e = f,
         NEW s, s = Arranged(place)
  PROVE  Lists(s, S) /\ \A k \in 1 .. Cardinality(S) : place[s[k]] = k
<1>1. PICK n : n = Cardinality(S)
  OBVIOUS
<1>2. n \in Nat /\ IsFiniteSet(1 .. n)
  BY <1>1, FS_CardinalityType, FS_Interval
<1>3. Cardinality(1 .. n) = n
  <2>1. Cardinality(1 .. n) = IF 1 > n THEN 0 ELSE n - 1 + 1
    BY <1>2, FS_Interval
  <2> QED
    BY <1>2, <2>1
<1>4. place \in Injection(S, 1 .. n)
  BY <1>1 DEF Injection, IsInjective
<1>5. place \in Surjection(S, 1 .. n)
  BY <1>1, <1>2, <1>3, <1>4, FS_Injection
<1>6. \A k \in 1 .. n : \E e \in S : place[e] = k
  BY <1>5 DEF Surjection
<1>7. Cardinality(DOMAIN place) = n /\ DOMAIN place = S
  BY <1>1
<1>8. DOMAIN s = 1 .. n /\ \A k \in 1 .. n : s[k] = CHOOSE e \in S : place[e] = k
  BY <1>7 DEF Arranged
<1>9. \A k \in 1 .. n : s[k] \in S /\ place[s[k]] = k
  BY <1>6, <1>8
<1>10. \A e \in S : place[e] \in 1 .. n /\ e = s[place[e]]
  BY <1>1, <1>9
<1> QED
  BY <1>1, <1>2, <1>8, <1>9, <1>10 DEF Lists

\* The elements below each element, of which one has always more than another, arrange a set.
LEMMA RankedFacts ==
  ASSUME NEW S, IsFiniteSet(S), NEW below \in [S -> SUBSET S],
         \A e \in S : e \in below[e],
         \A e, f \in S : e # f =>
           (below[e] \subseteq below[f] /\ f \notin below[e])
           \/ (below[f] \subseteq below[e] /\ e \notin below[f]),
         NEW s, s = Arranged([e \in S |-> Cardinality(below[e])])
  PROVE  /\ Lists(s, S)
         /\ \A j, k \in 1 .. Cardinality(S) : j < k => s[j] # s[k] /\ s[j] \in below[s[k]]
<1>1. PICK place : place = [e \in S |-> Cardinality(below[e])]
  OBVIOUS
<1>2. \A e \in S : /\ IsFiniteSet(below[e]) /\ place[e] = Cardinality(below[e])
                   /\ place[e] \in 1 .. Cardinality(S)
  <2> SUFFICES ASSUME NEW e \in S
               PROVE  /\ IsFiniteSet(below[e]) /\ place[e] = Cardinality(below[e])
                      /\ place[e] \in 1 .. Cardinality(S)
    OBVIOUS
  <2>1. IsFiniteSet(below[e]) /\ Cardinality(below[e]) <= Cardinality(S) /\ e \in below[e]
    BY FS_Subset
  <2>2. Cardinality(below[e]) \in Nat /\ Cardinality(below[e]) # 0 /\ Cardinality(S) \in Nat
    BY <2>1, FS_CardinalityType, FS_EmptySet
  <2> QED
    BY <1>1, <2>1, <2>2
<1>3. ASSUME NEW e \in S, NEW f \in S, below[e] \subseteq below[f], f \notin below[e]
      PROVE  place[e] < place[f]
  <2>1. /\ Cardinality(below[e]) <= Cardinality(below[f])
        /\ Cardinality(below[e]) # Cardinality(below[f])
    BY <1>2, <1>3, FS_Subset
  <2> QED
    BY <1>2, <2>1
<1>4. \A e, f \in S : place[e] = place[f] => e = f
  <2>1. \A e \in S : place[e] \in Nat
    BY <1>2, FS_CardinalityType
  <2> QED
    BY <1>3, <2>1
<1>5. place \in [S -> 1 .. Cardinality(S)]
  BY <1>1, <1>2
<1>6. Lists(s, S) /\ \A k \in 1 .. Cardinality(S) : place[s[k]] = k
  BY <1>1, <1>4, <1>5, ArrangedFacts
<1>7. ASSUME NEW j \in 1 .. Cardinality(S), NEW k \in 1 .. Cardinality(S), j < k
      PROVE  s[j] # s[k] /\ s[j] \in below[s[k]]
  <2>1. s[j] \in S /\ s[k] \in S /\ place[s[j]] = j /\ place[s[k]] = k
    BY <1>6 DEF Lists
  <2>2. s[j] # s[k] /\ ~(k < j)
    BY <1>7, <2>1
  <2>3. below[s[j]] \subseteq below[s[k]]
    BY <1>3, <2>1, <2>2
  <2> QED
    BY <2>1, <2>2, <2>3
<1> QED
  BY <1>6, <1>7

\* Events, each with an id of its own and a time.
Timed(S) ==
  /\ IsFiniteSet(S) /\ \A e \in S : e.id \in Nat /\ e.at \in Nat
  /\ \A e, f \in S : e.id = f.id => e = f

LEMMA AsIngestedFacts ==
  ASSUME NEW S, Timed(S), NEW s, s = AsIngested(S)
  PROVE  Lists(s, S) /\ \A j, k \in 1 .. Cardinality(S) : j < k => s[j] # s[k]
<1>1. PICK below : below = [e \in S |-> {x \in S : x.id <= e.id}]
  OBVIOUS
<1>2. \A e \in S : below[e] = {x \in S : x.id <= e.id} /\ e \in below[e]
  BY <1>1 DEF Timed
<1>3. \A e, f \in S : e # f =>
        (below[e] \subseteq below[f] /\ f \notin below[e])
        \/ (below[f] \subseteq below[e] /\ e \notin below[f])
  BY <1>2 DEF Timed
<1>4. s = Arranged([e \in S |-> Cardinality(below[e])])
  <2>1. [e \in S |-> Cardinality({x \in S : x.id <= e.id})] = [e \in S |-> Cardinality(below[e])]
    BY <1>2
  <2> QED
    BY <2>1 DEF AsIngested
<1>5. below \in [S -> SUBSET S] /\ IsFiniteSet(S)
  BY <1>1 DEF Timed
<1> QED
  BY <1>2, <1>3, <1>4, <1>5, RankedFacts

LEMMA ByTimeFacts ==
  ASSUME NEW S, Timed(S), NEW s, s = ByTime(S)
  PROVE  /\ Lists(s, S)
         /\ \A j, k \in 1 .. Cardinality(S) : j < k => s[j] # s[k] /\ s[j].at <= s[k].at
<1>1. PICK below : below = [e \in S |-> {x \in S : x.at < e.at \/ (x.at = e.at /\ x.id <= e.id)}]
  OBVIOUS
<1>2. \A e \in S : /\ below[e] = {x \in S : x.at < e.at \/ (x.at = e.at /\ x.id <= e.id)}
                   /\ e \in below[e]
  BY <1>1 DEF Timed
<1>3. \A e, f \in S : e # f =>
        (below[e] \subseteq below[f] /\ f \notin below[e])
        \/ (below[f] \subseteq below[e] /\ e \notin below[f])
  BY <1>2 DEF Timed
<1>4. s = Arranged([e \in S |-> Cardinality(below[e])])
  <2>1. [e \in S |-> Cardinality({x \in S : x.at < e.at \/ (x.at = e.at /\ x.id <= e.id)})]
          = [e \in S |-> Cardinality(below[e])]
    BY <1>2
  <2> QED
    BY <2>1 DEF ByTime
<1>5. below \in [S -> SUBSET S] /\ IsFiniteSet(S)
  BY <1>1 DEF Timed
<1>6. /\ Lists(s, S)
      /\ \A j, k \in 1 .. Cardinality(S) : j < k => s[j] # s[k] /\ s[j] \in below[s[k]]
  BY <1>2, <1>3, <1>4, <1>5, RankedFacts
<1>7. ASSUME NEW j \in 1 .. Cardinality(S), NEW k \in 1 .. Cardinality(S), j < k
      PROVE  s[j].at <= s[k].at
  <2>1. s[j] \in below[s[k]] /\ s[k] \in S
    BY <1>6, <1>7 DEF Lists
  <2> QED
    BY <1>2, <2>1 DEF Timed
<1> QED
  BY <1>6, <1>7

Links == [domain : {"CLOUD_IAM", "EKS_ACCESS_TRANSITION", "K8S_ADMISSION", "K8S_RUNTIME"}, id : Nat]

\* The stages of one domain, or of more: of different events, and each before the next.
InOrder(s) ==
  /\ s \in Seq(Links)
  /\ \A j, k \in 1 .. Len(s) : j < k => s[j].id # s[k].id /\ Precedes(s[j], s[k])

Names(s) == {s[k].id : k \in 1 .. Len(s)}
Domains(s) == {s[k].domain : k \in 1 .. Len(s)}

\* Two sequences in order are so together when all of the first comes before the second.
LEMMA JoinedInOrder ==
  ASSUME NEW s, NEW t, InOrder(s), InOrder(t), Names(s) \cap Names(t) = {},
         \A x \in Domains(s), y \in Domains(t) : Rank[x] < Rank[y]
  PROVE  /\ InOrder(s \o t) /\ Names(s \o t) = Names(s) \cup Names(t)
         /\ Domains(s \o t) = Domains(s) \cup Domains(t)
<1>1. /\ s \in Seq(Links) /\ t \in Seq(Links) /\ Len(s) \in Nat /\ Len(t) \in Nat
      /\ s \o t \in Seq(Links)
  BY DEF InOrder
<1>2. PICK u : u = s \o t
  OBVIOUS
<1>3. PICK n \in Nat, m \in Nat : n = Len(s) /\ m = Len(t)
  BY <1>1
<1>4. /\ u \in Seq(Links) /\ Len(u) = n + m
      /\ \A k \in 1 .. n : u[k] = s[k]
      /\ \A k \in 1 .. m : u[n + k] = t[k]
  BY <1>1, <1>2, <1>3
<1>5. \A k \in 1 .. n + m : k \in 1 .. n \/ \E i \in 1 .. m : k = n + i
  <2> SUFFICES ASSUME NEW k \in 1 .. n + m, ~(k \in 1 .. n) PROVE \E i \in 1 .. m : k = n + i
    OBVIOUS
  <2>1. k - n \in 1 .. m /\ k = n + (k - n)
    OBVIOUS
  <2> QED
    BY <2>1
<1>6. /\ \A k \in 1 .. n : k \in 1 .. n + m
      /\ \A k \in 1 .. m : n + k \in 1 .. n + m
  OBVIOUS
<1>7. Names(u) = Names(s) \cup Names(t) /\ Domains(u) = Domains(s) \cup Domains(t)
  <2>1. \A k \in 1 .. n + m : (\E i \in 1 .. n : u[k] = s[i]) \/ (\E i \in 1 .. m : u[k] = t[i])
    BY <1>4, <1>5
  <2>2. /\ \A i \in 1 .. n : \E k \in 1 .. n + m : u[k] = s[i]
        /\ \A i \in 1 .. m : \E k \in 1 .. n + m : u[k] = t[i]
    BY <1>4, <1>6
  <2>3. Names(u) = Names(s) \cup Names(t)
    <3>1. /\ Names(u) = {u[k].id : k \in 1 .. n + m} /\ Names(s) = {s[i].id : i \in 1 .. n}
          /\ Names(t) = {t[i].id : i \in 1 .. m}
      BY <1>3, <1>4 DEF Names
    <3>2. ASSUME NEW x \in Names(u) PROVE x \in Names(s) \cup Names(t)
      BY <2>1, <3>1
    <3>3. ASSUME NEW x \in Names(s) \cup Names(t) PROVE x \in Names(u)
      BY <2>2, <3>1
    <3> QED
      BY <3>2, <3>3
  <2>4. Domains(u) = Domains(s) \cup Domains(t)
    <3>1. /\ Domains(u) = {u[k].domain : k \in 1 .. n + m} /\ Domains(s) = {s[i].domain : i \in 1 .. n}
          /\ Domains(t) = {t[i].domain : i \in 1 .. m}
      BY <1>3, <1>4 DEF Domains
    <3>2. ASSUME NEW x \in Domains(u) PROVE x \in Domains(s) \cup Domains(t)
      BY <2>1, <3>1
    <3>3. ASSUME NEW x \in Domains(s) \cup Domains(t) PROVE x \in Domains(u)
      BY <2>2, <3>1
    <3> QED
      BY <3>2, <3>3
  <2> QED
    BY <2>3, <2>4
<1>8. ASSUME NEW j \in 1 .. n + m, NEW k \in 1 .. n + m, j < k
      PROVE  u[j].id # u[k].id /\ Precedes(u[j], u[k])
  <2>1. CASE k \in 1 .. n
    <3>1. j \in 1 .. n
      BY <1>8, <2>1
    <3> QED
      BY <1>3, <1>4, <1>8, <2>1, <3>1 DEF InOrder
  <2>2. CASE j \in 1 .. n /\ ~(k \in 1 .. n)
    <3>1. PICK i \in 1 .. m : k = n + i
      BY <1>5, <2>2
    <3>2. u[j] = s[j] /\ u[k] = t[i]
      BY <1>4, <2>2, <3>1
    <3>3. s[j].id \in Names(s) /\ t[i].id \in Names(t) /\ s[j].domain \in Domains(s)
          /\ t[i].domain \in Domains(t)
      BY <1>3, <2>2, <3>1 DEF Names, Domains
    <3> QED
      BY <3>2, <3>3 DEF Precedes
  <2>3. CASE ~(j \in 1 .. n) /\ ~(k \in 1 .. n)
    <3>1. PICK i \in 1 .. m : j = n + i
      BY <1>5, <2>3
    <3>2. PICK l \in 1 .. m : k = n + l
      BY <1>5, <2>3
    <3>3. i < l
      BY <1>8, <3>1, <3>2
    <3>4. u[j] = t[i] /\ u[k] = t[l]
      BY <1>4, <3>1, <3>2
    <3> QED
      BY <1>3, <3>3, <3>4 DEF InOrder
  <2> QED
    BY <1>8, <2>1, <2>2, <2>3
<1> QED
  BY <1>2, <1>4, <1>7, <1>8 DEF InOrder

\* What is ingested has an id that is its place, and times.
LEMMA TimedEvents ==
  ASSUME EventsInv, NEW S, S \subseteq Upto(Len(events))
  PROVE  Timed(S) /\ \A e \in S : e.id \in Nat /\ e.id # 0 /\ e = events[e.id]
<1>1. Len(events) \in Nat /\ DOMAIN events = 1 .. Len(events)
  BY ListDomain DEF EventsInv
<1>2. ASSUME NEW e \in S
      PROVE  e.id \in Nat /\ e.id # 0 /\ e.at \in Nat /\ e = events[e.id]
  <2>1. PICK k \in 1 .. Len(events) : e = events[k]
    BY <1>2 DEF Upto
  <2>2. e.id = k /\ e.at \in Nat
    BY <2>1, IngestedFacts
  <2> QED
    BY <1>1, <2>1, <2>2
<1>3. IsFiniteSet(S)
  <2>1. IsFiniteSet(1 .. Len(events)) /\ S \subseteq {events[k] : k \in 1 .. Len(events)}
    BY <1>1, FS_Interval DEF Upto
  <2> QED
    BY <1>1, <2>1, ImageBound
<1> QED
  BY <1>2, <1>3 DEF Timed

\* The stages of one domain.
LEMMA StagesInOrder ==
  ASSUME EventsInv, NEW S, S \subseteq Upto(Len(events)),
         NEW name \in {"CLOUD_IAM", "K8S_ADMISSION", "K8S_RUNTIME"},
         NEW s, Lists(s, S),
         \A j, k \in 1 .. Cardinality(S) :
           j < k => s[j] # s[k] /\ (name = "K8S_RUNTIME" => s[j].at <= s[k].at)
  PROVE  LET t == Stages(name, s)
         IN InOrder(t) /\ Names(t) = {e.id : e \in S} /\ Domains(t) \subseteq {name}
<1>1. PICK n : n = Cardinality(S)
  OBVIOUS
<1>2. n \in Nat /\ DOMAIN s = 1 .. n /\ \A k \in 1 .. n : s[k] \in S
  BY <1>1 DEF Lists
<1>3. \A e \in S : e.id \in Nat /\ e = events[e.id]
  BY TimedEvents
<1>4. PICK t : t = Stages(name, s)
  OBVIOUS
<1>5. /\ DOMAIN t = 1 .. n /\ \A k \in 1 .. n : t[k] = [domain |-> name, id |-> s[k].id]
      /\ t = [k \in 1 .. n |-> [domain |-> name, id |-> s[k].id]]
  BY <1>2, <1>4 DEF Stages, Stage
<1>6. \A k \in 1 .. n : [domain |-> name, id |-> s[k].id] \in Links
  BY <1>2, <1>3 DEF Links
<1>7. t \in Seq(Links) /\ Len(t) = n
  BY <1>2, <1>5, <1>6
<1>8. ASSUME NEW j \in 1 .. n, NEW k \in 1 .. n, j < k
      PROVE  t[j].id # t[k].id /\ Precedes(t[j], t[k])
  <2>1. /\ s[j] # s[k] /\ s[j] \in S /\ s[k] \in S
        /\ name = "K8S_RUNTIME" => s[j].at <= s[k].at
    BY <1>1, <1>2, <1>8
  <2>2. /\ t[j].id = s[j].id /\ t[k].id = s[k].id /\ t[j].domain = name /\ t[k].domain = name
    BY <1>5
  <2>3. s[j] = events[s[j].id] /\ s[k] = events[s[k].id]
    BY <1>3, <2>1
  <2> QED
    BY <2>1, <2>2, <2>3 DEF Precedes
<1>9. Names(t) = {e.id : e \in S}
  <2>1. \A k \in 1 .. n : t[k].id = s[k].id /\ s[k] \in S
    BY <1>2, <1>5
  <2>2. \A e \in S : \E k \in 1 .. n : e = s[k]
    BY <1>1 DEF Lists
  <2> QED
    BY <1>7, <2>1, <2>2 DEF Names
<1>10. Domains(t) \subseteq {name}
  BY <1>5, <1>7 DEF Domains
<1> QED
  BY <1>4, <1>7, <1>8, <1>9, <1>10 DEF InOrder

LEMMA ChainInOrder ==
  ASSUME EventsInv, NEW c, EventsOf(c) \subseteq Upto(Len(events)),
         c.iam \subseteq {e \in Upto(Len(events)) : IsIam(e)},
         c.admission \subseteq {e \in Upto(Len(events)) : IsAdmission(e)},
         c.runtime \subseteq {e \in Upto(Len(events)) : IsRuntime(e)},
         NEW chain, chain = BuildChain(c)
  PROVE  InOrder(chain) /\ Names(chain) \ {0} = {e.id : e \in EventsOf(c)}
<1>1. PICK iam : iam = Stages("CLOUD_IAM", AsIngested(c.iam))
  OBVIOUS
<1>2. InOrder(iam) /\ Names(iam) = {e.id : e \in c.iam} /\ Domains(iam) \subseteq {"CLOUD_IAM"}
  BY <1>1, TimedEvents, AsIngestedFacts, StagesInOrder
<1>3. PICK admission : admission = Stages("K8S_ADMISSION", AsIngested(c.admission))
  OBVIOUS
<1>4. /\ InOrder(admission) /\ Names(admission) = {e.id : e \in c.admission}
      /\ Domains(admission) \subseteq {"K8S_ADMISSION"}
  BY <1>3, TimedEvents, AsIngestedFacts, StagesInOrder
<1>5. PICK runtime : runtime = Stages("K8S_RUNTIME", ByTime(c.runtime))
  OBVIOUS
<1>6. /\ InOrder(runtime) /\ Names(runtime) = {e.id : e \in c.runtime}
      /\ Domains(runtime) \subseteq {"K8S_RUNTIME"}
  BY <1>5, TimedEvents, ByTimeFacts, StagesInOrder
<1>7. PICK transition : transition = IF c.binding # NoBinding /\ CrossDomain(c)
        THEN <<[domain |-> "EKS_ACCESS_TRANSITION", id |-> 0]>> ELSE <<>>
  OBVIOUS
<1>8. /\ InOrder(transition) /\ Names(transition) \subseteq {0}
      /\ Domains(transition) \subseteq {"EKS_ACCESS_TRANSITION"}
  <2>1. CASE transition = <<>>
    BY <2>1 DEF InOrder, Names, Domains
  <2>2. CASE transition = <<[domain |-> "EKS_ACCESS_TRANSITION", id |-> 0]>>
    <3>1. PICK l : l = [domain |-> "EKS_ACCESS_TRANSITION", id |-> 0]
      OBVIOUS
    <3>2. l \in Links /\ l.id = 0 /\ l.domain = "EKS_ACCESS_TRANSITION"
      BY <3>1 DEF Links
    <3>3. transition \in Seq(Links) /\ Len(transition) = 1 /\ transition[1] = l
      BY <2>2, <3>1, <3>2
    <3> QED
      BY <3>2, <3>3 DEF InOrder, Names, Domains
  <2> QED
    BY <1>7, <2>1, <2>2
<1>9. /\ \A e \in Upto(Len(events)) : e.id # 0 /\ e = events[e.id]
      /\ \A e \in c.iam : IsIam(e) /\ e.id # 0 /\ e = events[e.id]
      /\ \A e \in c.admission : IsAdmission(e) /\ e.id # 0 /\ e = events[e.id]
      /\ \A e \in c.runtime : IsRuntime(e) /\ e.id # 0 /\ e = events[e.id]
  BY TimedEvents
<1>10. /\ \A e \in c.iam, f \in c.admission \cup c.runtime : e.id # f.id
       /\ \A e \in c.admission, f \in c.runtime : e.id # f.id
  <2>1. \A e : ~(IsIam(e) /\ IsAdmission(e)) /\ ~(IsIam(e) /\ IsRuntime(e))
               /\ ~(IsAdmission(e) /\ IsRuntime(e))
    BY DEF IsIam, IsAdmission, IsRuntime
  <2> QED
    BY <1>9, <2>1
<1>11. /\ InOrder(iam \o transition) /\ Names(iam \o transition) = Names(iam) \cup Names(transition)
       /\ Domains(iam \o transition) = Domains(iam) \cup Domains(transition)
  <2>1. Names(iam) \cap Names(transition) = {}
    BY <1>2, <1>8, <1>9
  <2>2. \A x \in Domains(iam), y \in Domains(transition) : Rank[x] < Rank[y]
    BY <1>2, <1>8 DEF Rank
  <2> QED
    BY <1>2, <1>8, <2>1, <2>2, JoinedInOrder
<1>12. PICK first : first = iam \o transition
  OBVIOUS
<1>13. /\ InOrder(first \o admission)
       /\ Names(first \o admission) = Names(first) \cup Names(admission)
       /\ Domains(first \o admission) = Domains(first) \cup Domains(admission)
  <2>1. Names(first) \cap Names(admission) = {}
    BY <1>2, <1>4, <1>8, <1>9, <1>10, <1>11, <1>12
  <2>2. \A x \in Domains(first), y \in Domains(admission) : Rank[x] < Rank[y]
    BY <1>2, <1>4, <1>8, <1>11, <1>12 DEF Rank
  <2> QED
    BY <1>4, <1>11, <1>12, <2>1, <2>2, JoinedInOrder
<1>14. PICK second : second = first \o admission
  OBVIOUS
<1>15. /\ Names(second) = (Names(iam) \cup Names(transition)) \cup Names(admission)
       /\ Domains(second) \subseteq {"CLOUD_IAM", "EKS_ACCESS_TRANSITION", "K8S_ADMISSION"}
  BY <1>2, <1>4, <1>8, <1>11, <1>12, <1>13, <1>14
<1>16. /\ 0 \notin Names(iam) /\ 0 \notin Names(admission) /\ 0 \notin Names(runtime)
       /\ Names(iam) \cap Names(runtime) = {} /\ Names(admission) \cap Names(runtime) = {}
  BY <1>2, <1>4, <1>6, <1>9, <1>10
<1>17. InOrder(second \o runtime) /\ Names(second \o runtime) = Names(second) \cup Names(runtime)
  <2>1. Names(second) \cap Names(runtime) = {}
    BY <1>8, <1>15, <1>16
  <2>2. \A x \in Domains(second), y \in Domains(runtime) : Rank[x] < Rank[y]
    BY <1>6, <1>15 DEF Rank
  <2> QED
    BY <1>6, <1>13, <1>14, <2>1, <2>2, JoinedInOrder
<1>18. chain = second \o runtime
  BY <1>1, <1>3, <1>5, <1>7, <1>12, <1>14 DEF BuildChain
<1>19. {e.id : e \in c.iam \cup c.runtime \cup c.admission}
         = Names(iam) \cup Names(runtime) \cup Names(admission)
  BY <1>2, <1>4, <1>6
<1>20. Names(chain) \ {0} = Names(iam) \cup Names(runtime) \cup Names(admission)
  BY <1>8, <1>15, <1>16, <1>17, <1>18
<1> QED
  BY <1>17, <1>18, <1>19, <1>20 DEF EventsOf

\* A cluster keeps the findings, the admissions and the runtime events apart.
LEMMA SidesApart ==
  ASSUME NEW registered, NEW all, NEW c \in CorrelateAll(registered, all)
  PROVE  /\ c.iam \subseteq {e \in all : IsIam(e)}
         /\ c.admission \subseteq {e \in all : IsAdmission(e)}
         /\ c.runtime \subseteq {e \in all : IsRuntime(e)}
<1>1. CASE c \in BoundClusters(registered, all)
  <2>1. PICK b \in registered : c = ClusterOf(b, all)
    BY <1>1 DEF BoundClusters
  <2> QED
    BY <2>1, ClusterOfFacts
<1>2. CASE c \in UnboundClusters(registered, all)
  <2>1. PICK e \in all : c = Cluster(NoBinding, {}, all, e.key)
    BY <1>2 DEF UnboundClusters
  <2> QED
    BY <2>1, ClusterFacts
<1> QED
  BY <1>1, <1>2 DEF CorrelateAll

\* In whatever order findings and events came in, and whenever they were correlated: the
\* chain of a cluster (correlation_engine.py:125) names each of its events once, goes from
\* the identity over the transition and the admission to the container, and has what ran
\* there in the order of its timestamps.
THEOREM ChainsAreCausal == DomainSpec => []ChainIsCausal
<1>1. ASSUME CorrelationInv PROVE ChainIsCausal
  <2>1. PICK registered : clusters = CorrelateAll(registered, Upto(known))
    BY <1>1 DEF CorrelationInv, ClustersInv
  <2>2. EventsInv /\ Upto(known) \subseteq Upto(Len(events))
    BY <1>1, ListDomain DEF CorrelationInv, ClustersInv, EventsInv, Upto
  <2>3. ASSUME NEW c \in clusters, NEW chain, chain = BuildChain(c)
        PROVE  /\ {chain[k].id : k \in DOMAIN chain} \ {0} = {e.id : e \in EventsOf(c)}
               /\ \A j, k \in DOMAIN chain : j < k =>
                    chain[j].id # chain[k].id /\ Precedes(chain[j], chain[k])
    <3>1. EventsOf(c) \subseteq Upto(Len(events))
      BY <2>1, <2>2, CorrelateFacts
    <3>2. /\ c.iam \subseteq {e \in Upto(Len(events)) : IsIam(e)}
          /\ c.admission \subseteq {e \in Upto(Len(events)) : IsAdmission(e)}
          /\ c.runtime \subseteq {e \in Upto(Len(events)) : IsRuntime(e)}
      BY <2>1, <2>2, SidesApart
    <3>3. InOrder(chain) /\ Names(chain) \ {0} = {e.id : e \in EventsOf(c)}
      BY <2>2, <2>3, <3>1, <3>2, ChainInOrder
    <3>4. DOMAIN chain = 1 .. Len(chain)
      BY <3>3 DEF InOrder
    <3> QED
      BY <3>3, <3>4 DEF InOrder, Names
  <2> QED
    BY <2>3 DEF ChainIsCausal
<1> QED
  BY <1>1, CorrelationHolds, PTL
----------------------------------------------------------------------------------
(* The search for attack paths *)

\* where a path stands after its first j edges, seen from a call of the search
Stop(c, p, j) == IF j = Len(c.path) THEN c.at ELSE edges[p[j]][2]

\* p goes on from where the call c is
GoesOn(c, p) ==
  /\ Len(c.path) <= Len(p) /\ \A j \in 1 .. Len(c.path) : p[j] = c.path[j]
  /\ \A j \in Len(c.path) + 1 .. Len(p) : edges[p[j]][1] = Stop(c, p, j - 1)

\* ... and comes to no node twice
Fresh(c, p) ==
  \A j \in Len(c.path) + 1 .. Len(p) :
    /\ Stop(c, p, j) \notin c.visited
    /\ \A i \in Len(c.path) .. j - 1 : Stop(c, p, i) # Stop(c, p, j)

\* ... and ends when it has come to the target
Arrives(c, p) ==
  /\ p # <<>> /\ Stop(c, p, Len(p)) = c.to
  /\ \A j \in Len(c.path) .. Len(p) - 1 : Stop(c, p, j) = c.to => j = 0

Answers(c) ==
  {p \in Seq(DOMAIN edges) : Len(p) <= MaxDepth /\ GoesOn(c, p) /\ Fresh(c, p) /\ Arrives(c, p)}

LEMMA CallFacts ==
  ASSUME NEW c \in Graph!Calls
  PROVE  /\ c.at \in NodeIds /\ c.to \in NodeIds /\ c.visited \in SUBSET NodeIds
         /\ c.path \in Seq(DOMAIN edges) /\ Len(c.path) \in Nat
         /\ c.path = <<>> <=> Len(c.path) = 0
BY DEF Graph!Calls

GraphShape == edges \in Seq(NodeIds \X NodeIds)

LEMMA DeeperFacts ==
  ASSUME GraphShape, NEW c \in Graph!Calls, NEW k \in Graph!Onward(c)
  PROVE  LET d == Graph!Deeper(c, k)
         IN /\ d \in Graph!Calls /\ Len(d.path) = Len(c.path) + 1
            /\ d.at = edges[k][2] /\ d.to = c.to /\ d.visited = c.visited \cup {c.at}
            /\ \A j \in 1 .. Len(c.path) : d.path[j] = c.path[j]
            /\ d.path[Len(c.path) + 1] = k
            /\ k \in DOMAIN edges /\ edges[k][1] = c.at /\ edges[k][2] \in NodeIds
            /\ edges[k][2] \notin c.visited /\ edges[k][2] # c.at
<1> DEFINE d == Graph!Deeper(c, k)
<1>1. /\ k \in DOMAIN edges /\ edges[k][1] = c.at
      /\ edges[k][2] \notin c.visited /\ edges[k][2] # c.at
  BY DEF Graph!Onward
<1>2. edges[k] \in NodeIds \X NodeIds
  BY <1>1 DEF GraphShape
<1>3. edges[k][2] \in NodeIds
  BY <1>2
<1>4. PICK q : q = Append(c.path, k)
  OBVIOUS
<1>5. /\ q \in Seq(DOMAIN edges) /\ Len(q) = Len(c.path) + 1 /\ q[Len(c.path) + 1] = k
      /\ \A j \in 1 .. Len(c.path) : q[j] = c.path[j]
  BY <1>1, <1>4, CallFacts
<1>6. d = [at |-> edges[k][2], to |-> c.to, path |-> q, visited |-> c.visited \cup {c.at}]
  BY <1>4 DEF Graph!Deeper
<1> HIDE DEF d
<1>7. /\ d.at = edges[k][2] /\ d.to = c.to /\ d.path = q /\ d.visited = c.visited \cup {c.at}
  BY <1>6
<1>8. d \in Graph!Calls
  BY <1>3, <1>5, <1>6, CallFacts DEF Graph!Calls
<1> QED
  BY <1>1, <1>3, <1>5, <1>7, <1>8 DEF d

\* A longer call stands where the shorter one's path has come to.
LEMMA SameStops ==
  ASSUME GraphShape, NEW c \in Graph!Calls, NEW k \in Graph!Onward(c), NEW p, p[Len(c.path) + 1] = k,
         NEW j \in Nat, j > Len(c.path)
  PROVE  Stop(Graph!Deeper(c, k), p, j) = Stop(c, p, j)
BY DeeperFacts, CallFacts DEF Stop

\* What the search returns at the end of a branch.
LEMMA AnswersHere ==
  ASSUME NEW c \in Graph!Calls, Len(c.path) <= MaxDepth, MaxDepth \in Nat, c.at = c.to, c.path # <<>>
  PROVE  Answers(c) = {c.path}
<1>1. c.path \in Answers(c)
  BY CallFacts DEF Answers, GoesOn, Fresh, Arrives, Stop
<1>2. ASSUME NEW p \in Answers(c) PROVE p = c.path
  <2>1. /\ p \in Seq(DOMAIN edges) /\ Len(c.path) <= Len(p)
        /\ \A j \in 1 .. Len(c.path) : p[j] = c.path[j]
        /\ \A j \in Len(c.path) .. Len(p) - 1 : Stop(c, p, j) = c.to => j = 0
    BY <1>2 DEF Answers, GoesOn, Arrives
  <2>2. Stop(c, p, Len(c.path)) = c.to /\ Len(c.path) # 0
    BY CallFacts DEF Stop
  <2>3. Len(p) = Len(c.path)
    BY <2>1, <2>2, CallFacts
  <2> QED
    BY <2>1, <2>3, CallFacts
<1> QED
  BY <1>1, <1>2

LEMMA AnswersDeeper ==
  ASSUME GraphShape, NEW c \in Graph!Calls, Len(c.path) <= MaxDepth, MaxDepth \in Nat,
         ~(c.at = c.to /\ c.path # <<>>)
  PROVE  Answers(c) = UNION {Answers(Graph!Deeper(c, k)) : k \in Graph!Onward(c)}
<1>1. PICK n \in Nat : n = Len(c.path)
  BY CallFacts
<1>2. ASSUME NEW p \in Answers(c)
      PROVE  \E k \in Graph!Onward(c) : p \in Answers(Graph!Deeper(c, k))
  <2>1. /\ p \in Seq(DOMAIN edges) /\ Len(p) <= MaxDepth /\ Len(p) \in Nat
        /\ GoesOn(c, p) /\ Fresh(c, p) /\ Arrives(c, p)
    BY <1>2 DEF Answers
  <2>2. Len(p) > n
    <3>1. n <= Len(p) /\ \A j \in 1 .. n : p[j] = c.path[j]
      BY <2>1, <1>1 DEF GoesOn
    <3>2. SUFFICES ASSUME Len(p) = n PROVE FALSE
      BY <2>1, <3>1
    <3>3. p = c.path
      BY <2>1, <1>1, <3>1, <3>2, CallFacts
    <3>4. Stop(c, p, Len(p)) = c.at
      BY <3>2, <1>1 DEF Stop
    <3> QED
      BY <2>1, <3>3, <3>4 DEF Arrives
  <2>3. PICK k : k = p[n + 1]
    OBVIOUS
  <2>4. k \in DOMAIN edges
    BY <2>1, <2>2, <2>3
  <2>5. Stop(c, p, n) = c.at /\ Stop(c, p, n + 1) = edges[k][2]
    BY <1>1, <2>3 DEF Stop
  <2>6. k \in Graph!Onward(c)
    <3>1. edges[k][1] = c.at
      BY <1>1, <2>1, <2>2, <2>3, <2>5 DEF GoesOn
    <3>2. Stop(c, p, n + 1) \notin c.visited /\ Stop(c, p, n) # Stop(c, p, n + 1)
      BY <1>1, <2>1, <2>2 DEF Fresh
    <3> QED
      BY <2>4, <2>5, <3>1, <3>2 DEF Graph!Onward
  <2>7. PICK d : d = Graph!Deeper(c, k)
    OBVIOUS
  <2>8. /\ d \in Graph!Calls /\ Len(d.path) = n + 1 /\ d.to = c.to
        /\ d.visited = c.visited \cup {c.at}
        /\ \A j \in 1 .. n : d.path[j] = c.path[j]
        /\ d.path[n + 1] = k
    BY <1>1, <2>6, <2>7, DeeperFacts
  <2>9. \A j \in Nat : j > n => Stop(d, p, j) = Stop(c, p, j)
    BY <1>1, <2>3, <2>6, <2>7, SameStops
  <2>10. GoesOn(d, p)
    <3>1. n + 1 <= Len(p) /\ \A j \in 1 .. n + 1 : p[j] = d.path[j]
      BY <1>1, <2>1, <2>2, <2>3, <2>8 DEF GoesOn
    <3>2. ASSUME NEW j \in n + 2 .. Len(p) PROVE edges[p[j]][1] = Stop(d, p, j - 1)
      <4>1. j \in n + 1 .. Len(p) /\ j - 1 \in Nat /\ j - 1 > n
        BY <2>1
      <4> QED
        BY <1>1, <2>1, <2>9, <4>1 DEF GoesOn
    <3> QED
      BY <2>8, <3>1, <3>2 DEF GoesOn
  <2>11. Fresh(d, p)
    <3>1. ASSUME NEW j \in n + 2 .. Len(p)
          PROVE  /\ Stop(d, p, j) \notin d.visited
                 /\ \A i \in n + 1 .. j - 1 : Stop(d, p, i) # Stop(d, p, j)
      <4>1. j \in n + 1 .. Len(p) /\ j \in Nat /\ j > n /\ n \in n .. j - 1
        BY <2>1
      <4>2. /\ Stop(c, p, j) \notin c.visited
            /\ \A i \in n .. j - 1 : Stop(c, p, i) # Stop(c, p, j)
        BY <1>1, <2>1, <4>1 DEF Fresh
      <4>3. Stop(d, p, j) = Stop(c, p, j) /\ Stop(d, p, j) # c.at
        BY <2>5, <2>9, <4>1, <4>2
      <4>4. ASSUME NEW i \in n + 1 .. j - 1 PROVE Stop(d, p, i) # Stop(d, p, j)
        <5>1. i \in n .. j - 1 /\ i \in Nat /\ i > n
          BY <4>1
        <5> QED
          BY <2>9, <4>2, <4>3, <5>1
      <4> QED
        BY <2>8, <4>2, <4>3, <4>4
    <3> QED
      BY <2>8, <3>1 DEF Fresh
  <2>12. Arrives(d, p)
    <3>1. p # <<>> /\ Stop(d, p, Len(p)) = d.to
      BY <2>1, <2>2, <2>8, <2>9 DEF Arrives
    <3>2. ASSUME NEW j \in n + 1 .. Len(p) - 1 PROVE Stop(d, p, j) = d.to => j = 0
      <4>1. j \in n .. Len(p) - 1 /\ j \in Nat /\ j > n
        BY <2>1
      <4> QED
        BY <1>1, <2>1, <2>8, <2>9, <4>1 DEF Arrives
    <3> QED
      BY <2>8, <3>1, <3>2 DEF Arrives
  <2> QED
    BY <2>1, <2>6, <2>7, <2>10, <2>11, <2>12 DEF Answers
<1>3. ASSUME NEW k \in Graph!Onward(c), NEW p \in Answers(Graph!Deeper(c, k))
      PROVE  p \in Answers(c)
  <2>1. PICK d : d = Graph!Deeper(c, k)
    OBVIOUS
  <2>2. /\ d \in Graph!Calls /\ Len(d.path) = n + 1 /\ d.to = c.to /\ d.at = edges[k][2]
        /\ d.visited = c.visited \cup {c.at}
        /\ \A j \in 1 .. n : d.path[j] = c.path[j]
        /\ d.path[n + 1] = k
        /\ edges[k][1] = c.at /\ edges[k][2] \notin c.visited /\ edges[k][2] # c.at
    BY <1>1, <2>1, DeeperFacts
  <2>3. /\ p \in Seq(DOMAIN edges) /\ Len(p) <= MaxDepth /\ Len(p) \in Nat
        /\ GoesOn(d, p) /\ Fresh(d, p) /\ Arrives(d, p)
    BY <1>3, <2>1 DEF Answers
  <2>4. n + 1 <= Len(p) /\ p[n + 1] = k /\ \A j \in 1 .. n : p[j] = c.path[j]
    <3>1. n + 1 <= Len(p) /\ \A j \in 1 .. n + 1 : p[j] = d.path[j]
      BY <2>2, <2>3 DEF GoesOn
    <3> QED
      BY <2>2, <3>1
  <2>5. \A j \in Nat : j > n => Stop(d, p, j) = Stop(c, p, j)
    BY <1>1, <2>1, <2>4, SameStops
  <2>6. Stop(c, p, n) = c.at /\ Stop(c, p, n + 1) = edges[k][2]
    BY <1>1, <2>4 DEF Stop
  <2>7. GoesOn(c, p)
    <3>1. ASSUME NEW j \in n + 1 .. Len(p) PROVE edges[p[j]][1] = Stop(c, p, j - 1)
      <4>1. CASE j = n + 1
        BY <2>2, <2>4, <2>6, <4>1
      <4>2. CASE j > n + 1
        <5>1. j \in n + 2 .. Len(p) /\ j - 1 \in Nat /\ j - 1 > n
          BY <4>2
        <5> QED
          BY <2>2, <2>3, <2>5, <5>1 DEF GoesOn
      <4> QED
        BY <4>1, <4>2
    <3> QED
      BY <1>1, <2>3, <2>4, <3>1 DEF GoesOn
  <2>8. Fresh(c, p)
    <3>1. ASSUME NEW j \in n + 1 .. Len(p)
          PROVE  /\ Stop(c, p, j) \notin c.visited
                 /\ \A i \in n .. j - 1 : Stop(c, p, i) # Stop(c, p, j)
      <4>1. CASE j = n + 1
        BY <2>2, <2>6, <4>1
      <4>2. CASE j > n + 1
        <5>1. j \in n + 2 .. Len(p) /\ j \in Nat /\ j > n
          BY <4>2
        <5>2. /\ Stop(d, p, j) \notin d.visited
              /\ \A i \in n + 1 .. j - 1 : Stop(d, p, i) # Stop(d, p, j)
          BY <2>2, <2>3, <5>1 DEF Fresh
        <5>3. Stop(c, p, j) = Stop(d, p, j)
          BY <2>5, <5>1
        <5>4. ASSUME NEW i \in n .. j - 1 PROVE Stop(c, p, i) # Stop(c, p, j)
          <6>1. CASE i = n
            BY <2>2, <2>6, <5>2, <5>3, <6>1
          <6>2. CASE i > n
            <7>1. i \in n + 1 .. j - 1 /\ i \in Nat
              BY <6>2
            <7> QED
              BY <2>5, <5>2, <5>3, <6>2, <7>1
          <6> QED
            BY <6>1, <6>2
        <5> QED
          BY <2>2, <5>2, <5>3, <5>4
      <4> QED
        BY <4>1, <4>2
    <3> QED
      BY <1>1, <3>1 DEF Fresh
  <2>9. Arrives(c, p)
    <3>1. p # <<>> /\ Stop(c, p, Len(p)) = c.to
      BY <2>2, <2>3, <2>4, <2>5 DEF Arrives
    <3>2. ASSUME NEW j \in n .. Len(p) - 1, Stop(c, p, j) = c.to PROVE j = 0
      <4>1. CASE j = n
        <5>1. c.at = c.to
          BY <2>6, <3>2, <4>1
        <5> QED
          BY <1>1, <4>1, <5>1, CallFacts
      <4>2. CASE j > n
        <5>1. j \in n + 1 .. Len(p) - 1 /\ j \in Nat
          BY <4>2
        <5> QED
          BY <2>2, <2>3, <2>5, <3>2, <4>2, <5>1 DEF Arrives
      <4> QED
        BY <4>1, <4>2
    <3> QED
      BY <1>1, <3>1, <3>2 DEF Arrives
  <2> QED
    BY <2>3, <2>7, <2>8, <2>9 DEF Answers
<1> QED
  BY <1>2, <1>3

\* What the body of the search makes of answers it gets from the calls below.
Body(f, c) ==
  IF Len(c.path) > MaxDepth THEN {}
  ELSE IF c.at = c.to /\ c.path # <<>> THEN {c.path}
  ELSE UNION {f[Graph!Deeper(c, k)] : k \in Graph!Onward(c)}

LEMMA AnswersSolve ==
  ASSUME GraphShape, MaxDepth \in Nat, NEW c \in Graph!Calls, NEW f,
         Len(c.path) <= MaxDepth =>
           \A k \in Graph!Onward(c) : f[Graph!Deeper(c, k)] = Answers(Graph!Deeper(c, k))
  PROVE  Body(f, c) = Answers(c)
<1>1. CASE Len(c.path) > MaxDepth
  <2>1. ASSUME NEW p \in Answers(c) PROVE FALSE
    BY <1>1, <2>1, CallFacts DEF Answers, GoesOn
  <2> QED
    BY <1>1, <2>1 DEF Body
<1>2. CASE Len(c.path) <= MaxDepth /\ c.at = c.to /\ c.path # <<>>
  BY <1>2, AnswersHere, CallFacts DEF Body
<1>3. CASE Len(c.path) <= MaxDepth /\ ~(c.at = c.to /\ c.path # <<>>)
  <2>1. Body(f, c) = UNION {f[Graph!Deeper(c, k)] : k \in Graph!Onward(c)}
    BY <1>3, CallFacts DEF Body
  <2>2. UNION {f[Graph!Deeper(c, k)] : k \in Graph!Onward(c)}
          = UNION {Answers(Graph!Deeper(c, k)) : k \in Graph!Onward(c)}
    BY <1>3
  <2> QED
    BY <1>3, <2>1, <2>2, AnswersDeeper
<1> QED
  BY <1>1, <1>2, <1>3, CallFacts

\* The recursion of the search has a solution, so dfs is one.
LEMMA SearchSolves ==
  ASSUME GraphShape, MaxDepth \in Nat
  PROVE  \A c \in Graph!Calls : Graph!dfs[c] = Body(Graph!dfs, c)
<1>1. PICK f : f = [c \in Graph!Calls |-> Answers(c)]
  OBVIOUS
<1>2. \A c \in Graph!Calls : f[c] = Body(f, c)
  <2> SUFFICES ASSUME NEW c \in Graph!Calls PROVE Answers(c) = Body(f, c)
    BY <1>1
  <2>1. \A k \in Graph!Onward(c) : Graph!Deeper(c, k) \in Graph!Calls
    BY DeeperFacts
  <2>2. \A k \in Graph!Onward(c) : f[Graph!Deeper(c, k)] = Answers(Graph!Deeper(c, k))
    BY <1>1, <2>1
  <2> QED
    BY <2>2, AnswersSolve
<1>3. f = [c \in Graph!Calls |-> Body(f, c)]
  BY <1>1, <1>2
<1>4. Graph!dfs = CHOOSE g : g = [c \in Graph!Calls |-> Body(g, c)]
  BY DEF Graph!dfs, Body
<1>5. Graph!dfs = [c \in Graph!Calls |-> Body(Graph!dfs, c)]
  BY <1>3, <1>4
<1> QED
  BY <1>5

\* The search returns these answers and no others: of the calls where it does not, the one
\* with the longest path would have such a call below it.
LEMMA SearchFinds ==
  ASSUME GraphShape, MaxDepth \in Nat
  PROVE  \A c \in Graph!Calls : Graph!dfs[c] = Answers(c)
<1>1. PICK Wrong : Wrong = {c \in Graph!Calls : Graph!dfs[c] # Answers(c)}
  OBVIOUS
<1>2. SUFFICES ASSUME Wrong # {} PROVE FALSE
  BY <1>1
<1>3. ASSUME NEW c \in Wrong PROVE Len(c.path) \in Nat /\ Len(c.path) <= MaxDepth
  <2>1. c \in Graph!Calls /\ Graph!dfs[c] # Answers(c)
    BY <1>1, <1>3
  <2>2. Len(c.path) \in Nat
    BY <2>1, CallFacts
  <2>3. ~(Len(c.path) <= MaxDepth) => Body(Graph!dfs, c) = Answers(c)
    BY <2>1, AnswersSolve
  <2> QED
    BY <2>1, <2>2, <2>3, SearchSolves
<1>4. PICK S : S = {Len(c.path) : c \in Wrong}
  OBVIOUS
<1>5. S \in SUBSET Nat /\ S # {} /\ \A k \in S : k <= MaxDepth
  BY <1>2, <1>3, <1>4
<1>6. PICK m \in S : \A k \in S : m >= k
  BY <1>5, GreatestNatural
<1>7. PICK c \in Wrong : m = Len(c.path)
  BY <1>4, <1>6
<1>8. c \in Graph!Calls /\ Graph!dfs[c] # Answers(c)
  BY <1>1, <1>7
<1>9. ASSUME NEW k \in Graph!Onward(c)
      PROVE  Graph!dfs[Graph!Deeper(c, k)] = Answers(Graph!Deeper(c, k))
  <2>1. PICK d : d = Graph!Deeper(c, k)
    OBVIOUS
  <2>2. d \in Graph!Calls /\ Len(d.path) = Len(c.path) + 1
    BY <1>8, <2>1, DeeperFacts
  <2>3. ASSUME d \in Wrong PROVE FALSE
    <3>1. Len(d.path) \in S
      BY <1>4, <2>3
    <3>2. m >= m + 1 /\ m \in Nat
      BY <1>5, <1>6, <1>7, <2>2, <3>1
    <3> QED
      BY <3>2
  <2> QED
    BY <1>1, <2>1, <2>2, <2>3
<1>10. Body(Graph!dfs, c) = Answers(c)
  BY <1>8, <1>9, AnswersSolve
<1> QED
  BY <1>8, <1>10, SearchSolves

\* From the first call, the answers are the simple paths.
LEMMA AnswersAreSimplePaths ==
  ASSUME GraphShape, MaxDepth \in Nat, NEW s \in NodeIds, NEW t \in NodeIds
  PROVE  Graph!Dfs(s, t) = Graph!SimplePaths(s, t)
<1>1. PICK c : c = Graph!FirstCall(s, t)
  OBVIOUS
<1>2. /\ c \in Graph!Calls /\ c.at = s /\ c.to = t /\ c.path = <<>> /\ c.visited = {}
      /\ Len(c.path) = 0
  <2>1. c = [at |-> s, to |-> t, path |-> <<>>, visited |-> {}]
    BY <1>1 DEF Graph!FirstCall
  <2>2. <<>> \in Seq(DOMAIN edges) /\ Len(<<>>) = 0
    OBVIOUS
  <2> QED
    BY <2>1, <2>2 DEF Graph!Calls
<1>3. Graph!Dfs(s, t) = Answers(c)
  BY <1>1, <1>2, SearchFinds DEF Graph!Dfs
<1>4. ASSUME NEW p \in Seq(DOMAIN edges), Len(p) >= 1, edges[p[1]][1] = s
      PROVE  /\ DOMAIN Graph!Stops(p) = 1 .. Len(p) + 1 /\ Len(Graph!Stops(p)) = Len(p) + 1
             /\ \A j \in 0 .. Len(p) : Graph!Stops(p)[j + 1] = Stop(c, p, j)
  <2>1. PICK n \in Nat : n = Len(p)
    OBVIOUS
  <2>2. PICK at : at = [k \in 1 .. n + 1 |-> IF k = 1 THEN edges[p[1]][1] ELSE edges[p[k - 1]][2]]
    OBVIOUS
  <2>3. at = Graph!Stops(p)
    BY <2>1, <2>2 DEF Graph!Stops
  <2>4. DOMAIN at = 1 .. n + 1 /\ Len(at) = n + 1
    BY <2>2
  <2>5. ASSUME NEW j \in 0 .. n PROVE at[j + 1] = Stop(c, p, j)
    <3>1. j + 1 \in 1 .. n + 1 /\ (j + 1 = 1 <=> j = 0) /\ (j + 1) - 1 = j
      OBVIOUS
    <3>2. at[j + 1] = IF j = 0 THEN edges[p[1]][1] ELSE edges[p[j]][2]
      BY <2>2, <3>1
    <3> QED
      BY <1>2, <1>4, <3>2 DEF Stop
  <2> QED
    BY <2>1, <2>3, <2>4, <2>5
<1>5. ASSUME NEW p \in Answers(c) PROVE p \in Graph!SimplePaths(s, t)
  <2>1. /\ p \in Seq(DOMAIN edges) /\ Len(p) <= MaxDepth /\ Len(p) \in Nat
        /\ GoesOn(c, p) /\ Fresh(c, p) /\ Arrives(c, p)
    BY <1>5 DEF Answers
  <2>2. Len(p) >= 1
    BY <2>1 DEF Arrives
  <2>3. /\ \A j \in 1 .. Len(p) : edges[p[j]][1] = Stop(c, p, j - 1)
        /\ \A j \in 1 .. Len(p) : \A i \in 0 .. j - 1 : Stop(c, p, i) # Stop(c, p, j)
        /\ Stop(c, p, 0) = s /\ Stop(c, p, Len(p)) = t
    BY <1>2, <2>1 DEF GoesOn, Fresh, Arrives, Stop
  <2>4. edges[p[1]][1] = s
    BY <2>2, <2>3, <2>1
  <2>5. PICK at : at = Graph!Stops(p)
    OBVIOUS
  <2>6. /\ DOMAIN at = 1 .. Len(p) + 1 /\ Len(at) = Len(p) + 1
        /\ \A j \in 0 .. Len(p) : at[j + 1] = Stop(c, p, j)
    BY <1>4, <2>1, <2>2, <2>4, <2>5
  <2>7. \A k \in 1 .. Len(p) + 1 : at[k] = Stop(c, p, k - 1)
    <3>1. \A k \in 1 .. Len(p) + 1 : k - 1 \in 0 .. Len(p) /\ (k - 1) + 1 = k
      BY <2>1
    <3> QED
      BY <2>6, <3>1
  <2>8. \A k \in 1 .. Len(p) : edges[p[k]][1] = at[k]
    BY <2>1, <2>3, <2>7
  <2>9. at[1] = s /\ at[Len(at)] = t
    BY <2>1, <2>3, <2>6
  <2>10. ASSUME NEW j \in DOMAIN at, NEW k \in DOMAIN at, at[j] = at[k] PROVE j = k
    <3>1. j \in 1 .. Len(p) + 1 /\ k \in 1 .. Len(p) + 1
      BY <2>6
    <3>2. Stop(c, p, j - 1) = Stop(c, p, k - 1)
      BY <2>7, <2>10, <3>1
    <3>3. CASE j < k
      <4>1. k - 1 \in 1 .. Len(p) /\ j - 1 \in 0 .. (k - 1) - 1
        BY <2>1, <3>1, <3>3
      <4> QED
        BY <2>3, <3>2, <4>1
    <3>4. CASE k < j
      <4>1. j - 1 \in 1 .. Len(p) /\ k - 1 \in 0 .. (j - 1) - 1
        BY <2>1, <3>1, <3>4
      <4> QED
        BY <2>3, <3>2, <4>1
    <3> QED
      BY <2>1, <3>1, <3>3, <3>4
  <2>11. \E n \in 1 .. MaxDepth : p \in [1 .. n -> DOMAIN edges]
    BY <2>1, <2>2
  <2> QED
    BY <2>5, <2>8, <2>9, <2>10, <2>11 DEF Graph!SimplePaths
<1>6. ASSUME NEW p \in Graph!SimplePaths(s, t) PROVE p \in Answers(c)
  <2>1. PICK n \in 1 .. MaxDepth : p \in [1 .. n -> DOMAIN edges]
    BY <1>6 DEF Graph!SimplePaths
  <2>2. PICK at : at = Graph!Stops(p)
    OBVIOUS
  <2>3. /\ \A k \in 1 .. Len(p) : edges[p[k]][1] = at[k]
        /\ at[1] = s /\ at[Len(at)] = t
        /\ \A j, k \in DOMAIN at : at[j] = at[k] => j = k
    BY <1>6, <2>2 DEF Graph!SimplePaths
  <2>4. p \in Seq(DOMAIN edges) /\ Len(p) = n /\ n >= 1 /\ n <= MaxDepth /\ n \in Nat
    BY <2>1
  <2>5. edges[p[1]][1] = s
    BY <2>3, <2>4
  <2>6. /\ DOMAIN at = 1 .. n + 1 /\ Len(at) = n + 1
        /\ \A j \in 0 .. n : at[j + 1] = Stop(c, p, j)
    BY <1>4, <2>2, <2>4, <2>5
  <2>7. \A i, j \in 0 .. n : Stop(c, p, i) = Stop(c, p, j) => i = j
    <3> SUFFICES ASSUME NEW i \in 0 .. n, NEW j \in 0 .. n, Stop(c, p, i) = Stop(c, p, j) PROVE i = j
      OBVIOUS
    <3>1. i + 1 \in DOMAIN at /\ j + 1 \in DOMAIN at /\ at[i + 1] = at[j + 1]
      BY <2>6
    <3>2. i + 1 = j + 1
      BY <2>3, <3>1
    <3> QED
      BY <3>2
  <2>8. GoesOn(c, p)
    <3>1. ASSUME NEW j \in 1 .. n PROVE edges[p[j]][1] = Stop(c, p, j - 1)
      <4>1. j - 1 \in 0 .. n /\ (j - 1) + 1 = j
        OBVIOUS
      <4> QED
        BY <2>3, <2>4, <2>6, <4>1
    <3> QED
      BY <1>2, <2>4, <3>1 DEF GoesOn
  <2>9. Fresh(c, p)
    <3>1. ASSUME NEW j \in 1 .. n, NEW i \in 0 .. j - 1 PROVE Stop(c, p, i) # Stop(c, p, j)
      <4>1. i \in 0 .. n /\ j \in 0 .. n /\ i # j
        BY <2>4
      <4> QED
        BY <2>7, <4>1
    <3> QED
      BY <1>2, <2>4, <3>1 DEF Fresh
  <2>10. Arrives(c, p)
    <3>1. Stop(c, p, n) = t
      BY <2>3, <2>4, <2>6
    <3>2. ASSUME NEW j \in 0 .. n - 1, Stop(c, p, j) = t PROVE FALSE
      <4>1. j \in 0 .. n /\ n \in 0 .. n /\ j # n
        BY <2>4
      <4> QED
        BY <2>7, <3>1, <3>2, <4>1
    <3> QED
      BY <1>2, <2>4, <3>1, <3>2 DEF Arrives
  <2> QED
    BY <2>4, <2>8, <2>9, <2>10 DEF Answers
<1> QED
  BY <1>3, <1>5, <1>6

EndsKnown == strict => \A k \in DOMAIN edges : edges[k][1] \in nodes /\ edges[k][2] \in nodes

LEMMA ShapeOfGraph == Graph!TypeOK => GraphShape /\ MaxDepth \in Nat /\ nodes \subseteq NodeIds
<1> SUFFICES ASSUME Graph!TypeOK PROVE GraphShape /\ MaxDepth \in Nat /\ nodes \subseteq NodeIds
  OBVIOUS
<1>1. MaxDepth \in Nat
  BY DomainAssumptions DEF Graph!GraphAssumption
<1> QED
  BY <1>1 DEF GraphShape, Graph!TypeOK

LEMMA EndsStep ==
  ASSUME Graph!TypeOK, EndsKnown, [Graph!Next]_graphVars
  PROVE  EndsKnown'
<1>1. CASE UNCHANGED graphVars
  BY <1>1 DEF graphVars, EndsKnown
<1>2. ASSUME NEW x \in NodeIds, Graph!AddNode(x) PROVE EndsKnown'
  BY <1>2 DEF Graph!AddNode, EndsKnown
<1>3. ASSUME NEW s \in NodeIds, NEW t \in NodeIds, Graph!AddEdge(s, t) PROVE EndsKnown'
  <2>1. strict' = strict /\ nodes' = nodes
    BY <1>3 DEF Graph!AddEdge
  <2>2. CASE ~Graph!Known(s, t)
    BY <1>3, <2>1, <2>2 DEF Graph!AddEdge, EndsKnown
  <2>3. CASE Graph!Known(s, t)
    <3>1. edges' = Append(edges, <<s, t>>)
      BY <1>3, <2>3 DEF Graph!AddEdge
    <3>2. PICK e \in NodeIds \X NodeIds : e = <<s, t>>
      OBVIOUS
    <3>3. e[1] = s /\ e[2] = t
      BY <3>2
    <3>4. edges \in Seq(NodeIds \X NodeIds)
      BY ShapeOfGraph DEF GraphShape
    <3>5. /\ DOMAIN edges = 1 .. Len(edges) /\ DOMAIN edges' = 1 .. Len(edges) + 1 /\ Len(edges) \in Nat
          /\ edges'[Len(edges) + 1] = e /\ \A k \in 1 .. Len(edges) : edges'[k] = edges[k]
      BY <3>1, <3>2, <3>4
    <3>6. strict => s \in nodes /\ t \in nodes
      BY <2>3 DEF Graph!Known
    <3> QED
      BY <2>1, <3>3, <3>5, <3>6 DEF EndsKnown
  <2> QED
    BY <2>2, <2>3
<1> QED
  BY <1>1, <1>2, <1>3 DEF Graph!Next

LEMMA GraphEnds == DomainSpec => []EndsKnown
<1>1. DomainInit => EndsKnown
  BY DEF DomainInit, Graph!Init, EndsKnown
<1>2. [DomainNext]_domainVars => [Graph!Next]_graphVars
  BY DEF DomainNext, Correlating, Analyzing, Searching, Storing, Scraping, domainVars
<1> QED
  BY <1>1, <1>2, EndsStep, GraphTypes, PTL DEF DomainSpec

\* For any graph, any two nodes and any depth the search finds exactly the simple paths
\* between them (iam_graph.py:52), and in the unified graph they run over nodes it knows.
THEOREM SearchIsExact == DomainSpec => []PathsAreTheSimplePaths
<1>1. ASSUME Graph!TypeOK, EndsKnown PROVE PathsAreTheSimplePaths
  <2>1. ASSUME NEW s \in nodes, NEW t \in nodes
        PROVE  /\ Graph!FindPaths(s, t) = Graph!SimplePaths(s, t)
               /\ \A p \in Graph!FindPaths(s, t) : p \in Seq(DOMAIN edges)
    <3>1. s \in NodeIds /\ t \in NodeIds /\ GraphShape /\ MaxDepth \in Nat
      BY <1>1, ShapeOfGraph
    <3>2. Graph!FindPaths(s, t) = Graph!Dfs(s, t)
      BY DEF Graph!FindPaths
    <3>3. \A p \in Graph!SimplePaths(s, t) : p \in Seq(DOMAIN edges)
      <4> SUFFICES ASSUME NEW p \in Graph!SimplePaths(s, t) PROVE p \in Seq(DOMAIN edges)
        OBVIOUS
      <4>1. PICK n \in 1 .. MaxDepth : p \in [1 .. n -> DOMAIN edges]
        BY DEF Graph!SimplePaths
      <4> QED
        BY <3>1, <4>1
    <3> QED
      BY <3>1, <3>2, <3>3, AnswersAreSimplePaths
  <2>2. Graph!PathsAreTheSimplePaths
    BY <2>1 DEF Graph!PathsAreTheSimplePaths
  <2>3. Graph!StopsAreNodes
    <3> SUFFICES ASSUME strict, NEW s \in nodes, NEW t \in nodes, NEW p \in Graph!FindPaths(s, t),
                        NEW k \in 1 .. Len(p)
                 PROVE  edges[p[k]][1] \in nodes /\ edges[p[k]][2] \in nodes
      BY DEF Graph!StopsAreNodes
    <3>1. p[k] \in DOMAIN edges
      BY <2>1
    <3> QED
      BY <1>1, <3>1 DEF EndsKnown
  <2> QED
    BY <2>2, <2>3 DEF PathsAreTheSimplePaths
<1> QED
  BY <1>1, GraphTypes, GraphEnds, PTL
==================================================================================
