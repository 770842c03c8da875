----------------------------- MODULE DomainAnalysis -----------------------------
(***************************************************************************)
(* The correlation across both domains, and beside it the parts it leans   *)
(* on: the analysis of a principal, whose findings it gets; the search for *)
(* attack paths; the store its incidents are saved in; and a scrape, which *)
(* reads that store while it changes.  Of the others none writes what      *)
(* another reads while it runs, so a behaviour is that of one, or of the   *)
(* scrape and the store.                                                   *)
(***************************************************************************)
EXTENDS CrossDomainCorrelation

CONSTANTS
  Statements,                \* see PrincipalAnalysis
  NodeIds, MaxEdges, MaxDepth, \* see AttackGraph
  Procs, Templates,          \* see IncidentStore
  MaxSaved,                  \* bounds of the model: incidents in the store, and in
  MaxScraped,                \*   the store while it is scraped
  MaxRewrites                \* see MetricsExporter

VARIABLES
  part,
  attached, examined, reported,
  strict, nodes, edges, refused,
  store, pc, mem, made, saved,
  art, rewrites, read, body, torn

principalVars == <<attached, examined, reported>>
graphVars     == <<strict, nodes, edges, refused>>
storeVars     == <<store, pc, mem, made, saved>>
exporterVars  == <<art, rewrites, read, body, torn>>

Analysis == INSTANCE PrincipalAnalysis

Graph == INSTANCE AttackGraph WITH Ids <- NodeIds

Store == INSTANCE IncidentStore WITH MaxIncidents <- MaxSaved

Exporter == INSTANCE MetricsExporter

ASSUME DomainAssumptions ==
  Graph!GraphAssumption /\ Store!StoreAssumption /\ Exporter!ExporterAssumption
---------------------------------------------------------------------------------
DomainInit ==
  /\ part \in {"correlation", "principal", "graph", "store", "scrape"}
  /\ Init /\ Analysis!Init /\ Store!StoreInit
  /\ (part = "graph" \/ strict = TRUE) /\ Graph!Init
  /\ (part = "scrape" \/ art = [n \in Exporter!Names |-> Exporter!Missing])
  /\ Exporter!Init

Correlating ==
  part = "correlation" /\ Next /\ UNCHANGED <<principalVars, graphVars, storeVars, exporterVars>>

Analyzing == part = "principal" /\ Analysis!Next /\ UNCHANGED <<vars, graphVars, storeVars, exporterVars>>

Searching == part = "graph" /\ Graph!Next /\ UNCHANGED <<vars, principalVars, storeVars, exporterVars>>

Storing ==
  /\ part \in {"store", "scrape"} /\ Store!StoreNext
  /\ part = "scrape" => made' <= MaxScraped
  /\ UNCHANGED <<vars, principalVars, graphVars, exporterVars>>

Scraping == part = "scrape" /\ Exporter!Next /\ UNCHANGED <<vars, principalVars, graphVars, storeVars>>

DomainNext ==
  (Correlating \/ Analyzing \/ Searching \/ Storing \/ Scraping) /\ UNCHANGED part

domainVars == <<part, vars, principalVars, graphVars, storeVars, exporterVars>>

DomainSpec == DomainInit /\ [][DomainNext]_domainVars
---------------------------------------------------------------------------------
(* The properties of the parts beside the correlation, as their modules    *)
(* state them                                                              *)

\* The types of all parts.
DomainTypes == TypeOK /\ Analysis!TypeOK /\ Graph!TypeOK /\ Store!StoreTypeOK /\ Exporter!TypeOK

\* No event of a container is lost on the way to a cluster (correlation_engine.py:112),
\* and an incident keeps what each of its sources found (models/incident.py:43).
EvidenceSurvives == RuntimeNeverLost /\ FindingsSurvive

\* Where policies only allow and name their actions, the detector finds exactly what the
\* principal can use (escalation.py:35).
ExactOnLiteralPolicies == Analysis!ExactOnLiteralPolicies

\* The search finds exactly the simple paths (iam_graph.py:52), and in the unified graph
\* over nodes it knows.
PathsAreTheSimplePaths == Graph!PathsAreTheSimplePaths /\ Graph!StopsAreNodes

\* What a save finished writing is in the store, whatever died since (incident.py:274), and
\* the counts derived from it fit each other (cross_domain_metrics.py:72).
StoreSound == Store!Accumulates /\ Store!SnapshotCoherent

\* A scrape shows no series of an artifact it does not call valid, the manifest's apart
\* (metrics_exporter.py:10), and under live and demo exactly what it read as such
\* (metrics_exporter.py:38).
ScrapeIsHonest == []Exporter!MissingIsNotZero /\ Exporter!OriginsAsRead
================================================================================
