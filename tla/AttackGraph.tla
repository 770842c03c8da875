------------------------------ MODULE AttackGraph ------------------------------
(***************************************************************************)
(* The two directed graphs: IAMDirectedGraph (cloudgraphguard/graph/       *)
(* iam_graph.py) and UnifiedSecurityGraph (correlation/cross_domain/graph/ *)
(* unified_graph.py).  Both grow by nodes and edges and list the paths     *)
(* between two nodes with the same depth-first search; only the second     *)
(* refuses an edge whose ends it does not know.  An edge is named by its   *)
(* place in the list, so that parallel edges are two.                      *)
(***************************************************************************)
EXTENDS Naturals, Sequences, FiniteSets

CONSTANTS
  Ids,       \* ids of nodes
  MaxEdges,  \* bound of the model
  MaxDepth   \* max_depth: 5 and 8 by default, small here so that it matters

GraphAssumption == MaxEdges \in Nat /\ MaxDepth \in Nat

VARIABLES
  strict,    \* UnifiedSecurityGraph, or IAMDirectedGraph
  nodes,     \* ids known
  edges,     \* <<source, target>> in the order they were added
  refused    \* an edge raised ValueError

vars == <<strict, nodes, edges, refused>>

Init == strict \in BOOLEAN /\ nodes = {} /\ edges = <<>> /\ refused = FALSE

AddNode(n) == nodes' = nodes \cup {n} /\ UNCHANGED <<strict, edges, refused>>

Known(s, t) == strict => s \in nodes /\ t \in nodes

AddEdge(s, t) ==
  /\ Len(edges) < MaxEdges
  /\ edges' = IF Known(s, t) THEN Append(edges, <<s, t>>) ELSE edges
  /\ refused' = ~Known(s, t)
  /\ UNCHANGED <<strict, nodes>>

\* a call of dfs: where it is, where it goes, the edges taken and the nodes on the way
Calls == [at : Ids, to : Ids, path : Seq(DOMAIN edges), visited : SUBSET Ids]

\* the edges it follows, and the call it makes for one of them
Onward(c) == {k \in DOMAIN edges : edges[k][1] = c.at /\ edges[k][2] \notin c.visited \cup {c.at}}
Deeper(c, k) == [at |-> edges[k][2], to |-> c.to, path |-> Append(c.path, k),
                 visited |-> c.visited \cup {c.at}]

\* dfs: a node may be visited again on another path; its depth is the length of its path
dfs[c \in Calls] ==
  IF Len(c.path) > MaxDepth THEN {}
  ELSE IF c.at = c.to /\ c.path # <<>> THEN {c.path}
  ELSE UNION {dfs[Deeper(c, k)] : k \in Onward(c)}

FirstCall(start, target) == [at |-> start, to |-> target, path |-> <<>>, visited |-> {}]

\* mutant: the depth is tested before the target
DfsShort(start, target) ==
  LET short[c \in Calls] ==
        IF Len(c.path) >= MaxDepth THEN {}
        ELSE IF c.at = c.to /\ c.path # <<>> THEN {c.path}
        ELSE UNION {short[Deeper(c, k)] : k \in Onward(c)}
  IN short[FirstCall(start, target)]

Dfs(start, target) == dfs[FirstCall(start, target)]

\* find_paths and find_attack_paths
FindPaths(start, target) ==
  IF {start, target} \subseteq nodes THEN Dfs(start, target) ELSE {}

Next ==
  \/ \E n \in Ids : AddNode(n)
  \/ \E s, t \in Ids : AddEdge(s, t)

Spec == Init /\ [][Next]_vars
--------------------------------------------------------------------------------
(* Properties *)

TypeOK ==
  /\ nodes \subseteq Ids /\ strict \in BOOLEAN /\ refused \in BOOLEAN
  /\ edges \in Seq(Ids \X Ids) /\ Len(edges) <= MaxEdges

\* the nodes a path goes through
Stops(path) == [k \in 1 .. Len(path) + 1 |->
  IF k = 1 THEN edges[path[1]][1] ELSE edges[path[k - 1]][2]]

SimplePaths(start, target) ==
  {p \in UNION {[1 .. n -> DOMAIN edges] : n \in 1 .. MaxDepth} :
     LET at == Stops(p) IN
     /\ \A k \in 1 .. Len(p) : edges[p[k]][1] = at[k]
     /\ at[1] = start /\ at[Len(at)] = target
     /\ \A j, k \in DOMAIN at : at[j] = at[k] => j = k}

\* "Find all directed paths between two nodes up to max_depth" (iam_graph.py:46), by the
\* definition of a path: no two stops the same, parallel edges told apart, the last edge
\* still within the depth.  The search has a depth, a path and a set of visited nodes to
\* keep in step, and undoes two of them on its way back.
PathsAreTheSimplePaths ==
  \A s, t \in nodes : FindPaths(s, t) = SimplePaths(s, t)

\* In the unified graph every stop of an attack path is a node the graph can describe;
\* the identity graph does not promise that.
StopsAreNodes ==
  strict => \A s, t \in nodes : \A p \in FindPaths(s, t) :
    \A k \in 1 .. Len(p) : edges[p[k]][1] \in nodes /\ edges[p[k]][2] \in nodes
================================================================================
