----------------------------- MODULE Partitioner -----------------------------
(***************************************************************************)
(* How GetCapability groups the supported node units of a graph into the    *)
(* partitions that QNN compiles (CreateSupportedPartitionNodeGroups in      *)
(* qnn_ep_partition_utils.cc): a breadth-first walk in topological order    *)
(* that closes a group when only unsupported nodes on its border are left.  *)
(* A unit of several nodes (DQ, node, Q) is one node here, as in the code,  *)
(* which walks target nodes.                                                *)
(***************************************************************************)
EXTENDS Integers, Sequences, FiniteSets, Functions

VARIABLES
  nodes,       \* the units, in the graph's order
  edges,       \* <<producer, consumer>>, one for each slot in which GetOutputNodes finds a reader
  supported,   \* the units that QNN takes
  in_degree,   \* inputs from units that are not processed yet
  nodes_to_process, nodes_to_process_with_next_group,
  supported_group, supported_group_border,
  supported_groups

pvars == <<nodes, edges, supported, in_degree, nodes_to_process, nodes_to_process_with_next_group,
           supported_group, supported_group_border, supported_groups>>

walk == <<in_degree, nodes_to_process, nodes_to_process_with_next_group,
          supported_group, supported_group_border, supported_groups>>

InputEdges(es, v) == {k \in DOMAIN es : es[k][2] = v}

\* GetOutputNodes: the slots that v fills; a consumer appears once for each.
OutputEdges(es, v) == {k \in DOMAIN es : es[k][1] = v}

Degree(ns, es) == [v \in Range(ns) |-> Cardinality(InputEdges(es, v))]

\* The elements of s at the places K, in the order of s.
Nth(K, n) == CHOOSE k \in K : Cardinality({j \in K : j < k}) = n - 1
Listed(s, K) == [n \in 1..Cardinality(K) |-> s[Nth(K, n)]]

\* The walk before its loop.  in_degree is what GetInputEdgesCount says of the
\* units, whatever the edges are.
Roots(ns, d) == Listed(ns, {n \in DOMAIN ns : d[ns[n]] = 0})

InitWalk ==
  /\ nodes_to_process = Roots(nodes, in_degree)
  /\ nodes_to_process_with_next_group = <<>>
  /\ supported_group = <<>>
  /\ supported_group_border = {}
  /\ supported_groups = <<>>

Closed == IF supported_group = <<>> THEN supported_groups ELSE Append(supported_groups, supported_group)

\* Nothing is left for this group: the postponed nodes start the next one.
CloseGroup ==
  /\ nodes_to_process = <<>>
  /\ nodes_to_process_with_next_group # <<>>
  /\ supported_groups' = Closed
  /\ supported_group' = <<>>
  /\ supported_group_border' = IF supported_group = <<>> THEN supported_group_border ELSE {}
  /\ nodes_to_process' = nodes_to_process_with_next_group
  /\ nodes_to_process_with_next_group' = <<>>
  /\ UNCHANGED <<nodes, edges, supported, in_degree>>

\* Mutant: the border is not looked at.
NeverWaits(v) == FALSE

\* An unsupported node that reads from the group waits for the next one.
Waits(v) == v \notin supported /\ v \in supported_group_border

Postpone ==
  /\ nodes_to_process # <<>>
  /\ LET v == Head(nodes_to_process)
     IN  /\ Waits(v)
         /\ nodes_to_process_with_next_group' = Append(nodes_to_process_with_next_group, v)
  /\ nodes_to_process' = Tail(nodes_to_process)
  /\ UNCHANGED <<nodes, edges, supported, in_degree, supported_group, supported_group_border,
                 supported_groups>>

Process ==
  /\ nodes_to_process # <<>>
  /\ LET v == Head(nodes_to_process)
         outs == OutputEdges(edges, v)
         Count(w) == Cardinality(outs \cap InputEdges(edges, w))
         \* The slots are counted down one by one: a consumer is ready at 0.
         Ready(k) == LET w == edges[k][2]
                     IN  in_degree[w] = Cardinality({j \in outs \cap InputEdges(edges, w) : j <= k})
         ready == Listed(edges, {k \in outs : Ready(k)})
     IN  /\ ~Waits(v)
         /\ supported_group' = IF v \in supported THEN Append(supported_group, v) ELSE supported_group
         /\ supported_group_border' = IF v \in supported
                                      THEN (supported_group_border \ {v}) \cup {edges[k][2] : k \in outs}
                                      ELSE supported_group_border
         /\ in_degree' = [w \in DOMAIN in_degree |-> in_degree[w] - Count(w)]
         /\ nodes_to_process' = Tail(nodes_to_process) \o [n \in DOMAIN ready |-> ready[n][2]]
  /\ UNCHANGED <<nodes, edges, supported, nodes_to_process_with_next_group, supported_groups>>

WalkDone == nodes_to_process = <<>> /\ nodes_to_process_with_next_group = <<>>

Step == CloseGroup \/ Postpone \/ Process

(***************************************************************************)
(* What the groups must be.                                                 *)
(***************************************************************************)
\* Mutant: the group that is open when the loop ends is lost.
GroupsBeforeLast == supported_groups

Groups == IF WalkDone THEN Closed ELSE supported_groups

\* A node of the graph that is left once every group of gs is fused into one
\* node: the nodes that v is fused with.
Fused(gs, v) == {w \in Range(nodes) : w = v \/ \E g \in Range(gs) : {v, w} \subseteq Range(g)}

FusedNodes(gs, vs) == {Fused(gs, v) : v \in vs}

FusedEdges(gs, vs) ==
  {<<Fused(gs, edges[k][1]), Fused(gs, edges[k][2])>> : k \in {j \in DOMAIN edges : edges[j][2] \in vs}}

IsAcyclic(V, E) == \A S \in (SUBSET V) \ {{}} : \E v \in S : \A w \in S \ {v} : <<w, v>> \notin E

\* Every supported unit is in exactly one group, once, and no other is.
GroupsCoverSupported ==
  WalkDone =>
    /\ \A g \in Range(Groups) : Range(g) \subseteq supported
    /\ \A v \in supported : \E j \in DOMAIN Groups : \E n \in DOMAIN Groups[j] :
         \A h \in DOMAIN Groups : \A m \in DOMAIN Groups[h] :
           Groups[h][m] = v <=> h = j /\ m = n

\* Fusing the groups leaves a graph that can be executed: no group needs a
\* result of a node that needs a result of the group.
FusedGraphIsAcyclic ==
  WalkDone => IsAcyclic(FusedNodes(Groups, Range(nodes)), FusedEdges(Groups, Range(nodes)))

-----------------------------------------------------------------------------
(***************************************************************************)
(* The walk by itself: ORT hands over the nodes of an acyclic graph, a node  *)
(* after those it reads from.                                               *)
(***************************************************************************)
IsGraph ==
  /\ nodes \in Seq(Range(nodes))
  /\ \A m, n \in DOMAIN nodes : nodes[m] = nodes[n] => m = n
  /\ edges \in Seq(Range(edges))
  /\ \A k \in DOMAIN edges : \E m, n \in DOMAIN nodes : m < n /\ edges[k] = <<nodes[m], nodes[n]>>
  /\ supported \subseteq Range(nodes)

\* A unit has as many inputs as there are places where it reads from others.
CountsAgree == in_degree = Degree(nodes, edges)

Walk == IsGraph /\ CountsAgree /\ InitWalk /\ [][Step]_pvars
=============================================================================
