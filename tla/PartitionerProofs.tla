-------------------------- MODULE PartitionerProofs --------------------------
(***************************************************************************)
(* What CreateSupportedPartitionNodeGroups guarantees for every graph on    *)
(* which GetInputEdgesCount and GetOutputNodes agree (CountsAgree): the     *)
(* walk processes every node (so the throw at its end is never reached),    *)
(* the groups partition the supported nodes, and fusing each group leaves   *)
(* an acyclic graph.                                                        *)
(*                                                                          *)
(* The induction is on the steps of the walk.  QueueInv says what in_degree *)
(* counts and that the two queues hold the ready nodes once; GroupInv that  *)
(* the groups hold the supported nodes processed so far, once; BorderInv    *)
(* that what the open group feeds is in the group or still to come, which   *)
(* is why fusing the nodes processed so far leaves no cycle (AcyclicInv):   *)
(* the node that a step adds to the fused graph is a sink of it.            *)
(***************************************************************************)
EXTENDS Partitioner, FiniteSetTheorems, WellFoundedInduction, TLAPS

\* Leaves are for Zenon unless they name another prover.
USE Zenon

-----------------------------------------------------------------------------
\* The n-th place of K has n - 1 places before it.
LEMMA NthPlace ==
  ASSUME NEW K \in SUBSET Nat, IsFiniteSet(K), NEW n \in 1..Cardinality(K)
  PROVE  Nth(K, n) \in K /\ Cardinality({j \in K : j < Nth(K, n)}) = n - 1
<1> DEFINE B(k) == {j \in K : j < k}
           c == Cardinality(K)
           f == [k \in K |-> Cardinality(B(k)) + 1]
<1>1. c \in Nat
  BY FS_CardinalityType
<1>2. ASSUME NEW k \in K
      PROVE  IsFiniteSet(B(k)) /\ Cardinality(B(k)) \in Nat /\ Cardinality(B(k)) < c
  <2>1. B(k) \in SUBSET K /\ B(k) # K
    BY SMT
  <2>2. IsFiniteSet(B(k)) /\ Cardinality(B(k)) <= c /\ (c = Cardinality(B(k)) => K = B(k))
    BY <2>1, FS_Subset
  <2>3. Cardinality(B(k)) \in Nat
    BY <2>2, FS_CardinalityType
  <2> QED BY <1>1, <2>1, <2>2, <2>3, SMT
<1>3. ASSUME NEW k \in K, NEW l \in K, k < l PROVE Cardinality(B(k)) # Cardinality(B(l))
  <2>1. B(k) \in SUBSET B(l) /\ k \in B(l) /\ k \notin B(k)
    <3>1. \A j \in K : j < k => j < l
      BY <1>3, SMT
    <3>2. k \in B(l) /\ ~(k < k)
      BY <1>3, SMT
    <3> QED BY <3>1, <3>2
  <2>2. IsFiniteSet(B(l)) /\ B(l) # B(k)
    BY <1>2, <2>1
  <2> QED BY <2>1, <2>2, FS_Subset
<1>4. f \in [K -> 1..c]
  BY <1>1, <1>2, SMT
<1>5. \A k, l \in K : f[k] = f[l] => k = l
  <2> SUFFICES ASSUME NEW k \in K, NEW l \in K, f[k] = f[l], k # l PROVE FALSE
    OBVIOUS
  <2>1. Cardinality(B(k)) = Cardinality(B(l))
    BY <1>2, SMT
  <2>2. k < l \/ l < k
    BY SMT
  <2> QED BY <1>3, <2>1, <2>2
<1>6. f \in Injection(K, 1..c)
  BY <1>4, <1>5 DEF Injection, IsInjective
<1>7. IsFiniteSet(1..c) /\ Cardinality(1..c) = c
  BY <1>1, FS_Interval, SMT
<1>8. f \in Surjection(K, 1..c)
  BY <1>6, <1>7, FS_Injection
<1>9. PICK k \in K : f[k] = n
  BY <1>8 DEF Surjection
<1>10. Cardinality(B(k)) = n - 1
  BY <1>2, <1>9, SMT
<1> QED BY <1>10 DEF Nth

\* Listed lists each place once.
LEMMA AtPlaces ==
  ASSUME NEW S, NEW s \in Seq(S), NEW K \in SUBSET DOMAIN s
  PROVE  /\ IsFiniteSet(K) /\ Cardinality(K) \in Nat
         /\ Listed(s, K) \in Seq(S) /\ DOMAIN Listed(s, K) = 1..Cardinality(K)
         /\ \A n \in 1..Cardinality(K) : Nth(K, n) \in K /\ Listed(s, K)[n] = s[Nth(K, n)]
         /\ \A k \in K : \E n \in 1..Cardinality(K) : Nth(K, n) = k
         /\ \A m, n \in 1..Cardinality(K) : Nth(K, m) = Nth(K, n) => m = n
<1> DEFINE c == Cardinality(K)
<1>1. K \in SUBSET Nat /\ Len(s) \in Nat /\ \A k \in K : k <= Len(s)
  BY SMT
<1>2. IsFiniteSet(K) /\ c \in Nat
  <2>1. IsFiniteSet(K)
    BY <1>1, FS_BoundedSetOfNaturals
  <2> QED BY <2>1, FS_CardinalityType
<1>3. \A n \in 1..c : Nth(K, n) \in K /\ Cardinality({j \in K : j < Nth(K, n)}) = n - 1
  BY <1>1, <1>2, NthPlace
<1>4. \A m, n \in 1..c : Nth(K, m) = Nth(K, n) => m = n
  <2> SUFFICES ASSUME NEW m \in 1..c, NEW n \in 1..c, Nth(K, m) = Nth(K, n) PROVE m = n
    OBVIOUS
  <2>1. Cardinality({j \in K : j < Nth(K, m)}) = m - 1
    BY <1>3
  <2>2. Cardinality({j \in K : j < Nth(K, n)}) = n - 1
    BY <1>3
  <2>3. m - 1 = n - 1
    BY <2>1, <2>2
  <2> QED BY <1>2, <2>3, SMT
<1>5. \A n \in 1..c : s[Nth(K, n)] \in S
  <2>1. \A k \in DOMAIN s : s[k] \in S
    BY SMT
  <2> QED BY <1>3, <2>1
<1>6. Listed(s, K) \in [1..c -> S]
  BY <1>5 DEF Listed
<1>7. Listed(s, K) \in Seq(S) /\ DOMAIN Listed(s, K) = 1..c /\ \A n \in 1..c : Listed(s, K)[n] = s[Nth(K, n)]
  BY <1>2, <1>6, SMT DEF Listed
<1>8. \A k \in K : \E n \in 1..c : Nth(K, n) = k
  <2> DEFINE f == [n \in 1..c |-> Nth(K, n)]
  <2>1. f \in Injection(1..c, K)
    BY <1>3, <1>4 DEF Injection, IsInjective
  <2>2. Cardinality(1..c) = c
    BY <1>2, FS_Interval, SMT
  <2>3. f \in Surjection(1..c, K)
    BY <1>2, <2>1, <2>2, FS_Injection
  <2> QED BY <2>3 DEF Surjection
<1> QED BY <1>2, <1>3, <1>4, <1>7, <1>8

\* The last place of a set of places.
LEMMA LastPlace ==
  ASSUME NEW K \in SUBSET Nat, IsFiniteSet(K), K # {}
  PROVE  \E k \in K : \A j \in K : j <= k
<1> DEFINE c == Cardinality(K)
<1>1. c \in Nat \ {0}
  BY FS_CardinalityType, FS_EmptySet
<1>2. Nth(K, c) \in K /\ Cardinality({j \in K : j < Nth(K, c)}) = c - 1
  BY <1>1, NthPlace, SMT
<1> DEFINE k == Nth(K, c)
           B == {j \in K : j < k}
<1> HIDE DEF k
<1>3. IsFiniteSet(K \ {k}) /\ Cardinality(K \ {k}) = c - 1
  BY <1>2, FS_RemoveElement DEF k
<1>4. B \in SUBSET (K \ {k}) /\ Cardinality(B) = c - 1
  <2>1. k \in Nat /\ Cardinality(B) = c - 1
    BY <1>2 DEF k
  <2> QED BY <2>1, SMT
<1>5. B = K \ {k}
  BY <1>3, <1>4, FS_Subset
<1>6. k \in K /\ \A j \in K : j <= k
  <2>1. k \in K /\ k \in Nat
    BY <1>2 DEF k
  <2>2. \A j \in K : j = k \/ j \in B
    BY <1>5
  <2> QED BY <2>1, <2>2, SMT
<1> QED BY <1>6

-----------------------------------------------------------------------------
\* No element is listed twice.
Distinct(s) == \A m, n \in DOMAIN s : s[m] = s[n] => m = n

\* Appending a queue to another that shares no node with it.
LEMMA ConcatSeq ==
  ASSUME NEW S, NEW s \in Seq(S), NEW t \in Seq(S), Distinct(s), Distinct(t),
         Range(s) \cap Range(t) = {}
  PROVE  s \o t \in Seq(S) /\ Distinct(s \o t) /\ Range(s \o t) = Range(s) \cup Range(t)
<1> DEFINE u == s \o t
<1>1. /\ u \in Seq(S) /\ DOMAIN u = 1..(Len(s) + Len(t))
      /\ \A n \in 1..Len(s) : u[n] = s[n]
      /\ \A n \in 1..Len(t) : u[n + Len(s)] = t[n]
      /\ Len(s) \in Nat /\ Len(t) \in Nat /\ DOMAIN s = 1..Len(s) /\ DOMAIN t = 1..Len(t)
  BY SMT
<1> HIDE DEF u
<1>2. \A n \in DOMAIN u : n \in 1..Len(s) \/ (n - Len(s) \in 1..Len(t) /\ u[n] = t[n - Len(s)])
  <2> TAKE n \in DOMAIN u
  <2>1. CASE n > Len(s)
    <3> DEFINE m == n - Len(s)
    <3>1. m \in 1..Len(t) /\ m + Len(s) = n
      BY <1>1, <2>1, SMT
    <3> QED BY <1>1, <3>1
  <2> QED BY <1>1, <2>1, SMT
<1>3. Range(u) = Range(s) \cup Range(t)
  <2>1. ASSUME NEW x \in Range(u) PROVE x \in Range(s) \cup Range(t)
    BY <1>1, <1>2 DEF Range
  <2>2. ASSUME NEW x \in Range(s) PROVE x \in Range(u)
    BY <1>1, SMT DEF Range
  <2>3. ASSUME NEW x \in Range(t) PROVE x \in Range(u)
    <3>1. PICK n \in 1..Len(t) : x = t[n]
      BY <1>1 DEF Range
    <3>2. n + Len(s) \in DOMAIN u /\ u[n + Len(s)] = x
      BY <1>1, <3>1, SMT
    <3> QED BY <3>2 DEF Range
  <2> QED BY <2>1, <2>2, <2>3
<1>4. ASSUME NEW m \in DOMAIN u, NEW n \in DOMAIN u, u[m] = u[n] PROVE m = n
  <2>1. CASE m \in 1..Len(s) /\ n \in 1..Len(s)
    BY <1>1, <1>4, <2>1 DEF Distinct
  <2>2. CASE m \notin 1..Len(s) /\ n \notin 1..Len(s)
    <3>1. m - Len(s) = n - Len(s)
      BY <1>1, <1>2, <1>4, <2>2, SMT DEF Distinct
    <3> QED BY <1>1, <3>1, SMT
  <2> DEFINE First(i) == i \in 1..Len(s)
  <2>3. ASSUME NEW i \in DOMAIN u PROVE IF First(i) THEN u[i] \in Range(s) ELSE u[i] \in Range(t)
    <3>1. CASE First(i)
      BY <1>1, <3>1 DEF Range
    <3>2. CASE ~First(i)
      BY <1>1, <1>2, <3>2 DEF Range
    <3> QED BY <3>1, <3>2
  <2>4. First(m) <=> First(n)
    BY <1>4, <2>3
  <2> QED BY <2>1, <2>2, <2>4
<1> QED BY <1>1, <1>3, <1>4 DEF Distinct, u

\* Taking the first node off a queue.
LEMMA TailSeq ==
  ASSUME NEW S, NEW s \in Seq(S), s # <<>>, Distinct(s)
  PROVE  /\ Head(s) \in Range(s) /\ Head(s) \in S
         /\ Tail(s) \in Seq(S) /\ Distinct(Tail(s)) /\ Range(Tail(s)) = Range(s) \ {Head(s)}
<1> DEFINE t == Tail(s)
<1>1. /\ Len(s) \in Nat \ {0} /\ DOMAIN s = 1..Len(s) /\ Head(s) = s[1] /\ Head(s) \in S
      /\ t \in Seq(S) /\ DOMAIN t = 1..(Len(s) - 1) /\ \A n \in 1..(Len(s) - 1) : t[n] = s[n + 1]
  BY SMT
<1> HIDE DEF t
<1>2. Range(t) = Range(s) \ {Head(s)}
  <2>1. ASSUME NEW x \in Range(t) PROVE x \in Range(s) \ {Head(s)}
    <3>1. PICK n \in 1..(Len(s) - 1) : x = s[n + 1]
      BY <1>1 DEF Range
    <3>2. n + 1 \in DOMAIN s /\ n + 1 # 1
      BY <1>1, <3>1, SMT
    <3> QED BY <1>1, <3>1, <3>2, SMT DEF Range, Distinct
  <2>2. ASSUME NEW x \in Range(s), x # Head(s) PROVE x \in Range(t)
    <3>1. PICK n \in DOMAIN s : x = s[n]
      BY DEF Range
    <3> DEFINE m == n - 1
    <3>2. m \in 1..(Len(s) - 1) /\ m + 1 = n
      BY <1>1, <2>2, <3>1, SMT
    <3>3. t[m] = x
      BY <1>1, <3>1, <3>2
    <3> QED BY <1>1, <3>2, <3>3 DEF Range
  <2> QED BY <2>1, <2>2
<1>3. Distinct(t)
  <2> SUFFICES ASSUME NEW m \in DOMAIN t, NEW n \in DOMAIN t, t[m] = t[n] PROVE m = n
    BY DEF Distinct
  <2>1. m + 1 \in DOMAIN s /\ n + 1 \in DOMAIN s /\ s[m + 1] = s[n + 1]
    BY <1>1, SMT
  <2>2. m + 1 = n + 1
    BY <2>1 DEF Distinct
  <2> QED BY <1>1, <2>2, SMT
<1> QED BY <1>1, <1>2, <1>3, SMT DEF Range, t

\* Adding one element at the end of a queue, a group or the list of groups.
LEMMA AppendSeq ==
  ASSUME NEW S, NEW s \in Seq(S), NEW x \in S
  PROVE  /\ Append(s, x) \in Seq(S) /\ Range(Append(s, x)) = Range(s) \cup {x}
         /\ Distinct(s) /\ x \notin Range(s) => Distinct(Append(s, x))
<1> DEFINE t == Append(s, x)
<1>1. /\ t \in Seq(S) /\ Len(s) \in Nat /\ DOMAIN s = 1..Len(s) /\ DOMAIN t = 1..(Len(s) + 1)
      /\ t[Len(s) + 1] = x /\ \A n \in 1..Len(s) : t[n] = s[n]
  BY SMT
<1> HIDE DEF t
<1>2. \A n \in DOMAIN t : n \in DOMAIN s \/ n = Len(s) + 1
  BY <1>1, SMT
<1>3. DOMAIN s \subseteq DOMAIN t /\ Len(s) + 1 \in DOMAIN t
  BY <1>1, SMT
<1>4. Range(t) = Range(s) \cup {x}
  BY <1>1, <1>2, <1>3 DEF Range
<1>5. Distinct(s) /\ x \notin Range(s) => Distinct(t)
  BY <1>1, <1>2 DEF Distinct, Range
<1> QED BY <1>1, <1>4, <1>5 DEF t

\* The nodes in one of the two queues, and those that left them for good.
Queued == Range(nodes_to_process) \cup Range(nodes_to_process_with_next_group)
Processed == {v \in Range(nodes) : in_degree[v] = 0 /\ v \notin Queued}
\* The inputs of w that in_degree counts.
Unmet(w) == {k \in InputEdges(edges, w) : edges[k][1] \notin Processed}

QueueInv ==
  /\ in_degree \in [Range(nodes) -> Nat]
  /\ nodes_to_process \in Seq(Range(nodes)) /\ Distinct(nodes_to_process)
  /\ nodes_to_process_with_next_group \in Seq(Range(nodes))
  /\ Distinct(nodes_to_process_with_next_group)
  /\ Range(nodes_to_process) \cap Range(nodes_to_process_with_next_group) = {}
  /\ \A v \in Queued : in_degree[v] = 0
  /\ \A v \in Range(nodes) : in_degree[v] = Cardinality(Unmet(v))

\* The edges lead from node to node, never back to where they start.
LEMMA EdgeEnds ==
  ASSUME IsGraph, NEW k \in DOMAIN edges
  PROVE  edges[k][1] \in Range(nodes) /\ edges[k][2] \in Range(nodes) /\ edges[k][1] # edges[k][2]
<1>1. PICK m \in DOMAIN nodes, n \in DOMAIN nodes : m < n /\ edges[k] = <<nodes[m], nodes[n]>>
  BY DEF IsGraph
<1>2. m # n
  BY <1>1, SMT DEF IsGraph
<1> QED BY <1>1, <1>2, SMT DEF IsGraph, Range

\* The sets of places that the walk counts are finite.
LEMMA PlacesFinite ==
  ASSUME IsGraph, NEW K \in SUBSET DOMAIN edges
  PROVE  /\ IsFiniteSet(K) /\ Cardinality(K) \in Nat /\ K \in SUBSET Nat
         /\ Cardinality(K) = 0 <=> K = {}
<1>1. edges \in Seq(Range(edges))
  BY DEF IsGraph
<1>2. IsFiniteSet(K) /\ Cardinality(K) \in Nat
  BY <1>1, AtPlaces
<1>3. K \in SUBSET Nat
  BY <1>1, SMT
<1> QED BY <1>2, <1>3, FS_EmptySet

\* A node that is processed, or ready to be, has all its producers processed.
LEMMA ProducersProcessed ==
  ASSUME IsGraph, QueueInv, NEW k \in DOMAIN edges, in_degree[edges[k][2]] = 0
  PROVE  edges[k][1] \in Processed
<1> DEFINE w == edges[k][2]
<1>1. w \in Range(nodes) /\ Unmet(w) \in SUBSET DOMAIN edges
  BY EdgeEnds DEF Unmet, InputEdges
<1>2. Cardinality(Unmet(w)) = 0
  BY <1>1 DEF QueueInv
<1>3. Unmet(w) = {}
  BY <1>1, <1>2, PlacesFinite
<1> QED BY <1>3 DEF Unmet, InputEdges

\* The walk starts with the nodes without inputs in the queue.
LEMMA InitQueueInv == ASSUME IsGraph, CountsAgree, InitWalk PROVE QueueInv /\ Processed = {}
<1> DEFINE d == Degree(nodes, edges)
           K == {n \in DOMAIN nodes : in_degree[nodes[n]] = 0}
<1>1. \A v \in Range(nodes) : InputEdges(edges, v) \in SUBSET DOMAIN edges
  BY DEF InputEdges
<1>2. /\ in_degree = d /\ d \in [Range(nodes) -> Nat]
      /\ \A v \in Range(nodes) : in_degree[v] = Cardinality(InputEdges(edges, v))
  BY <1>1, PlacesFinite DEF CountsAgree, Degree
<1>3. nodes \in Seq(Range(nodes)) /\ K \in SUBSET DOMAIN nodes
  BY DEF IsGraph
<1>4. /\ nodes_to_process = Listed(nodes, K)
      /\ nodes_to_process_with_next_group = <<>>
  BY DEF InitWalk, Roots
<1> HIDE DEF K, d
<1>5. /\ nodes_to_process \in Seq(Range(nodes)) /\ DOMAIN nodes_to_process = 1..Cardinality(K)
      /\ \A n \in DOMAIN nodes_to_process : Nth(K, n) \in K /\ nodes_to_process[n] = nodes[Nth(K, n)]
      /\ \A k \in K : \E n \in DOMAIN nodes_to_process : Nth(K, n) = k
      /\ \A m, n \in DOMAIN nodes_to_process : Nth(K, m) = Nth(K, n) => m = n
  <2>1. /\ Listed(nodes, K) \in Seq(Range(nodes)) /\ DOMAIN Listed(nodes, K) = 1..Cardinality(K)
        /\ \A n \in 1..Cardinality(K) : Nth(K, n) \in K /\ Listed(nodes, K)[n] = nodes[Nth(K, n)]
        /\ \A k \in K : \E n \in 1..Cardinality(K) : Nth(K, n) = k
        /\ \A m, n \in 1..Cardinality(K) : Nth(K, m) = Nth(K, n) => m = n
    BY <1>3, AtPlaces, SMT
  <2> QED BY <1>4, <2>1
<1>6. Distinct(nodes_to_process)
  <2> SUFFICES ASSUME NEW m \in DOMAIN nodes_to_process, NEW n \in DOMAIN nodes_to_process,
                      nodes_to_process[m] = nodes_to_process[n]
               PROVE  m = n
    BY DEF Distinct
  <2>1. Nth(K, m) \in DOMAIN nodes /\ Nth(K, n) \in DOMAIN nodes
        /\ nodes[Nth(K, m)] = nodes[Nth(K, n)]
    BY <1>3, <1>5
  <2>2. Nth(K, m) = Nth(K, n)
    BY <2>1 DEF IsGraph
  <2> QED BY <1>5, <2>2
<1>7. Range(nodes_to_process) = {v \in Range(nodes) : in_degree[v] = 0}
  <2>1. ASSUME NEW v \in Range(nodes_to_process) PROVE v \in Range(nodes) /\ in_degree[v] = 0
    <3>1. PICK n \in DOMAIN nodes_to_process : v = nodes[Nth(K, n)] /\ Nth(K, n) \in K
      BY <1>5 DEF Range
    <3> QED BY <1>2, <3>1 DEF K, Range
  <2>2. ASSUME NEW v \in Range(nodes), in_degree[v] = 0 PROVE v \in Range(nodes_to_process)
    <3>1. PICK k \in DOMAIN nodes : v = nodes[k]
      BY DEF Range
    <3>2. k \in K
      BY <1>2, <2>2, <3>1 DEF K
    <3>3. PICK n \in DOMAIN nodes_to_process : Nth(K, n) = k
      BY <1>5, <3>2
    <3> QED BY <1>5, <3>1, <3>3 DEF Range
  <2> QED BY <2>1, <2>2
<1>8. Range(nodes_to_process_with_next_group) = {} /\ Distinct(nodes_to_process_with_next_group)
      /\ nodes_to_process_with_next_group \in Seq(Range(nodes))
  BY <1>4, SMT DEF Range, Distinct
<1>9. Processed = {}
  BY <1>7 DEF Processed, Queued
<1>10. \A v : Unmet(v) = InputEdges(edges, v)
  BY <1>9 DEF Unmet, InputEdges
<1> QED BY <1>2, <1>5, <1>6, <1>7, <1>8, <1>9, <1>10 DEF QueueInv, Queued

\* A step that moves nodes from one queue to the other processes none.
LEMMA QueueKept ==
  ASSUME QueueInv, UNCHANGED <<nodes, edges, in_degree>>, Queued' = Queued
  PROVE  Processed' = Processed /\ \A v : Unmet(v)' = Unmet(v)
<1>1. Processed' = Processed
  BY DEF Processed
<1> QED BY <1>1 DEF Unmet, InputEdges

\* Starting the next group swaps an empty queue with the other.
LEMMA CloseKeepsQueueInv ==
  ASSUME QueueInv, CloseGroup PROVE QueueInv' /\ Processed' = Processed
<1>1. /\ nodes_to_process = <<>> /\ nodes_to_process' = nodes_to_process_with_next_group
      /\ nodes_to_process_with_next_group' = <<>> /\ UNCHANGED <<nodes, edges, in_degree>>
  BY DEF CloseGroup
<1>2. Range(nodes_to_process) = {} /\ Range(nodes_to_process_with_next_group)' = {}
      /\ Distinct(nodes_to_process_with_next_group)'
      /\ nodes_to_process_with_next_group' \in Seq(Range(nodes))
  BY <1>1, SMT DEF Range, Distinct
<1>3. Range(nodes_to_process)' = Range(nodes_to_process_with_next_group)
      /\ Distinct(nodes_to_process)' /\ Range(nodes)' = Range(nodes)
  BY <1>1, SMT DEF QueueInv, Range, Distinct
<1>4. Queued' = Queued
  BY <1>2, <1>3 DEF Queued
<1>5. Processed' = Processed /\ \A v : Unmet(v)' = Unmet(v)
  BY <1>1, <1>4, QueueKept
<1> QED BY <1>1, <1>2, <1>3, <1>4, <1>5 DEF QueueInv

\* A postponed node goes from one queue to the other.
LEMMA PostponeKeepsQueueInv ==
  ASSUME QueueInv, Postpone PROVE QueueInv' /\ Processed' = Processed
<1> DEFINE v == Head(nodes_to_process)
           N == Range(nodes)
<1>1. /\ nodes_to_process # <<>> /\ nodes_to_process' = Tail(nodes_to_process)
      /\ nodes_to_process_with_next_group' = Append(nodes_to_process_with_next_group, v)
      /\ UNCHANGED <<nodes, edges, in_degree>>
  BY DEF Postpone
<1>2. /\ v \in Range(nodes_to_process) /\ v \in N /\ Tail(nodes_to_process) \in Seq(N)
      /\ Distinct(Tail(nodes_to_process))
      /\ Range(Tail(nodes_to_process)) = Range(nodes_to_process) \ {v}
  BY <1>1, TailSeq DEF QueueInv
<1>3. /\ Append(nodes_to_process_with_next_group, v) \in Seq(N)
      /\ Range(Append(nodes_to_process_with_next_group, v))
           = Range(nodes_to_process_with_next_group) \cup {v}
      /\ Distinct(Append(nodes_to_process_with_next_group, v))
  <2>1. v \notin Range(nodes_to_process_with_next_group)
    BY <1>2 DEF QueueInv
  <2> QED BY <1>2, <2>1, AppendSeq, SMT DEF QueueInv
<1> HIDE DEF v, N
<1>4. /\ Range(nodes_to_process)' = Range(nodes_to_process) \ {v}
      /\ Range(nodes_to_process_with_next_group)' = Range(nodes_to_process_with_next_group) \cup {v}
      /\ Distinct(nodes_to_process)' /\ Distinct(nodes_to_process_with_next_group)'
      /\ Range(nodes)' = N
  <2>1. /\ Range(nodes_to_process)' = Range(Tail(nodes_to_process))
        /\ Distinct(nodes_to_process)' = Distinct(Tail(nodes_to_process))
        /\ Range(nodes)' = Range(nodes)
    BY <1>1 DEF Range, Distinct
  <2>2. /\ Range(nodes_to_process_with_next_group)'
             = Range(Append(nodes_to_process_with_next_group, v))
        /\ Distinct(nodes_to_process_with_next_group)'
             = Distinct(Append(nodes_to_process_with_next_group, v))
    BY <1>1 DEF Range, Distinct
  <2> QED BY <1>2, <1>3, <2>1, <2>2 DEF N
<1>5. Queued' = Queued
  BY <1>2, <1>4 DEF Queued
<1>6. Processed' = Processed /\ \A w : Unmet(w)' = Unmet(w)
  BY <1>1, <1>5, QueueKept
<1> QED BY <1>1, <1>2, <1>3, <1>4, <1>5, <1>6 DEF QueueInv, N

\* Processing v meets the inputs that v fills; the consumers with no input
\* left join the queue, once each, at the last of their slots that v fills.
LEMMA ProcessKeepsQueueInv ==
  ASSUME IsGraph, QueueInv, Process
  PROVE  LET v == Head(nodes_to_process)
         IN  /\ QueueInv' /\ Processed' = Processed \cup {v}
             /\ v \in Range(nodes) \ Processed /\ in_degree[v] = 0
<1> DEFINE v == Head(nodes_to_process)
           N == Range(nodes)
           outs == OutputEdges(edges, v)
           I(w) == outs \cap InputEdges(edges, w)
           J(w, k) == {j \in I(w) : j <= k}
           K == {k \in outs : in_degree[edges[k][2]] = Cardinality(J(edges[k][2], k))}
           s == [n \in DOMAIN Listed(edges, K) |-> Listed(edges, K)[n][2]]
           R == {edges[k][2] : k \in K}
<1>1. /\ nodes_to_process # <<>> /\ nodes_to_process' = Tail(nodes_to_process) \o s
      /\ in_degree' = [w \in DOMAIN in_degree |-> in_degree[w] - Cardinality(I(w))]
      /\ UNCHANGED <<nodes, edges, nodes_to_process_with_next_group>>
  BY DEF Process
<1>2. /\ v \in Range(nodes_to_process) /\ v \in N /\ Tail(nodes_to_process) \in Seq(N)
      /\ Distinct(Tail(nodes_to_process))
      /\ Range(Tail(nodes_to_process)) = Range(nodes_to_process) \ {v}
  BY <1>1, TailSeq DEF QueueInv
<1>3. v \in Queued /\ in_degree[v] = 0 /\ v \notin Processed
  BY <1>2 DEF Queued, QueueInv, Processed
<1>4. /\ outs \in SUBSET DOMAIN edges /\ K \in SUBSET outs
      /\ \A k \in outs : edges[k][1] = v /\ k \in I(edges[k][2])
      /\ \A w : I(w) \in SUBSET outs /\ \A k \in I(w) : edges[k][2] = w
  BY DEF OutputEdges, InputEdges
<1>5. \A w : I(w) \in SUBSET Unmet(w)
  BY <1>3, <1>4 DEF Unmet, InputEdges
<1>6. \A w : Unmet(w) \in SUBSET DOMAIN edges
  BY DEF Unmet, InputEdges
<1>7. ASSUME NEW w \in N
      PROVE  /\ IsFiniteSet(Unmet(w)) /\ IsFiniteSet(I(w)) /\ Cardinality(I(w)) \in Nat
             /\ I(w) \in SUBSET Nat
             /\ Cardinality(I(w)) = 0 <=> I(w) = {}
             /\ in_degree[w] = Cardinality(Unmet(w)) /\ in_degree[w] \in Nat
             /\ in_degree'[w] = in_degree[w] - Cardinality(I(w))
             /\ in_degree'[w] = Cardinality(Unmet(w) \ I(w)) /\ in_degree'[w] \in Nat
  <2>1. /\ IsFiniteSet(Unmet(w)) /\ IsFiniteSet(I(w)) /\ Cardinality(I(w)) \in Nat
        /\ I(w) \in SUBSET Nat
        /\ Cardinality(I(w)) = 0 <=> I(w) = {}
    <3>1. I(w) \in SUBSET DOMAIN edges
      BY <1>4
    <3> QED BY <1>6, <3>1, PlacesFinite
  <2>2. /\ in_degree[w] = Cardinality(Unmet(w)) /\ in_degree[w] \in Nat
        /\ in_degree'[w] = in_degree[w] - Cardinality(I(w))
    BY <1>1 DEF QueueInv
  <2>3. Unmet(w) \cap I(w) = I(w)
    BY <1>5
  <2>4. Cardinality(Unmet(w) \ I(w)) = Cardinality(Unmet(w)) - Cardinality(I(w))
        /\ IsFiniteSet(Unmet(w) \ I(w))
    <3>1. /\ IsFiniteSet(Unmet(w) \ I(w))
          /\ Cardinality(Unmet(w) \ I(w)) = Cardinality(Unmet(w)) - Cardinality(Unmet(w) \cap I(w))
      BY <2>1, FS_Difference
    <3> QED BY <2>3, <3>1
  <2>5. Cardinality(Unmet(w) \ I(w)) \in Nat
    BY <2>4, FS_CardinalityType
  <2> QED BY <2>1, <2>2, <2>4, <2>5
<1> HIDE DEF v, outs, I, s, R
<1>full. ASSUME NEW k \in K
         PROVE  /\ in_degree[edges[k][2]] = Cardinality(I(edges[k][2]))
                /\ \A j \in I(edges[k][2]) : j <= k
  <2> DEFINE w == edges[k][2]
  <2>1. w \in N
    BY <1>4, EdgeEnds
  <2>2. J(w, k) \in SUBSET I(w) /\ in_degree[w] = Cardinality(J(w, k))
    OBVIOUS
  <2>3. /\ Cardinality(J(w, k)) <= Cardinality(I(w))
        /\ Cardinality(J(w, k)) = Cardinality(I(w)) => J(w, k) = I(w)
    BY <1>7, <2>1, <2>2, FS_Subset
  <2>4. Cardinality(J(w, k)) = Cardinality(I(w))
    <3>1. /\ in_degree[w] \in Nat /\ Cardinality(I(w)) \in Nat
          /\ in_degree[w] - Cardinality(I(w)) \in Nat
      BY <1>7, <2>1
    <3> QED BY <2>2, <2>3, <3>1, SMT
  <2> QED BY <2>2, <2>3, <2>4
<1>last. ASSUME NEW k \in outs, in_degree[edges[k][2]] = Cardinality(I(edges[k][2])),
                \A j \in I(edges[k][2]) : j <= k
         PROVE  k \in K
  <2>1. J(edges[k][2], k) = I(edges[k][2])
    BY <1>last
  <2> QED BY <1>last, <2>1
<1> HIDE DEF J, K
<1>8. ASSUME NEW w \in R
      PROVE  w \in N /\ in_degree[w] # 0 /\ in_degree'[w] = 0
  <2>1. PICK k \in K : w = edges[k][2]
    BY DEF R
  <2>2. in_degree[w] = Cardinality(I(w)) /\ k \in I(w)
    BY <1>4, <1>full, <2>1
  <2>3. w \in N
    BY <1>4, <2>1, EdgeEnds
  <2>4. /\ Cardinality(I(w)) \in Nat
        /\ Cardinality(I(w)) = 0 <=> I(w) = {}
        /\ in_degree'[w] = in_degree[w] - Cardinality(I(w))
    BY <1>7, <2>3
  <2> QED BY <2>2, <2>3, <2>4, SMT
<1>9. ASSUME NEW w \in N, in_degree[w] # 0, in_degree'[w] = 0 PROVE w \in R
  <2>1. in_degree[w] = Cardinality(I(w)) /\ I(w) # {}
    <3>1. /\ Cardinality(I(w)) \in Nat /\ in_degree[w] \in Nat
          /\ Cardinality(I(w)) = 0 <=> I(w) = {}
          /\ in_degree'[w] = in_degree[w] - Cardinality(I(w))
      BY <1>7
    <3> QED BY <1>9, <3>1, SMT
  <2>2. PICK k \in I(w) : \A j \in I(w) : j <= k
    BY <1>7, <2>1, LastPlace
  <2>3. k \in outs /\ edges[k][2] = w
    BY <1>4
  <2>4. k \in K
    BY <1>last, <2>1, <2>2, <2>3
  <2> QED BY <2>3, <2>4 DEF R
<1>10. \A w \in N : in_degree[w] = 0 => in_degree'[w] = 0
  <2> TAKE w \in N
  <2>1. /\ Cardinality(I(w)) \in Nat /\ in_degree'[w] \in Nat
        /\ in_degree'[w] = in_degree[w] - Cardinality(I(w))
    BY <1>7
  <2> QED BY <2>1, SMT
<1>11. /\ s \in Seq(N) /\ Distinct(s) /\ Range(s) = R
  <2>1. edges \in Seq(Range(edges)) /\ K \in SUBSET DOMAIN edges
    BY <1>4 DEF IsGraph
  <2>2. /\ IsFiniteSet(K) /\ Cardinality(K) \in Nat /\ DOMAIN Listed(edges, K) = 1..Cardinality(K)
        /\ \A n \in 1..Cardinality(K) : Nth(K, n) \in K /\ Listed(edges, K)[n] = edges[Nth(K, n)]
        /\ \A k \in K : \E n \in 1..Cardinality(K) : Nth(K, n) = k
        /\ \A m, n \in 1..Cardinality(K) : Nth(K, m) = Nth(K, n) => m = n
    BY <2>1, AtPlaces, SMT
  <2>3. /\ DOMAIN s = 1..Cardinality(K)
        /\ \A n \in 1..Cardinality(K) : s[n] = edges[Nth(K, n)][2]
    BY <2>2 DEF s
  <2>4. \A k \in K : edges[k][2] \in N
    BY <2>1, EdgeEnds
  <2>5. s \in Seq(N)
    <3>1. s = [n \in 1..Cardinality(K) |-> s[n]] /\ \A n \in 1..Cardinality(K) : s[n] \in N
      BY <2>2, <2>3, <2>4 DEF s
    <3>2. s \in [1..Cardinality(K) -> N]
      BY <3>1
    <3> QED BY <2>2, <3>2, SMT
  <2>6. Range(s) = R
    <3>1. \A x \in Range(s) : x \in R
      BY <2>2, <2>3, SMT DEF Range, R
    <3>2. ASSUME NEW x \in R PROVE x \in Range(s)
      <4>1. PICK k \in K : x = edges[k][2]
        BY DEF R
      <4>2. PICK n \in 1..Cardinality(K) : Nth(K, n) = k
        BY <2>2
      <4> QED BY <2>3, <4>1, <4>2 DEF Range
    <3> QED BY <3>1, <3>2
  <2>7. Distinct(s)
    <3> SUFFICES ASSUME NEW m \in 1..Cardinality(K), NEW n \in 1..Cardinality(K), s[m] = s[n]
                 PROVE  m = n
      BY <2>3 DEF Distinct
    <3> DEFINE k == Nth(K, m)
               l == Nth(K, n)
    <3>1. k \in K /\ l \in K /\ edges[k][2] = edges[l][2]
      BY <2>2, <2>3
    <3>2. k \in outs /\ l \in outs /\ k \in Nat /\ l \in Nat
      BY <1>4, <2>1, <3>1, PlacesFinite
    <3>3. l <= k /\ k <= l
      BY <1>4, <1>full, <3>1, <3>2
    <3>4. k = l
      BY <3>2, <3>3, SMT
    <3> QED BY <2>2, <3>4
  <2> QED BY <2>5, <2>6, <2>7
<1>12. Range(Tail(nodes_to_process)) \cap R = {} /\ R \cap Queued = {}
  BY <1>2, <1>8 DEF Queued, QueueInv
<1>13. /\ nodes_to_process' \in Seq(N) /\ Distinct(nodes_to_process)'
       /\ Range(nodes_to_process)' = (Range(nodes_to_process) \ {v}) \cup R
  <2>1. /\ Tail(nodes_to_process) \o s \in Seq(N) /\ Distinct(Tail(nodes_to_process) \o s)
        /\ Range(Tail(nodes_to_process) \o s) = Range(Tail(nodes_to_process)) \cup R
    <3>1. Range(Tail(nodes_to_process)) \cap Range(s) = {}
      BY <1>11, <1>12
    <3> DEFINE q == Tail(nodes_to_process)
    <3>2. q \in Seq(N) /\ Distinct(q) /\ Range(q) \cap Range(s) = {} /\ s \in Seq(N) /\ Distinct(s)
      BY <1>2, <1>11, <3>1
    <3> HIDE DEF N, q
    <3>3. q \o s \in Seq(N) /\ Distinct(q \o s) /\ Range(q \o s) = Range(q) \cup Range(s)
      BY <3>2, ConcatSeq, SMT
    <3> QED BY <1>11, <3>3 DEF q
  <2>2. /\ Range(nodes_to_process)' = Range(Tail(nodes_to_process) \o s)
        /\ Distinct(nodes_to_process)' = Distinct(Tail(nodes_to_process) \o s)
    BY <1>1 DEF Range, Distinct
  <2> QED BY <1>1, <1>2, <2>1, <2>2
<1>14. /\ Range(nodes_to_process_with_next_group)' = Range(nodes_to_process_with_next_group)
       /\ Distinct(nodes_to_process_with_next_group)' = Distinct(nodes_to_process_with_next_group)
       /\ Range(nodes)' = N
  BY <1>1 DEF Range, Distinct
<1>15. Queued' = (Queued \ {v}) \cup R
  <2>1. v \notin Range(nodes_to_process_with_next_group)
    BY <1>2 DEF QueueInv
  <2> QED BY <1>13, <1>14, <2>1 DEF Queued
<1>16. Processed' = Processed \cup {v}
  <2>1. v \notin R
    BY <1>3, <1>8
  <2>2. ASSUME NEW w \in N PROVE w \in Processed' <=> w \in Processed \/ w = v
    BY <1>2, <1>3, <1>8, <1>9, <1>10, <1>14, <1>15, <2>1 DEF Processed
  <2> QED BY <1>2, <1>14, <2>2 DEF Processed
<1>17. \A w \in N : Unmet(w)' = Unmet(w) \ I(w)
  <2> TAKE w \in N
  <2>1. \A k \in InputEdges(edges, w) : k \in I(w) <=> edges[k][1] = v
    BY DEF I, outs, OutputEdges, InputEdges
  <2>2. InputEdges(edges, w)' = InputEdges(edges, w)
    BY <1>1 DEF InputEdges
  <2> QED BY <1>1, <1>16, <2>1, <2>2 DEF Unmet
<1>18. \A w \in Queued' : in_degree'[w] = 0
  BY <1>8, <1>10, <1>15, SMT DEF QueueInv, Queued, Range
<1>19. in_degree' \in [N -> Nat]
  <2>1. in_degree' = [w \in N |-> in_degree'[w]]
    BY <1>1 DEF QueueInv
  <2> QED BY <1>7, <2>1
<1>20. QueueInv'
  <2>1. (Range(nodes_to_process) \cap Range(nodes_to_process_with_next_group) = {})'
    BY <1>12, <1>13, <1>14 DEF QueueInv, Queued
  <2>2. \A w \in N : in_degree'[w] = Cardinality(Unmet(w)')
    BY <1>7, <1>17
  <2> QED BY <1>1, <1>13, <1>14, <1>18, <1>19, <2>1, <2>2 DEF QueueInv
<1> QED BY <1>2, <1>3, <1>16, <1>20 DEF v

\* The groups as if the open one were closed now.
Open == Append(supported_groups, supported_group)

\* The groups hold the supported nodes that are processed, each in one place.
GroupInv ==
  /\ supported_group \in Seq(supported) /\ Distinct(supported_group)
  /\ supported_groups \in Seq(Seq(supported))
  /\ \A h, j \in DOMAIN supported_groups :
       \A m \in DOMAIN supported_groups[h], n \in DOMAIN supported_groups[j] :
         supported_groups[h][m] = supported_groups[j][n] => h = j /\ m = n
  /\ \A g \in Range(supported_groups) : Range(g) \cap Range(supported_group) = {}
  /\ \A v : v \in supported \cap Processed <=>
              \/ v \in Range(supported_group)
              \/ \E g \in Range(supported_groups) : v \in Range(g)

\* What the open group's nodes feed is in the group or still to come, and it
\* waits on the border if QNN does not take it.
BorderInv ==
  \A k \in DOMAIN edges : edges[k][1] \in Range(supported_group) =>
    \/ edges[k][2] \in Range(supported_group)
    \/ edges[k][2] \notin Processed /\ edges[k][2] \in supported \cup supported_group_border

\* What is processed so far can be fused.
AcyclicInv == IsAcyclic(FusedNodes(Open, Processed), FusedEdges(Open, Processed))

WalkInv == IsGraph /\ QueueInv /\ GroupInv /\ BorderInv /\ AcyclicInv

\* A graph stays acyclic when a node without an edge to the others is added.
LEMMA SinkKeepsAcyclic ==
  ASSUME NEW V, NEW E, NEW W, NEW F, NEW x, IsAcyclic(V, E), W \subseteq V \cup {x},
         \A y, z \in W \ {x} : <<y, z>> \in F => <<y, z>> \in E,
         \A y \in W \ {x} : <<x, y>> \notin F
  PROVE  IsAcyclic(W, F)
<1> SUFFICES ASSUME NEW S \in (SUBSET W) \ {{}}
             PROVE  \E v \in S : \A w \in S \ {v} : <<w, v>> \notin F
  BY DEF IsAcyclic
<1>1. CASE S \ {x} = {}
  <2>1. S = {x}
    BY <1>1
  <2> QED BY <2>1
<1>2. CASE S \ {x} # {}
  <2>1. S \ {x} \in (SUBSET V) \ {{}}
    BY <1>2
  <2>2. PICK v \in S \ {x} : \A w \in (S \ {x}) \ {v} : <<w, v>> \notin E
    BY <2>1 DEF IsAcyclic
  <2>3. \A w \in S \ {v} : <<w, v>> \notin F
    BY <2>2
  <2> QED BY <2>2, <2>3
<1> QED BY <1>1, <1>2

\* Who is fused with whom when the groups gs and the group g are.
LEMMA AppendFuses ==
  ASSUME NEW S, NEW gs \in Seq(Seq(S)), NEW g \in Seq(S), NEW v, NEW w
  PROVE  (\E h \in Range(Append(gs, g)) : {v, w} \subseteq Range(h)) <=>
           \/ v \in Range(g) /\ w \in Range(g)
           \/ \E h \in Range(gs) : v \in Range(h) /\ w \in Range(h)
<1>1. Range(Append(gs, g)) = Range(gs) \cup {g}
  BY AppendSeq, SMT
<1> QED BY <1>1

\* Who is fused with whom so far.
LEMMA FusedOpen ==
  ASSUME GroupInv
  PROVE  \A v, w : w \in Fused(Open, v) <=>
           /\ w \in Range(nodes)
           /\ \/ w = v
              \/ v \in Range(supported_group) /\ w \in Range(supported_group)
              \/ \E g \in Range(supported_groups) : v \in Range(g) /\ w \in Range(g)
<1>1. supported_groups \in Seq(Seq(supported)) /\ supported_group \in Seq(supported)
  BY DEF GroupInv
<1>2. \A v, w : (\E h \in Range(Open) : {v, w} \subseteq Range(h)) <=>
        \/ v \in Range(supported_group) /\ w \in Range(supported_group)
        \/ \E h \in Range(supported_groups) : v \in Range(h) /\ w \in Range(h)
  BY <1>1, AppendFuses DEF Open
<1> QED BY <1>2, SMT DEF Fused

\* The same after a step.
LEMMA FusedOpenNext ==
  ASSUME GroupInv'
  PROVE  \A v, w : w \in Fused(Open, v)' <=>
           /\ w \in Range(nodes')
           /\ \/ w = v
              \/ v \in Range(supported_group') /\ w \in Range(supported_group')
              \/ \E g \in Range(supported_groups') : v \in Range(g) /\ w \in Range(g)
<1>1. supported_groups' \in Seq(Seq(supported')) /\ supported_group' \in Seq(supported')
  BY DEF GroupInv
<1>2. \A v, w : (\E h \in Range(Open') : {v, w} \subseteq Range(h)) <=>
        \/ v \in Range(supported_group') /\ w \in Range(supported_group')
        \/ \E h \in Range(supported_groups') : v \in Range(h) /\ w \in Range(h)
  BY <1>1, AppendFuses DEF Open
<1> QED BY <1>2, SMT DEF Fused

\* Nothing is processed and no group is open at the start.
LEMMA InitWalkInv == IsGraph /\ CountsAgree /\ InitWalk => WalkInv
<1> SUFFICES ASSUME IsGraph, CountsAgree, InitWalk PROVE WalkInv
  OBVIOUS
<1>1. QueueInv /\ Processed = {}
  BY InitQueueInv
<1>2. /\ supported_group = <<>> /\ supported_groups = <<>>
      /\ Range(supported_group) = {} /\ Range(supported_groups) = {}
  BY SMT DEF InitWalk, Range
<1>3. GroupInv
  BY <1>1, <1>2, SMT DEF GroupInv, Distinct
<1>4. BorderInv
  BY <1>2 DEF BorderInv
<1>5. AcyclicInv
  BY <1>1, SMT DEF AcyclicInv, IsAcyclic, FusedNodes
<1> QED BY <1>1, <1>3, <1>4, <1>5 DEF WalkInv

\* A step that processes no node and fuses the same nodes keeps AcyclicInv.
LEMMA FusedKept ==
  ASSUME AcyclicInv, UNCHANGED <<nodes, edges>>, Processed' = Processed,
         \A v : Fused(Open, v)' = Fused(Open, v)
  PROVE  AcyclicInv'
<1>1. FusedNodes(Open, Processed)' = FusedNodes(Open, Processed)
  BY DEF FusedNodes
<1>2. FusedEdges(Open, Processed)' = FusedEdges(Open, Processed)
  BY DEF FusedEdges
<1> QED BY <1>1, <1>2, SMT DEF AcyclicInv, IsAcyclic

\* Postponing a node changes the queues only.
LEMMA PostponeKeepsWalkInv == ASSUME WalkInv, Postpone PROVE WalkInv'
<1>1. /\ UNCHANGED <<nodes, edges, supported, supported_group, supported_group_border,
                     supported_groups>>
  BY DEF Postpone
<1>2. QueueInv' /\ Processed' = Processed
  BY PostponeKeepsQueueInv DEF WalkInv
<1>3. IsGraph'
  BY <1>1, SMT DEF WalkInv, IsGraph, Range
<1>4. GroupInv'
  BY <1>1, <1>2, SMT DEF WalkInv, GroupInv
<1>5. BorderInv'
  BY <1>1, <1>2, SMT DEF WalkInv, BorderInv, Range
<1>6. \A v : Fused(Open, v)' = Fused(Open, v)
  BY <1>1, SMT DEF Fused, Open, Range
<1>7. AcyclicInv'
  BY <1>1, <1>2, <1>6, FusedKept DEF WalkInv
<1> QED BY <1>2, <1>3, <1>4, <1>5, <1>7 DEF WalkInv

\* Closing the open group keeps every node in the one place it has.
LEMMA ClosedGroups ==
  ASSUME GroupInv
  PROVE  /\ Closed \in Seq(Seq(supported))
         /\ \A v, w : (\E g \in Range(Closed) : v \in Range(g) /\ w \in Range(g)) <=>
                        \/ v \in Range(supported_group) /\ w \in Range(supported_group)
                        \/ \E g \in Range(supported_groups) : v \in Range(g) /\ w \in Range(g)
         /\ \A h, j \in DOMAIN Closed :
              \A m \in DOMAIN Closed[h], n \in DOMAIN Closed[j] :
                Closed[h][m] = Closed[j][n] => h = j /\ m = n
<1>1. CASE supported_group = <<>>
  <2>1. Closed = supported_groups /\ Range(supported_group) = {}
    BY <1>1, SMT DEF Closed, Range
  <2> QED BY <2>1, SMT DEF GroupInv
<1>2. CASE supported_group # <<>>
  <2> DEFINE gs == supported_groups
             g == supported_group
  <2>1. Closed = Append(gs, g) /\ gs \in Seq(Seq(supported)) /\ g \in Seq(supported)
    BY <1>2 DEF Closed, GroupInv
  <2>2. /\ Closed \in Seq(Seq(supported)) /\ Range(Closed) = Range(gs) \cup {g}
    BY <2>1, AppendSeq, SMT
  <2>3. /\ \A j \in DOMAIN Closed :
             \/ j \in DOMAIN gs /\ Closed[j] = gs[j]
             \/ j = Len(gs) + 1 /\ Closed[j] = g
    BY <2>1, SMT
  <2>4. \A h, j \in DOMAIN Closed :
          \A m \in DOMAIN Closed[h], n \in DOMAIN Closed[j] :
            Closed[h][m] = Closed[j][n] => h = j /\ m = n
    <3> SUFFICES ASSUME NEW h \in DOMAIN Closed, NEW j \in DOMAIN Closed,
                        NEW m \in DOMAIN Closed[h], NEW n \in DOMAIN Closed[j],
                        Closed[h][m] = Closed[j][n]
                 PROVE  h = j /\ m = n
      OBVIOUS
    <3>1. CASE h \in DOMAIN gs /\ j \in DOMAIN gs
      <4>1. Closed[h] = gs[h] /\ Closed[j] = gs[j]
        BY <2>1, <2>3, <3>1, SMT
      <4> QED BY <3>1, <4>1, SMT DEF GroupInv
    <3>2. CASE h \notin DOMAIN gs /\ j \notin DOMAIN gs
      <4>1. h = j /\ Closed[h] = g
        BY <2>3, <3>2
      <4> QED BY <4>1 DEF GroupInv, Distinct
    <3>3. CASE h \in DOMAIN gs /\ j \notin DOMAIN gs
      <4>1. Closed[h] = gs[h] /\ gs[h] \in Range(gs) /\ Closed[j] = g
        BY <2>1, <2>3, <3>3 DEF Range
      <4>2. gs[h][m] \in Range(gs[h]) /\ gs[h][m] \in Range(g)
        BY <4>1 DEF Range
      <4> QED BY <4>1, <4>2 DEF GroupInv
    <3>4. CASE h \notin DOMAIN gs /\ j \in DOMAIN gs
      <4>1. Closed[j] = gs[j] /\ gs[j] \in Range(gs) /\ Closed[h] = g
        BY <2>1, <2>3, <3>4 DEF Range
      <4>2. gs[j][n] \in Range(gs[j]) /\ gs[j][n] \in Range(g)
        BY <4>1 DEF Range
      <4> QED BY <4>1, <4>2 DEF GroupInv
    <3> QED BY <3>1, <3>2, <3>3, <3>4
  <2> QED BY <2>2, <2>4
<1> QED BY <1>1, <1>2

\* Closing a group fuses the same nodes.
LEMMA CloseKeepsWalkInv == ASSUME WalkInv, CloseGroup PROVE WalkInv'
<1>1. /\ UNCHANGED <<nodes, edges, supported>> /\ supported_groups' = Closed /\ supported_group' = <<>>
  BY DEF CloseGroup
<1>2. QueueInv' /\ Processed' = Processed
  BY CloseKeepsQueueInv DEF WalkInv
<1>3. IsGraph'
  BY <1>1, SMT DEF WalkInv, IsGraph, Range
<1>4. Range(supported_group') = {} /\ Distinct(supported_group') /\ supported_group' \in Seq(supported)
  BY <1>1, SMT DEF Range, Distinct
<1>5. /\ supported_groups' \in Seq(Seq(supported))
      /\ \A v, w : (\E g \in Range(supported_groups') : v \in Range(g) /\ w \in Range(g)) <=>
                     \/ v \in Range(supported_group) /\ w \in Range(supported_group)
                     \/ \E g \in Range(supported_groups) : v \in Range(g) /\ w \in Range(g)
      /\ \A h, j \in DOMAIN supported_groups' :
           \A m \in DOMAIN supported_groups'[h], n \in DOMAIN supported_groups'[j] :
             supported_groups'[h][m] = supported_groups'[j][n] => h = j /\ m = n
  BY <1>1, ClosedGroups, SMT DEF WalkInv
<1>6. \A v : (\E g \in Range(supported_groups') : v \in Range(g)) <=>
               v \in Range(supported_group) \/ \E g \in Range(supported_groups) : v \in Range(g)
  BY <1>5
<1>7. GroupInv'
  <2>1. \A v : v \in supported' \cap Processed' <=>
                 \/ v \in Range(supported_group')
                 \/ \E g \in Range(supported_groups') : v \in Range(g)
    BY <1>1, <1>2, <1>4, <1>6 DEF WalkInv, GroupInv
  <2> QED BY <1>1, <1>4, <1>5, <2>1 DEF GroupInv
<1>8. BorderInv'
  BY <1>4 DEF BorderInv
<1>9. \A v : Fused(Open, v)' = Fused(Open, v)
  <2> TAKE v
  <2>1. \A w : w \in Fused(Open, v)' <=> w \in Fused(Open, v)
    <3> TAKE w
    <3>1. w \in Fused(Open, v)' <=>
            /\ w \in Range(nodes)
            /\ w = v \/ \E g \in Range(supported_groups') : v \in Range(g) /\ w \in Range(g)
      BY <1>1, <1>4, <1>7, FusedOpenNext
    <3>2. w \in Fused(Open, v) <=>
            /\ w \in Range(nodes)
            /\ \/ w = v
               \/ v \in Range(supported_group) /\ w \in Range(supported_group)
               \/ \E g \in Range(supported_groups) : v \in Range(g) /\ w \in Range(g)
      BY FusedOpen DEF WalkInv
    <3> QED BY <1>5, <3>1, <3>2
  <2> QED BY <2>1 DEF Fused
<1>10. AcyclicInv'
  BY <1>1, <1>2, <1>9, FusedKept DEF WalkInv
<1> QED BY <1>2, <1>3, <1>7, <1>8, <1>10 DEF WalkInv

\* Processing v adds to the fused graph v itself, or v with the open group:
\* nothing processed before reads from it.
LEMMA ProcessKeepsWalkInv ==
  ASSUME WalkInv, Process, NEW v, v = Head(nodes_to_process) PROVE WalkInv'
<1> DEFINE g == supported_group
           gs == supported_groups
<1>1. /\ QueueInv' /\ Processed' = Processed \cup {v}
      /\ v \in Range(nodes) \ Processed /\ in_degree[v] = 0
  BY ProcessKeepsQueueInv DEF WalkInv
<1>2. /\ UNCHANGED <<nodes, edges, supported, supported_groups>>
      /\ v \in supported \/ v \notin supported_group_border
      /\ supported_group' = IF v \in supported THEN Append(g, v) ELSE g
      /\ supported_group_border' = IF v \in supported
                                   THEN (supported_group_border \ {v})
                                        \cup {edges[k][2] : k \in OutputEdges(edges, v)}
                                   ELSE supported_group_border
  BY DEF Process, Waits
<1>3. /\ IsGraph' /\ Range(nodes') = Range(nodes)
  BY <1>2, SMT DEF WalkInv, IsGraph, Range
<1>4. ASSUME NEW k \in DOMAIN edges, edges[k][2] \in Processed'
      PROVE  edges[k][1] \in Processed
  <2>1. in_degree[edges[k][2]] = 0
    BY <1>1, <1>4 DEF Processed
  <2> QED BY <2>1, ProducersProcessed DEF WalkInv
<1>5. v \notin Range(g) /\ \A h \in Range(gs) : v \notin Range(h)
  BY <1>1 DEF WalkInv, GroupInv
<1>6. /\ supported_group' \in Seq(supported) /\ Distinct(supported_group')
      /\ Range(supported_group') = IF v \in supported THEN Range(g) \cup {v} ELSE Range(g)
  <2>1. g \in Seq(supported) /\ Distinct(g)
    BY DEF WalkInv, GroupInv
  <2>2. CASE v \in supported
    BY <1>2, <1>5, <2>1, <2>2, AppendSeq, SMT
  <2> QED BY <1>2, <2>1, <2>2
<1>7. GroupInv'
  <2>1. \A h \in Range(gs) : Range(h) \cap Range(supported_group') = {}
    BY <1>5, <1>6 DEF WalkInv, GroupInv
  <2>2. \A u : u \in supported \cap Processed' <=>
                 u \in Range(supported_group') \/ \E h \in Range(gs) : u \in Range(h)
    BY <1>1, <1>6 DEF WalkInv, GroupInv
  <2> QED BY <1>2, <1>6, <2>1, <2>2, SMT DEF WalkInv, GroupInv
<1>8. BorderInv'
  <2> SUFFICES ASSUME NEW k \in DOMAIN edges, edges[k][1] \in Range(supported_group')
               PROVE  \/ edges[k][2] \in Range(supported_group')
                      \/ /\ edges[k][2] \notin Processed'
                         /\ edges[k][2] \in supported \cup supported_group_border'
    BY <1>2 DEF BorderInv
  <2>1. CASE edges[k][1] = v
    <3>1. edges[k][2] \notin Processed' /\ v \in supported
      BY <1>1, <1>4, <1>5, <1>6, <2>1
    <3>2. edges[k][2] \in supported_group_border'
      BY <1>2, <2>1, <3>1 DEF OutputEdges
    <3> QED BY <3>1, <3>2
  <2>2. CASE edges[k][1] # v
    <3>1. \/ edges[k][2] \in Range(g)
          \/ edges[k][2] \notin Processed /\ edges[k][2] \in supported \cup supported_group_border
      BY <1>6, <2>2 DEF WalkInv, BorderInv
    <3> QED BY <1>1, <1>2, <1>6, <3>1
  <2> QED BY <2>1, <2>2
<1> DEFINE X == IF v \in supported THEN Range(g) \cup {v} ELSE {v}
<1>9. X \subseteq Range(nodes)
  <2>1. Range(g) \subseteq Range(nodes)
    BY DEF WalkInv, GroupInv, Processed
  <2> QED BY <1>1, <2>1
<1>10. ASSUME NEW u \in X PROVE Fused(Open, u)' = X
  <2>1. ASSUME NEW w PROVE w \in Fused(Open, u)' <=> w \in X
    <3>1. w \in Fused(Open, u)' <=>
            /\ w \in Range(nodes)
            /\ \/ w = u
               \/ u \in Range(supported_group') /\ w \in Range(supported_group')
               \/ \E h \in Range(gs) : u \in Range(h) /\ w \in Range(h)
      BY <1>2, <1>3, <1>7, FusedOpenNext
    <3>2. ~\E h \in Range(gs) : u \in Range(h)
      BY <1>5 DEF WalkInv, GroupInv
    <3> QED BY <1>5, <1>6, <1>9, <3>1, <3>2
  <2> QED BY <2>1
<1>11. ASSUME NEW u, u \notin X PROVE Fused(Open, u)' = Fused(Open, u)
  <2>1. ASSUME NEW w PROVE w \in Fused(Open, u)' <=> w \in Fused(Open, u)
    <3>1. w \in Fused(Open, u)' <=>
            /\ w \in Range(nodes)
            /\ \/ w = u
               \/ u \in Range(supported_group') /\ w \in Range(supported_group')
               \/ \E h \in Range(gs) : u \in Range(h) /\ w \in Range(h)
      BY <1>2, <1>3, <1>7, FusedOpenNext
    <3>2. w \in Fused(Open, u) <=>
            /\ w \in Range(nodes)
            /\ \/ w = u
               \/ u \in Range(g) /\ w \in Range(g)
               \/ \E h \in Range(gs) : u \in Range(h) /\ w \in Range(h)
      BY FusedOpen DEF WalkInv
    <3> QED BY <1>6, <1>11, <3>1, <3>2
  <2> QED BY <2>1
<1>12. \A u \in Range(nodes) : u \in Fused(Open, u)'
  BY <1>3, <1>7, FusedOpenNext
<1>13. ASSUME NEW y, NEW z, <<y, z>> \in FusedEdges(Open, Processed)'
       PROVE  \E k \in DOMAIN edges : \E a, b :
                /\ a = edges[k][1] /\ b = edges[k][2] /\ b \in Processed'
                /\ y = Fused(Open, a)' /\ z = Fused(Open, b)'
  BY <1>2, <1>13 DEF FusedEdges
<1> HIDE DEF X
<1>14. v \in X /\ \A u \in X : u = v \/ (u \in Range(g) /\ Range(g) \subseteq X)
  BY DEF X
<1>15. FusedNodes(Open, Processed)' \subseteq FusedNodes(Open, Processed) \cup {X}
  <2> SUFFICES ASSUME NEW u \in Processed'
               PROVE  Fused(Open, u)' \in FusedNodes(Open, Processed) \cup {X}
    BY DEF FusedNodes
  <2>1. CASE u \in X
    BY <1>10, <2>1
  <2>2. CASE u \notin X
    <3>1. u \in Processed /\ Fused(Open, u)' = Fused(Open, u)
      BY <1>1, <1>11, <1>14, <2>2
    <3> QED BY <3>1 DEF FusedNodes
  <2> QED BY <2>1, <2>2
<1>16. ASSUME NEW y, NEW z, y # X, z # X, <<y, z>> \in FusedEdges(Open, Processed)'
       PROVE  <<y, z>> \in FusedEdges(Open, Processed)
  <2>0. PICK k \in DOMAIN edges : \E a, b :
          /\ a = edges[k][1] /\ b = edges[k][2] /\ b \in Processed'
          /\ y = Fused(Open, a)' /\ z = Fused(Open, b)'
    BY <1>13, <1>16, SMT
  <2>1. PICK a, b :
          /\ a = edges[k][1] /\ b = edges[k][2] /\ b \in Processed'
          /\ y = Fused(Open, a)' /\ z = Fused(Open, b)'
    BY <2>0
  <2>2. a \notin X /\ b \notin X
    BY <1>10, <1>16, <2>1
  <2>3. b \in Processed /\ y = Fused(Open, a) /\ z = Fused(Open, b)
    BY <1>1, <1>11, <1>14, <2>1, <2>2
  <2> QED BY <2>1, <2>3 DEF FusedEdges
<1>17. ASSUME NEW y, y # X, <<X, y>> \in FusedEdges(Open, Processed)' PROVE FALSE
  <2>0. PICK k \in DOMAIN edges : \E a, b :
          /\ a = edges[k][1] /\ b = edges[k][2] /\ b \in Processed'
          /\ X = Fused(Open, a)' /\ y = Fused(Open, b)'
    BY <1>13, <1>17, SMT
  <2>1. PICK a, b :
          /\ a = edges[k][1] /\ b = edges[k][2] /\ b \in Processed'
          /\ X = Fused(Open, a)' /\ y = Fused(Open, b)'
    BY <2>0
  <2>2. a \in Processed /\ a \in Range(nodes)
    BY <1>4, <2>1 DEF Processed
  <2>3. a \in X
    BY <1>12, <2>1, <2>2
  <2>4. b \notin X
    BY <1>10, <1>17, <2>1
  <2>5. a \in Range(g) /\ b \notin Range(g) /\ b \in Processed
    BY <1>1, <1>14, <2>1, <2>2, <2>3, <2>4
  <2> QED BY <2>1, <2>5 DEF WalkInv, BorderInv
<1>18. AcyclicInv'
  <2>1. IsAcyclic(FusedNodes(Open, Processed), FusedEdges(Open, Processed))
    BY DEF WalkInv, AcyclicInv
  <2>2. IsAcyclic(FusedNodes(Open, Processed)', FusedEdges(Open, Processed)')
    BY <1>15, <1>16, <1>17, <2>1, SinkKeepsAcyclic
  <2> QED BY <2>2 DEF AcyclicInv, IsAcyclic
<1> QED BY <1>1, <1>3, <1>7, <1>8, <1>18 DEF WalkInv

\* WalkInv holds in every state of a walk.
LEMMA WalkInvHolds == Walk => []WalkInv
<1>1. WalkInv /\ [Step]_pvars => WalkInv'
  <2> SUFFICES ASSUME WalkInv, [Step]_pvars PROVE WalkInv'
    OBVIOUS
  <2>1. CASE UNCHANGED pvars
    <3>1. UNCHANGED <<Processed, Open>> /\ \A w : Unmet(w)' = Unmet(w)
      BY <2>1 DEF pvars, Processed, Queued, Open, Range, Unmet, InputEdges
    <3>2. IsGraph' /\ QueueInv'
      BY <2>1, <3>1 DEF pvars, WalkInv, IsGraph, QueueInv, Queued
    <3>3. GroupInv' /\ BorderInv'
      BY <2>1, <3>1, SMT DEF pvars, WalkInv, GroupInv, BorderInv
    <3>4. \A v : Fused(Open, v)' = Fused(Open, v)
      BY <2>1, <3>1, SMT DEF pvars, Fused, Range
    <3>5. AcyclicInv'
      BY <2>1, <3>1, <3>4, FusedKept DEF pvars, WalkInv
    <3> QED BY <3>2, <3>3, <3>5 DEF WalkInv
  <2> QED BY <2>1, CloseKeepsWalkInv, PostponeKeepsWalkInv, ProcessKeepsWalkInv
       DEF Step
<1> QED BY <1>1, InitWalkInv, PTL DEF Walk

\* A node is left over only if one that it reads from is: at the end none is.
LEMMA AllProcessed == WalkInv /\ WalkDone => Processed = Range(nodes)
<1> SUFFICES ASSUME WalkInv, WalkDone, Processed # Range(nodes) PROVE FALSE
  OBVIOUS
<1> DEFINE T == {n \in DOMAIN nodes : nodes[n] \notin Processed}
<1>1. T \subseteq Nat /\ T # {}
  <2>1. DOMAIN nodes \subseteq Nat
    BY SMT DEF WalkInv, IsGraph
  <2>2. \E v \in Range(nodes) : v \notin Processed
    BY DEF Processed
  <2> QED BY <2>1, <2>2 DEF Range
<1>2. PICK n \in T : \A m \in T : ~(m < n)
  <2>1. PICK n \in T : \A m \in T : << m, n >> \notin OpToRel(<, Nat)
    BY <1>1, NatLessThanWellFounded, WFMin
  <2>2. \A m \in T : m < n => << m, n >> \in OpToRel(<, Nat)
    BY <1>1 DEF OpToRel
  <2> QED BY <2>1, <2>2
<1> DEFINE v == nodes[n]
<1>3. v \in Range(nodes) /\ v \notin Processed
  BY DEF Range
<1>4. ASSUME NEW k \in InputEdges(edges, v) PROVE edges[k][1] \in Processed
  <2>1. k \in DOMAIN edges /\ edges[k][2] = v
    BY DEF InputEdges
  <2>2. PICK a \in DOMAIN nodes, b \in DOMAIN nodes : a < b /\ edges[k] = <<nodes[a], nodes[b]>>
    BY <2>1 DEF WalkInv, IsGraph
  <2>3. b = n
    BY <2>1, <2>2, SMT DEF WalkInv, IsGraph
  <2>4. a \notin T
    BY <1>2, <2>2, <2>3
  <2> QED BY <2>2, <2>4, SMT
<1>5. Unmet(v) = {}
  BY <1>4 DEF Unmet
<1>6. in_degree[v] = 0
  BY <1>3, <1>5, FS_EmptySet DEF WalkInv, QueueInv
<1>7. Queued = {}
  BY SMT DEF WalkDone, Queued, Range
<1> QED BY <1>3, <1>6, <1>7 DEF Processed

\* When the loop of CreateSupportedPartitionNodeGroups ends every node of the
\* graph has been processed: the count it throws on at the end is right, if
\* the units' input counts are.
THEOREM EveryNodeIsProcessed == Walk => [](WalkDone => Processed = Range(nodes))
<1>1. WalkInv => (WalkDone => Processed = Range(nodes))
  BY AllProcessed
<1> QED BY <1>1, WalkInvHolds, PTL

\* Fusing the groups that CreateSupportedPartitionNodeGroups returns leaves an
\* acyclic graph, whatever the graph and the supported nodes.
THEOREM FusedGraphIsAcyclicHolds == Walk => []FusedGraphIsAcyclic
<1>1. WalkInv => FusedGraphIsAcyclic
  <2> SUFFICES ASSUME WalkInv, WalkDone
               PROVE  IsAcyclic(FusedNodes(Groups, Range(nodes)), FusedEdges(Groups, Range(nodes)))
    BY DEF FusedGraphIsAcyclic
  <2>1. Groups = Closed
    BY DEF Groups
  <2>2. \A v : Fused(Groups, v) = Fused(Open, v)
    <3>1. CASE supported_group = <<>>
      <4>1. Groups = supported_groups /\ Range(supported_group) = {}
        BY <2>1, <3>1, SMT DEF Closed, Range
      <4>2. ASSUME NEW v, NEW w PROVE w \in Fused(Open, v) <=> w \in Fused(Groups, v)
        BY <4>1, FusedOpen, SMT DEF Fused, WalkInv
      <4> QED BY <4>2, SMT
    <3>2. CASE supported_group # <<>>
      BY <2>1, <3>2 DEF Closed, Open
    <3> QED BY <3>1, <3>2
  <2>3. /\ FusedNodes(Groups, Range(nodes)) = FusedNodes(Open, Range(nodes))
        /\ FusedEdges(Groups, Range(nodes)) = FusedEdges(Open, Range(nodes))
    BY <2>2, SMT DEF FusedNodes, FusedEdges
  <2> QED BY <2>3, AllProcessed DEF WalkInv, AcyclicInv
<1> QED BY <1>1, WalkInvHolds, PTL

\* The groups that CreateSupportedPartitionNodeGroups returns hold each
\* supported node once and no other node.
THEOREM GroupsCoverSupportedHolds == Walk => []GroupsCoverSupported
<1>1. WalkInv => GroupsCoverSupported
  <2> SUFFICES ASSUME WalkInv, WalkDone
               PROVE  /\ \A g \in Range(Groups) : Range(g) \subseteq supported
                      /\ \A v \in supported : \E j \in DOMAIN Groups : \E n \in DOMAIN Groups[j] :
                           \A h \in DOMAIN Groups : \A m \in DOMAIN Groups[h] :
                             Groups[h][m] = v <=> h = j /\ m = n
    BY DEF GroupsCoverSupported
  <2> DEFINE gs == supported_groups
             g == supported_group
  <2>1. Groups = Closed /\ Processed = Range(nodes)
    BY AllProcessed DEF Groups
  <2>2. /\ gs \in Seq(Seq(supported)) /\ g \in Seq(supported)
        /\ \A v : v \in supported <=> v \in Range(g) \/ \E h \in Range(gs) : v \in Range(h)
    BY <2>1 DEF WalkInv, GroupInv, IsGraph
  <2>3. /\ \A v : (\E h \in Range(Groups) : v \in Range(h)) <=> v \in supported
        /\ \A h, j \in DOMAIN Groups : \A m \in DOMAIN Groups[h], n \in DOMAIN Groups[j] :
             Groups[h][m] = Groups[j][n] => h = j /\ m = n
    <3>1. \A v : (\E h \in Range(Closed) : v \in Range(h)) <=> v \in supported
      <4> TAKE v
      <4>1. (\E h \in Range(Closed) : v \in Range(h) /\ v \in Range(h)) <=>
              \/ v \in Range(g) /\ v \in Range(g)
              \/ \E h \in Range(gs) : v \in Range(h) /\ v \in Range(h)
        BY ClosedGroups DEF WalkInv
      <4> QED BY <2>2, <4>1
    <3>2. \A h, j \in DOMAIN Closed : \A m \in DOMAIN Closed[h], n \in DOMAIN Closed[j] :
            Closed[h][m] = Closed[j][n] => h = j /\ m = n
      BY ClosedGroups DEF WalkInv
    <3> QED BY <2>1, <3>1, <3>2, SMT
  <2>4. ASSUME NEW v \in supported
        PROVE  \E j \in DOMAIN Groups : \E n \in DOMAIN Groups[j] : Groups[j][n] = v
    <3>1. PICK h \in Range(Groups) : v \in Range(h)
      BY <2>3
    <3> QED BY <3>1 DEF Range
  <2> QED BY <2>3, <2>4, SMT
<1> QED BY <1>1, WalkInvHolds, PTL
=============================================================================
