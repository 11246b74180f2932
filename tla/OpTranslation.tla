---------------------------- MODULE OpTranslation ----------------------------
(***************************************************************************)
(* From an ONNX graph to QNN graphs and their results: its nodes become     *)
(* units (GetAllOrtNodeUnits), GetCapability groups the units               *)
(* (GetQnnNodeGroups) and asks every group's builder and the                *)
(* backend whether they take it (QnnEp::GetSupportedNodes), the supported   *)
(* units are grouped into partitions (Partitioner), ORT changes the layout  *)
(* of the units that want channels last and GetCapability runs once more,   *)
(* each partition is composed into a QNN graph (QnnModel::ComposeGraph) and *)
(* the graphs run between the nodes that stay on the CPU.                   *)
(*                                                                          *)
(* A model of Models is data: backend, opts, affinity (the pins of the      *)
(* op_affinity option), offload, refusable (the nodes, and the fusions that *)
(* start at a node, that the backend may refuse), outputs (the names of the *)
(* tensors that leave it) and nodes in topological order, whose inputs are  *)
(* constants, model inputs or results of earlier nodes.  Loading infers the *)
(* shapes, and the value that ONNX gives to every tensor (real).            *)
(***************************************************************************)
EXTENDS NodeGroups, QnnSemantics, OnnxReference, Partitioner

CONSTANT Models

VARIABLES
  graph,      \* the model with shapes and values: its ONNX nodes and its units
  stage,      \* "load", "begin", "capability", "partition", "compile", "run", "done", "failed"
  node_units, \* the units of the graph, or of the partition, that the wrapper is for
  units,      \* their groups, in order
  i,          \* the next unit or op of the stage
  declined,   \* the nodes that no builder took in this pass
  wrapper,    \* the QnnModelWrapper of the stage
  composed,   \* the composed QNN graphs, one for each partition
  host,       \* the tensors outside of QNN: their real values
  env,        \* the tensors of the QNN graph that runs: their codes
  ran         \* the partitions and the CPU nodes that have run

vars == <<graph, stage, node_units, units, i, declined, wrapper, composed, host, env, ran, pvars>>

(***************************************************************************)
(* Loading.  An input of a node is a record: name, from ("input", "const",  *)
(* "node" or "none"), shape, dt, q and data, its row-major real values.     *)
(***************************************************************************)
NoIo == [name |-> <<>>, shape |-> <<>>, dt |-> "none", q |-> NoQ, val |-> <<>>, real |-> <<>>]

LoadInput(in, ns) ==
  IF in.from = "none" THEN NoIo
  ELSE IF in.from = "node"
  THEN CHOOSE io \in UNION {ToSet(ns[k].outs) : k \in 1..Len(ns)} : io.name = in.name
  ELSE LET t == IF in.data = <<>> THEN Iota(in.shape) ELSE FromSeq(in.shape, in.data)
       IN  [name |-> in.name, shape |-> in.shape, dt |-> in.dt, q |-> in.q, real |-> t,
            val |-> IF in.from = "const" THEN <<Code(t, in.q)>> ELSE <<>>]

\* The node n with its inputs, and its results, the tensors r.
Loaded(n, ins, r) ==
  [n EXCEPT !.ins = ins,
            !.outs = [k \in 1..Len(n.outs) |->
                        [name |-> n.outs[k].name, shape |-> r[k].shape, dt |-> n.outs[k].dt, q |-> n.outs[k].q,
                         val |-> <<>>, real |-> r[k]]] \o <<>>]

Evaluated(n, ins) == Loaded(n, ins, Reference(n, [k \in 1..Len(ins) |-> ins[k].real]))

Quantizer(op, name, in, out) ==
  [op |-> op, name |-> name, ins |-> <<in>>, outs |-> <<out>>, attr |-> [none |-> 0],
   opset |-> 13, domain |-> "", consumers |-> <<>>]

\* The float tensor between a quantized one and its node.
FloatOf(io, place) == [io EXCEPT !.name = @ \o <<place>>, !.dt = "f32", !.q = NoQ, !.val = <<>>]

\* What a QuantizeLinear leaves of a result.
Stored(io) == [io EXCEPT !.real = Saturated(@, io.dt, io.q)]

Places == <<"1", "2", "3", "4", "5">>

\* The node n, with a DequantizeLinear before every input and a QuantizeLinear
\* behind every result that is quantized.
WithQuantizers(n) ==
  LET Place(k) == n.name \o Places[k]
      Float(io, k) == IF io.q = NoQ THEN io ELSE FloatOf(io, Place(k))
      Around(ios, Node(_)) ==
        FlattenSeq([k \in 1..Len(ios) |-> IF ios[k].q = NoQ THEN <<>> ELSE <<Node(k)>>])
  IN  IF n.op \in {"DequantizeLinear", "QuantizeLinear"} THEN <<[n EXCEPT !.outs = <<Stored(@[1])>>]>>
      ELSE Around(n.ins, LAMBDA k : Quantizer("DequantizeLinear", Place(k) \o "_dq", n.ins[k], Float(n.ins[k], k)))
           \o <<[n EXCEPT !.ins = [k \in 1..Len(@) |-> Float(@[k], k)], !.outs = [k \in 1..Len(@) |-> Float(@[k], k)]]>>
           \o Around(n.outs, LAMBDA k : Quantizer("QuantizeLinear", Place(k) \o "_q", Float(n.outs[k], k), Stored(n.outs[k])))

\* The node n after the nodes ns.
LoadNode(ns, n) == WithQuantizers(Evaluated(n, [k \in 1..Len(n.ins) |-> LoadInput(n.ins[k], ns)] \o <<>>))

Reads(n, x) == \E k \in 1..Len(n.ins) : n.ins[k].name = x

\* The nodes as a graph of their own sees them.
WithConsumers(ns) ==
  [k \in 1..Len(ns) |->
     [ns[k] EXCEPT !.consumers =
        LET readers == SelectSeq(ns, LAMBDA c : \E x \in OutNames(ns[k]) : Reads(c, x))
        IN  [j \in 1..Len(readers) |-> [op |-> readers[j].op, attr |-> readers[j].attr]]]]

Node(k) == graph.nodes[k]

N == Len(graph.nodes)

Names(ios) == {ios[k].name : k \in 1..Len(ios)}

Produced(S) == UNION {Names(Node(k).outs) : k \in S}

Read(S) == UNION {{io.name : io \in {x \in ToSet(Node(k).ins) : Exists(x) /\ ~IsConst(x)}} : k \in S}

NewWrapper(inputs, outputs, dov) ==
  [backend |-> graph.backend, opts |-> graph.opts, affinity |-> graph.affinity, offload |-> graph.offload,
   postLayout |-> graph.postLayout, inputs |-> inputs, outputs |-> outputs, dov |-> dov, tensors |-> <<>>, ops |-> <<>>, ok |-> TRUE]

\* The inputs and outputs of the nodes S, as a graph of their own.
InputsOf(S) == Read(S) \ Produced(S)

OutputsOf(S) == Produced(S) \cap (graph.outputs \cup Read((1..N) \ S))

\* The units of a graph g of ONNX nodes.
UnitsOf(g, selections) == WithConsumers([k \in 1..Len(selections) |-> OrtNodeUnit(g, selections[k])])

OnnxGraph == [ns |-> graph.onnx, outputs |-> graph.outputs]

\* The ONNX nodes of the units S.
OnnxNodes(S) ==
  LET own == UNION {UnitNodes(graph.selections[k]) : k \in S}
      places == SelectSeq([r \in 1..Len(graph.onnx) |-> r], LAMBDA r : r \in own)
  IN  [p \in 1..Len(places) |-> graph.onnx[places[p]]]

\* The unit that an ONNX node is in.
UnitOf(r) == CHOOSE k \in 1..N : r \in UnitNodes(graph.selections[k])

\* The partitioner's edges: from every unit to the units that read from it.
GraphEdges ==
  FlattenSeq([p \in 1..N |->
    LET readers == GetOutputNodes(OnnxGraph, graph.selections[p])
    IN  [j \in 1..Len(readers) |-> <<p, UnitOf(readers[j])>>]])

\* A partition that is a single Quantize or Dequantize stays on the CPU.
Kept(group) == Len(group) > 1 \/ Node(group[1]).op \notin {"QuantizeLinear", "DequantizeLinear"}

Partitions == SelectSeq(Groups, Kept)

Claimed == UNION {ToSet(Partitions[j]) : j \in 1..Len(Partitions)}

PartitionSet(j) == ToSet(Partitions[j])

PartitionGraph(j) == [ns |-> OnnxNodes(PartitionSet(j)), outputs |-> OutputsOf(PartitionSet(j))]

Init ==
  /\ graph \in {[model |-> k] : k \in 1..Len(Models)}
  /\ stage = "load"
  /\ node_units = <<>> /\ units = <<>>
  /\ i = 1
  /\ declined = {}
  /\ wrapper = <<>>
  /\ composed = <<>>
  /\ host = <<>>
  /\ env = <<>>
  /\ ran = {}
  /\ nodes = <<>> /\ edges = <<>> /\ supported = {} /\ in_degree = <<>>
  /\ InitWalk

\* refused: what the backend's validation says no to, in both passes.
Load ==
  /\ stage = "load" /\ i = 1
  /\ LET model == Models[graph.model]
     IN  \E R \in SUBSET model.refusable :
           graph' = [backend |-> model.backend, opts |-> model.opts, offload |-> model.offload, postLayout |-> FALSE,
                     affinity |-> SeedDefaultIfAbsent(model.affinity, model.backend),
                     outputs |-> model.outputs, refused |-> R, onnx |-> <<>>, unread |-> model.nodes]
  /\ i' = 2
  /\ UNCHANGED <<stage, node_units, units, declined, wrapper, composed, host, env, ran, pvars>>

\* The nodes are in topological order.
LoadNext ==
  /\ stage = "load" /\ i = 2 /\ graph.unread # <<>>
  /\ graph' = [graph EXCEPT !.onnx = @ \o LoadNode(@, Head(graph.unread)), !.unread = Tail(@)]
  /\ UNCHANGED <<stage, node_units, units, i, declined, wrapper, composed, host, env, ran, pvars>>

\* The first thing that GetCapability does, in both passes, and that
\* ComposeGraph does again with the nodes and the outputs of its partition.
FormUnits ==
  /\ \/ stage = "load" /\ i = 2 /\ graph.unread = <<>>
     \/ stage = "compile" /\ i = 0 /\ node_units = <<>>
  /\ \E g \in {IF stage = "load" THEN OnnxGraph ELSE PartitionGraph(Len(composed) + 1)} :
     \E selections \in {GetAllOrtNodeUnits(g)} :
       /\ node_units' = UnitsOf(g, selections)
       /\ IF stage = "load"
          THEN /\ graph' = ("selections" :> selections) @@ ("nodes" :> node_units') @@ graph
               /\ stage' = "begin"
          ELSE UNCHANGED <<graph, stage>>
  /\ UNCHANGED <<units, i, declined, wrapper, composed, host, env, ran, pvars>>

\* An operator is pinned to a backend that this session does not run.
AffinityFails ==
  /\ stage = "begin" /\ ~ValidateForSessionBackend(graph.affinity, graph.backend)
  /\ stage' = "failed"
  /\ UNCHANGED <<graph, node_units, units, i, declined, wrapper, composed, host, env, ran, pvars>>

\* GetCapability starts, with the whole model's inputs and outputs.
BeginCapability ==
  /\ stage = "begin" /\ ValidateForSessionBackend(graph.affinity, graph.backend)
  /\ stage' = "capability"
  /\ wrapper' = NewWrapper(InputsOf(1..N), graph.outputs, TRUE)
  /\ i' = 0 /\ units' = <<>>
  /\ declined' = {}
  /\ host' = LET ios == {io \in UNION {ToSet(Node(k).ins) : k \in 1..N} : io.name \in InputsOf(1..N)}
             IN  [x \in InputsOf(1..N) |-> (CHOOSE io \in ios : io.name = x).real]
  /\ nodes' = [k \in 1..N |-> k]
  /\ edges' = GraphEdges
  /\ in_degree' = [k \in 1..N |-> GetInputEdgesCount(OnnxGraph, graph.selections[k])]
  /\ nodes_to_process' = Roots(nodes', in_degree')
  /\ supported' = {}
  /\ nodes_to_process_with_next_group' = <<>>
  /\ supported_group' = <<>> /\ supported_group_border' = {} /\ supported_groups' = <<>>
  /\ UNCHANGED <<graph, node_units, composed, env, ran>>

(***************************************************************************)
(* Units.  The wrapper is shared by all units, and keeps the tensors of one *)
(* that is then refused.                                                    *)
(***************************************************************************)
GroupUnits ==
  /\ stage \in {"capability", "compile"} /\ i = 0 /\ node_units # <<>>
  /\ \E grouped \in {GetQnnNodeGroups(wrapper, node_units, graph.refused)} :
       wrapper' = grouped.wrapper /\ units' = grouped.units
  /\ i' = 1
  /\ UNCHANGED <<graph, stage, node_units, declined, composed, host, env, ran, pvars>>

Unit == units[i]

\* The backend is not asked about a unit whose layout is still to change.
Refused == /\ ~IsFusion(Unit) /\ Node(Unit.target).name \in graph.refused
           /\ ~LayoutComes(wrapper, Node(Unit.target))

\* m is the wrapper with the unit, not ok if its builder does not take it.
Supports(m) ==
  /\ stage = "capability" /\ m.ok /\ ~Refused
  /\ wrapper' = m
  /\ supported' = supported \cup ToSet(Unit.members)
  /\ UNCHANGED declined

BackendRefuses(m) ==
  /\ stage = "capability" /\ m.ok /\ Refused
  /\ wrapper' = m
  /\ UNCHANGED <<supported, declined>>

Declines(m) ==
  /\ stage = "capability" /\ ~m.ok
  /\ wrapper' = [m EXCEPT !.ok = TRUE]
  /\ declined' = declined \cup ToSet(Unit.members)
  /\ UNCHANGED supported

\* QnnModel::ComposeGraph.
Composes(m) ==
  /\ stage = "compile"
  /\ wrapper' = m
  /\ UNCHANGED <<supported, declined>>

TranslateUnit ==
  /\ stage \in {"capability", "compile"} /\ i \in 1..Len(units)
  /\ \E m \in {AddUnit(wrapper, node_units, Unit)} : Supports(m) \/ BackendRefuses(m) \/ Declines(m) \/ Composes(m)
  /\ i' = i + 1
  /\ UNCHANGED <<graph, stage, node_units, units, composed, host, env, ran, nodes, edges, walk>>

EndCapability ==
  /\ stage = "capability" /\ i > Len(units)
  /\ stage' = "partition"
  /\ UNCHANGED <<graph, node_units, units, i, declined, wrapper, composed, host, env, ran, pvars>>

Partition ==
  /\ stage = "partition"
  /\ Step
  /\ UNCHANGED <<graph, stage, node_units, units, i, declined, wrapper, composed, host, env, ran>>

(***************************************************************************)
(* ORT transposes the activation of every claimed layout-sensitive node to  *)
(* channels last, and its result back; the node is then one of the NHWC     *)
(* domain.                                                                  *)
(***************************************************************************)
Transposition(name, from, to, perm) ==
  [op |-> "Transpose", name |-> name, ins |-> <<from>>, outs |-> <<to>>, attr |-> [perm |-> perm],
   opset |-> 13, domain |-> "", consumers |-> <<>>]

InLayout(io, place, perm) ==
  [io EXCEPT !.name = @ \o <<place>>, !.shape = PermuteShape(@, perm), !.real = Transpose(@, perm)]

\* The nodes of unit k between a transposition of its input and one of its
\* result.
ToNhwc(k) ==
  LET n == Node(k)
      s == graph.selections[k]
      perm == ChannelFirstToLastPerm(Rank(n.ins[1]))
      target == graph.onnx[s.target]
      inner == {n.outs[1].name} \cup {graph.onnx[r].outs[1].name : r \in {s.target, s.reshape, s.clip} \ {0}}
      Moved(io) == IF io.name \in {n.ins[1].name, target.ins[1].name} THEN InLayout(io, n.name \o "_in", perm)
                   ELSE IF io.name \in inner THEN InLayout(io, n.name \o "_out", perm) ELSE io
      MovedNode(m) == [m EXCEPT !.ins = [p \in 1..Len(@) |-> Moved(@[p])], !.outs = [p \in 1..Len(@) |-> Moved(@[p])],
                                !.domain = IF m = target THEN "nhwc" ELSE @]
      own == OnnxNodes({k})
  IN  WithQuantizers(Transposition(n.name \o "_in", n.ins[1], Moved(n.ins[1]), perm))
      \o [p \in 1..Len(own) |-> MovedNode(own[p])]
      \o WithQuantizers(Transposition(n.name \o "_out", Moved(n.outs[1]), n.outs[1], ChannelLastToFirstPerm(Rank(n.ins[1]))))

TransformLayout ==
  /\ stage = "partition" /\ WalkDone
  /\ ~graph.postLayout /\ Partitions # <<>>
  /\ LET Nhwc(k) == IF k \in Claimed /\ ShouldConvertDataLayoutForOp(Node(k)) THEN ToNhwc(k) ELSE OnnxNodes({k})
     IN  graph' = [graph EXCEPT !.postLayout = TRUE, !.onnx = FlattenSeq([k \in 1..N |-> Nhwc(k)])]
  /\ stage' = "load" /\ i' = 2
  /\ UNCHANGED <<node_units, units, declined, wrapper, composed, host, env, ran, pvars>>

\* No other provider has the nodes of the NHWC domain.
Unclaimed == \E k \in 1..N : Node(k).domain = "nhwc" /\ k \notin Claimed

LayoutFails ==
  /\ stage = "partition" /\ WalkDone
  /\ graph.postLayout /\ Unclaimed
  /\ stage' = "failed"
  /\ UNCHANGED <<graph, node_units, units, i, declined, wrapper, composed, host, env, ran, pvars>>

(***************************************************************************)
(* Compile: every partition gets a wrapper with its own inputs and outputs, *)
(* and its units are grouped anew.                                          *)
(***************************************************************************)
StartPartition(j) == NewWrapper(InputsOf(PartitionSet(j)), OutputsOf(PartitionSet(j)), FALSE)

BeginCompile ==
  /\ stage = "partition" /\ WalkDone
  /\ (graph.postLayout /\ ~Unclaimed) \/ Partitions = <<>>
  /\ stage' = IF Partitions = <<>> THEN "run" ELSE "compile"
  /\ i' = 0 /\ node_units' = <<>> /\ units' = <<>>
  /\ wrapper' = IF Partitions = <<>> THEN <<>> ELSE StartPartition(1)
  /\ UNCHANGED <<graph, declined, composed, host, env, ran, pvars>>

FinishPartition ==
  /\ stage = "compile" /\ i > Len(units)
  /\ composed' = Append(composed, wrapper)
  /\ i' = 0 /\ node_units' = <<>> /\ units' = <<>>
  /\ IF Len(composed') = Len(Partitions)
     THEN stage' = "run" /\ wrapper' = <<>>
     ELSE stage' = stage /\ wrapper' = StartPartition(Len(composed') + 1)
  /\ UNCHANGED <<graph, declined, host, env, ran, pvars>>

(***************************************************************************)
(* The session runs.  A CPU node gives what ONNX says of it.                *)
(***************************************************************************)
Available(S) == InputsOf(S) \subseteq DOMAIN host

Ready == {j \in 1..Len(composed) : <<"partition", j>> \notin ran /\ Available(PartitionSet(j))}

RunCpuNode ==
  /\ stage = "run" /\ env = <<>>
  /\ \E k \in (1..N) \ Claimed :
       /\ <<"node", k>> \notin ran
       /\ Available({k})
       /\ \A l \in (1..(k - 1)) \ Claimed : <<"node", l>> \in ran \/ ~Available({l})
       /\ ran' = ran \cup {<<"node", k>>}
       /\ LET outs == Node(k).outs
              Out(x) == CHOOSE o \in ToSet(outs) : o.name = x
          IN  host' = [x \in Names(outs) |-> Out(x).real] @@ host
  /\ UNCHANGED <<graph, stage, node_units, units, i, declined, wrapper, composed, env, pvars>>

Static(m) == {x \in DOMAIN m.tensors : m.tensors[x].data # <<>>}

IoOf(x) == CHOOSE io \in UNION {ToSet(Node(k).ins) \cup ToSet(Node(k).outs) : k \in 1..N} : io.name = x

\* The QNN graph of a partition starts with its inputs and its static
\* tensors.  ORT's buffers hold the codes that the ONNX graph says.
StartExecute ==
  /\ stage = "run" /\ env = <<>> /\ Ready # {}
  /\ LET j == CHOOSE k \in Ready : TRUE
         m == composed[j]
         ins == m.inputs \cap DOMAIN m.tensors
     IN  /\ ran' = ran \cup {<<"partition", j>>}
         /\ wrapper' = m
         /\ env' = [x \in ins |-> Code(Reshape(host[x], m.tensors[x].shape), IoOf(x).q)]
                   @@ [x \in Static(m) |-> m.tensors[x].data[1]]
  /\ i' = 1
  /\ UNCHANGED <<graph, stage, node_units, units, declined, composed, host, pvars>>

\* The inputs of op o are there.
ReadsAvailable(o) == \A k \in 1..Len(o.ins) : o.ins[k] \in DOMAIN env

Execute ==
  /\ stage = "run" /\ env # <<>>
  /\ i <= Len(wrapper.ops)
  /\ LET o == wrapper.ops[i]
         values == Eval(wrapper, o, env)
     IN  /\ ReadsAvailable(o)
         /\ env' = [x \in ToSet(o.outs) |-> values[CHOOSE k \in 1..Len(o.outs) : o.outs[k] = x]] @@ env
  /\ i' = i + 1
  /\ UNCHANGED <<graph, stage, node_units, units, declined, wrapper, composed, host, ran, pvars>>

FinishExecute ==
  /\ stage = "run" /\ env # <<>>
  /\ i > Len(wrapper.ops)
  /\ host' = [x \in wrapper.outputs \cap DOMAIN env |-> Real(env[x], IoOf(x).q)] @@ host
  /\ env' = <<>>
  /\ wrapper' = <<>>
  /\ UNCHANGED <<graph, stage, node_units, units, i, declined, composed, ran, pvars>>

Finish ==
  /\ stage = "run" /\ env = <<>>
  /\ graph.outputs \subseteq DOMAIN host
  /\ Ready = {}
  /\ stage' = "done"
  /\ UNCHANGED <<graph, node_units, units, i, declined, wrapper, composed, host, env, ran, pvars>>

Done == stage \in {"done", "failed"} /\ UNCHANGED vars

Next ==
  \/ Load \/ LoadNext \/ FormUnits \/ AffinityFails \/ BeginCapability
  \/ GroupUnits \/ TranslateUnit \/ EndCapability \/ Partition
  \/ TransformLayout \/ LayoutFails
  \/ BeginCompile \/ FinishPartition
  \/ RunCpuNode \/ StartExecute \/ Execute \/ FinishExecute \/ Finish \/ Done

Spec == Init /\ [][Next]_vars

(***************************************************************************)
(* Properties.                                                              *)
(***************************************************************************)
\* GetInputEdgesCount and GetOutputNodes see the edges between the units from
\* their two ends and agree on them: in_degree starts at the number of times
\* that the walk counts a unit down.
EdgeCountsAgree == stage = "capability" => CountsAgree

\* A node that GetCapability claimed before ORT changed its layout is one
\* that its builder still takes in the new layout: no other provider can run
\* it then.
LayoutClaimsStand == stage = "capability" => \A k \in declined : Node(k).domain # "nhwc"

\* No unit that QNN takes, alone or in a fusion, has an operator that the
\* op_affinity option pins to another backend.
AffinityHolds == stage = "compile" => \A k \in Claimed : Evaluate(wrapper, Node(k).op)

\* Whatever GetCapability took, Compile composes: a builder that accepts a
\* unit with the whole model's inputs and outputs around it also accepts it
\* with the partition's, and finds every tensor it needs.
SupportedComposes ==
  /\ stage = "compile" => wrapper.ok
  /\ \A j \in 1..Len(composed) : composed[j].ok

Ops(m) == 1..Len(m.ops)

Writes(m, x) == {p \in Ops(m) \X (1..3) : p[2] <= Len(m.ops[p[1]].outs) /\ m.ops[p[1]].outs[p[2]] = x}

\* A composed QNN graph is executable: an op reads graph inputs, static
\* tensors and results of earlier ops only, no tensor is written twice or by
\* anything but its producer, and every graph output has a producer.
GraphIsDataFlow ==
  \A j \in 1..Len(composed) :
    LET m == composed[j]
        given == {x \in DOMAIN m.tensors : m.tensors[x].kind \in {"input", "static"}}
    IN  /\ \A k \in Ops(m) : ToSet(m.ops[k].ins)
              \subseteq given \cup UNION {ToSet(m.ops[l].outs) : l \in 1..(k - 1)}
        /\ \A k \in Ops(m) : \A x \in ToSet(m.ops[k].outs) :
              x \notin given /\ Cardinality(Writes(m, x)) = 1
        /\ \A x \in m.outputs : Writes(m, x) # {}

\* The tensors are what the builders declared them to be: each op's result
\* has the declared shape, and a graph output has the type and the shape of
\* the ONNX tensor it is (an encoded integer the fixed-point type of its
\* width).
DeclarationsHold ==
  /\ stage = "run" /\ env # <<>> => \A x \in DOMAIN env : env[x].shape = wrapper.tensors[x].shape
  /\ \A j \in 1..Len(composed) : \A x \in composed[j].outputs \cap DOMAIN composed[j].tensors :
       /\ composed[j].tensors[x].dt \in {IoOf(x).dt, FixedPoint(IoOf(x).dt)}
       /\ composed[j].tensors[x].shape = OnnxShape(IoOf(x))

\* QNN computes what ONNX says: the value of every tensor that leaves a
\* partition is the one that the ONNX operators define.
ComputesOnnx ==
  stage \in {"run", "done"} =>
    \A x \in DOMAIN host : LET want == IoOf(x).real
                           IN  host[x].at = want.at \/ host[x] = Reshape(want, <<1>>)
=============================================================================
