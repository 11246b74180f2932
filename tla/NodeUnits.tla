------------------------------ MODULE NodeUnits ------------------------------
(***************************************************************************)
(* Node units: how the nodes of an ONNX graph are grouped with the          *)
(* DequantizeLinear and QuantizeLinear nodes around them                    *)
(* (builder/qdq_node_group_selector.cc, ort_api.cc), and how the fusions    *)
(* walk the units (builder/qnn_node_group/utils.cc).                        *)
(*                                                                          *)
(* A graph g is a record: ns, its nodes in topological order, and outputs,  *)
(* the names of its results.  A node is its index in ns, and 0 stands for   *)
(* none.  A selection s is an OrtNodeGroup: target; clip and reshape, the   *)
(* Relu or Clip and the Reshape that it takes in; dq and q, the quantizers. *)
(***************************************************************************)
EXTENDS OpFactory

OutNames(n) == {n.outs[k].name : k \in 1..Len(n.outs)}

\* The operator of a node; "" if there is none.
OpOf(g, k) == IF k = 0 THEN "" ELSE g.ns[k].op

ProducerOf(g, io) ==
  LET makers == {k \in 1..Len(g.ns) : io.name \in OutNames(g.ns[k])}
  IN  IF makers = {} THEN 0 ELSE CHOOSE k \in makers : TRUE

\* One for each place where io is read.
ConsumersOf(g, io) ==
  FlattenSeq([k \in 1..Len(g.ns) |->
    LET places == SelectSeq(g.ns[k].ins, LAMBDA x : x.name = io.name) IN [p \in 1..Len(places) |-> k]])

GetSoleNonOutputConsumer(g, io) ==
  IF io.name \notin g.outputs /\ Len(ConsumersOf(g, io)) = 1 THEN ConsumersOf(g, io)[1] ELSE 0

\* The only reader of a node with one result.
NextOf(g, k) == IF k = 0 \/ Len(g.ns[k].outs) # 1 THEN 0 ELSE GetSoleNonOutputConsumer(g, g.ns[k].outs[1])

(***************************************************************************)
(* What a quantizer says.                                                   *)
(***************************************************************************)
\* The type of the codes that a quantizer of the selection reads or writes.
InType(g, s, j) == g.ns[s.dq[j]].ins[1].dt

OutType(g, s, j) == g.ns[s.q[j]].outs[1].dt

InScale(g, s) == g.ns[s.dq[1]].ins[1].q

OutScale(g, s, j) == g.ns[s.q[j]].outs[1].q

\* Of the scales of channels only the first is read.
FirstScale(q) == IF IsPerChannel(q) THEN q[1][1] ELSE q[1]

FirstOffset(q) == IF IsPerChannel(q) THEN q[2][1] ELSE q[2]

IsQOrDQScalePositiveConstantScalar(q) == ~IsPerChannel(q) /\ FirstScale(q) > 0

IsQDQPairSupported(q, dq) == FirstScale(q) = FirstScale(dq)

(***************************************************************************)
(* A Relu or Clip before the QuantizeLinear, and the Reshape of a Gemm.     *)
(***************************************************************************)
\* The bounds of a Clip that are attributes or initializers.
GetClipMinMax(n) ==
  LET Bound(a, k) == IF HasAttr(n, "min") \/ HasAttr(n, "max") THEN (IF HasAttr(n, a) THEN {n.attr[a]} ELSE {})
                     ELSE IF Len(n.ins) < k THEN {} ELSE IF IsConst(n.ins[k]) THEN {Data(n.ins[k])[1]} ELSE {}
  IN  [min |-> Bound("min", 2), max |-> Bound("max", 3)]

\* The codes of out stand for values between the activation's bounds only.
IsActivationEncodingSafe(n, out) ==
  LET Value(code) == FirstScale(out.q) * (code + FirstOffset(out.q))
      range == IF n.op = "Clip" THEN GetClipMinMax(n) ELSE [min |-> {0}, max |-> {}]
  IN  /\ FixedPointBitWidth(out.dt) \in {8, 16}
      /\ \A b \in range.min : Value(Qmin(out.dt)) >= b
      /\ \A b \in range.max : Value(Qmax(out.dt)) <= b

TryFoldRedundantActivation(g, k) ==
  LET act == NextOf(g, k) q == NextOf(g, act)
  IN  IF OpOf(g, act) \notin {"Relu", "Clip"} \/ OpOf(g, q) # "QuantizeLinear" THEN 0
      ELSE IF IsActivationEncodingSafe(g.ns[act], g.ns[q].outs[1]) THEN act ELSE 0

IsStaticQdqBias(g, io) ==
  LET Maker(x, op) == OpOf(g, ProducerOf(g, x)) = op
      Data0(x) == g.ns[ProducerOf(g, x)].ins[1]
  IN  IF Maker(io, "DequantizeLinear")
      THEN IF Maker(Data0(io), "QuantizeLinear") THEN IsConst(Data0(Data0(io))) ELSE IsConst(Data0(io))
      ELSE IsConst(io)

IsGemmSafeForAbsorbedReshape(g, n) ==
  /\ ~TransA(n) /\ ~TransB(n)
  /\ Len(n.ins) = 3 =>
       \/ ~Exists(n.ins[3])
       \/ Get(n, "beta", 1) = 0
       \/ /\ Rank(n.ins[2]) = 2
          /\ IsCompatibleFcBiasShape(OnnxShape(n.ins[3]), n.ins[2].shape[2])
          /\ IsStaticQdqBias(g, n.ins[3])

\* The Reshape between a Gemm and a QuantizeLinear or an activation that folds.
TryAbsorbTrailingReshape(g, k) ==
  LET r == NextOf(g, k)
  IN  IF OpOf(g, k) # "Gemm" \/ OpOf(g, r) # "Reshape" THEN 0
      ELSE IF /\ IsGemmSafeForAbsorbedReshape(g, g.ns[k])
              /\ OpOf(g, NextOf(g, r)) = "QuantizeLinear" \/ TryFoldRedundantActivation(g, r) # 0
      THEN r ELSE 0

(***************************************************************************)
(* The selectors' checks.                                                   *)
(***************************************************************************)
Outs(g, s) == g.ns[s.target].outs

AllConsumers(g, ios) == FlattenSeq([k \in 1..Len(ios) |-> ConsumersOf(g, ios[k])])

CheckQDQNodes(g, s, numDq, emptyQ) ==
  /\ Len(s.dq) = numDq
  /\ \/ s.q = <<>> /\ emptyQ
     \/ /\ s.q # <<>>
        /\ Len(s.q) = Len(Outs(g, s))
        /\ Len(s.q) = Len(AllConsumers(g, Outs(g, s)))
        /\ OutNames(g.ns[s.target]) \cap g.outputs = {}

NumInputs(g, s) == Len(g.ns[s.target].ins)

\* Every quantized result is read by its QuantizeLinear alone, the others
\* are free.
CanCreateNodeGroup(g, s) ==
  LET absorbed == SelectSeq(Outs(g, s), LAMBDA o : Len(ConsumersOf(g, o)) = 1 /\ ConsumersOf(g, o)[1] \in ToSet(s.q))
  IN  /\ s.dq # <<>> /\ s.q # <<>>
      /\ Len(s.dq) <= NumInputs(g, s)
      /\ \A o \in ToSet(absorbed) : o.name \notin g.outputs
      /\ Len(absorbed) = Len(s.q)

DropQDQSelector(g, s) ==
  /\ s.clip = 0
  /\ CheckQDQNodes(g, s, 1, FALSE)
  /\ InType(g, s, 1) = OutType(g, s, 1)
  /\ IsQDQPairSupported(OutScale(g, s, 1), InScale(g, s))

DropDQSelector(g, s) == s.clip = 0 /\ Len(s.dq) = 1

UnarySelector(g, s) ==
  /\ CheckQDQNodes(g, s, 1, FALSE)
  /\ \/ InType(g, s, 1) = OutType(g, s, 1)
     \/ /\ IsConvertCompatibleUnaryOp(g.ns[s.target].op)
        /\ NeedsPrecisionConvert(InType(g, s, 1), OutType(g, s, 1))

ClipSelector(g, s) ==
  /\ Len(s.dq) \in 1..3
  /\ CheckQDQNodes(g, s, Len(s.dq), FALSE)
  /\ ProducerOf(g, g.ns[s.target].ins[1]) \in ToSet(s.dq)
  /\ InType(g, s, 1) = OutType(g, s, 1)

BinarySelector(g, s) ==
  /\ CheckQDQNodes(g, s, 2, FALSE)
  /\ LET types == {InType(g, s, 1), InType(g, s, 2), OutType(g, s, 1)}
     IN  \/ Cardinality(types) = 1
         \/ IsConvertCompatibleBinaryOp(g.ns[s.target].op) /\ \A dt \in types : FixedPointBitWidth(dt) # 0

\* All the quantizers have one type.
OneType(g, s) ==
  Cardinality({InType(g, s, j) : j \in 1..Len(s.dq)} \cup {OutType(g, s, j) : j \in 1..Len(s.q)}) = 1

VariadicSelector(g, s) == CheckQDQNodes(g, s, NumInputs(g, s), FALSE) /\ OneType(g, s)

SplitSelector(g, s) == s.clip = 0 /\ CheckQDQNodes(g, s, 1, FALSE) /\ OneType(g, s)

IsSupportedActivationOutputTypePair(in, out, q) ==
  \/ in = out
  \/ in \in {"uf16", "sf16"} /\ out \in {"uf8", "sf8"} /\ IsQOrDQScalePositiveConstantScalar(q)

IsConvertBeforeOpGroup(in, weight, out) ==
  /\ NeedsPrecisionConvert(in, out)
  /\ \A dt \in {in, weight, out} : FixedPointBitWidth(dt) \in {8, 16} /\ FixedPointBitWidth(dt) <= FixedPointBitWidth(out)
  /\ out = "sf16" => weight = "sf8"

IsConvertActivationToOutputGroup(in, out, dq) ==
  /\ NeedsPrecisionConvert(in, out)
  /\ FixedPointBitWidth(in) <= FixedPointBitWidth(out)
  /\ out # "sf16"
  /\ IsQOrDQScalePositiveConstantScalar(dq)

\* A float activation with a constant weight that has a scale per channel.
IsPerChannelConstantWeightOnlyGroup(g, s) ==
  /\ Len(s.dq) = 1 /\ s.q = <<>> /\ NumInputs(g, s) >= 2
  /\ LET weight == g.ns[s.target].ins[2] codes == g.ns[s.dq[1]].ins[1]
     IN  /\ ProducerOf(g, weight) = s.dq[1]
         /\ GetSoleNonOutputConsumer(g, weight) = s.target
         /\ IsConst(codes)
         /\ IsPerChannel(codes.q) /\ Len(codes.q[1]) > 1

\* The activation and the output of a group with a QuantizeLinear.
SupportedPair(g, s) == IsSupportedActivationOutputTypePair(InType(g, s, 1), OutType(g, s, 1), OutScale(g, s, 1))

\* An int8 activation has an int8 weight.
SignedTogether(g, s) == InType(g, s, 1) = "sf8" => InType(g, s, 2) = "sf8"

ConvSelector(g, s) ==
  LET ins == g.ns[s.target].ins
  IN  \/ IsPerChannelConstantWeightOnlyGroup(g, s)
      \/ /\ Len(s.dq) \in 2..3
         /\ CheckQDQNodes(g, s, Len(s.dq), FALSE)
         /\ \A k \in 1..2 : OpOf(g, ProducerOf(g, ins[k])) = "DequantizeLinear"
         /\ \/ SupportedPair(g, s)
            \/ NeedsPrecisionConvert(InType(g, s, 1), OutType(g, s, 1)) /\ Rank(ins[1]) # 3
         /\ SignedTogether(g, s)
         /\ Len(s.dq) = 3 => InType(g, s, 3) = "sf32"

\* Einsum and Reciprocal.
FloatResultSelector(g, s) ==
  /\ CheckQDQNodes(g, s, NumInputs(g, s), TRUE)
  /\ s.q # <<>> => InType(g, s, 1) = OutType(g, s, 1)

MatMulSelector(g, s) ==
  \/ IsPerChannelConstantWeightOnlyGroup(g, s)
  \/ /\ Len(s.dq) = 2
     /\ SignedTogether(g, s)
     /\ CheckQDQNodes(g, s, NumInputs(g, s), FALSE)
     /\ SupportedPair(g, s) \/ IsConvertBeforeOpGroup(InType(g, s, 1), InType(g, s, 2), OutType(g, s, 1))

\* The bias needs beta to be given, and to be 1.
GemmSelector(g, s) ==
  /\ CheckQDQNodes(g, s, NumInputs(g, s), TRUE)
  /\ Len(s.dq) >= 2
  /\ SignedTogether(g, s)
  /\ s.q # <<>> => SupportedPair(g, s) \/ IsConvertBeforeOpGroup(InType(g, s, 1), InType(g, s, 2), OutType(g, s, 1))
  /\ Len(s.dq) = 3 => Get(g.ns[s.target], "beta", 0) = 1 /\ InType(g, s, 3) = "sf32"

\* Where and ScatterElements: two of the inputs are quantized.
TwoOfOneTypeSelector(g, s) == CheckQDQNodes(g, s, 2, FALSE) /\ OneType(g, s)

PadSelector(g, s) == Len(s.dq) \in 1..2 /\ CheckQDQNodes(g, s, Len(s.dq), FALSE) /\ OneType(g, s)

InstanceAndLayerNormalizationSelector(g, s) ==
  /\ CheckQDQNodes(g, s, NumInputs(g, s), FALSE)
  /\ \/ InType(g, s, 1) = OutType(g, s, 1)
     \/ /\ g.ns[s.target].op = "LayerNormalization"
        /\ \/ SupportedPair(g, s)
           \/ Len(s.dq) > 1 /\ IsConvertActivationToOutputGroup(InType(g, s, 1), OutType(g, s, 1), InScale(g, s))
  /\ Len(s.dq) > 2 => InType(g, s, 3) = "sf32"

BatchNormalizationSelector(g, s) ==
  /\ Len(s.dq) \in 2..5
  /\ CheckQDQNodes(g, s, Len(s.dq), TRUE)
  /\ s.q # <<>> => InType(g, s, 1) = OutType(g, s, 1)
  /\ SignedTogether(g, s)

LogicalComparisonSelector(g, s) == CheckQDQNodes(g, s, NumInputs(g, s), TRUE) /\ InType(g, s, 1) = InType(g, s, 2)

\* The indices are not quantized.
TopKSelector(g, s) ==
  /\ s.clip = 0
  /\ Len(s.dq) = 1
  /\ CanCreateNodeGroup(g, s)
  /\ Len(s.q) = 1
  /\ InType(g, s, 1) = OutType(g, s, 1)
  /\ IsQDQPairSupported(OutScale(g, s, 1), InScale(g, s))

\* CumSum and MatMulNBits: the first input alone.
FirstInputSelector(g, s) == CheckQDQNodes(g, s, 1, FALSE) /\ InType(g, s, 1) = OutType(g, s, 1)

RMSNormalizationSelector(g, s) == CheckQDQNodes(g, s, NumInputs(g, s), FALSE) /\ InType(g, s, 1) = OutType(g, s, 1)

(***************************************************************************)
(* The selections, and the units that they and the other nodes become.      *)
(***************************************************************************)
DropQDQOps == {"Expand", "Flatten", "Gather", "GatherElements", "MaxPool", "Reshape", "Resize", "Squeeze", "Tile",
               "Transpose", "Unsqueeze"}

UnaryOps == {"Abs", "Asin", "Atan", "AveragePool", "Buffer", "Ceil", "Cos", "DepthToSpace", "Elu", "Erf", "Exp", "Floor",
             "Gelu", "GlobalAveragePool", "GlobalMaxPool", "HardSigmoid", "HardSwish", "LRN", "LeakyRelu", "Log",
             "LogSoftmax", "LpNormalization", "Neg", "ReduceL2", "ReduceLogSumExp", "ReduceMax", "ReduceMean",
             "ReduceMin", "ReduceProd", "ReduceSum", "Relu", "Round", "Sigmoid", "Sign", "Sin", "Slice", "Softmax",
             "Softplus", "SpaceToDepth", "Sqrt", "Swish", "Tanh"}

\* "nhwc" stands for com.ms.internal.nhwc.
SelectorDomains == {"", "ai.onnx.ml", "com.microsoft", "nhwc", "qti_aisw"}

\* The selector of the operator takes the selection.  Only MaxPool of version
\* 12 has one.
SelectorTakes(g, s) ==
  LET n == g.ns[s.target]
  IN  CASE n.op \in DropQDQOps -> (n.op = "MaxPool" => n.opset \in 12..21) /\ DropQDQSelector(g, s)
        [] n.op \in {"ArgMax", "ArgMin", "NonZero"} -> DropDQSelector(g, s)
        [] n.op \in UnaryOps -> UnarySelector(g, s)
        [] n.op = "Clip" -> ClipSelector(g, s)
        [] n.op \in {"Add", "Div", "GridSample", "Mul", "Pow", "PRelu", "Sub"} -> BinarySelector(g, s)
        [] n.op \in {"Concat", "Max", "Min"} -> VariadicSelector(g, s)
        [] n.op = "Split" -> SplitSelector(g, s)
        [] n.op \in {"Conv", "ConvTranspose"} -> ConvSelector(g, s)
        [] n.op \in {"Einsum", "Reciprocal"} -> FloatResultSelector(g, s)
        [] n.op = "MatMul" -> MatMulSelector(g, s)
        [] n.op = "Gemm" -> GemmSelector(g, s)
        [] n.op \in {"InstanceNormalization", "LayerNormalization"} -> InstanceAndLayerNormalizationSelector(g, s)
        [] n.op = "BatchNormalization" -> BatchNormalizationSelector(g, s)
        [] n.op \in {"Equal", "Greater", "GreaterOrEqual", "Less", "LessOrEqual"} -> LogicalComparisonSelector(g, s)
        [] n.op \in {"Where", "ScatterElements"} -> TwoOfOneTypeSelector(g, s)
        [] n.op = "Pad" -> PadSelector(g, s)
        [] n.op = "TopK" -> TopKSelector(g, s)
        [] n.op \in {"CumSum", "MatMulNBits"} -> FirstInputSelector(g, s)
        [] n.op \in {"RMSNormalization", "SimplifiedLayerNormalization"} -> RMSNormalizationSelector(g, s)
        [] OTHER -> FALSE

Selects(g, s) == g.ns[s.target].domain \in SelectorDomains /\ SelectorTakes(g, s)

\* The node whose results the QuantizeLinear nodes read.
Anchor(s) == IF s.clip # 0 THEN s.clip ELSE IF s.reshape # 0 THEN s.reshape ELSE s.target

GetOrtQDQSelection(g, k) ==
  LET fold == TryFoldRedundantActivation(g, k)
      reshape == IF fold = 0 THEN TryAbsorbTrailingReshape(g, k) ELSE 0
      s == [target |-> k, clip |-> IF reshape # 0 THEN TryFoldRedundantActivation(g, reshape) ELSE fold, reshape |-> reshape]
      Are(op, ks) == SelectSeq(ks, LAMBDA j : OpOf(g, j) = op)
  IN  s @@ [dq |-> Are("DequantizeLinear", [p \in 1..Len(g.ns[k].ins) |-> ProducerOf(g, g.ns[k].ins[p])]),
            q |-> Are("QuantizeLinear", AllConsumers(g, g.ns[Anchor(s)].outs))]

\* What the unit reads and writes: the codes of its quantizers.
GetQDQInputs(g, s) ==
  [p \in 1..NumInputs(g, s) |->
     LET io == g.ns[s.target].ins[p] d == ProducerOf(g, io) IN IF d \in ToSet(s.dq) THEN g.ns[d].ins[1] ELSE io]

GetQDQOutputs(g, s) ==
  [p \in 1..Len(g.ns[Anchor(s)].outs) |->
     LET io == g.ns[Anchor(s)].outs[p] readers == ConsumersOf(g, io)
     IN  IF Len(readers) # 1 THEN io ELSE IF readers[1] \in ToSet(s.q) THEN g.ns[readers[1]].outs[1] ELSE io]

OrtNodeUnit(g, s) ==
  [g.ns[s.target] EXCEPT
     !.ins = GetQDQInputs(g, s), !.outs = GetQDQOutputs(g, s),
     !.attr = IF s.reshape = 0 THEN @ ELSE @ @@ [absorbed |-> g.ns[s.reshape].outs[1].shape]]

\* A unit of one node.
SingleNode(k) == [target |-> k, clip |-> 0, reshape |-> 0, dq |-> <<>>, q |-> <<>>]

\* The nodes that a unit is made of.
UnitNodes(s) == (ToSet(s.dq) \cup {s.target, s.reshape, s.clip} \cup ToSet(s.q)) \ {0}

\* The selections, and the nodes that are in none of them, in the order of
\* their target nodes.
UnitsInOrder(g, selections) ==
  LET targets == {s.target : s \in selections}
      grouped == UNION {UnitNodes(s) : s \in selections}
      Units(k) == IF k \in targets THEN <<CHOOSE s \in selections : s.target = k>>
                  ELSE IF k \in grouped THEN <<>> ELSE <<SingleNode(k)>>
  IN  FlattenSeq([k \in 1..Len(g.ns) |-> Units(k)])

\* What the units are made of.
GetAllOrtNodeUnits(g) ==
  UnitsInOrder(g, {s \in {GetOrtQDQSelection(g, k) : k \in 1..Len(g.ns)} : Selects(g, s)})

(***************************************************************************)
(* The edges between units, as the walk of the partitioner counts them: the *)
(* inputs of a unit, and the readers of its results.                        *)
(***************************************************************************)
CountEdges(g, k) == Len(SelectSeq(g.ns[k].ins, LAMBDA io : ProducerOf(g, io) # 0))

\* Mutant: the edges inside of the unit are counted too.
GetInputEdgesCountKeepsInner(g, s) == MapThenSumSet(LAMBDA j : CountEdges(g, s.dq[j]), 1..Len(s.dq)) + CountEdges(g, s.target)

GetInputEdgesCount(g, s) ==
  MapThenSumSet(LAMBDA j : CountEdges(g, s.dq[j]), 1..Len(s.dq)) + CountEdges(g, s.target) - Len(s.dq)

\* One for each place where a result is read.
GetOutputNodes(g, s) ==
  LET readers == AllConsumers(g, g.ns[Anchor(s)].outs)
      Behind(k) == IF k \in ToSet(s.q) THEN AllConsumers(g, g.ns[k].outs) ELSE <<k>>
  IN  FlattenSeq([p \in 1..Len(readers) |-> Behind(readers[p])])

(***************************************************************************)
(* How the fusions walk the units.  A view v is a record: m, the wrapper;   *)
(* ns, the graph's units; groups, the fusions that are accepted already;    *)
(* taken, the units in them.                                                *)
(***************************************************************************)
\* A unit of one node, without DequantizeLinear and QuantizeLinear around it.
Standalone(n) ==
  \/ n.op \in {"QuantizeLinear", "DequantizeLinear"}
  \/ \A io \in ToSet(n.ins) \cup ToSet(n.outs) : io.q = NoQ

\* The places where a tensor is read.
Uses(v, x) == UNION {{<<j, p>> : p \in {q \in 1..Len(v.ns[j].ins) : v.ns[j].ins[q].name = x}} : j \in 1..Len(v.ns)}

LeavesGraph(v, j) == OutNames(v.ns[j]) \cap v.m.outputs # {}

GetOnlyChildOfOutput(v, j, x) ==
  LET uses == Uses(v, x)
      child == (CHOOSE u \in uses : TRUE)[1]
  IN  IF LeavesGraph(v, j) \/ Cardinality(uses) # 1 THEN 0 ELSE IF child \in v.taken THEN 0 ELSE child

\* The only reader of a unit with one result.
OnlyChild(v, j) == IF Len(v.ns[j].outs) # 1 THEN 0 ELSE GetOnlyChildOfOutput(v, j, v.ns[j].outs[1].name)

\* Of a unit with a QuantizeLinear behind it, the node itself is looked at.
GetOnlyChildOfType(v, j, types) ==
  LET c == OnlyChild(v, j)
  IN  IF c = 0 \/ (v.ns[j].op # "QuantizeLinear" /\ v.ns[j].outs[1].q # NoQ) THEN 0 ELSE IF v.ns[c].op \in types /\ Standalone(v.ns[c]) THEN c ELSE 0

GetChildNodeUnitAllowQdq(v, j, type) ==
  LET c == OnlyChild(v, j) IN IF c = 0 THEN 0 ELSE IF v.ns[c].op = type THEN c ELSE 0

GetParentOfInput(v, x) ==
  LET makers == {j \in 1..Len(v.ns) : x \in OutNames(v.ns[j])}
      parent == CHOOSE j \in makers : TRUE
  IN  IF makers = {} THEN 0 ELSE IF LeavesGraph(v, parent) \/ parent \in v.taken THEN 0 ELSE parent

GetParentOfInputByName(v, x) ==
  LET p == GetParentOfInput(v, x) IN IF p = 0 THEN 0 ELSE IF Standalone(v.ns[p]) THEN p ELSE 0

\* The first input whose producer is of the type, unless the search meets a
\* result of the graph before.
GetParentOfType(v, j, types) ==
  LET Maker(k) == {p \in 1..Len(v.ns) : v.ns[j].ins[k].name \in OutNames(v.ns[p])}
      Stops(k) == \E p \in Maker(k) : LeavesGraph(v, p) \/ v.ns[p].op \in types
      stops == {k \in 1..Len(v.ns[j].ins) : Stops(k)}
      first == CHOOSE k \in stops : \A l \in stops : k <= l
  IN  IF stops = {} THEN 0 ELSE GetParentOfInputByName(v, v.ns[j].ins[first].name)

IsSingleNode(v, j, type) == IF j = 0 THEN FALSE ELSE v.ns[j].op = type /\ Standalone(v.ns[j])

HasSingleOutputConsumer(v, j) == Cardinality(Uses(v, v.ns[j].outs[1].name)) = 1

\* A constant float of one element, as <<value>>.
GetScalarConstantValue(io) ==
  IF IsConst(io) /\ Prod(io.shape) = 1 /\ io.dt \in {"f32", "f16"} THEN Data(io) ELSE <<>>

IsScalarConstant(io, value) == GetScalarConstantValue(io) = <<value>>

\* The axes of a ReduceX unit, <<>> if they are not known.
GetReduceAxes(n) ==
  LET given == IF n.opset < 18 THEN Get(n, "axes", <<>>) ELSE IF Len(n.ins) > 1 THEN Data(n.ins[2]) ELSE <<>>
      known == n.opset < 18 \/ Len(n.ins) <= 1 \/ IsConst(n.ins[2])
  IN  IF known THEN <<{CanonicalAxis(a, Rank(n.ins[1])) : a \in ToSet(given)}>> ELSE <<>>

(***************************************************************************)
(* What the fusions yield.                                                  *)
(***************************************************************************)
NoMatch == <<>>

\* A group: the units in the fusion's order, and the one whose place in the
\* graph it takes.
Group(fusion, members, target) == <<[fusion |-> fusion, members |-> members, target |-> target]>>

\* One op from a tensor of the graph to another.
FusedOp(m, in, out, op, par) ==
  <<MakeTensorWrapper(m, in), MakeTensorWrapper(m, out), Op(op, <<in.name>>, <<out.name>>, par)>>
=============================================================================
