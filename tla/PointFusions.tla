---------------------------- MODULE PointFusions -----------------------------
(***************************************************************************)
(* Fusions of elementwise operators and of single normalizations            *)
(* (builder/qnn_node_group).  XMatch(v, k) is TryFusion at unit k without   *)
(* the backend's validation; XSteps(m, U) is AddToModelBuilder, U being the *)
(* units of the group.                                                      *)
(***************************************************************************)
EXTENDS NodeUnits

(***************************************************************************)
(* Mul by a constant and Softmax: the constant becomes the Softmax's beta.  *)
(***************************************************************************)
\* The index of the input of one element that has the lower rank.
GetMulScaleInputIndex(n) ==
  LET One(k) == Prod(n.ins[k].shape) = 1
      scale == IF One(1) /\ (~One(2) \/ Rank(n.ins[1]) < Rank(n.ins[2])) THEN 1 ELSE 2
  IN  CASE Len(n.ins) # 2 \/ ~(One(1) \/ One(2)) -> 0
        [] One(1) /\ One(2) /\ Rank(n.ins[1]) = Rank(n.ins[2]) -> 0
        [] Rank(n.ins[scale]) > Rank(n.ins[3 - scale]) -> 0
        [] OTHER -> scale

GetPositiveSoftmaxAxis(data, softmax) == CanonicalAxis(Get(softmax, "axis", -1), Rank(data))

ScaleSoftmaxMatch(v, k) ==
  LET mul == v.ns[k]
      s == GetMulScaleInputIndex(mul)
      softmax == GetOnlyChildOfType(v, k, {"Softmax"})
  IN  IF s = 0 \/ softmax = 0 THEN NoMatch
      ELSE LET data == mul.ins[3 - s]
           IN  IF /\ GetScalarConstantValue(mul.ins[s]) # <<>>
                  /\ Rank(data) > 0
                  /\ GetPositiveSoftmaxAxis(data, v.ns[softmax]) = Rank(data) - 1
               THEN Group("ScaleSoftmax", <<k, softmax>>, softmax) ELSE NoMatch

ScaleSoftmaxSteps(m, U) ==
  LET s == GetMulScaleInputIndex(U[1])
      data == U[1].ins[3 - s]
  IN  FusedOp(m, data, U[2].outs[1], "Softmax",
              [axis |-> GetPositiveSoftmaxAxis(data, U[2]), beta |-> GetScalarConstantValue(U[1].ins[s])[1]])

(***************************************************************************)
(* x * HardSigmoid(x) with alpha = 1/6 and beta = 1/2 is HardSwish(x).      *)
(***************************************************************************)
HardSigmoidMulMatch(v, k) ==
  LET n == v.ns[k]
      mul == GetOnlyChildOfType(v, k, {"Mul"})
  IN  IF mul = 0 THEN NoMatch
      ELSE IF /\ Get(n, "alpha", InvR(5)) = InvR(6) /\ Get(n, "beta", Half) = Half
              /\ \E p \in 1..2 : v.ns[mul].ins[p].name = n.ins[1].name
      THEN Group("HardSigmoidMul", <<k, mul>>, k) ELSE NoMatch

HardSigmoidMulSteps(m, U) ==
  FusedOp(m, U[1].ins[1], U[2].outs[1], "Neuron", [operation |-> "HardSwish", alpha |-> 0, beta |-> 0])

(***************************************************************************)
(* x / (ReduceL2(x) + epsilon).                                             *)
(***************************************************************************)
\* The Add's input that is not the ReduceL2.
EpsilonInput(reduce, add) ==
  LET others == SelectSeq(add.ins, LAMBDA io : io.name # reduce.outs[1].name) IN LastOf(others)

L2NormMatch(v, k) ==
  LET n == v.ns[k]
      add == GetOnlyChildOfType(v, k, {"Add"})
      div == IF add = 0 THEN 0 ELSE GetOnlyChildOfType(v, add, {"Div"})
      axes == GetReduceAxes(n)
  IN  IF div = 0 \/ Get(n, "keepdims", 1) # 1 \/ axes \in {<<>>, <<{}>>} THEN NoMatch
      ELSE IF /\ GetScalarConstantValue(EpsilonInput(n, v.ns[add])) # <<>>
              /\ EpsilonInput(n, v.ns[add]).dt = "f32"
              /\ v.ns[div].ins[1].name = n.ins[1].name
              /\ v.ns[div].ins[2].name = v.ns[add].outs[1].name
      THEN Group("L2Norm", <<k, add, div>>, div) ELSE NoMatch

L2NormSteps(m, U) ==
  FusedOp(m, U[1].ins[1], U[3].outs[1], "L2Norm",
          [axes |-> GetReduceAxes(U[1])[1], epsilon |-> GetScalarConstantValue(EpsilonInput(U[1], U[2]))[1]])

(***************************************************************************)
(* Cast and QuantizeLinear, without a DequantizeLinear in front: a Convert. *)
(***************************************************************************)
IsQnnConvertInputSupported(dt) == dt \in {"f16", "f32", "bool", "u8", "uf8", "sf8", "uf16", "sf16"}

CastLoneQMatch(v, k) ==
  LET q == GetOnlyChildOfType(v, k, {"QuantizeLinear"})
      in == v.ns[k].ins[1]
  IN  IF q # 0 /\ GetParentOfType(v, k, {"DequantizeLinear"}) = 0 /\ ~IsConst(in) /\ IsQnnConvertInputSupported(in.dt)
      THEN Group("CastLoneQ", <<k, q>>, k) ELSE NoMatch

CastLoneQSteps(m, U) == FusedOp(m, U[1].ins[1], U[2].outs[1], "Convert", NoPar)

(***************************************************************************)
(* DequantizeLinear and QuantizeLinear: a Convert, or, of a constant, the   *)
(* constant in its new encoding.                                            *)
(***************************************************************************)
\* Both have one scale and one zero point, and scales of the same type.
IsDQQConversion(dq, q) ==
  /\ Len(dq.ins[1].q) = 2 /\ Len(q.outs[1].q) = 2
  /\ ~HasAttr(dq, "no_zero_point") /\ ~HasAttr(q, "no_zero_point")
  /\ dq.outs[1].dt = q.ins[1].dt

DQQMatch(v, k) ==
  LET q == GetOnlyChildOfType(v, k, {"QuantizeLinear"})
  IN  IF q = 0 THEN NoMatch
      ELSE IF IsDQQConversion(v.ns[k], v.ns[q]) THEN Group("DQQ", <<k, q>>, k) ELSE NoMatch

\* The codes of a constant, or of a tensor that an earlier fold made static.
IsConstantOrFoldedStatic(m, io) == IsConst(io) \/ IsFoldedStaticTensor(m, io.name)

GetConstantOrFoldedBytes(m, io) == IF IsConst(io) THEN io.val[1] ELSE m.tensors[io.name].data[1]

FoldsConstantQdq(m, dq, q) ==
  /\ q.outs[1].dt \notin {"s4", "u4"}
  /\ IsConstantOrFoldedStatic(m, dq.ins[1])
  /\ ~IsGraphOutput(m, q.outs[1].name)
  /\ dq.outs[1].dt = "f32"

FoldConstantDequantizeLinear(m, dq) == Real(GetConstantOrFoldedBytes(m, dq.ins[1]), dq.ins[1].q)

DQQSteps(m, U) ==
  LET value == FoldConstantDequantizeLinear(m, U[1])
      out == U[2].outs[1]
  IN  IF FoldsConstantQdq(m, U[1], U[2])
      THEN <<AddStatic(U[1].outs[1].name, "f32", NoQ, value), AddStatic(out.name, out.dt, out.q, Code(value, out.q))>>
      ELSE FusedOp(m, U[1].ins[1], out, "Convert", NoPar)

\* IsSupported registers the result, for the units that are validated later.
DQQSupportSteps(m, U) == <<MakeTensorWrapper(m, U[2].outs[1])>>

(***************************************************************************)
(* DynamicQuantizeLinear and DequantizeLinear: the value itself, by way of  *)
(* a Transpose that moves nothing.                                          *)
(***************************************************************************)
DqlDqMatch(v, k) ==
  LET n == v.ns[k]
      Read(p) == Uses(v, n.outs[p].name)
      dq == GetOnlyChildOfOutput(v, k, n.outs[1].name)
  IN  IF Len(n.ins) # 1 \/ Len(n.outs) # 3 \/ dq = 0 THEN NoMatch
      ELSE IF /\ n.ins[1].dt = "f32"
              /\ IsSingleNode(v, dq, "DequantizeLinear")
              /\ v.ns[dq].outs[1].dt = "f32"
              /\ \A p \in 1..3 : Read(p) = {<<dq, p>>}
      THEN Group("DqlDq", <<k, dq>>, k) ELSE NoMatch

DqlDqSteps(m, U) ==
  LET in == U[1].ins[1]
      out == U[2].outs[1]
  IN  <<AddWrapper(in.name, IF IsGraphInput(m, in.name) THEN "input" ELSE "native", in.shape, "f32", NoQ),
        AddWrapper(out.name, OutputType(m, out.name), in.shape, "f32", NoQ),
        Op("Transpose", <<in.name>>, <<out.name>>, [perm |-> [j \in 1..Rank(in) |-> j - 1]])>>

(***************************************************************************)
(* Gelu by way of Erf.                                                      *)
(***************************************************************************)
\* ORT appends this to the names of the copies that it makes of a tensor.
CanonicalizeRootTensorName(x) == IF LastOf(x) = "/duplicated" THEN SubSeq(x, 1, Len(x) - 1) ELSE x

HasInputWithEquivalentName(n, x) ==
  \E k \in 1..Len(n.ins) :
    Exists(n.ins[k]) /\ CanonicalizeRootTensorName(n.ins[k].name) = CanonicalizeRootTensorName(x)

IsStandaloneQdq(v, j) == OpOf(v, j) \in {"QuantizeLinear", "DequantizeLinear"}

\* After the Add of 1 and the Mul b, one of: b's other input is a Mul of the
\* root; b reads the root and a Mul follows; b does not read it and the Mul
\* that follows does.
ErfAddTail(v, root, b) ==
  LET Maker(p) == GetParentOfInput(v, v.ns[b].ins[p].name)
      HalfOfRoot(p) == OpOf(v, Maker(p)) = "Mul" /\ HasInputWithEquivalentName(v.ns[Maker(p)], root)
      halves == {p \in 1..Len(v.ns[b].ins) :
                   HalfOfRoot(p) /\ \A q \in 1..p : ~IsStandaloneQdq(v, Maker(q)) /\ (q < p => ~HalfOfRoot(q))}
      last == OnlyChild(v, b)
      chained == OpOf(v, last) = "Mul"
                 /\ (HasInputWithEquivalentName(v.ns[b], root) \/ HasInputWithEquivalentName(v.ns[last], root))
  IN  IF halves # {} THEN <<Maker(CHOOSE p \in halves : TRUE), b>> ELSE IF chained THEN <<b, last>> ELSE <<>>

\* After a Mul a by 1/2: the Add of 1/2 and the Mul by the root.
ErfMulTail(v, root, a) ==
  LET add == OnlyChild(v, a)
      last == IF OpOf(v, add) = "Add" THEN OnlyChild(v, add) ELSE 0
  IN  IF HasInputWithEquivalentName(v.ns[a], root) \/ OpOf(v, last) # "Mul" THEN <<>>
      ELSE IF HasInputWithEquivalentName(v.ns[last], root) THEN <<add, last>> ELSE <<>>

GeluMatch(v, k) ==
  LET div == GetParentOfInput(v, v.ns[k].ins[1].name)
      child == OnlyChild(v, k)
  IN  IF ~Standalone(v.ns[k]) \/ OpOf(v, div) \notin {"Div", "Mul"} \/ OpOf(v, child) \notin {"Add", "Mul"} THEN NoMatch
      ELSE LET root == v.ns[div].ins[1].name
               b == OnlyChild(v, child)
               tail == IF OpOf(v, child) = "Mul" THEN ErfMulTail(v, root, child)
                       ELSE IF OpOf(v, b) = "Mul" THEN ErfAddTail(v, root, b) ELSE <<>>
           IN  IF tail = <<>> THEN NoMatch ELSE Group("Gelu", <<div, k, child>> \o tail, k)

GeluSteps(m, U) == FusedOp(m, U[1].ins[1], LastOf(U).outs[1], "Gelu", NoPar)

(***************************************************************************)
(* Gelu by way of Tanh.                                                     *)
(***************************************************************************)
\* The input beside the constant, 0 if both or none is it.
NonConstInput(n, value) ==
  LET is == {p \in 1..2 : IsScalarConstant(n.ins[p], value)}
  IN  IF Cardinality(is) = 1 THEN 3 - (CHOOSE p \in is : TRUE) ELSE 0

\* The unit in front of an input, if it is of the type and read once.
Before(v, x, type) ==
  LET p == GetParentOfInputByName(v, x)
  IN  IF ~IsSingleNode(v, p, type) THEN 0 ELSE IF HasSingleOutputConsumer(v, p) THEN p ELSE 0

\* The unit in front of n's input that is not the constant.
BeforeConst(v, j, value, type) ==
  LET p == IF j = 0 THEN 0 ELSE NonConstInput(v.ns[j], value)
  IN  IF p = 0 THEN 0 ELSE Before(v, v.ns[j].ins[p].name, type)

\* <<x * x, x^2 * x, x^3 * 0.044715>> in front of input b of the Add.
SquareBefore(v, cube, x, j) ==
  IF v.ns[cube].ins[j].name = x THEN Before(v, v.ns[cube].ins[3 - j].name, "Mul") ELSE 0

CubicOf(v, x, coeff, cube) ==
  LET Squares(s) == s # 0 /\ \A p \in 1..2 : v.ns[s].ins[p].name = x
      Found(s) == IF Squares(s[1]) THEN <<s[1], cube, coeff>> ELSE IF Squares(s[2]) THEN <<s[2], cube, coeff>> ELSE <<>>
  IN  IF cube = 0 THEN <<>> ELSE Found([j \in 1..2 |-> SquareBefore(v, cube, x, j)])

CubicThrough(v, x, coeff) == CubicOf(v, x, coeff, BeforeConst(v, coeff, GeluCubic, "Mul"))

TryMatchCubicSubtree(v, add, b) == CubicThrough(v, v.ns[add].ins[3 - b].name, Before(v, v.ns[add].ins[b].name, "Mul"))

\* cubic holds the subtrees that the two inputs of the Add are, up to the
\* Tanh k; one, mul and half follow it.
TanhGeluGroup(v, k, cubic, before, after) ==
  LET HasConst(j, value) == \E p \in 1..2 : IsScalarConstant(v.ns[j].ins[p], value)
      b == IF cubic[1] # <<>> THEN 1 ELSE 2
  IN  IF /\ cubic[b] # <<>> /\ HasConst(after[1], 1) /\ HasConst(after[3], Half)
         /\ \E p \in 1..2 : v.ns[after[2]].ins[p].name = v.ns[before[1]].ins[3 - b].name
      THEN Group("TanhGelu", cubic[b] \o before \o <<k>> \o after, k) ELSE NoMatch

\* The Add, Mul and Mul after the Tanh; <<>> if they are not there.
AfterTanh(v, one) ==
  LET mul == IF IsSingleNode(v, one, "Add") THEN OnlyChild(v, one) ELSE 0
      half == IF IsSingleNode(v, mul, "Mul") THEN OnlyChild(v, mul) ELSE 0
  IN  IF IsSingleNode(v, half, "Mul") THEN <<one, mul, half>> ELSE <<>>

TanhGeluFrom(v, k, add, scaled, after) ==
  IF add = 0 \/ after = <<>> THEN NoMatch
  ELSE TanhGeluGroup(v, k, [b \in 1..2 |-> TryMatchCubicSubtree(v, add, b)], <<add, scaled>>, after)

TanhGeluThrough(v, k, scaled) ==
  TanhGeluFrom(v, k, BeforeConst(v, scaled, Sqrt2OverPi, "Add"), scaled, AfterTanh(v, OnlyChild(v, k)))

TanhGeluMatch(v, k) ==
  IF Standalone(v.ns[k]) THEN TanhGeluThrough(v, k, Before(v, v.ns[k].ins[1].name, "Mul")) ELSE NoMatch

TanhGeluSteps(m, U) ==
  LET x == U[1].ins[1].name
      root == U[4].ins[CHOOSE p \in 1..2 : U[4].ins[p].name = x]
  IN  FusedOp(m, root, U[9].outs[1], "Gelu", NoPar)
=============================================================================
