---------------------------- MODULE QnnSemantics -----------------------------
(***************************************************************************)
(* What a QNN backend computes for the ops that the builders create.  The   *)
(* backend is not in the repository: an op is modelled from the parameters  *)
(* that the builders give it and from what they say it does.                *)
(*                                                                          *)
(* A tensor holds codes.  An op reads the real values that its inputs'      *)
(* encodings give, computes on them, and encodes the result for its output; *)
(* a Cast works on the codes themselves.                                    *)
(***************************************************************************)
EXTENDS Precision

IsFloat(dt) == dt \in {"f16", "f32", "f64"}

\* HTP's Cast to BOOL truncates a float, so that only 0 and 1 are right, and
\* takes a UINT8 for a BOOL when it makes it a float.
CastElement(m, from, to, v) ==
  IF to # "bool" THEN (IF IsHtp(m) /\ from = "u8" /\ IsFloat(to) /\ v # 0 THEN 1 ELSE v)
  ELSE IF IsHtp(m) /\ IsFloat(from) THEN (IF v \in {0, 1} THEN v ELSE Poison)
  ELSE (IF v = 0 THEN 0 ELSE 1)

NoTensor == [shape |-> <<0>>, at |-> <<>>]

\* The results of an op that moves elements; ts are its inputs.
EvalMove(op, p, ts, outShape) ==
  CASE op = "Reshape" -> <<IF Prod(outShape) = Prod(ts[1].shape) THEN Reshape(ts[1], outShape) ELSE NoTensor>>
    [] op = "Transpose" -> <<Transpose(ts[1], p.perm)>>
    [] op = "StridedSlice" -> <<StridedSlice(ts[1], p.ranges)>>
    [] op = "Split" -> Split(ts[1], p.axis, p.index)
    [] op = "Concat" -> <<Concat(ts, p.axis)>>
    [] op = "Pad" -> <<Pad(ts[1], p.amount, p.scheme, p.value)>>
    [] op = "Tile" -> <<Tile(ts[1], p.multiples)>>
    [] op = "Gather" -> <<Gather(ts[1], ts[2], p.axis)>>
    [] op = "GatherElements" -> <<GatherElements(ts[1], ts[2], p.axis)>>
    [] op = "GatherNd" -> <<GatherNd(ts[1], ts[2], p.batch)>>
    [] op = "ScatterElements" -> <<ScatterElements(ts[1], ts[2], ts[3], p.axis, p.reduction)>>
    [] op = "ScatterNd" -> <<ScatterNd(ts[1], ts[2], ts[3], p.reduction)>>

\* The ops whose results are indices or shapes.
EvalIndex(op, p, ts) ==
  CASE op = "Shape" -> <<Vec(SubSeq(ts[1].shape, p.start + 1, p.end))>>
    [] op = "OneHot" -> <<OneHot(ts[1], p.depth, p.off, p.on, p.axis)>>
    [] op = "TopK" -> TopK(ts[1], Len(ts[1].shape) - 1, p.k, p.largest)
    [] op = "Argmax" -> <<ArgBest(ts[1], p.axis, 1, p.keep)>>
    [] op = "Argmin" -> <<ArgBest(ts[1], p.axis, -1, p.keep)>>
    [] op = "CumulativeSum" -> <<CumulativeSum(ts[1], p.axis)>>
    [] op = "NonZero" -> <<NonZero(ts[1])>>

Truth(b) == IF b THEN 1 ELSE 0

BinarySet == {"Multiply", "Add", "Subtract", "Divide", "Power", "Maximum", "Minimum", "And", "Or", "Xor", "Equal",
              "NotEqual", "Greater", "GreaterEqual", "Less", "LessEqual", "PRelu"}

BinaryElement(op, a, b) ==
  CASE op = "Multiply" -> MulR(a, b)
    [] op = "Add" -> AddR(a, b)
    [] op = "Subtract" -> SubR(a, b)
    [] op = "Divide" -> DivR(a, b)
    [] op = "Power" -> PowR(a, b)
    [] op = "Maximum" -> MaxOf(a, b)
    [] op = "Minimum" -> MinOf(a, b)
    [] op = "And" -> Truth(a # 0 /\ b # 0)
    [] op = "Or" -> Truth(a # 0 \/ b # 0)
    [] op = "Xor" -> Truth((a # 0) # (b # 0))
    [] op = "Equal" -> Truth(a = b)
    [] op = "NotEqual" -> Truth(a # b)
    [] op = "Greater" -> Truth(a > b)
    [] op = "GreaterEqual" -> Truth(a >= b)
    [] op = "Less" -> Truth(a < b)
    [] op = "LessEqual" -> Truth(a <= b)
    [] op = "PRelu" -> IF a < 0 THEN MulR(a, b) ELSE a

UnarySet == DOMAIN Seed \cup {"Sqrt", "Abs", "Neg", "Not", "Relu", "Sign", "Gelu", "Elu", "Neuron", "ReluMinMax", "Convert",
                              "Quantize", "Dequantize"}

\* Convert, Quantize and Dequantize only change the encoding.
UnaryElement(op, p, v) ==
  CASE op = "Abs" -> Abs(v)
    [] op = "Neg" -> 0 - v
    [] op = "Not" -> Truth(v = 0)
    [] op = "Relu" -> MaxOf(v, 0)
    [] op = "Sign" -> Sign(v)
    [] op = "Gelu" -> GeluOf(v)
    [] op = "Elu" -> EluOf(v, p.alpha)
    [] op = "ReluMinMax" -> Clamp(v, p.min, p.max)
    [] op = "Neuron" -> IF p.operation = "HardSigmoid" THEN Clamp(AddR(MulR(p.alpha, v), p.beta), 0, 1)
                        ELSE Fn(p.operation, v)
    [] op = "IsInf" -> Truth((p.positive /\ v = Inf) \/ (p.negative /\ v = 0 - Inf))
    [] op = "IsNan" -> Truth(v = Nan)
    [] op \in {"Convert", "Quantize", "Dequantize"} -> v
    [] OTHER -> Fn(op, v)

\* Layout ops and norms; tensors are channel-last.
EvalSpatial(op, p, ts) ==
  CASE op = "Select" -> Select(ts[1], ts[2], ts[3])
    [] op = "L2Norm" -> L2Norm(ts[1], p.axes, p.epsilon)
    [] op = "LRN" -> LRN(ts[1], Len(ts[1].shape) - 1, p.radius, p.alpha, p.beta, p.bias)
    [] op = "DepthToSpace" -> DepthToSpace(ts[1], p.block, p.mode)
    [] op = "SpaceToDepth" -> SpaceToDepth(ts[1], p.block, p.mode)
    [] op = "ChannelShuffle" -> ChannelShuffle(ts[1], p.axis, p.groups)
    [] op = "GridSample" -> GridSample(ts[1], ts[2], p)

\* Ops that combine elements along axes.
ReduceKind == [ReduceMax |-> "Max", ReduceMean |-> "Mean", ReduceMin |-> "Min", ReduceProd |-> "Prod",
               ReduceSum |-> "Sum"]

\* ResizeNearestNeighbor rounds half up with aligned corners and down otherwise.
ImageResize(p, interp) ==
  [interp |-> interp, coeff |-> 0,
   nearest |-> IF p.align THEN "round_prefer_ceil" ELSE "floor",
   coord |-> IF p.align THEN "align_corners"
             ELSE IF ~p.half THEN "asymmetric"
             ELSE IF interp = "nearest" THEN "tf_half_pixel_for_nn" ELSE "half_pixel"]

CombineSet == DOMAIN ReduceKind \cup {"Softmax", "LogSoftmax", "PoolMax2d", "PoolMax3d", "PoolAvg2d", "PoolAvg3d",
                                      "Resize", "ResizeNearestNeighbor", "ResizeBilinear"}

EvalCombine(op, p, t, outShape) ==
  CASE op = "Softmax" -> SoftmaxAlong(t, p.axis, p.beta)
    [] op = "LogSoftmax" -> Unary(SoftmaxAlong(t, p.axis, p.beta), LAMBDA v : Fn("Log", v))
    [] op \in DOMAIN ReduceKind ->
         LET r == Reduce(t, p.axes, ReduceKind[op], p.keep) IN IF r.shape = <<>> THEN Reshape(r, <<1>>) ELSE r
    [] op \in {"PoolMax2d", "PoolMax3d"} -> Pool(t, "max", p)
    [] op \in {"PoolAvg2d", "PoolAvg3d"} -> Pool(t, "avg", p)
    [] op = "Resize" -> ResizeTo(t, outShape, p)
    [] op = "ResizeNearestNeighbor" -> ResizeTo(t, outShape, ImageResize(p, "nearest"))
    [] op = "ResizeBilinear" -> ResizeTo(t, outShape, ImageResize(p, "linear"))

\* Matrix products and convolutions.
AlgebraSet == {"MatMul", "FullyConnected", "Conv2d", "Conv3d", "DepthWiseConv2d", "TransposeConv2d", "TransposeConv3d"}

EvalAlgebra(op, p, ts) ==
  CASE op = "MatMul" -> MatrixProduct(IF p.in0 THEN SwapLast(ts[1]) ELSE ts[1], IF p.in1 THEN SwapLast(ts[2]) ELSE ts[2])
    [] op = "FullyConnected" -> FullyConnected(ts)
    [] op \in {"Conv2d", "Conv3d"} -> Convolution(ts, p, p.group)
    [] op = "DepthWiseConv2d" -> Convolution(ts, p, LastOf(ts[1].shape))
    [] op \in {"TransposeConv2d", "TransposeConv3d"} -> TransposeConvolution(ts, p)

\* Normalizations; images are channel-last.
NormSet == {"LayerNorm", "RmsNorm", "Batchnorm", "InstanceNorm", "GroupNorm"}

EvalNorm(op, p, ts) ==
  LET t == ts[1]
      beta == IF Len(ts) = 3 THEN <<ts[3]>> ELSE <<>>
  IN  CASE op = "LayerNorm" -> Affine(Standardized(t, p.axes, p.eps), ts[2], beta)
        [] op = "RmsNorm" -> Affine(UnitRms(t, p.axes, p.eps), ts[2], beta)
        [] op = "Batchnorm" -> Affine(t, ts[2], beta)
        [] op = "InstanceNorm" -> Affine(Standardized(t, 1..(Len(t.shape) - 2), p.eps), ts[2], beta)
        [] op = "GroupNorm" -> Affine(GroupStandardized(t, p.group, p.eps), ts[2], beta)

MoveSet == {"Reshape", "Transpose", "StridedSlice", "Split", "Concat", "Pad", "Tile", "Gather",
            "GatherElements", "GatherNd", "ScatterElements", "ScatterNd"}

IndexSet == {"Shape", "OneHot", "TopK", "Argmax", "Argmin", "CumulativeSum", "NonZero"}

\* The codes that op o of the graph m writes, given the codes env it reads.
\* The real values of op o of the values ts; shape is that of its result.
EvalReal(o, ts, shape) ==
  CASE o.op \in MoveSet -> EvalMove(o.op, o.par, ts, shape)
    [] o.op \in IndexSet -> EvalIndex(o.op, o.par, ts)
    [] o.op \in BinarySet -> <<Binary(ts[1], ts[2], LAMBDA a, b : BinaryElement(o.op, a, b))>>
    [] o.op \in UnarySet -> <<Unary(ts[1], LAMBDA v : UnaryElement(o.op, o.par, v))>>
    [] o.op \in CombineSet -> <<EvalCombine(o.op, o.par, ts[1], shape)>>
    [] o.op \in AlgebraSet -> <<EvalAlgebra(o.op, o.par, ts)>>
    [] o.op \in NormSet -> <<EvalNorm(o.op, o.par, ts)>>
    [] OTHER -> <<EvalSpatial(o.op, o.par, ts)>>

Encode(m, o, reals) ==
  [k \in 1..Len(o.outs) |-> LET t == m.tensors[o.outs[k]] IN Code(Saturated(reals[k], t.dt, t.q), t.q)]

Eval(m, o, env) ==
  IF o.op = "Cast"
  THEN <<Unary(env[o.ins[1]], LAMBDA v : CastElement(m, m.tensors[o.ins[1]].dt, m.tensors[o.outs[1]].dt, v))>>
  ELSE Encode(m, o, EvalReal(o, [k \in 1..Len(o.ins) |-> Real(env[o.ins[k]], m.tensors[o.ins[k]].q)],
                             m.tensors[o.outs[1]].shape))
=============================================================================
