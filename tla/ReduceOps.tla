------------------------------ MODULE ReduceOps ------------------------------
(***************************************************************************)
(* The builders of the operators that combine elements along axes           *)
(* (builder/opbuilder): softmax, reduce, pool, lp_pool, resize, upsample.   *)
(***************************************************************************)
EXTENDS Precision

FirstInput(m, n) == ProcessInput(m, n.ins[1])

(***************************************************************************)
(* Softmax and LogSoftmax.  Before opset 13 the axes from `axis' on are     *)
(* taken as one; HTP wants the axis to be the last one.                     *)
(***************************************************************************)
SoftmaxDefaultAxis(n) == IF n.opset < 13 THEN 1 ELSE -1

SoftmaxAxis(n) == AxisAttr(n, SoftmaxDefaultAxis(n))

FlattenShapeFromAxis(s, axis) ==
  IF axis = 0 THEN <<1, Prod(s)>> ELSE SubSeq(s, 1, axis) \o <<Prod(SubSeq(s, axis + 1, Len(s)))>>

MovesAxis(m, n) == IsHtp(m) /\ SoftmaxAxis(n) # Rank(n.ins[1]) - 1

\* A symmetric encoding spends half of its codes on values that a Softmax
\* never has: the op then writes an encoding of [0, 1), which a Convert turns
\* into the output's.
NeedsBoundedOutputSplit(m, n) ==
  LET out == n.outs[1]
  IN  /\ n.op = "Softmax" /\ IsHtp(m)
      /\ Len(out.q) = 2 /\ out.dt \in {"uf8", "uf16"}
      /\ out.q[2] = 0 - 2^(FixedPointBitWidth(out.dt) - 1)

BuildUnitRangeQuantParams(dt) == PerTensor(InvR(2^FixedPointBitWidth(dt)), 0)

CreateSoftmaxOutputNodes(m, n, ins, par, name, shape, kind) ==
  LET out == n.outs[1]
      natural == New(n, name, "_natural")
      declared == AddWrapper(name, kind, shape, out.dt, out.q)
  IN  IF NeedsBoundedOutputSplit(m, n)
      THEN NativeOp(n.op, ins, natural, shape, out.dt, BuildUnitRangeQuantParams(out.dt), par)
           \o <<declared, Op("Convert", <<natural>>, <<name>>, NoPar)>>
      ELSE <<declared, Op(n.op, ins, <<name>>, par)>>

SoftmaxSupported(m, n) == GetCanonicalizedAxisOk(n, SoftmaxDefaultAxis(n)) /\ ~IsConst(n.ins[1])

SoftmaxInputs(m, n) ==
  LET in == n.ins[1] s == OnnxShape(in)
      flat == New(n, in.name, "_reshape") moved == New(n, in.name, "_transpose")
      perm == GetPermToLastAxis(SoftmaxAxis(n), Len(s))
  IN  CASE n.opset < 13 ->
             [names |-> <<flat>>,
              steps |-> AddReshapeNode(in.name, flat, s, FlattenShapeFromAxis(s, SoftmaxAxis(n)), in.dt, in.q,
                                       IsGraphInput(m, in.name), FALSE)]
        [] n.opset >= 13 /\ MovesAxis(m, n) ->
             [names |-> <<moved>>,
              steps |-> AddTransposeNode(in.name, moved, s, perm, Swapped(s, SoftmaxAxis(n)), in.dt, in.q,
                                         IsGraphInput(m, in.name), FALSE)]
        [] OTHER -> ProcessInput(m, in)

SoftmaxOutputs(m, n, ins) ==
  LET out == n.outs[1] s == OnnxShape(out) ax == SoftmaxAxis(n)
      isOut == IsGraphOutput(m, out.name)
      flat == New(n, out.name, "_reshape") moved == New(n, out.name, "_transpose")
      flatShape == FlattenShapeFromAxis(s, ax)
  IN  CASE n.opset < 13 ->
             CreateSoftmaxOutputNodes(m, n, ins, [axis |-> MaxOf(ax, 1), beta |-> 1], flat, flatShape, "native")
             \o AddReshapeNode(flat, out.name, flatShape, s, out.dt, out.q, FALSE, isOut)
        [] n.opset >= 13 /\ MovesAxis(m, n) ->
             CreateSoftmaxOutputNodes(m, n, ins, [axis |-> Len(s) - 1, beta |-> 1], moved, Swapped(s, ax), "native")
             \o AddTransposeNode(moved, out.name, Swapped(s, ax), GetPermToLastAxis(ax, Len(s)), s, out.dt, out.q,
                                 FALSE, isOut)
        [] OTHER ->
             IF NeedsBoundedOutputSplit(m, n)
             THEN CreateSoftmaxOutputNodes(m, n, ins, [axis |-> ax, beta |-> 1], out.name, s, OutputType(m, out.name))
             ELSE ProcessOutputs(m, n, ins, [axis |-> ax, beta |-> 1], n.op)

(***************************************************************************)
(* Reduce*.  The axes are an attribute, or from some opset on an input.     *)
(***************************************************************************)
ReduceOpTypes ==
  {"ReduceL2", "ReduceLogSumExp", "ReduceMax", "ReduceMean", "ReduceMin", "ReduceProd", "ReduceSum"}

AxesAreInput(n) == n.opset >= IF n.op = "ReduceSum" THEN 13 ELSE 18

HasAxesInput(n) == AxesAreInput(n) /\ Len(n.ins) > 1 /\ Exists(n.ins[2])

GivenAxes(n) ==
  IF AxesAreInput(n) THEN (IF HasAxesInput(n) THEN Data(n.ins[2]) ELSE <<>>) ELSE Get(n, "axes", <<>>)

\* No axes means all of them.
GetAxesSet(n) ==
  IF GivenAxes(n) = <<>> THEN 0..(Rank(n.ins[1]) - 1)
  ELSE {CanonicalAxis(a, Rank(n.ins[1])) : a \in ToSet(GivenAxes(n))}

GetAxesSetOk(n) ==
  /\ HasAxesInput(n) => IsConst(n.ins[2])
  /\ Len(GivenAxes(n)) <= Rank(n.ins[1])
  /\ ~(AxesAreInput(n) /\ GivenAxes(n) = <<>> /\ Get(n, "noop_with_empty_axes", 0) # 0)

ReduceSupported(m, n) ==
  /\ n.op = "ReduceProd" => ~IsHtp(m)
  /\ n.op = "ReduceLogSumExp" => n.ins[1].q = NoQ /\ n.ins[1].dt \in {"f32", "f16"}
  /\ n.op = "ReduceL2" => Len(n.ins[1].q) # 3
  /\ GetAxesSetOk(n)

KeepDims(n) == Get(n, "keepdims", 1) # 0

\* ReduceL2: the root of the sum of squares, in floats if quantized.
ReduceL2Steps(m, n, in) ==
  LET io == n.ins[1] out == n.outs[1] s == OnnxShape(io)
      quantized == io.q # NoQ
      x == IF quantized THEN New(n, in, "_to_f32") ELSE in
      dt == IF quantized THEN "f32" ELSE out.dt
      root == New(n, out.name, "_f32")
  IN  When(quantized, AddDequantizeNode(in, x, "f32", s))
      \o NativeOp("Multiply", <<x, x>>, New(n, x, "_pow2"), s, dt, NoQ, NoPar)
      \o NativeOp("ReduceSum", <<New(n, x, "_pow2")>>, New(n, x, "_sum"), OnnxShape(out), dt, NoQ,
                  [axes |-> GetAxesSet(n), keep |-> KeepDims(n)])
      \o (IF quantized
          THEN NativeOp("Sqrt", <<New(n, x, "_sum")>>, root, OnnxShape(out), "f32", NoQ, NoPar)
               \o AddQuantizeNode(root, out.name, OutputType(m, out.name), out.dt, out.q, OnnxShape(out))
          ELSE OutputOp(m, "Sqrt", <<New(n, x, "_sum")>>, out, NoPar))

\* ReduceLogSumExp: the maximum is taken out of the exponents.
ReduceLogSumExpSteps(m, n, in) ==
  LET io == n.ins[1] out == n.outs[1] s == OnnxShape(io)
      kept == [k \in 1..Len(s) |-> IF k - 1 \in GetAxesSet(n) THEN 1 ELSE s[k]]
      par == [axes |-> GetAxesSet(n), keep |-> TRUE]
      T(suffix) == New(n, in, suffix)
      Step(op, ins, suffix, shape, p) == NativeOp(op, ins, T(suffix), shape, io.dt, NoQ, p)
  IN  Step("ReduceMax", <<in>>, "_max", kept, par)
      \o Step("Subtract", <<in, T("_max")>>, "_normalized", s, NoPar)
      \o Step("Exp", <<T("_normalized")>>, "_exp", s, NoPar)
      \o Step("ReduceSum", <<T("_exp")>>, "_sum", kept, par)
      \o Step("Log", <<T("_sum")>>, "_log", kept, NoPar)
      \o (IF KeepDims(n)
          THEN <<AddWrapper(out.name, OutputType(m, out.name), kept, out.dt, out.q),
                 Op("Add", <<T("_log"), T("_max")>>, <<out.name>>, NoPar)>>
          ELSE NativeOp("Add", <<T("_log"), T("_max")>>, New(n, out.name, "_kept"), kept, io.dt, NoQ, NoPar)
               \o <<AddWrapper(out.name, OutputType(m, out.name), OnnxShape(out), out.dt, out.q),
                    Op("Reshape", <<New(n, out.name, "_kept")>>, <<out.name>>, NoPar)>>)

ReduceOutputs(m, n, ins) ==
  CASE n.op = "ReduceL2" -> ReduceL2Steps(m, n, ins[1])
    [] n.op = "ReduceLogSumExp" -> ReduceLogSumExpSteps(m, n, ins[1])
    [] OTHER -> ProcessOutputs(m, n, ins, [axes |-> GetAxesSet(n), keep |-> KeepDims(n)], n.op)

(***************************************************************************)
(* Pooling.  A tensor of rank 3 gets a height of 1.                         *)
(***************************************************************************)
Widened(s) == IF Len(s) = 3 THEN <<s[1], 1, s[2], s[3]>> ELSE s

PairUp(v) == IF Len(v) = 1 THEN <<1, v[1]>> ELSE v

\* What uint32 arithmetic makes of a negative number; TLC's integers are too
\* small for 2^32, any bound beyond the shapes will do.
UInt32 == 2^20

\* in and out are the channel-last shapes of rank 4 or 5; pad holds a pair
\* for each spatial axis.
ResolvePoolAttributes(n, in, out) ==
  LET r == Len(in) - 2
      ones == [k \in 1..r |-> 1]
      filter == PairUp(Get(n, "kernel_shape", ones))
      stride == PairUp(Get(n, "strides", ones))
      dilations == PairUp(Get(n, "dilations", ones))
      given == Get(n, "pads", [k \in 1..(2 * r) |-> 0])
      pads == IF Len(given) = 2 THEN <<0, given[1], 0, given[2]>> ELSE given
      total(k) == ((out[k + 1] - 1) * stride[k] + (filter[k] - 1) * dilations[k] + 1 - in[k + 1]) % UInt32
      less(k) == total(k) \div 2
      auto == Get(n, "auto_pad", "NOTSET")
  IN  [filter |-> filter, stride |-> stride, ceil |-> Get(n, "ceil_mode", 0) # 0,
       pad |-> [k \in 1..r |-> CASE auto = "SAME_LOWER" -> <<total(k) - less(k), less(k)>>
                                 [] auto = "SAME_UPPER" -> <<less(k), total(k) - less(k)>>
                                 [] OTHER -> <<pads[k], pads[k + r]>>]]

PoolOpTypes == {"MaxPool", "AveragePool", "GlobalMaxPool", "GlobalAveragePool"}

AutoPadModes == {"NOTSET", "SAME_LOWER", "SAME_UPPER", "VALID"}

NoDilation(n) == LET r == Rank(n.ins[1]) - 2 IN Get(n, "dilations", [k \in 1..r |-> 1]) = [k \in 1..r |-> 1]

IsGlobalPool(n) == n.op \in {"GlobalMaxPool", "GlobalAveragePool"}

IsMaxPool(n) == n.op \in {"MaxPool", "GlobalMaxPool"}

PoolSupported(m, n) ==
  m.dov =>
    /\ DataTypeCheckForCpuBackend(m, n.ins[1])
    /\ Rank(n.ins[1]) \in 3..5
    /\ Len(n.outs) = 1
    /\ NoDilation(n)
    /\ ~(Rank(n.ins[1]) = 5 /\ IsHtp(m) /\ IsMaxPool(n))
    /\ ~IsGlobalPool(n) => Get(n, "auto_pad", "NOTSET") \in AutoPadModes

PoolParams(n, in, out) ==
  LET r == Len(in) - 2 spatial == SubSeq(in, 2, r + 1)
      p == IF IsGlobalPool(n)
           THEN [filter |-> spatial, stride |-> spatial, pad |-> [k \in 1..r |-> <<0, 0>>], ceil |-> FALSE]
           ELSE ResolvePoolAttributes(n, in, out)
  IN  [countPad |-> ~IsMaxPool(n) /\ Get(n, "count_include_pad", 0) # 0] @@ p

GetQnnPoolConfig(n, rank) ==
  (IF IsMaxPool(n) THEN "PoolMax" ELSE "PoolAvg") \o (IF rank = 4 THEN "2d" ELSE "3d")

PoolOutputs(m, n, ins) ==
  LET io == n.ins[1] out == n.outs[1]
      rank3 == Rank(io) = 3
      in == Widened(OnnxShape(io)) res == Widened(OnnxShape(out))
      op == GetQnnPoolConfig(n, Len(in))
      par == PoolParams(n, in, res)
      before == New(n, ins[1], "_reshape") after == New(n, out.name, "_reshape_after")
  IN  IF rank3
      THEN NativeOp("Reshape", ins, before, in, io.dt, io.q, NoPar)
           \o NativeOp(op, <<before>>, after, res, io.dt, out.q, par)
           \o OutputOp(m, "Reshape", <<after>>, out, NoPar)
      ELSE IF n.op = "MaxPool" THEN ProcessOutputsNearlyEqual(m, n, ins, par, op)
      ELSE ProcessOutputs(m, n, ins, par, op)

(***************************************************************************)
(* LpPool: an average of powers, scaled back by the number of elements that *)
(* each window holds.                                                       *)
(***************************************************************************)
LpP(n) == Get(n, "p", 2)

LpPoolSupported(m, n) ==
  LET io == n.ins[1]
      in == Widened(OnnxShape(io))
      p == ResolvePoolAttributes(n, in, Widened(OnnxShape(n.outs[1])))
  IN  /\ m.dov =>
           /\ DataTypeCheckForCpuBackend(m, io)
           /\ io.dt \in {"f32", "f16"} /\ io.q = NoQ
           /\ Len(n.outs) = 1
           /\ Rank(io) \in 3..5
           /\ ~(Rank(io) = 5 /\ IsHtp(m))
           /\ LpP(n) \in {1, 2}
           /\ Get(n, "ceil_mode", 0) = 0
           /\ NoDilation(n)
           /\ Get(n, "auto_pad", "NOTSET") \in AutoPadModes
      /\ n.domain = "nhwc" => \A k \in 1..(Len(in) - 2) : p.filter[k] <= in[k + 1] + p.pad[k][1] + p.pad[k][2]

\* The elements of the window at position o of spatial axis k.
RealCount(in, p, k, o) ==
  LET start == o * p.stride[k] - p.pad[k][1]
  IN  MaxOf(MinOf(start + p.filter[k], in[k + 1]) - MaxOf(start, 0), 0)

LpPoolOutputs(m, n, ins) ==
  LET io == n.ins[1] out == n.outs[1]
      in == Widened(OnnxShape(io)) res == Widened(OnnxShape(out))
      r == Len(in) - 2
      rank3 == Rank(io) = 3
      p == ResolvePoolAttributes(n, in, res)
      T(suffix) == New(n, <<n.name>>, suffix)
      x == IF rank3 THEN New(n, ins[1], "_reshape") ELSE ins[1]
      powers == IF LpP(n) = 2 THEN T("_squared") ELSE T("_abs")
      pooled == IF LpP(n) = 2 THEN T("_sqrt") ELSE T("_pool")
      Count(j) == ProdOver(1..r, LAMBDA k : RealCount(in, p, k, j[k + 1]))
      scale == Tensor(<<1>> \o SubSeq(res, 2, r + 1) \o <<1>>,
                      LAMBDA j : IF LpP(n) = 2 THEN SqrtR(Count(j)) ELSE Count(j))
  IN  When(rank3, NativeOp("Reshape", ins, x, in, io.dt, io.q, NoPar))
      \o (IF LpP(n) = 2 THEN NativeOp("Multiply", <<x, x>>, powers, in, io.dt, NoQ, NoPar)
          ELSE NativeOp("Abs", <<x>>, powers, in, io.dt, NoQ, NoPar))
      \o NativeOp(IF r = 3 THEN "PoolAvg3d" ELSE "PoolAvg2d", <<powers>>, T("_pool"), res, io.dt, NoQ,
                  [countPad |-> FALSE] @@ p)
      \o When(LpP(n) = 2, NativeOp("Sqrt", <<T("_pool")>>, T("_sqrt"), res, io.dt, NoQ, NoPar))
      \o <<AddStatic(T("_scale"), io.dt, NoQ, scale)>>
      \o (IF rank3
          THEN NativeOp("Multiply", <<pooled, T("_scale")>>, T("_scaled"), res, io.dt, NoQ, NoPar)
               \o OutputOp(m, "Reshape", <<T("_scaled")>>, out, NoPar)
          ELSE ProcessOutputs(m, n, <<pooled, T("_scale")>>, NoPar, "Multiply"))

(***************************************************************************)
(* Resize and Upsample.  HTP has faster ops for images.                     *)
(***************************************************************************)
InterpModes == {"nearest", "linear", "cubic"}

CoordModes == {"half_pixel", "pytorch_half_pixel", "align_corners", "asymmetric"}

NearestModes == {"round_prefer_floor", "round_prefer_ceil", "floor", "ceil"}

ResizeMode(n) == Get(n, "mode", "nearest")

CoordMode(n) == Get(n, "coordinate_transformation_mode", "half_pixel")

NearestMode(n) == Get(n, "nearest_mode", "round_prefer_floor")

IsTfHalfPixel(n) == CoordMode(n) = "tf_half_pixel_for_nn"

OnlySpatialChanges(n) ==
  OnnxShape(n.ins[1])[1] = OnnxShape(n.outs[1])[1] /\ OnnxShape(n.ins[1])[2] = OnnxShape(n.outs[1])[2]

\* Which nearest modes HTP's ops have.
NpuNearestOk(n) ==
  IF Rank(n.ins[1]) = 4
  THEN ~(NearestMode(n) \in {"ceil", "round_prefer_floor"} /\ CoordMode(n) = "asymmetric")
  ELSE /\ NearestMode(n) \in {"round_prefer_ceil", "floor"}
       /\ NearestMode(n) = "round_prefer_ceil" => CoordMode(n) = "align_corners"
       /\ NearestMode(n) = "floor" => CoordMode(n) # "pytorch_half_pixel"

\* The scales of a cubic Resize must be the quotients of the shapes.
CubicScalesOk(n) ==
  LET scales == n.ins[3] in == OnnxShape(n.ins[1]) out == OnnxShape(n.outs[1])
  IN  Len(n.ins) > 2 /\ Exists(scales) =>
        /\ IsConst(scales)
        /\ Prod(scales.shape) > 0 =>
             Len(Data(scales)) = Len(in) /\ \A k \in 1..Len(in) : Data(scales)[k] = DivR(out[k], in[k])

ResizeSupported(m, n) ==
  /\ m.dov /\ IsTfHalfPixel(n) => ResizeMode(n) = "nearest" /\ NearestMode(n) = "floor"
  /\ m.dov /\ n.domain # "nhwc" =>
       /\ ~(n.opset >= 18 /\ Get(n, "antialias", 0) # 0)
       /\ ResizeMode(n) \in InterpModes
       /\ CoordMode(n) \in CoordModes \cup {"tf_half_pixel_for_nn"}
       /\ ResizeMode(n) = "nearest" =>
            NearestMode(n) \in NearestModes /\ (IsHtp(m) /\ ~IsTfHalfPixel(n) => NpuNearestOk(n))
       /\ Rank(n.ins[1]) >= 3 /\ (IsHtp(m) => Rank(n.ins[1]) <= 5)
       /\ IsTfHalfPixel(n) => Rank(n.ins[1]) = 4
       /\ ResizeMode(n) = "cubic" => CubicScalesOk(n)
       /\ OnlySpatialChanges(n)
       /\ DataTypeCheckForCpuBackend(m, n.ins[1])

\* Resize to twice the size, of which every second element stays.
ProcessTfHalfPixelForNN(m, n, ins) ==
  LET s == OnnxShape(n.outs[1]) r == Len(s)
      Spatial(k) == k \in 2..(r - 1)
      twice == [k \in 1..r |-> IF Spatial(k) THEN 2 * s[k] ELSE s[k]]
      big == <<n.name, "_tfhp_resize_out">>
      ranges == [k \in 1..r |-> IF Spatial(k) THEN <<1, twice[k], 2>> ELSE <<0, twice[k], 1>>]
      resize == NativeOp("Resize", ins, big, twice, n.ins[1].dt, n.ins[1].q,
                         [coord |-> "asymmetric", interp |-> "nearest", nearest |-> "floor", coeff |-> 0,
                          exclude |-> FALSE])
  IN  resize \o ProcessOutputsNearlyEqual(Do(m, resize), n, <<big>>, [ranges |-> ranges], "StridedSlice")

IsPyTorchHalfPixelEquivalentToHalfPixel(n) ==
  LET s == OnnxShape(n.outs[1]) h == IF n.domain = "nhwc" THEN 2 ELSE 3 IN s[h] > 1 /\ s[h + 1] > 1

CubicCoeff(n) == Get(n, "cubic_coeff_a", DivR(-3, 4))

ResizeOutputs(m, n, ins) ==
  LET image == IsHtp(m) /\ Rank(n.ins[1]) = 4
  IN  CASE IsTfHalfPixel(n) -> ProcessTfHalfPixelForNN(m, n, ins)
        [] image /\ ResizeMode(n) = "nearest" /\ ~IsTfHalfPixel(n) ->
             ProcessOutputsNearlyEqual(m, n, ins, [align |-> CoordMode(n) = "align_corners", half |-> CoordMode(n) = "half_pixel"],
                                       "ResizeNearestNeighbor")
        [] image /\ ResizeMode(n) = "linear"
                 /\ (CoordMode(n) # "pytorch_half_pixel" \/ IsPyTorchHalfPixelEquivalentToHalfPixel(n)) ->
             ProcessOutputsNearlyEqual(m, n, ins,
               [align |-> CoordMode(n) = "align_corners", half |-> CoordMode(n) \in {"half_pixel", "pytorch_half_pixel"}],
               "ResizeBilinear")
        [] OTHER ->
             ProcessOutputsNearlyEqual(m, n, ins,
               [coord |-> CoordMode(n), exclude |-> Get(n, "exclude_outside", 0) # 0, interp |-> ResizeMode(n),
                nearest |-> NearestMode(n), coeff |-> CubicCoeff(n)], "Resize")

UpsampleSupported(m, n) ==
  /\ m.dov /\ n.domain # "nhwc" =>
       /\ ResizeMode(n) \in InterpModes
       /\ IsHtp(m) => Rank(n.ins[1]) \in 3..5
       /\ OnlySpatialChanges(n)
       /\ ~IsHtp(m) => n.ins[1].dt = "f32"
  /\ m.dov /\ n.domain = "nhwc" /\ n.opset > 7 => IsConst(n.ins[2])

UpsampleOutputs(m, n, ins) ==
  LET nearest == ResizeMode(n) = "nearest"
  IN  IF IsHtp(m) /\ Rank(n.ins[1]) = 4 /\ ResizeMode(n) # "cubic"
      THEN ProcessOutputsNearlyEqual(m, n, ins, [align |-> FALSE, half |-> FALSE],
                                     IF nearest THEN "ResizeNearestNeighbor" ELSE "ResizeBilinear")
      ELSE ProcessOutputsNearlyEqual(m, n, ins,
             [coord |-> IF nearest THEN "half_pixel" ELSE "asymmetric", exclude |-> FALSE, interp |-> ResizeMode(n),
              nearest |-> "round_prefer_floor", coeff |-> DivR(-3, 4)], "Resize")
=============================================================================
