------------------------------- MODULE MoveOps -------------------------------
(***************************************************************************)
(* The op builders that move elements without computing on them: Reshape,   *)
(* Transpose, Identity, Slice, Split, Concat, Pad, Expand, Tile, Shape and  *)
(* Range (builder/opbuilder/*_op_builder.cc).  For each: what it refuses    *)
(* (...Supported), its ProcessInputs (...Inputs) and its                    *)
(* ProcessAttributesAndOutputs (...Outputs).                                *)
(***************************************************************************)
EXTENDS Precision

(***************************************************************************)
(* Reshape.  The shape is the output's declared shape.                      *)
(***************************************************************************)
ReshapeSupported(m, n) ==
  Get(n, "allowzero", 0) # 0 =>
    /\ IsConst(n.ins[2])
    /\ \A k \in 1..Len(Data(n.ins[2])) : Data(n.ins[2])[k] # 0

ReshapeInputs(m, n) == ProcessInput(m, n.ins[1])

ReshapeOutputs(m, n, ins) == ProcessOutputsNearlyEqual(m, n, ins, NoPar, "Reshape")

(***************************************************************************)
(* Transpose.                                                               *)
(***************************************************************************)
GetTransposePerm(n) ==
  LET r == Rank(n.ins[1]) IN Get(n, "perm", [k \in 1..r |-> r - k])

\* A transpose of a static tensor (of at most 1 MiB, as every one here is) is
\* done while the graph is built, unless its result leaves the graph.
IsFoldedStaticTensor(m, name) == Has(m, name) /\ m.tensors[name].kind = "static"

FoldsTranspose(m, n, in) ==
  LET perm == GetTransposePerm(n)
  IN  /\ ~m.dov
      /\ IsFoldedStaticTensor(m, in)
      /\ ~IsGraphOutput(m, n.outs[1].name)
      /\ ~Has(m, n.outs[1].name)
      /\ m.tensors[in].dt \notin {"s4", "u4"}
      /\ Len(perm) = Len(m.tensors[in].shape)
      /\ Range(perm) = 0..(Len(perm) - 1)

FoldedTranspose(m, n, in) ==
  LET t == m.tensors[in] perm == GetTransposePerm(n)
  IN  <<AddStatic(n.outs[1].name, t.dt, HandleTranspose(t.q, InversePerm(perm)), Transpose(t.data[1], perm))>>

TransposeOutputs(m, n, ins) ==
  LET out == n.outs[1]
      t == m.tensors[ins[1]]
      perm == GetTransposePerm(n)
      graphOut == IsGraphOutput(m, out.name)
      int64 == graphOut /\ \E k \in 1..Len(ins) : IsCastToInt32(ins[k])
      castIn == New(n, out.name, "_cast_int64")
      moves == NeedsHtpTransposeReshapeWorkaround(OnnxShape(n.ins[1]), perm, OnnxShape(out))
  IN  IF FoldsTranspose(m, n, ins[1]) THEN FoldedTranspose(m, n, ins[1])
      ELSE IF ~int64 /\ moves
      THEN AddReshapeNode(ins[1], out.name, OnnxShape(n.ins[1]), OnnxShape(out), t.dt, t.q, FALSE, graphOut)
      ELSE (IF int64 THEN <<AddWrapper(castIn, "native", OnnxShape(out), out.dt, out.q)>> ELSE <<>>)
           \o <<AddWrapper(out.name, OutputType(m, out.name),
                           IF int64 THEN <<>> ELSE OnnxShape(out), t.dt, t.q),
                Op("Transpose", ins, <<out.name>>, [perm |-> perm])>>
           \o (IF int64 THEN <<Op("Cast", <<castIn>>, <<out.name>>, [to |-> t.dt])>> ELSE <<>>)

\* Identity is a Transpose that moves nothing.
IdentityOutputs(m, n, ins) ==
  ProcessOutputsNearlyEqual(m, n, ins, [perm |-> [k \in 1..Rank(n.ins[1]) |-> k - 1]], "Transpose")

(***************************************************************************)
(* Slice.  IntMax stands for INT32_MAX and INT64_MAX, "to the end".         *)
(***************************************************************************)
IntMax == 1000000

SliceInput(n, k) == IF Len(n.ins) >= k /\ Exists(n.ins[k]) THEN Data(n.ins[k]) ELSE <<>>

ExtractSliceParams(n) ==
  IF n.opset < 10
  THEN [starts |-> Get(n, "starts", <<0>>), ends |-> Get(n, "ends", <<0>>),
        axes |-> Get(n, "axes", <<>>), steps |-> <<>>]
  ELSE [starts |-> SliceInput(n, 2), ends |-> SliceInput(n, 3),
        axes |-> SliceInput(n, 4), steps |-> SliceInput(n, 5)]

SliceAxes(p, rank) ==
  [k \in 1..(IF p.axes = <<>> THEN Len(p.starts) ELSE Len(p.axes)) |->
     IF p.axes = <<>> THEN k - 1 ELSE CanonicalAxis(p.axes[k], rank)]

\* The start, end and step of the axis that entry k of the parameters names.
SliceRange(p, k, dim) ==
  LET raw == IF k <= Len(p.steps) THEN p.steps[k] ELSE 1
      step == Clamp(raw, 0 - dim, dim)
      s == IF p.starts[k] < 0 THEN p.starts[k] + dim ELSE p.starts[k]
      e == IF p.ends[k] < 0 THEN p.ends[k] + dim ELSE p.ends[k]
  IN  IF dim = 0 THEN <<0, 0, raw>>
      ELSE <<Clamp(s, 0, IF step < 0 THEN dim - 1 ELSE dim),
             IF p.ends[k] = IntMax THEN (IF step < 0 THEN -1 ELSE dim)
             ELSE Clamp(e, IF step < 0 THEN -1 ELSE 0, dim),
             step>>

PrepareForComputeOk(p, shape) ==
  LET axes == SliceAxes(p, Len(shape))
  IN  /\ Len(p.starts) >= Len(axes) /\ Len(p.ends) >= Len(axes)
      /\ Range(axes) \subseteq 0..(Len(shape) - 1)
      /\ IsInjective(axes)
      /\ \A k \in 1..MinOf(Len(p.steps), Len(axes)) : p.steps[k] # 0

PrepareForCompute(p, shape) ==
  LET axes == SliceAxes(p, Len(shape))
  IN  [d \in 1..Len(shape) |->
         IF d - 1 \in Range(axes)
         THEN SliceRange(p, CHOOSE k \in 1..Len(axes) : axes[k] = d - 1, shape[d])
         ELSE <<0, shape[d], 1>>]

SliceRanges(n) == PrepareForCompute(ExtractSliceParams(n), OnnxShape(n.ins[1]))

\* HTP has no empty slices.  One that only a Concat reads is left out, which
\* Concat does on its side; any other is refused.
EmptySlice(m, n) ==
  /\ IsHtp(m)
  /\ \E d \in 1..Rank(n.ins[1]) : LET r == SliceRanges(n)[d] IN RangeCount(r[1], r[2], r[3]) = 0

CanElideZeroDimOutput(m, n) ==
  /\ ~IsGraphOutput(m, n.outs[1].name)
  /\ ConsumerOps(n) = <<"Concat">>

ElidesSlice(m, n) == EmptySlice(m, n) /\ CanElideZeroDimOutput(m, n)

\* Mutant: GetCapability does not ask who reads an empty result.
SliceCheckedWhenComposed(m, n) ==
  /\ \A k \in 2..Len(n.ins) : Exists(n.ins[k]) => IsConst(n.ins[k])
  /\ PrepareForComputeOk(ExtractSliceParams(n), OnnxShape(n.ins[1]))
  /\ EmptySlice(m, n) /\ ~m.dov => CanElideZeroDimOutput(m, n)

SliceSupported(m, n) ==
  /\ \A k \in 2..Len(n.ins) : Exists(n.ins[k]) => IsConst(n.ins[k])
  /\ PrepareForComputeOk(ExtractSliceParams(n), OnnxShape(n.ins[1]))
  /\ EmptySlice(m, n) => CanElideZeroDimOutput(m, n)

SliceInputs(m, n) == IF ElidesSlice(m, n) THEN NoInputs ELSE BoolToU8(m, n)

SliceOutputs(m, n, ins) ==
  LET par == [ranges |-> SliceRanges(n)]
  IN  IF ElidesSlice(m, n) THEN <<>>
      ELSE IF NeedsBoolCast(m, n) THEN OutputsThroughU8(m, n, ins, par, "StridedSlice")
      ELSE ProcessOutputs(m, n, ins, par, "StridedSlice")

(***************************************************************************)
(* Split.                                                                   *)
(***************************************************************************)
ConvertSplitLengthsToSplitIndices(lengths) ==
  [k \in 1..(Len(lengths) - 1) |-> FoldLeft(LAMBDA a, l : a + l, 0, SubSeq(lengths, 1, k))]

GivenSplit(n) ==
  IF Len(n.ins) > 1 THEN ConvertSplitLengthsToSplitIndices(Data(n.ins[2]))
  ELSE IF HasAttr(n, "split") THEN ConvertSplitLengthsToSplitIndices(n.attr.split)
  ELSE <<>>

SplitDim(n) == OnnxShape(n.ins[1])[AxisAttr(n, 0) + 1]

SplitIndex(n) ==
  IF GivenSplit(n) # <<>> THEN GivenSplit(n)
  ELSE [k \in 1..(Len(n.outs) - 1) |-> k * CeilDiv(SplitDim(n), Len(n.outs))]

SplitSupported(m, n) ==
  /\ GetCanonicalizedAxisOk(n, 0)
  /\ Len(n.ins) > 1 => IsConst(n.ins[2])
  /\ GivenSplit(n) = <<>> =>
       IF Len(n.outs) = 1 THEN OnnxShape(n.ins[1]) = OnnxShape(n.outs[1]) ELSE SplitDim(n) > 0

SplitInputs(m, n) == ProcessInput(m, n.ins[1])

SplitOutputs(m, n, ins) ==
  IF SplitIndex(n) = <<>> THEN AddNoopReshapeNode(m, ins[1], n.outs[1])
  ELSE ProcessOutputsNearlyEqual(m, n, ins, [axis |-> AxisAttr(n, 0), index |-> SplitIndex(n)], "Split")

(***************************************************************************)
(* Concat.  An input without elements is left out.                          *)
(***************************************************************************)
HasZeroDim(io) == 0 \in Range(OnnxShape(io))

ConcatInputs(m, n) ==
  FoldLeft(LAMBDA a, io : IF HasZeroDim(io) THEN a ELSE Both(a, ProcessInput(m, io)), NoInputs, n.ins)

ConcatSupported(m, n) ==
  /\ \E k \in 1..Len(n.ins) : ~HasZeroDim(n.ins[k])
  /\ GetCanonicalizedAxisOk(n, 0)

ConcatOutputs(m, n, ins) == ProcessOutputs(m, n, ins, [axis |-> AxisAttr(n, 0)], "Concat")

(***************************************************************************)
(* Pad.  A negative amount crops: a Pad of the positive amounts, if there   *)
(* are any, and a slice of its result.                                      *)
(***************************************************************************)
PadByInput(n) == n.opset >= 11 \/ n.domain = "ms"

Pads(n) == IF PadByInput(n) THEN Data(n.ins[2]) ELSE n.attr.pads

\* ReArrangePads: begins then ends becomes a pair for each dimension.
ReArrangePads(p) == [k \in 1..(Len(p) \div 2) |-> <<p[k], p[k + Len(p) \div 2]>>]

PadAmount(n) == ReArrangePads([k \in 1..Len(Pads(n)) |-> MaxOf(0, Pads(n)[k])])

SliceAmount(n) == ReArrangePads([k \in 1..Len(Pads(n)) |-> MinOf(0, Pads(n)[k])])

HasNegative(n) == \E k \in 1..Len(Pads(n)) : Pads(n)[k] < 0

\* has_positive in the code, which is also TRUE of an amount of 0.
HasNonNegative(n) == \E k \in 1..Len(Pads(n)) : Pads(n)[k] >= 0

Dequantize(q, v) == q[1] * (v + q[2])

ConstantValue(n) ==
  IF ~PadByInput(n) THEN Get(n, "value", 0)
  ELSE IF Len(n.ins) < 3 \/ ~Exists(n.ins[3]) THEN 0
  ELSE IF n.ins[3].q # NoQ THEN Dequantize(n.ins[3].q, Data(n.ins[3])[1])
  ELSE Data(n.ins[3])[1]

PadSupported(m, n) ==
  LET shape == OnnxShape(n.ins[1])
  IN  /\ IF n.domain = "ms" THEN Len(n.ins) >= 2
         ELSE /\ n.opset >= 2
              /\ IF n.opset < 11 THEN Len(n.ins) = 1 ELSE Len(n.ins) \in 2..3
      /\ Len(shape) <= 5
      /\ PadByInput(n) => \A k \in 2..Len(n.ins) : Exists(n.ins[k]) => IsConst(n.ins[k])
      /\ ~PadByInput(n) => HasAttr(n, "pads")
      /\ Get(n, "mode", "constant") \in {"constant", "reflect", "edge"}
      /\ Get(n, "mode", "constant") = "reflect" =>
           /\ ~HasNegative(n)
           /\ \A k \in 1..Len(shape) : PadAmount(n)[k][1] < shape[k] /\ PadAmount(n)[k][2] < shape[k]

PadInputs(m, n) == ProcessInput(m, n.ins[1])

PadOutputs(m, n, ins) ==
  LET shape == OnnxShape(n.ins[1])
      amount == PadAmount(n)
      par == [scheme |-> Get(n, "mode", "constant"), amount |-> amount, value |-> ConstantValue(n)]
      padded == [k \in 1..Len(shape) |-> shape[k] + amount[k][1] + amount[k][2]]
      mid == New(n, <<>>, "_Pad_output")
      cut == SliceAmount(n)
      ranges == [k \in 1..Len(shape) |-> <<0 - cut[k][1], padded[k] + cut[k][2], 1>>]
      out == n.outs[1]
  IN  IF ~HasNegative(n) THEN ProcessOutputs(m, n, ins, par, "Pad")
      ELSE (IF HasNonNegative(n)
            THEN <<AddWrapper(mid, "native", padded, n.ins[1].dt, n.ins[1].q),
                   Op("Pad", ins, <<mid>>, par)>>
            ELSE <<>>)
           \o <<AddWrapper(out.name, OutputType(m, out.name), OnnxShape(out), out.dt, out.q),
                Op("StridedSlice", IF HasNonNegative(n) THEN <<mid>> ELSE ins, <<out.name>>,
                   [ranges |-> ranges])>>

(***************************************************************************)
(* Expand multiplies by ones (BOOL: And) of the smallest shape that         *)
(* broadcasts to the output.                                                *)
(***************************************************************************)
OnesShape(n) ==
  LET shape == Data(n.ins[2])
      data == OnnxShape(n.ins[1])
  IN  IF /\ Len(data) = Len(shape)
         /\ \A k \in 1..Len(shape) : data[k] = shape[k] \/ data[k] = 1
      THEN [k \in 1..Len(shape) |-> IF data[k] = shape[k] THEN 1 ELSE shape[k]]
      ELSE shape

ExpandSupported(m, n) ==
  /\ Len(n.ins) = 2
  /\ IsConst(n.ins[2])
  /\ n.ins[1].dt \in IF n.ins[1].q # NoQ THEN {"sf8", "uf8", "uf16"}
                     ELSE {"f32", "f16", "i64", "i32", "u32", "bool"}

ExpandInputs(m, n) ==
  LET ones == New(n, n.ins[2].name \o n.outs[1].name, "")
      dt == n.ins[1].dt
      q == IF n.ins[1].q = NoQ THEN NoQ ELSE GetQuantParams(1, 1, dt)
      one == IF q = NoQ THEN 1 ELSE SubR(DivR(1, q[1]), q[2])
  IN  [steps |-> ProcessInput(m, n.ins[1]).steps
                 \o <<AddStatic(ones, Narrow64(dt), q, Fill(OnesShape(n), one))>>,
       names |-> <<n.ins[1].name, ones>>]

ExpandOutputs(m, n, ins) ==
  ProcessOutputsNearlyEqual(m, n, ins, NoPar, IF n.ins[1].dt = "bool" THEN "And" ELSE "Multiply")

(***************************************************************************)
(* Tile, Shape.                                                             *)
(***************************************************************************)
TileSupported(m, n) == IsConst(n.ins[2])

TileInputs(m, n) == ProcessInput(m, n.ins[1])

TileOutputs(m, n, ins) == ProcessOutputsNearlyEqual(m, n, ins, [multiples |-> Data(n.ins[2])], "Tile")

ResolveShapeBounds(rank, start, end) ==
  <<Clamp(CanonicalAxis(start, rank), 0, rank), Clamp(CanonicalAxis(end, rank), 0, rank)>>

ShapeBounds(n) ==
  LET r == Rank(n.ins[1]) IN ResolveShapeBounds(r, Get(n, "start", 0), Get(n, "end", r))

ShapeSupported(m, n) == ShapeBounds(n)[1] < ShapeBounds(n)[2]

ShapeOutputs(m, n, ins) ==
  ProcessOutputsNarrow64(m, n, ins, [start |-> ShapeBounds(n)[1], end |-> ShapeBounds(n)[2]], "Shape")

(***************************************************************************)
(* Range is computed while the graph is built; one op carries the static    *)
(* result to the output.                                                    *)
(***************************************************************************)
ComputeRange(start, limit, delta) ==
  LET N == IF (limit > start /\ delta > 0) \/ (limit < start /\ delta < 0)
           THEN CeilDiv((IF limit > start THEN limit - start ELSE start - limit),
                        (IF delta > 0 THEN delta ELSE 0 - delta))
           ELSE 0
  IN  [k \in 1..N |-> start + (k - 1) * delta]

RangeSupported(m, n) ==
  /\ Len(n.ins) = 3
  /\ \A k \in 1..3 : IsConst(n.ins[k]) /\ n.ins[k].dt = n.ins[1].dt
  /\ n.ins[1].dt \in {"f32", "i32", "i64"}
  /\ Data(n.ins[3])[1] # 0

RangeInputs(m, n) == NoInputs

RangeOutputs(m, n, ins) ==
  LET V(k) == Data(n.ins[k])[1]
      values == Vec(ComputeRange(V(1), V(2), V(3)))
      static == New(n, <<>>, "_range_values")
      out == n.outs[1].name
      int64 == n.ins[1].dt = "i64"
  IN  <<AddStatic(static, Narrow64(n.ins[1].dt), NoQ, values),
        AddWrapper(out, OutputType(m, out), values.shape, n.ins[1].dt, NoQ),
        IF int64 THEN Op("Cast", <<static>>, <<out>>, [to |-> "i64"])
                 ELSE Op("Transpose", <<static>>, <<out>>, [perm |-> <<0>>])>>
=============================================================================
