------------------------------ MODULE IndexOps -------------------------------
(***************************************************************************)
(* The op builders that select, scatter or rank elements: Gather,           *)
(* GatherElements, GatherND, ArrayFeatureExtractor, ScatterElements,        *)
(* ScatterND, OneHot, TopK, ArgMax, ArgMin, CumSum and NonZero              *)
(* (builder/opbuilder).  ONNX indices may be negative and int64; QNN takes  *)
(* neither (normalize_indices_utils.cc).                                    *)
(***************************************************************************)
EXTENDS OpBuilder

(***************************************************************************)
(* Static indices are rewritten while the graph is built; DimOf(e) is the   *)
(* size of the dimension that the e-th element (0-based) indexes.           *)
(***************************************************************************)
NormalizeIndices(io, DimOf(_)) ==
  LET d == Data(io)
  IN  FromSeq(OnnxShape(io), [k \in 1..Len(d) |-> IF d[k] < 0 THEN d[k] + DimOf(k - 1) ELSE d[k]])

IndicesInRange(io, DimOf(_)) ==
  IsConst(io) =>
    LET d == ToSeq(NormalizeIndices(io, DimOf))
    IN  \A k \in 1..Len(d) : d[k] \in 0..(DimOf(k - 1) - 1)

HasNegativeIndices(io) == IsConst(io) /\ \E k \in 1..Len(Data(io)) : Data(io)[k] < 0

\* Dynamic int64 indices get a Cast, shared by every reader of the tensor.
\* Negative dynamic indices are not corrected.
AddNormalizedIndicesTensor(m, io, name, DimOf(_)) ==
  IF IsConst(io)
  THEN [steps |-> <<AddStatic(name, "i32", NoQ, NormalizeIndices(io, DimOf))>>, names |-> <<name>>]
  ELSE LET t == Wrapper(GetTensorType(m, io), io.dt, NoQ, OnnxShape(io), <<>>)
           int64 == (IF Has(m, name) THEN m.tensors[name].dt ELSE t.dt) = "i64"
           cast == name \o <<"_int32">>
       IN  [steps |-> <<AddWrapper(name, t.kind, t.shape, io.dt, NoQ)>>
                      \o (IF int64 THEN <<AddCastNode(name, cast, "native", t.shape, "i32", NoQ)>> ELSE <<>>),
            names |-> <<IF int64 THEN cast ELSE name>>]

(***************************************************************************)
(* Gather and GatherElements.  The rewritten indices of a Gather depend on  *)
(* the axis' size, which is in their name.                                  *)
(***************************************************************************)
Input0AxisDim(n) == OnnxShape(n.ins[1])[AxisAttr(n, 0) + 1]

GatherSupported(m, n) ==
  /\ IsCpu(m) /\ n.op = "GatherElements" => Rank(n.ins[1]) \in 2..4
  /\ Len(n.ins) = 2
  /\ GetCanonicalizedAxisOk(n, 0)
  /\ n.ins[2].dt \in {"i64", "i32"} => IndicesInRange(n.ins[2], LAMBDA e : Input0AxisDim(n))

DimName(d) == <<"_neg2pos_axis0", "_neg2pos_axis1", "_neg2pos_axis2", "_neg2pos_axis3",
                "_neg2pos_axis4", "_neg2pos_axis5", "_neg2pos_axis6">>[d + 1]

GatherInputs(m, n) ==
  LET data == BoolToU8(m, n)
      dim == Input0AxisDim(n)
      name == IF HasNegativeIndices(n.ins[2])
              THEN n.ins[2].name \o <<DimName(dim)>> \o data.names[1] ELSE n.ins[2].name
  IN  Both(data, AddNormalizedIndicesTensor(m, n.ins[2], name, LAMBDA e : dim))

\* What Gather and GatherND share: the op writes shape, its own idea of the
\* result's shape; a Reshape follows if the ranks differ, and a Cast if the
\* data went through as UINT8 or as int32 (int64 is TRUE).  early: the
\* tensor between Reshape and int64 Cast is registered first (Gather).
GatherOutputsOf(m, n, ins, par, op, shape, dt, q, int64, mid64, early) ==
  LET out == n.outs[1]
      bool == NeedsBoolCast(m, n)
      reshapes == Len(shape) # Len(OnnxShape(out))
      mid == IF bool THEN New(n, out.name, "_u8_to_bool_in") ELSE mid64
      last == IF bool \/ int64 THEN mid ELSE out.name
      written == IF reshapes THEN New(n, out.name, "_reshape") ELSE last
      kind == IF bool \/ int64 THEN "native" ELSE OutputType(m, out.name)
      wdt == IF bool THEN "uf8" ELSE dt
      wq == IF bool THEN PerTensor(1, 0) ELSE q
  IN  (IF int64 /\ early THEN <<AddWrapper(mid, "native", shape, out.dt, out.q)>> ELSE <<>>)
      \o <<AddWrapper(written, IF reshapes THEN "native" ELSE kind, shape, wdt, wq),
           Op(op, ins, <<written>>, par)>>
      \o (IF reshapes THEN <<AddWrapper(last, kind, OnnxShape(out), wdt, wq),
                             Op("Reshape", <<written>>, <<last>>, NoPar)>>
                      ELSE <<>>)
      \o (IF bool \/ int64
          THEN <<AddCastNode(mid, out.name, OutputType(m, out.name), OnnxShape(out), out.dt,
                             IF bool THEN out.q ELSE q)>>
          ELSE <<>>)

OutputQParam(m, n, ins) ==
  IF NeedsBoolCast(m, n) THEN n.outs[1].q
  ELSE SetOutputQParamEqualToInputIfNearlyEqual(m, ins[1], n.outs[1].q)

WasInt64(name) == IsCastToInt32(name) \/ \E k \in 1..Len(name) : name[k] = "_int64_to_int32"

GatherOutputs(m, n, ins) ==
  LET data == m.tensors[ins[1]].shape
      idx == m.tensors[ins[2]].shape
      ax == AxisAttr(n, 0)
      out == n.outs[1]
      int64 == IsGraphOutput(m, out.name) /\ \E k \in 1..Len(ins) : WasInt64(ins[k])
  IN  IF n.op = "GatherElements"
      THEN (IF NeedsBoolCast(m, n)
            THEN GatherOutputsOf(m, n, ins, [axis |-> ax], n.op, OnnxShape(out), out.dt, out.q, FALSE, <<>>, FALSE)
            ELSE ProcessOutputs(m, n, ins, [axis |-> ax], n.op))
      ELSE GatherOutputsOf(m, n, ins, [axis |-> ax], n.op,
                           SubSeq(data, 1, ax) \o idx \o SubSeq(data, ax + 2, Len(data)),
                           out.dt, OutputQParam(m, n, ins), int64 /\ n.ins[1].dt # "bool",
                           New(n, out.name, "_int32_to_int64_in"), TRUE)

(***************************************************************************)
(* GatherND.                                                                *)
(***************************************************************************)
BatchDims(n) == Get(n, "batch_dims", 0)

GatherNDDim(n, e) ==
  OnnxShape(n.ins[1])[BatchDims(n) + (e % LastOf(OnnxShape(n.ins[2]))) + 1]

GatherNDSupported(m, n) == IndicesInRange(n.ins[2], LAMBDA e : GatherNDDim(n, e))

GatherNDInputs(m, n) ==
  LET io == n.ins[2]
      shape == OnnxShape(io)
      name == IF HasNegativeIndices(io) THEN New(n, io.name, "_qnn_idx") ELSE io.name
      idx == AddNormalizedIndicesTensor(m, io, name, LAMBDA e : GatherNDDim(n, e))
      rank2 == New(n, idx.names[1], "_rank2")
      flat == IsHtp(m) /\ BatchDims(n) = 0 /\ Len(shape) > 4
  IN  Both(BoolToU8(m, n),
           IF flat
           THEN [steps |-> idx.steps
                           \o <<AddWrapper(rank2, "native", <<Prod(Front(shape)), LastOf(shape)>>, "i32", NoQ),
                                Op("Reshape", idx.names, <<rank2>>, NoPar)>>,
                 names |-> <<rank2>>]
           ELSE idx)

GatherNDOutputs(m, n, ins) ==
  LET data == m.tensors[ins[1]]
      idx == m.tensors[ins[2]].shape
      b == BatchDims(n)
      out == n.outs[1]
      int64 == /\ IsGraphOutput(m, out.name) /\ ~(NeedsBoolCast(m, n))
               /\ \E k \in 1..Len(ins) : IsCastToInt32(ins[k])
  IN  GatherOutputsOf(m, n, ins, [batch |-> b], "GatherNd",
                      SubSeq(data.shape, 1, b) \o Front(idx)
                        \o SubSeq(data.shape, b + LastOf(idx) + 1, Len(data.shape)),
                      IF int64 THEN data.dt ELSE out.dt,
                      IF int64 THEN data.q ELSE OutputQParam(m, n, ins),
                      int64, New(n, out.name, "_cast_int64"), FALSE)

(***************************************************************************)
(* ArrayFeatureExtractor is a Gather on the last axis.  Its rewritten       *)
(* indices keep the initializer's name.                                     *)
(***************************************************************************)
ArrayFeatureExtractorSupported(m, n) ==
  /\ Len(n.ins) = 2
  /\ n.ins[1].dt \notin {"f64", "string"}
  /\ n.ins[2].shape # <<>>
  /\ n.ins[2].dt \in {"i64", "i32"} => IndicesInRange(n.ins[2], LAMBDA e : LastDim(n.ins[1]))

ArrayFeatureExtractorInputs(m, n) ==
  LET x == n.ins[1]
      i32 == New(n, x.name, "_int64_to_int32")
      cast == Wrapper(GetTensorType(m, x), x.dt, x.q, <<>>, x.val).dt = "i64"
  IN  Both([steps |-> ProcessInput(m, x).steps
                      \o (IF cast THEN <<AddCastNode(x.name, i32, "native", OnnxShape(x), "i32", NoQ)>> ELSE <<>>),
            names |-> <<IF cast THEN i32 ELSE x.name>>],
           AddNormalizedIndicesTensor(m, n.ins[2], n.ins[2].name, LAMBDA e : LastDim(x)))

ArrayFeatureExtractorOutputs(m, n, ins) ==
  LET shape == Front(m.tensors[ins[1]].shape) \o m.tensors[ins[2]].shape
      out == n.outs[1]
      int64 == out.dt = "i64"
      casts == int64 /\ IsGraphOutput(m, out.name)
      written == IF casts THEN New(n, out.name, "_gather_out") ELSE out.name
  IN  <<AddWrapper(written, IF casts THEN "native" ELSE OutputType(m, out.name), shape,
                   IF int64 THEN "i32" ELSE out.dt, IF int64 THEN NoQ ELSE out.q),
        Op("Gather", ins, <<written>>, [axis |-> Rank(n.ins[1]) - 1])>>
      \o (IF casts THEN <<AddCastNode(written, out.name, "output", shape, "i64", out.q)>> ELSE <<>>)

(***************************************************************************)
(* ScatterElements and ScatterND.                                           *)
(***************************************************************************)
ScatterElementsSupported(m, n) ==
  /\ Len(n.ins) = 3
  /\ GetCanonicalizedAxisOk(n, 0)
  /\ IsConst(n.ins[2]) => n.ins[2].dt \in {"i64", "i32"}
  /\ IndicesInRange(n.ins[2], LAMBDA e : Input0AxisDim(n))
  /\ Get(n, "reduction", "none") \in {"none", "add", "mul", "max"}

ScatterElementsInputs(m, n) ==
  LET io == n.ins[2]
      name == IF HasNegativeIndices(io) THEN New(n, io.name, "_qnn_idx") ELSE io.name
  IN  Both(Both(ProcessInput(m, n.ins[1]),
                AddNormalizedIndicesTensor(m, io, name, LAMBDA e : Input0AxisDim(n))),
           ProcessInput(m, n.ins[3]))

ScatterElementsOutputs(m, n, ins) ==
  ProcessOutputs(m, n, ins, [axis |-> AxisAttr(n, 0), reduction |-> Get(n, "reduction", "none")],
                 "ScatterElements")

ScatterNDDim(n, e) == OnnxShape(n.ins[1])[(e % LastOf(OnnxShape(n.ins[2]))) + 1]

ScatterNDSupported(m, n) ==
  /\ Len(n.ins) = 3
  /\ ~IsCpu(m)
  /\ IndicesInRange(n.ins[2], LAMBDA e : ScatterNDDim(n, e))
  /\ Get(n, "reduction", "none") \in {"none", "add", "mul"}

ScatterNDInputs(m, n) ==
  LET io == n.ins[2]
      name == IF IsConst(io) THEN io.name \o <<"_qnn_idx">> ELSE io.name
  IN  Both(Both(ProcessInput(m, n.ins[1]),
                AddNormalizedIndicesTensor(m, io, name, LAMBDA e : ScatterNDDim(n, e))),
           ProcessInput(m, n.ins[3]))

ScatterNDOutputs(m, n, ins) ==
  ProcessOutputs(m, n, ins, [reduction |-> Get(n, "reduction", "none")], "ScatterNd")

(***************************************************************************)
(* OneHot: depth and values become parameters.                              *)
(***************************************************************************)
OneHotAxis(n) == CanonicalAxis(Get(n, "axis", -1), Rank(n.ins[1]) + 1)

OneHotSupported(m, n) ==
  /\ Len(n.ins) >= 3
  /\ IsConst(n.ins[2]) /\ IsConst(n.ins[3])
  /\ n.ins[1].dt \in {"i32", "i64", "u32"}
  /\ Data(n.ins[2])[1] >= 0
  /\ OneHotAxis(n) \in 0..Rank(n.ins[1])

OneHotInputs(m, n) ==
  LET in == n.ins[1]
      cast == New(n, in.name, "_cast_int32")
      int64 == (IF Has(m, in.name) THEN m.tensors[in.name].dt
                ELSE MakeTensorWrapper(m, in).t.dt) = "i64"
  IN  IF int64
      THEN [steps |-> ProcessInput(m, in).steps
                      \o <<AddCastNode(in.name, cast, "native", OnnxShape(in), "i32", NoQ)>>,
            names |-> <<cast>>]
      ELSE ProcessInput(m, in)

OneHotOutputs(m, n, ins) ==
  LET values == Data(n.ins[3])
  IN  ProcessOutputs(m, n, ins, [depth |-> Data(n.ins[2])[1], off |-> values[1], on |-> values[2],
                                 axis |-> OneHotAxis(n)], "OneHot")

(***************************************************************************)
(* TopK works on the last axis: another axis is swapped with it before and  *)
(* after.                                                                   *)
(***************************************************************************)
TopKAxis(n) == AxisAttr(n, -1)

TopKSupported(m, n) ==
  /\ Len(n.ins) = 2 /\ Len(n.outs) = 2
  /\ IsConst(n.ins[2])
  /\ GetCanonicalizedAxisOk(n, -1)

TopKInputs(m, n) ==
  LET in == n.ins[1]
      shape == OnnxShape(in)
      swap == in.name \o <<"_transpose">>
  IN  IF TopKAxis(n) = Len(shape) - 1 THEN ProcessInput(m, in)
      ELSE [steps |-> ProcessInput(m, in).steps
                      \o AddTransposeNode(in.name, swap, shape, GetPermToLastAxis(TopKAxis(n), Len(shape)),
                                          Swapped(shape, TopKAxis(n)), in.dt, in.q, FALSE, FALSE),
            names |-> <<swap>>]

\* The last Cast is added without do_op_validation, so also while validating.
TopKSwapped(m, n, ins, par) ==
  LET Out(k) == n.outs[k]
      ax == TopKAxis(n)
      swap(k) == Out(k).name \o <<"_transpose">>
      casts(k) == k = 2 /\ Out(k).dt = "i64" /\ IsGraphOutput(m, Out(k).name)
      back(k) == IF casts(k) THEN Out(k).name \o <<"_cast">> ELSE Out(k).name
      shape(k) == OnnxShape(Out(k))
      Back(k) ==
        AddTransposeNode(swap(k), back(k), Swapped(shape(k), ax), GetPermToLastAxis(ax, Len(shape(k))),
                         shape(k), Out(k).dt, Out(k).q, FALSE, IsGraphOutput(m, Out(k).name) /\ ~casts(k))
        \o (IF casts(k)
            THEN <<AddWrapper(Out(k).name, "output", shape(k), Out(k).dt, Out(k).q),
                   Op("Cast", <<back(k)>>, <<Out(k).name>>, [to |-> Out(k).dt])>>
            ELSE <<>>)
  IN  [k \in 1..2 |-> AddWrapper(swap(k), "native", Swapped(shape(k), ax), Out(k).dt, Out(k).q)]
      \o <<Op("TopK", ins, <<swap(1), swap(2)>>, par)>> \o Back(1) \o Back(2)

TopKOutputs(m, n, ins) ==
  LET par == [k |-> Data(n.ins[2])[1], largest |-> Get(n, "largest", 1) # 0]
  IN  IF TopKAxis(n) = Rank(n.ins[1]) - 1
      THEN ProcessOutputsOf(m, n, ins, par, "TopK",
                            LAMBDA k, dt : IF k = 2 THEN Narrow64(dt) ELSE dt, LAMBDA q : q)
      ELSE TopKSwapped(m, n, ins, par)

(***************************************************************************)
(* ArgMax and ArgMin, CumSum, NonZero.                                      *)
(***************************************************************************)
ArgMaxMinSupported(m, n) == GetCanonicalizedAxisOk(n, 0) /\ Get(n, "select_last_index", 0) = 0

ArgMaxMinOutputs(m, n, ins) ==
  ProcessOutputsNarrow64(m, n, ins, [axis |-> AxisAttr(n, 0), keep |-> Get(n, "keepdims", 1) # 0],
                         IF n.op = "ArgMax" THEN "Argmax" ELSE "Argmin")

CumSumAxis(n) == CanonicalAxis(Data(n.ins[2])[1], Rank(n.ins[1]))

CumSumSupported(m, n) ==
  /\ IsConst(n.ins[2])
  /\ Get(n, "exclusive", 0) = 0 /\ Get(n, "reverse", 0) = 0
  /\ Len(Data(n.ins[2])) = 1
  /\ CumSumAxis(n) \in 0..(Rank(n.ins[1]) - 1)

CumSumInputs(m, n) == ProcessInput(m, n.ins[1])

CumSumOutputs(m, n, ins) == ProcessOutputs(m, n, ins, [axis |-> CumSumAxis(n)], "CumulativeSum")

\* HTP pads the rows after the last index with -1, which only these read.
ReadsPaddedIndices ==
  {"Gather", "GatherElements", "GatherND", "ScatterElements", "ScatterND", "Reshape", "Transpose"}

NonZeroSupported(m, n) == IsHtp(m) /\ ToSet(ConsumerOps(n)) \subseteq ReadsPaddedIndices

NonZeroInputs(m, n) ==
  LET in == n.ins[1]
      f16 == New(n, in.name, "_cast_fp16")
  IN  IF in.dt = "f32"
      THEN [steps |-> ProcessInput(m, in).steps
                      \o <<AddCastNode(in.name, f16, "native", OnnxShape(in), "f16", NoQ)>>,
            names |-> <<f16>>]
      ELSE ProcessInput(m, in)

NonZeroOutputs(m, n, ins) ==
  LET rank == Rank(n.ins[1])
      size == Prod(OnnxShape(n.ins[1]))
      out == n.outs[1].name
      rows == out \o <<"_nonzero_out">>
      graphOut == IsGraphOutput(m, out)
      cols == IF graphOut THEN out \o <<"_transposed">> ELSE out
  IN  <<AddWrapper(rows, "native", <<size, rank>>, "i32", NoQ),
        Op("NonZero", ins, <<rows>>, NoPar),
        AddWrapper(cols, "native", <<rank, size>>, "i32", NoQ),
        Op("Transpose", <<rows>>, <<cols>>, [perm |-> <<1, 0>>])>>
      \o (IF graphOut THEN <<AddWrapper(out, "output", <<rank, size>>, "i64", NoQ),
                             Op("Cast", <<cols>>, <<out>>, [to |-> "i64"])>>
                      ELSE <<>>)
=============================================================================
