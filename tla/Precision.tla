------------------------------ MODULE Precision ------------------------------
(***************************************************************************)
(* Changing the precision of quantized tensors: the encodings that          *)
(* builder/qnn_utils.cc derives and the Convert, Quantize and Dequantize    *)
(* ops of builder/opbuilder/mixed_precision_convert_utils.cc and            *)
(* builder/qnn_model_wrapper.cc.                                            *)
(***************************************************************************)
EXTENDS OpBuilder

(***************************************************************************)
(* What an encoding says of codes.                                          *)
(***************************************************************************)
\* The scale and offset of the element at i.
ScaleAt(q, i) == IF Len(q) = 2 THEN q[1] ELSE q[1][i[q[3] + 1] + 1]

OffsetAt(q, i) == IF Len(q) = 2 THEN q[2] ELSE q[2][i[q[3] + 1] + 1]

Real(t, q) ==
  IF q = NoQ THEN t ELSE Tensor(t.shape, LAMBDA i : MulR(ScaleAt(q, i), t.at[i] + OffsetAt(q, i)))

Code(t, q) ==
  IF q = NoQ THEN t ELSE Tensor(t.shape, LAMBDA i : SubR(DivR(t.at[i], ScaleAt(q, i)), OffsetAt(q, i)))

IsPerChannel(q) == Len(q) = 3

\* The channel axis after a transposition.
HandleTranspose(q, perm) == IF IsPerChannel(q) THEN <<q[1], q[2], perm[q[3] + 1]>> ELSE q

\* The channel axis in a shape that has more dimensions of size 1: each
\* dimension is matched with the first one of its size that is left.
HandleUnsqueeze(q, from, to) ==
  LET After(j, k) == (CHOOSE l \in j..Len(to) : to[l] = from[k] /\ \A p \in j..(l - 1) : to[p] # from[k]) + 1
  IN  IF ~IsPerChannel(q) THEN q
      ELSE <<q[1], q[2], FoldLeft(After, 1, [k \in 1..(q[3] + 1) |-> k]) - 2>>

(***************************************************************************)
(* Other encodings for a tensor.                                            *)
(***************************************************************************)
FixedPointBitWidth(dt) ==
  CASE dt \in {"s4", "u4"} -> 4
    [] dt \in {"sf8", "uf8"} -> 8
    [] dt \in {"sf16", "uf16"} -> 16
    [] OTHER -> 0

NeedsPrecisionConvert(a, b) == a # b /\ FixedPointBitWidth(a) # 0 /\ FixedPointBitWidth(b) # 0

IsNarrowingQuantOutput(act, out) ==
  /\ FixedPointBitWidth(act) # 0 /\ FixedPointBitWidth(out) # 0
  /\ FixedPointBitWidth(act) > FixedPointBitWidth(out)

IsSigned(dt) == dt \in {"s4", "sf8", "sf16"}

Qmin(dt) == IF IsSigned(dt) THEN 0 - 2^(FixedPointBitWidth(dt) - 1) ELSE 0

Qmax(dt) == Qmin(dt) + 2^FixedPointBitWidth(dt) - 1

\* What the codes of type dt can stand for.  Where the scale is 1 the codes are
\* integers that keep their order, and the values beyond the range saturate.
Saturated(t, dt, q) ==
  IF Len(q) = 2 /\ q[1] = 1 /\ FixedPointBitWidth(dt) # 0
  THEN Tensor(t.shape, LAMBDA i : Clamp(t.at[i], Qmin(dt) + q[2], Qmax(dt) + q[2])) ELSE t

\* A range contains 0 and is not a point.
CheckMinMax(lo, hi) == <<MinOf(lo, 0), MaxOf(MaxOf(hi, 0), MinOf(lo, 0) + 1)>>

\* GetQuantParams: the encoding of the values lo..hi, asymmetric.
GetQuantParams(lo, hi, dt) ==
  LET r == CheckMinMax(lo, hi)
      scale == DivR(SubR(r[2], r[1]), Qmax(dt) - Qmin(dt))
  IN  PerTensor(scale, SubR(DivR(r[1], scale), Qmin(dt)))

\* The encoding in type to of the range that encoding q has in type from.
DeriveScaleOffsetForDtype(from, q, to) ==
  GetQuantParams(MulR(q[1], Qmin(from) + q[2]), MulR(q[1], Qmax(from) + q[2]), to)

InsertConvertOp(in, out, from, to, q, shape, kind) ==
  <<AddWrapper(out, kind, shape, to, DeriveScaleOffsetForDtype(from, q, to)),
    Op("Convert", <<in>>, <<out>>, NoPar)>>

\* The symmetric encoding of that range: its code for 0 is the middle one.
\* (Encodings are exact, so that only a non-zero scale matters.)
DeriveSymmetric(from, q, to) ==
  LET lo == MulR(q[1], Qmin(from) + q[2]) hi == MulR(q[1], Qmax(from) + q[2])
  IN  PerTensor(DivR(MulR(2, MaxOf(Abs(lo), Abs(hi))), 2^FixedPointBitWidth(to) - 2),
                IF IsSigned(to) THEN 0 ELSE 0 - 2^(FixedPointBitWidth(to) - 1))

InsertSymmetricConvertOp(in, out, from, to, q, shape) ==
  NativeOp("Convert", <<in>>, out, shape, to, DeriveSymmetric(from, q, to), NoPar)

\* The intermediate encoding, of which every level of the output is a level.
GetNarrowingIntermediateQuantParams(act, out, q) ==
  LET ratio == (Qmax(act) - Qmin(act)) \div (Qmax(out) - Qmin(out))
  IN  PerTensor(DivR(q[1], ratio), SubR(MulR(Qmin(out) + q[2], ratio), Qmin(act)))

AddDequantizeNode(in, out, dt, shape) ==
  <<AddWrapper(out, "native", shape, dt, NoQ), Op("Dequantize", <<in>>, <<out>>, NoPar)>>

AddQuantizeNode(in, out, kind, dt, q, shape) ==
  <<AddWrapper(out, kind, shape, dt, q), Op("Quantize", <<in>>, <<out>>, NoPar)>>

\* The tensor that an op writes for output io.
OutputTensor(m, io) ==
  [name |-> io.name, kind |-> OutputType(m, io.name), shape |-> OnnxShape(io), dt |-> io.dt, q |-> io.q]

\* HTP computes a float activation with a quantized weight in fp16, and an
\* output narrower than the activation in the activation's type.
AddOpWithQuantizedOutput(m, n, op, ins, par, out, actDt) ==
  LET fp16 == /\ IsHtp(m) /\ actDt = "f32"
              /\ Len(ins) > 1 /\ m.tensors[ins[2]].q # NoQ
      F32(k) == fp16 /\ m.tensors[ins[k]].dt = "f32"
      In(k) == IF F32(k) THEN New(n, ins[k], "_cast_fp16") ELSE ins[k]
      narrows == ~fp16 /\ IsNarrowingQuantOutput(actDt, out.dt)
      mid == New(n, out.name, IF fp16 THEN "_fp16" ELSE "_pre_convert")
      written == IF fp16 \/ narrows THEN mid ELSE out.name
  IN  FlattenSeq([k \in 1..Len(ins) |->
        When(F32(k), <<AddCastNode(ins[k], In(k), "native", m.tensors[ins[k]].shape, "f16", NoQ)>>)])
      \o When(fp16, <<AddWrapper(mid, "native", out.shape, "f16", NoQ)>>)
      \o When(narrows, <<AddWrapper(mid, "native", out.shape, actDt,
                                    GetNarrowingIntermediateQuantParams(actDt, out.dt, out.q))>>)
      \o <<AddWrapper(out.name, out.kind, out.shape, out.dt, out.q),
           Op(op, [k \in 1..Len(ins) |-> In(k)], <<written>>, par)>>
      \o When(written # out.name,
              <<Op(IF fp16 THEN "Cast" ELSE "Convert", <<mid>>, <<out.name>>, [to |-> out.dt])>>)

ProcessOutputsAcrossPrecision(m, n, ins, par, op, actDt) ==
  IF IsHtp(m) /\ Len(n.outs) = 1 /\ IsNarrowingQuantOutput(actDt, n.outs[1].dt)
  THEN AddOpWithQuantizedOutput(m, n, op, ins, par, OutputTensor(m, n.outs[1]), actDt)
  ELSE ProcessOutputs(m, n, ins, par, op)

\* QNN fixes the output encoding of the 16-bit activations.
OverrideActivationFixedEncoding(op, dt, q) ==
  CASE op \in {"Sigmoid", "HardSigmoid"} /\ dt = "uf16" -> PerTensor(InvR(65536), 0)
    [] op \in {"Sigmoid", "HardSigmoid", "Tanh"} /\ dt = "sf16" -> PerTensor(InvR(32768), 0)
    [] op = "Tanh" /\ dt = "uf16" -> PerTensor(InvR(32768), -32768)
    [] OTHER -> q

IsConvertCompatibleBinaryOp(op) == op \in {"Add", "Div", "Mul", "Pow", "Sub"}

IsConvertCompatibleUnaryOp(op) ==
  op \in {"Abs", "Asin", "Atan", "Ceil", "Cos", "Elu", "Exp", "Floor", "Gelu", "HardSigmoid", "HardSwish",
          "LeakyRelu", "Log", "Neg", "Relu", "Round", "Sigmoid", "Sign", "Sin", "Softplus", "Sqrt", "Tanh"}

\* The inputs of a binary op with different widths: which one is converted.
MismatchedInputs(m, n, names) ==
  /\ IsConvertCompatibleBinaryOp(n.op) /\ Len(names) = 2
  /\ FixedPointBitWidth(m.tensors[names[1]].dt) # FixedPointBitWidth(m.tensors[names[2]].dt)

AlignBinaryInputPrecisionOk(m, n, names) ==
  LET T(k) == m.tensors[names[k]]
      narrow == IF FixedPointBitWidth(T(1).dt) < FixedPointBitWidth(T(2).dt) THEN 1 ELSE 2
  IN  MismatchedInputs(m, n, names) => NeedsPrecisionConvert(T(1).dt, T(2).dt) /\ Len(T(narrow).q) = 2

AlignBinaryInputPrecision(m, n, names) ==
  LET T(k) == m.tensors[names[k]]
      narrow == IF FixedPointBitWidth(T(1).dt) < FixedPointBitWidth(T(2).dt) THEN 1 ELSE 2
      wide == T(3 - narrow).dt
      converted == New(n, names[narrow], "_convert")
  IN  IF ~MismatchedInputs(m, n, names) THEN [steps |-> <<>>, names |-> names]
      ELSE [steps |-> InsertConvertOp(names[narrow], converted, T(narrow).dt, wide, T(narrow).q,
                                      T(narrow).shape, "native"),
            names |-> IF narrow = 1 THEN <<converted, names[2]>> ELSE <<names[1], converted>>]

\* The activation names[1] widened to the type of the output.
WidensActivation(m, names, dt) ==
  LET act == m.tensors[names[1]].dt
  IN  ~IsNarrowingQuantOutput(act, dt) /\ NeedsPrecisionConvert(act, dt)

ConvertActivationToOutputPrecision(m, n, names, dt) ==
  LET t == m.tensors[names[1]]
      converted == New(n, names[1], "_convert")
  IN  IF ~WidensActivation(m, names, dt) THEN [steps |-> <<>>, names |-> names]
      ELSE [steps |-> InsertConvertOp(names[1], converted, t.dt, dt, t.q, t.shape, "native"),
            names |-> <<converted>> \o Tail(names)]

\* The op computes in the precision of its input, a Convert gives the
\* declared one.
InsertOutputPrecisionConvert(m, n, op, ins, par, native, q) ==
  LET out == n.outs[1]
      so == OverrideActivationFixedEncoding(n.op, native, DeriveScaleOffsetForDtype(out.dt, q, native))
      mid == New(n, out.name, "_native")
  IN  NativeOp(op, ins, mid, OnnxShape(out), native, so, par)
      \o InsertConvertOp(mid, out.name, native, out.dt, so, OnnxShape(out), OutputType(m, out.name))
=============================================================================
