----------------------------- MODULE Elementwise -----------------------------
(***************************************************************************)
(* The builders of the elementwise operators (builder/opbuilder):           *)
(* simple_op_builder.cc, cast, clip, mod, reciprocal, tan, selu, isinf,     *)
(* isnan, mean, thresholdedrelu, quickgelu and lrn.                         *)
(***************************************************************************)
EXTENDS Precision

\* The QNN op of an ONNX op type; the elementwise ones keep their name.
QnnNames ==
  [Mul |-> "Multiply", Expand |-> "Multiply", Sum |-> "Add", Sub |-> "Subtract", Div |-> "Divide",
   Pow |-> "Power", Max |-> "Maximum", Min |-> "Minimum", GreaterOrEqual |-> "GreaterEqual",
   LessOrEqual |-> "LessEqual", Where |-> "Select", LeakyRelu |-> "PRelu", LpNormalization |-> "L2Norm",
   HardSigmoid |-> "Neuron", HardSwish |-> "Neuron", Softplus |-> "Neuron", QuantizeLinear |-> "Quantize",
   DequantizeLinear |-> "Dequantize", CastLike |-> "Cast", Clip |-> "ReluMinMax"]

GetQnnOpType(op) == IF op \in DOMAIN QnnNames THEN QnnNames[op] ELSE op

(***************************************************************************)
(* SimpleOpBuilder.                                                         *)
(***************************************************************************)
GridSampleOk(n) ==
  /\ Get(n, "mode", "linear") \in {"bilinear", "nearest", "linear"}
  /\ Get(n, "padding_mode", "zeros") \in {"zeros", "border", "reflection"}
  /\ Rank(n.ins[1]) <= IF FixedPointBitWidth(n.ins[1].dt) \in {8, 16} THEN 5 ELSE 4

\* With offload_graph_io_quantization the Q and DQ at the graph's border
\* stay with the CPU.
ExplicitOpCheck(m, n) ==
  /\ n.op = "GridSample" => GridSampleOk(n)
  /\ n.op = "PRelu" => ~IsCpu(m)
  /\ n.op \in {"Min", "Max", "Sum"} => Len(n.ins) >= 2
  /\ n.op = "DequantizeLinear" => ~IsPerChannel(n.ins[1].q) /\ ~(m.offload /\ IsGraphOutput(m, n.outs[1].name))
  /\ n.op = "QuantizeLinear" => ~IsPerChannel(n.outs[1].q) /\ ~(m.offload /\ IsGraphInput(m, n.ins[1].name))
  /\ n.op = "Softplus" /\ ~IsCpu(m) => Rank(n.ins[1]) <= 4

SimpleInputs(m, n) ==
  LET base == ProcessInputs(m, n)
      aligned == AlignBinaryInputPrecision(Do(m, base.steps), n, base.names)
  IN  IF IsHtp(m) THEN [aligned EXCEPT !.steps = base.steps \o @] ELSE base

\* Layout-sensitive ops are validated when their layout is NHWC.
SkipsValidation(m, n) ==
  m.dov /\ n.domain # "nhwc" /\ n.op \in {"DepthToSpace", "SpaceToDepth", "GridSample"}

BlockSize(n) == <<Get(n, "blocksize", 0), Get(n, "blocksize", 0)>>

SimplePar(n) ==
  CASE n.op = "LpNormalization" -> [axes |-> {AxisAttr(n, -1)}, epsilon |-> 0]
    [] n.op = "Elu" -> [alpha |-> Get(n, "alpha", 1)]
    [] n.op = "Softplus" -> [operation |-> "Softplus", alpha |-> 0, beta |-> 1]
    [] n.op = "HardSwish" -> [operation |-> "HardSwish", alpha |-> 0, beta |-> 0]
    [] n.op = "HardSigmoid" -> [operation |-> "HardSigmoid", alpha |-> Get(n, "alpha", InvR(5)),
                                beta |-> Get(n, "beta", Half)]
    [] n.op = "DepthToSpace" -> [block |-> BlockSize(n), mode |-> Get(n, "mode", "DCR")]
    [] n.op = "SpaceToDepth" -> [block |-> BlockSize(n), mode |-> "DCR"]
    [] n.op = "GridSample" -> [align |-> Get(n, "align_corners", 0), padding |-> Get(n, "padding_mode", "zeros"),
                               mode |-> IF Get(n, "mode", "linear") = "nearest" THEN "nearest" ELSE "bilinear"]
    [] OTHER -> NoPar

\* LeakyRelu's alpha becomes a second input: quantized with an encoding of
\* its own if the output is quantized, else of the input's float type.
ProcessAlphaAttributeAsInput(n, name) ==
  LET alpha == Get(n, "alpha", InvR(100))
      q == IF n.outs[1].q = NoQ THEN NoQ ELSE GetQuantParams(0, alpha, "uf8")
      dt == IF q # NoQ THEN "uf8" ELSE IF n.ins[1].dt = "f16" THEN "f16" ELSE "f32"
      code == IF q = NoQ THEN alpha ELSE SubR(DivR(alpha, q[1]), q[2])
  IN  AddStatic(name, dt, q, Vec(<<code>>))

\* DepthToSpace and SpaceToDepth keep their input's encoding.
PropagatePerTensorInputQuantToOutput(m, n, in) ==
  LET t == m.tensors[in] out == n.outs[1]
  IN  When(Len(t.q) = 2 /\ out.q = NoQ,
           <<AddWrapper(out.name, OutputType(m, out.name), OnnxShape(out), t.dt, t.q)>>)

\* Sum, Max and Min of more than two inputs: a chain of binary ops, in
\* floats when the output is quantized.
ProcessVariadicToBinaryChain(m, n, ins, op) ==
  LET out == n.outs[1]
      quantized == out.q # NoQ
      cast64 == ~quantized /\ IsGraphOutput(m, out.name) /\ Narrow64(out.dt) # out.dt
      dt == IF quantized THEN "f32" ELSE IF cast64 THEN Narrow64(out.dt) ELSE out.dt
      Dq(k) == n.ins[k].q # NoQ
      In(k) == IF Dq(k) THEN ins[k] \o <<"_to_f32">> ELSE ins[k]
      N == Len(ins)
      Shape(k) == FoldLeft(BroadcastShape, OnnxShape(n.ins[1]), [j \in 1..(k - 1) |-> OnnxShape(n.ins[j + 1])])
      direct == ~quantized /\ ~cast64
      Folded(k) == IF k = 1 THEN In(1) ELSE IF k = N /\ direct THEN out.name ELSE <<n.name, "_fold_", ToString(k - 1)>>
  IN  FlattenSeq([k \in 1..N |-> When(Dq(k), AddDequantizeNode(ins[k], In(k), "f32", OnnxShape(n.ins[k])))])
      \o FlattenSeq([k \in 1..(N - 1) |->
           IF k + 1 = N /\ direct
           THEN OutputOp(m, op, <<Folded(k), In(k + 1)>>, out, NoPar)
           ELSE NativeOp(op, <<Folded(k), In(k + 1)>>, Folded(k + 1), Shape(k + 1), dt, NoQ, NoPar)])
      \o When(quantized, AddQuantizeNode(Folded(N), out.name, OutputType(m, out.name), out.dt, out.q, OnnxShape(out)))
      \o When(cast64, <<AddCastNode(Folded(N), out.name, "output", OnnxShape(out), out.dt, out.q)>>)

\* HTP's rank-3 Gelu in front of a Transpose: the Transpose moves ahead of
\* the Gelu, which works on a rank-2 view.
GeluBeforeTranspose(m, n) ==
  /\ n.op = "Gelu" /\ IsHtp(m) /\ m.postLayout
  /\ Rank(n.ins[1]) = 3 /\ n.ins[1].dt \in {"f32", "f16"} /\ n.ins[1].q = NoQ
  /\ ConsumerOps(n) = <<"Transpose">> /\ Get(n.consumers[1], "perm", <<>>) = <<0, 2, 1>>
  /\ ~IsGraphOutput(m, n.outs[1].name)
  /\ Prod(OnnxShape(n.ins[1])) > 0

GeluOnFlatView(m, n, in) ==
  LET s == OnnxShape(n.ins[1]) dt == n.ins[1].dt
      view == <<s[1], s[3], s[2]>>
      flat == <<s[1] * s[3], s[2]>>
      T(x) == New(n, <<n.name>>, x)
  IN  AddTransposeNode(in, T("_gelu_channels_last"), s, <<0, 2, 1>>, view, dt, NoQ, FALSE, FALSE)
      \o AddReshapeNode(T("_gelu_channels_last"), T("_gelu_flat_input"), view, flat, dt, NoQ, FALSE, FALSE)
      \o NativeOp("Gelu", <<T("_gelu_flat_input")>>, T("_gelu_flat_output"), flat, dt, NoQ, NoPar)
      \o AddReshapeNode(T("_gelu_flat_output"), T("_gelu_view_output"), flat, view, dt, NoQ, FALSE, FALSE)
      \o AddTransposeNode(T("_gelu_view_output"), n.outs[1].name, view, <<0, 2, 1>>, s, dt, NoQ, FALSE, FALSE)

\* OverrideOutputQuantParam.
OverriddenQ(n, q) == IF Len(q) = 2 THEN OverrideActivationFixedEncoding(n.op, n.outs[1].dt, q) ELSE q

\* The output precision differs from the one that HTP computes in.
ConvertsOutput(m, n, ins) ==
  /\ IsHtp(m) /\ (IsConvertCompatibleUnaryOp(n.op) \/ IsConvertCompatibleBinaryOp(n.op))
  /\ NeedsPrecisionConvert(m.tensors[ins[1]].dt, n.outs[1].dt)

SimpleOutputs(m, n, ins) ==
  LET op == GetQnnOpType(n.op)
      alpha == New(n, <<n.name>>, "_alpha")
      all == IF n.op = "LeakyRelu" THEN Append(ins, alpha) ELSE ins
      extra == CASE n.op = "LeakyRelu" -> <<ProcessAlphaAttributeAsInput(n, alpha)>>
                 [] n.op \in {"DepthToSpace", "SpaceToDepth"} -> PropagatePerTensorInputQuantToOutput(m, n, ins[1])
                 [] OTHER -> <<>>
  IN  CASE SkipsValidation(m, n) -> <<>>
        [] GeluBeforeTranspose(m, n) -> GeluOnFlatView(m, n, ins[1])
        [] n.op \in {"Sum", "Max", "Min"} /\ Len(ins) > 2 -> ProcessVariadicToBinaryChain(m, n, ins, op)
        [] ConvertsOutput(m, n, ins) ->
             extra \o InsertOutputPrecisionConvert(m, n, op, all, SimplePar(n), m.tensors[ins[1]].dt,
                                                   OverriddenQ(n, n.outs[1].q))
        [] OTHER -> extra \o ProcessOutputsOf(m, n, all, SimplePar(n), op, LAMBDA k, dt : dt,
                                              LAMBDA q : OverriddenQ(n, q))

\* A scale that is not constant is no encoding.
SimpleSupported(m, n) ==
  LET base == ProcessInputs(m, n)
      m1 == Do(m, base.steps)
  IN  /\ n.op = "DequantizeLinear" => Len(n.ins) = 1
      /\ m.dov => ExplicitOpCheck(m, n)
      /\ IsHtp(m) => AlignBinaryInputPrecisionOk(m1, n, base.names)
      /\ SkipsValidation(m, n) \/
         /\ n.op = "LpNormalization" => GetCanonicalizedAxisOk(n, -1) /\ Get(n, "p", 2) = 2
         /\ n.op = "DepthToSpace" => Get(n, "mode", "DCR") \in {"DCR", "CRD"}
         /\ n.op = "GridSample" => GridSampleOk(n)
         /\ ConvertsOutput(m1, n, base.names) => Len(n.outs[1].q) = 2
         /\ OverriddenQ(n, n.outs[1].q) # n.outs[1].q => ~Has(m1, n.outs[1].name)

SimpleOps ==
  {"Abs", "Add", "And", "Asin", "Atan", "Ceil", "Cos", "DequantizeLinear", "DepthToSpace", "Div", "Elu", "Equal",
   "Exp", "Floor", "Gelu", "Greater", "GreaterOrEqual", "GridSample", "HardSigmoid", "HardSwish", "LeakyRelu",
   "Less", "LessOrEqual", "Log", "LpNormalization", "Max", "Min", "Mul", "Neg", "Not", "Or", "Pow", "PRelu",
   "QuantizeLinear", "Relu", "Round", "Sigmoid", "Sign", "Sin", "Softplus", "SpaceToDepth", "Sqrt", "Sub", "Sum",
   "Tanh", "Where", "Xor"}

(***************************************************************************)
(* Cast.  HTP's Cast takes a float for a BOOL only if it is 0 or 1, and     *)
(* takes UINT8 for BOOL when the result is a float.                         *)
(***************************************************************************)
IsFpToBoolCast(n) == n.ins[1].dt \in {"f16", "f32"} /\ n.outs[1].dt = "bool"

IsUInt8ToFloatCastOnHtp(m, n) == IsHtp(m) /\ n.ins[1].dt = "u8" /\ n.outs[1].dt \in {"f16", "f32"}

CastSupported(m, n) ==
  /\ Len(n.ins) \in {1, 2}
  /\ ~(IsGraphInput(m, n.ins[1].name) /\ n.ins[1].dt = "f64")
  /\ ~(IsGraphOutput(m, n.outs[1].name) /\ n.outs[1].dt = "f64")

CastInputs(m, n) ==
  LET zero == <<n.name, "_notequal_zero">>
      in == ProcessInput(m, n.ins[1])
  IN  IF IsFpToBoolCast(n) /\ ~IsHtp(m)
      THEN Both(in, [steps |-> <<AddStatic(zero, n.ins[1].dt, NoQ, Vec(<<0>>))>>, names |-> <<zero>>])
      ELSE in

\* The first of a node's names for its int32 copy that is free.
FreeName(m, base) ==
  IF ~Has(m, base) THEN base
  ELSE base \o <<ToString(CHOOSE k \in 1..10 : /\ ~Has(m, base \o <<ToString(k)>>)
                                               /\ \A j \in 1..(k - 1) : Has(m, base \o <<ToString(j)>>))>>

CastOutputs(m, n, ins) ==
  LET in == n.ins[1] out == n.outs[1]
      int32 == FreeName(m, <<n.name, "_u8tof_int32">>)
      T(x) == <<n.name, x>>
      Write(op, from) == <<Op(op, from, <<out.name>>, [to |-> out.dt])>>
  IN  <<AddWrapper(out.name, OutputType(m, out.name), OnnxShape(out), out.dt, NoQ)>>
      \o CASE IsUInt8ToFloatCastOnHtp(m, n) ->
                NativeOp("Cast", ins, int32, OnnxShape(in), "i32", NoQ, [to |-> "i32"]) \o Write("Cast", <<int32>>)
           [] IsFpToBoolCast(n) /\ IsHtp(m) ->
                NativeOp("Sign", ins, T("_signabs_sign"), OnnxShape(in), in.dt, NoQ, NoPar)
                \o NativeOp("Abs", <<T("_signabs_sign")>>, T("_signabs_abs"), OnnxShape(in), in.dt, NoQ, NoPar)
                \o Write("Cast", <<T("_signabs_abs")>>)
           [] IsFpToBoolCast(n) -> Write("NotEqual", ins)
           [] OTHER -> Write("Cast", ins)

(***************************************************************************)
(* Clip.  A missing bound is the largest float, which the values are below. *)
(***************************************************************************)
FloatMax == 4000

ClipBound(io) == IF io.q = NoQ THEN Data(io)[1] ELSE MulR(io.q[1], Data(io)[1] + io.q[2])

HasBound(n, k) == Len(n.ins) >= k /\ Exists(n.ins[k])

ClipSupported(m, n) ==
  \A k \in {2, 3} : HasBound(n, k) => IsConst(n.ins[k]) /\ (n.ins[k].q = NoQ \/ Len(n.ins[k].q) = 2)

ClipInputs(m, n) == ProcessInput(m, n.ins[1])

ClipOutputs(m, n, ins) ==
  ProcessOutputs(m, n, ins,
    [min |-> IF HasBound(n, 2) THEN MaxOf(ClipBound(n.ins[2]), 0 - FloatMax) ELSE 0 - FloatMax,
     max |-> IF HasBound(n, 3) THEN MinOf(ClipBound(n.ins[3]), FloatMax) ELSE FloatMax], GetQnnOpType(n.op))

(***************************************************************************)
(* Ops composed of others.                                                  *)
(***************************************************************************)
\* mod(a, b) = a - b * floor(a / b), in floats.
ModSupported(m, n) == Get(n, "fmod", 0) = 0

ModOutputs(m, n, ins) ==
  LET out == n.outs[1] shape == OnnxShape(out)
      casts == n.ins[1].dt \notin {"f16", "f32", "uf16", "uf8", "sf8"}
      dt == IF casts THEN "f32" ELSE n.ins[1].dt
      T(x) == New(n, <<n.name>>, x)
      a == IF casts THEN T("_Cast_A_output") ELSE ins[1]
      b == IF casts THEN T("_Cast_B_output") ELSE ins[2]
      Native(op, from, to) == NativeOp(op, from, to, shape, dt, NoQ, NoPar)
  IN  When(casts, NativeOp("Cast", <<ins[1]>>, a, shape, dt, NoQ, [to |-> dt])
                  \o NativeOp("Cast", <<ins[2]>>, b, OnnxShape(n.ins[2]), dt, NoQ, [to |-> dt]))
      \o Native("Divide", <<a, b>>, T("_Div_output"))
      \o Native("Floor", <<T("_Div_output")>>, T("_Floor_output"))
      \o Native("Multiply", <<b, T("_Floor_output")>>, T("_Mul_output"))
      \o (IF casts THEN Native("Subtract", <<a, T("_Mul_output")>>, T("_Sub_output"))
                        \o OutputOp(m, "Cast", <<T("_Sub_output")>>, out, [to |-> out.dt])
          ELSE OutputOp(m, "Subtract", <<a, T("_Mul_output")>>, out, NoPar))

ReciprocalSupported(m, n) == Len(n.ins) = 1 /\ DataTypeCheckForCpuBackend(m, n.ins[1])

ReciprocalOutputs(m, n, ins) ==
  LET in == n.ins[1] one == New(n, <<n.name>>, "_divisor")
      code == IF in.q = NoQ THEN 1 ELSE SubR(InvR(in.q[1]), in.q[2])
  IN  <<AddStatic(one, in.dt, in.q, Vec(<<code>>))>> \o OutputOp(m, "Divide", <<one, ins[1]>>, n.outs[1], NoPar)

TanSupported(m, n) == n.ins[1].dt \in {"f32", "f16"} /\ n.outs[1].dt \in {"f32", "f16"}

TanOutputs(m, n, ins) ==
  LET in == n.ins[1]
      T(x) == New(n, <<n.name>>, x)
  IN  NativeOp("Sin", ins, T("_sin_out"), OnnxShape(in), in.dt, in.q, NoPar)
      \o NativeOp("Cos", ins, T("_cos_out"), OnnxShape(in), in.dt, in.q, NoPar)
      \o OutputOp(m, "Divide", <<T("_sin_out"), T("_cos_out")>>, n.outs[1], NoPar)

\* The output is declared with the input's type, encoding and shape.
LikeInput(m, n, op, ins) ==
  <<AddWrapper(n.outs[1].name, OutputType(m, n.outs[1].name), OnnxShape(n.ins[1]), n.ins[1].dt, n.ins[1].q),
    Op(op, ins, <<n.outs[1].name>>, NoPar)>>

SeluAlpha == 1673

SeluGamma == 1050

SeluOutputs(m, n, ins) ==
  LET in == n.ins[1]
      T(x) == New(n, <<n.name>>, x)
  IN  NativeOp("Elu", ins, T("_elu_out"), OnnxShape(in), in.dt, NoQ, [alpha |-> Get(n, "alpha", SeluAlpha)])
      \o <<AddStatic(T("_gamma"), in.dt, NoQ, Vec(<<Get(n, "gamma", SeluGamma)>>))>>
      \o LikeInput(m, n, "Multiply", <<T("_gamma"), T("_elu_out")>>)

\* x * sigmoid(alpha * x); 1702 stands for QuickGelu's 1.702.
QuickGeluAlpha(n) == Get(n, "alpha", IF n.op = "Swish" THEN 1 ELSE 1702)

QuickGeluOutputs(m, n, ins) ==
  LET in == n.ins[1] alpha == QuickGeluAlpha(n)
      T(x) == New(n, <<n.name>>, x)
  IN  When(alpha # 1, <<AddStatic(T("_alpha"), in.dt, NoQ, Vec(<<alpha>>))>>
                      \o NativeOp("Multiply", <<T("_alpha"), ins[1]>>, T("_alpha_mul"), OnnxShape(in), in.dt, NoQ, NoPar))
      \o NativeOp("Sigmoid", <<IF alpha = 1 THEN ins[1] ELSE T("_alpha_mul")>>, T("_sigmoid"), OnnxShape(in),
                  in.dt, NoQ, NoPar)
      \o LikeInput(m, n, "Multiply", <<ins[1], T("_sigmoid")>>)

IsInfSupported(m, n) == ~IsHtp(m) /\ (m.dov => n.ins[1].dt \in {"f32", "f16"} /\ n.outs[1].dt = "bool")

IsInfOutputs(m, n, ins) ==
  OutputOp(m, "IsInf", <<ins[1]>>, n.outs[1],
           [positive |-> Get(n, "detect_positive", 1) # 0, negative |-> Get(n, "detect_negative", 1) # 0])

IsNaNSupported(m, n) == m.dov => n.ins[1].dt \in {"f32", "f16"} /\ n.outs[1].dt = "bool"

IsNaNOutputs(m, n, ins) == OutputOp(m, "IsNan", <<ins[1]>>, n.outs[1], NoPar)

\* The sums are declared with the shape of the output.
MeanSupported(m, n) == Len(n.ins) >= 2

MeanOutputs(m, n, ins) ==
  LET dt == n.ins[1].dt
      Sum(k) == IF k = 1 THEN ins[1] ELSE New(n, <<n.name>>, ToString(k))
      divisor == New(n, <<n.name>>, "_divisor")
  IN  FlattenSeq([k \in 1..(Len(ins) - 1) |->
        NativeOp("Add", <<Sum(k), ins[k + 1]>>, Sum(k + 1), OnnxShape(n.outs[1]), dt, NoQ, NoPar)])
      \o <<AddStatic(divisor, dt, NoQ, Vec(<<Len(n.ins)>>))>>
      \o OutputOp(m, "Divide", <<Sum(Len(ins)), divisor>>, n.outs[1], NoPar)

\* select(x > alpha, x, 0); alpha is 0 unless it is given.
ThresholdedReluSupported(m, n) ==
  n.ins[1].dt \in {"f16", "f32", "uf16", "sf16", "uf8", "sf8", "i32"}

ThresholdedReluOutputs(m, n, ins) ==
  LET in == n.ins[1]
      T(x) == New(n, <<n.name>>, x)
      Static(x, v) == AddStatic(T(x), in.dt, NoQ, Vec(<<v>>))
  IN  <<Static("_alpha", Get(n, "alpha", 0))>>
      \o NativeOp("Greater", <<ins[1], T("_alpha")>>, T("_Greater_output"), OnnxShape(n.outs[1]), "bool", NoQ, NoPar)
      \o <<Static("_zero", 0)>>
      \o OutputOp(m, "Select", <<T("_Greater_output"), ins[1], T("_zero")>>, n.outs[1], NoPar)

\* QNN does not divide alpha by the size.
LRNSupported(m, n) ==
  n.domain = "nhwc" \/
  /\ Len(n.ins) = 1 /\ Len(n.outs) = 1
  /\ DataTypeCheckForCpuBackend(m, n.ins[1])
  /\ Rank(n.ins[1]) \in {3, 4}
  /\ n.outs[1].shape = n.ins[1].shape
  /\ Get(n, "size", 0) % 2 # 0
  /\ Get(n, "alpha", 1) > 0 /\ Get(n, "beta", 1) > 0

LRNOutputs(m, n, ins) ==
  LET size == Get(n, "size", 0)
  IN  ProcessOutputs(m, n, ins,
        [radius |-> (size - 1) \div 2, alpha |-> DivR(Get(n, "alpha", 1), size), beta |-> Get(n, "beta", 1),
         bias |-> Get(n, "bias", 1)], "LRN")
=============================================================================
