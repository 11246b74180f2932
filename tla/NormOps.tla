------------------------------ MODULE NormOps --------------------------------
(***************************************************************************)
(* The builders of the normalizations: builder/opbuilder/                   *)
(* layernormalization, rmsnormalization, batchnormalization,                *)
(* instancenormalization and groupnormalization_op_builder.cc.              *)
(***************************************************************************)
EXTENDS Precision

Eps(n) == Get(n, "epsilon", Epsilon)

TailShape(shape, axis) == SubSeq(shape, axis + 1, Len(shape))

TrailingAxes(n) == AxisAttr(n, -1)..(Rank(n.ins[1]) - 1)

(***************************************************************************)
(* LayerNormalization.                                                      *)
(***************************************************************************)
HasBias(n) == Len(n.ins) >= 3 /\ Exists(n.ins[3])

\* A parameter that is not constant along the axes that are kept.
HasNonOneDimBeforeAxis(shape, rank, axis) ==
  \E k \in 1..Len(shape) : rank - Len(shape) + k <= axis /\ shape[k] # 1

ExternalizeScale(n) == HasNonOneDimBeforeAxis(OnnxShape(n.ins[2]), Rank(n.ins[1]), AxisAttr(n, -1))

ExternalizeBias(n) ==
  /\ HasBias(n)
  /\ HasNonOneDimBeforeAxis(OnnxShape(n.ins[3]), Rank(n.ins[1]), AxisAttr(n, -1)) \/ ExternalizeScale(n)

CheckFlattenableLayerNorm(n) ==
  LET size == Prod(TailShape(OnnxShape(n.ins[1]), AxisAttr(n, -1)))
  IN  Prod(OnnxShape(n.ins[2])) = size /\ (HasBias(n) => Prod(OnnxShape(n.ins[3])) = size)

\* HTP normalizes the last axis only.
LayerNormPlan(m, n) ==
  IF IsHtp(m) /\ AxisAttr(n, -1) # Rank(n.ins[1]) - 1 THEN "flattened"
  ELSE IF ExternalizeScale(n) \/ ExternalizeBias(n) THEN "decomposed" ELSE "single"

\* A parameter is an operand of its own after the normalization: it has the
\* type of the activation, or is a constant that can be given it.
Requantizes(io, dts, x, out) ==
  io.dt # x.dt => IsConst(io) /\ Len(io.q) = 2 /\ Len(out.q) = 2 /\ io.dt \in dts

LayerNormSupported(m, n) ==
  LET x == n.ins[1] scale == n.ins[2] out == n.outs[1]
      plan == LayerNormPlan(m, n)
  IN  /\ Len(n.outs) = 1
      /\ Rank(scale) <= Rank(x) /\ (HasBias(n) => Rank(n.ins[3]) <= Rank(x))
      /\ GetCanonicalizedAxisOk(n, -1)
      /\ plan = "flattened" => CheckFlattenableLayerNorm(n)
      /\ IsHtp(m) /\ NeedsPrecisionConvert(x.dt, out.dt) => plan = "single"
      /\ plan = "decomposed" /\ ExternalizeScale(n) =>
           /\ IF scale.q = NoQ THEN scale.dt \in {"f32", "f16"} ELSE Len(scale.q) = 2
           /\ Requantizes(scale, {"sf16", "uf16", "sf8", "uf8"}, x, out)
      /\ plan = "decomposed" /\ ExternalizeBias(n) =>
           Requantizes(n.ins[3], {"sf16", "uf16", "sf8", "uf8", "sf32", "i32"}, x, out)

LayerNormInputs(m, n) ==
  LET x == ProcessInput(m, n.ins[1])
      m1 == Do(m, x.steps)
      wide == ConvertActivationToOutputPrecision(m1, n, x.names, n.outs[1].dt)
      act == IF IsHtp(m) THEN [steps |-> x.steps \o wide.steps, names |-> wide.names] ELSE x
      scale == ProcessInput(m, n.ins[2])
  IN  Both(act, IF HasBias(n) THEN Both(scale, ProcessInput(m, n.ins[3])) ELSE scale)

\* RequantizePerTensorStatic: the parameter with the output's encoding.
RequantizePerTensorStatic(n, io, suffix, dt, q) ==
  IF io.dt = dt THEN [steps |-> <<>>, names |-> <<io.name>>]
  ELSE LET name == New(n, io.name, suffix)
           t == Reshape(io.val[1], OnnxShape(io))
       IN  [steps |-> <<AddStatic(name, dt, q, Code(Real(t, io.q), q))>>, names |-> <<name>>]

\* The normalization alone, then a Multiply and an Add for the parameters
\* that vary along the axes that are kept.
BuildDecomposedLayerNorm(m, n, ins, par) ==
  LET x == n.ins[1] out == OutputTensor(m, n.outs[1])
      one == New(n, <<>>, "_ln_scale_one")
      normal == New(n, <<>>, "_ln_decomposed_out")
      product == New(n, <<>>, "_ln_decomposed_mul_out")
      scale == RequantizePerTensorStatic(n, n.ins[2], "_ln_decomposed_scale_requant", x.dt, out.q)
      bias == RequantizePerTensorStatic(n, n.ins[3], "_ln_decomposed_bias_requant", x.dt, out.q)
      alone == ExternalizeScale(n)
      Final(op, operands) == <<AddWrapper(out.name, out.kind, out.shape, out.dt, out.q), Op(op, operands, <<out.name>>, NoPar)>>
      Mid(op, operands, name, q) == NativeOp(op, operands, name, OnnxShape(x), x.dt, q, NoPar)
  IN  When(alone, <<AddStatic(one, n.ins[2].dt, n.ins[2].q,
                             Code(Fill(TailShape(OnnxShape(x), AxisAttr(n, -1)), 1), n.ins[2].q))>>)
      \o NativeOp("LayerNorm", <<ins[1], IF alone THEN one ELSE ins[2]>>, normal, OnnxShape(x), x.dt,
                  IF alone /\ out.q # NoQ THEN GetQuantParams(-3, 3, x.dt) ELSE out.q, par)
      \o When(alone, scale.steps
                     \o (IF ExternalizeBias(n) THEN Mid("Multiply", <<normal>> \o scale.names, product, out.q)
                         ELSE Final("Multiply", <<normal>> \o scale.names)))
      \o When(ExternalizeBias(n), bias.steps \o Final("Add", <<IF alone THEN product ELSE normal>> \o bias.names))

\* The axes before and the axes that are normalized as one axis each.
BuildFlattenedLayerNorm(m, n, ins) ==
  LET x == n.ins[1] out == OutputTensor(m, n.outs[1])
      shape == OnnxShape(x)
      size == Prod(TailShape(shape, AxisAttr(n, -1)))
      flat == <<Prod(shape) \div size, size>>
      Flatten(k, to, suffix) ==
        LET name == New(n, ins[k], suffix)
            io == n.ins[k]
        IN  IF OnnxShape(io) = to THEN [steps |-> <<>>, names |-> <<ins[k]>>]
            ELSE [steps |-> AddReshapeNode(ins[k], name, OnnxShape(io), to, io.dt, io.q, IsGraphInput(m, ins[k]), FALSE),
                  names |-> <<name>>]
      operands == Both(Flatten(1, flat, "_ln_flat_x"),
                       Both(Flatten(2, <<size>>, "_ln_flat_scale"),
                            IF HasBias(n) THEN Flatten(3, <<size>>, "_ln_flat_bias") ELSE NoInputs))
      result == New(n, <<>>, "_ln_flat_out")
      par == [axes |-> {1}, eps |-> Eps(n)]
  IN  operands.steps
      \o IF shape = flat
         THEN <<AddWrapper(out.name, out.kind, out.shape, out.dt, out.q),
                Op("LayerNorm", operands.names, <<out.name>>, par)>>
         ELSE NativeOp("LayerNorm", operands.names, result, flat, out.dt, out.q, par)
              \o AddReshapeNode(result, out.name, flat, out.shape, out.dt, out.q, FALSE, IsGraphOutput(m, out.name))

LayerNormOutputs(m, n, ins) ==
  LET par == [axes |-> TrailingAxes(n), eps |-> Eps(n)]
      plan == LayerNormPlan(m, n)
  IN  CASE plan = "decomposed" -> BuildDecomposedLayerNorm(m, n, ins, par)
        [] plan = "flattened" -> BuildFlattenedLayerNorm(m, n, ins)
        [] OTHER -> ProcessOutputsAcrossPrecision(m, n, ins, par, "LayerNorm", m.tensors[ins[1]].dt)

(***************************************************************************)
(* RMSNormalization and SimplifiedLayerNormalization.                       *)
(***************************************************************************)
RmsOpTypes == {"RMSNormalization", "SimplifiedLayerNormalization"}

AxesRank(n) == Rank(n.ins[1]) - AxisAttr(n, -1)

NeedsArithmeticDecomposition(m, n) == Rank(n.ins[1]) > 4 \/ (IsHtp(m) /\ AxesRank(n) # 1)

\* The scale is the normalized dimensions after dimensions of size 1.
TrySqueezeLeadingOnesTo(shape, target) ==
  LET k == Len(shape) - Len(target)
  IN  k >= 0 /\ (\A j \in 1..k : shape[j] = 1) /\ SubSeq(shape, k + 1, Len(shape)) = target

GammaShape(n) == TailShape(OnnxShape(n.ins[1]), AxisAttr(n, -1))

Squeezes(n) == TrySqueezeLeadingOnesTo(OnnxShape(n.ins[2]), GammaShape(n))

\* A scale of another shape is applied by an op of its own.
PlanBroadcastScaleDecomposition(n) ==
  LET x == n.ins[1] scale == n.ins[2]
  IN  /\ ~Squeezes(n)
      /\ scale.q = NoQ /\ x.q = NoQ /\ scale.dt \in {"f32", "f16"} /\ scale.dt = x.dt
      /\ \A k \in 1..Len(GammaShape(n)) : GammaShape(n)[k] # 0

\* HTP takes no 16-bit signed gamma with an offset.
ReencodesScale(m, n) == IsHtp(m) /\ n.ins[2].dt = "sf16" /\ Len(n.ins[2].q) = 2 /\ n.ins[2].q[2] # 0

RmsNormSupported(m, n) ==
  LET scale == n.ins[2]
      values == <<n.ins[1], scale, n.outs[1]>>
  IN  /\ Len(n.outs) = 1 /\ Len(n.ins) > 1 /\ Exists(scale)
      /\ GetCanonicalizedAxisOk(n, -1)
      /\ IF NeedsArithmeticDecomposition(m, n)
         THEN (\A k \in 1..3 : values[k].q = NoQ /\ values[k].dt = "f32") /\ Get(n, "stash_type", 1) = 1
         ELSE /\ Squeezes(n) \/ PlanBroadcastScaleDecomposition(n)
              /\ ReencodesScale(m, n) => IsConst(scale)
              /\ Len(OnnxShape(scale)) # Len(GammaShape(n)) /\ Squeezes(n) => Len(scale.q) \in {0, 2}

RmsGamma(m, n) ==
  LET scale == n.ins[2]
      ones == New(n, scale.name, "_ones")
      u16 == New(n, scale.name, "_u16")
      squeezed == New(n, scale.name, "_squeeze")
      shape == GammaShape(n)
  IN  IF PlanBroadcastScaleDecomposition(n)
      THEN [steps |-> <<AddStatic(ones, n.ins[1].dt, NoQ, Fill(shape, 1))>>, names |-> <<ones>>]
      ELSE IF ReencodesScale(m, n)
      THEN [steps |-> <<AddStatic(u16, "uf16", PerTensor(scale.q[1], scale.q[2] - 32768),
                                  Unary(Reshape(scale.val[1], shape), LAMBDA v : v + 32768))>>, names |-> <<u16>>]
      ELSE IF Len(shape) = Len(OnnxShape(scale)) THEN ProcessInput(m, scale)
      ELSE [steps |-> IF IsConst(scale) THEN <<AddStatic(squeezed, scale.dt, scale.q, Reshape(scale.val[1], shape))>>
                      ELSE AddReshapeNode(scale.name, squeezed, OnnxShape(scale), shape, scale.dt, scale.q,
                                          IsGraphInput(m, scale.name), FALSE),
            names |-> <<squeezed>>]

\* On HTP a beta of zeros.
RmsNormInputs(m, n) ==
  LET x == ProcessInput(m, n.ins[1])
      scale == n.ins[2]
      beta == <<"_beta_dummy", n.name>>
      zeros == Fill(GammaShape(n), 0)
      dt == IF scale.q = NoQ /\ scale.dt \in {"f32", "f16"} THEN scale.dt ELSE "uf8"
  IN  IF NeedsArithmeticDecomposition(m, n) THEN Both(x, ProcessInput(m, scale))
      ELSE Both(x, Both(RmsGamma(m, n),
             IF IsHtp(m) THEN [steps |-> <<AddStatic(beta, dt, IF scale.q = NoQ THEN NoQ ELSE PerTensor(1, 0), zeros)>>,
                               names |-> <<beta>>]
             ELSE NoInputs))

\* x / sqrt(mean(x * x) + epsilon) * scale, in two dimensions.
AddArithmeticDecomposition(m, n, ins) ==
  LET shape == OnnxShape(n.ins[1])
      size == Prod(GammaShape(n))
      flat == <<Prod(shape) \div size, size>>
      reduced == <<flat[1], 1>>
      T(s) == New(n, <<>>, s)
      Mid(op, operands, s, to, par) == NativeOp(op, operands, T(s), to, "f32", NoQ, par)
  IN  <<AddStatic(T("_epsilon"), "f32", NoQ, Vec(<<Eps(n)>>))>>
      \o Mid("Reshape", <<ins[1]>>, "_x", flat, NoPar)
      \o Mid("Multiply", <<T("_x"), T("_x")>>, "_square", flat, NoPar)
      \o Mid("ReduceMean", <<T("_square")>>, "_mean", reduced, [axes |-> {1}, keep |-> TRUE])
      \o Mid("Add", <<T("_mean"), T("_epsilon")>>, "_variance", reduced, NoPar)
      \o Mid("Sqrt", <<T("_variance")>>, "_rms", reduced, NoPar)
      \o Mid("Divide", <<T("_x"), T("_rms")>>, "_normalized", flat, NoPar)
      \o Mid("Reshape", <<T("_normalized")>>, "_restored", shape, NoPar)
      \o ProcessOutputs(m, n, <<T("_restored"), ins[2]>>, NoPar, "Multiply")

RmsNormOutputs(m, n, ins) ==
  LET par == [axes |-> TrailingAxes(n), eps |-> Eps(n)]
      rms == New(n, <<>>, "_rms_ones")
      scale == ProcessInput(m, n.ins[2])
  IN  IF NeedsArithmeticDecomposition(m, n) THEN AddArithmeticDecomposition(m, n, ins)
      ELSE IF PlanBroadcastScaleDecomposition(n)
      THEN scale.steps \o NativeOp("RmsNorm", ins, rms, OnnxShape(n.ins[1]), n.ins[1].dt, NoQ, par)
           \o ProcessOutputs(m, n, <<rms>> \o scale.names, NoPar, "Multiply")
      ELSE ProcessOutputs(m, n, ins, par, "RmsNorm")

(***************************************************************************)
(* BatchNormalization.  QNN's op has a weight and a bias: the mean and the  *)
(* variance are folded into them.                                           *)
(***************************************************************************)
IsFixed(dt) == dt \in {"uf8", "sf8", "uf16", "sf16"}

\* The types of scale and bias that HTP takes with an input of type x.
OverrideScaleType(x, dt, negative) ==
  CASE x = "uf16" /\ dt = "sf8" -> IF negative THEN "sf16" ELSE "uf8"
    [] x = "uf8" /\ dt = "sf8" -> "uf8"
    [] OTHER -> dt

OverrideBiasType(x, dt) == IF IsFixed(x) /\ dt \in {"f32", "f16"} THEN "sf32" ELSE dt

CheckCpuDataTypes(x, scale, bias, y) ==
  <<x, scale, bias, y>> \in {<<"f32", "f32", "f32", "f32">>, <<"uf8", "uf8", "uf8", "uf8">>, <<"uf8", "uf8", "sf32", "uf8">>}

CheckHtpDataTypes(x, scale, bias, y) ==
  LET s == OverrideScaleType(x, scale, TRUE) b == OverrideBiasType(x, bias)
  IN  \/ IsFixed(x) /\ y \in {"f32", "f16"}
      \/ \E f \in {"f16", "f32"} : <<x, s, b, y>> = <<f, f, f, f>>
      \/ x = "uf16" /\ s \in {"uf8", "uf16", "sf16"} /\ b \in {"uf8", "sf32"} /\ y = "uf16"
      \/ x = "uf8" /\ s = "uf8" /\ b \in {"uf8", "sf32"} /\ y = "uf8"
      \/ <<x, s, b, y>> = <<"sf8", "sf8", "sf8", "sf8">>

HasFloatOutput(n) == n.ins[1].q # NoQ /\ n.outs[1].q = NoQ

UseFloatParams(n) ==
  HasFloatOutput(n) \/ (n.ins[1].q # NoQ /\ n.ins[1].dt \in {"uf8", "uf16"} /\ IsPerChannel(n.ins[2].q))

BatchNormSupported(m, n) ==
  n.domain = "nhwc" \/
  LET dts == <<n.ins[1].dt, n.ins[2].dt, n.ins[3].dt, n.outs[1].dt>>
  IN  /\ IF IsHtp(m) THEN CheckHtpDataTypes(dts[1], dts[2], dts[3], dts[4])
         ELSE CheckCpuDataTypes(dts[1], dts[2], dts[3], dts[4])
      /\ Len(n.ins) = 5 /\ Rank(n.ins[1]) <= 4 /\ Len(n.outs) = 1
      /\ \A k \in 2..5 : OnnxShape(n.ins[k]) = <<OnnxShape(n.ins[1])[2]>> /\ IsConst(n.ins[k])

FusedScale(n) ==
  LET R(k) == Real(n.ins[k].val[1], n.ins[k].q)
  IN  Binary(R(2), Unary(R(5), LAMBDA v : SqrtR(AddR(v, Eps(n)))), DivR)

FusedBias(n) ==
  LET R(k) == Real(n.ins[k].val[1], n.ins[k].q)
  IN  Binary(R(3), Binary(R(4), FusedScale(n), MulR), SubR)

\* The parameters in their type; a quantized one gets an encoding of the
\* range of its values, symmetric unless it has 8 bits.
Postprocess(dt, quantized, t) ==
  LET hi == MaxOver(DOMAIN t.at \cup {<<>>}, LAMBDA i : IF i = <<>> THEN 0 ELSE t.at[i])
      lo == MinOver(DOMAIN t.at \cup {<<>>}, LAMBDA i : IF i = <<>> THEN 0 ELSE t.at[i])
      most == MaxOf(1, MaxOf(hi, 0 - lo))
      q == IF ~quantized THEN NoQ
           ELSE IF dt \in {"sf32", "sf16", "uf16"} THEN PerTensor(most, IF dt = "uf16" THEN -32768 ELSE 0)
           ELSE GetQuantParams(lo, hi, dt)
  IN  [q |-> q, t |-> Code(t, q)]

FusedInputs(m, n, w, b) ==
  LET scaleName == <<"_bn_fused_scale", n.name>>
      biasName == <<"_bn_fused_bias", n.name>>
      negative == \E i \in DOMAIN w.at : w.at[i] < 0
      wDt == OverrideScaleType(n.ins[1].dt, n.ins[2].dt, negative)
      bDt == OverrideBiasType(n.ins[1].dt, n.ins[3].dt)
      W == Postprocess(wDt, n.ins[2].q # NoQ, w)
      C == Postprocess(bDt, n.ins[3].q # NoQ \/ (n.ins[1].q # NoQ /\ n.ins[3].dt \in {"f32", "f16"}), b)
  IN  [names |-> <<n.ins[1].name, scaleName, biasName>>,
       steps |-> ProcessInput(m, n.ins[1]).steps
                 \o IF UseFloatParams(n)
                    THEN <<AddStatic(scaleName, "f32", NoQ, w), AddStatic(biasName, "f32", NoQ, b)>>
                    ELSE <<AddStatic(scaleName, wDt, W.q, W.t), AddStatic(biasName, bDt, C.q, C.t)>>]

BatchNormInputs(m, n) == FusedInputs(m, n, FusedScale(n), FusedBias(n))

BatchNormOutputs(m, n, ins) ==
  LET out == OutputTensor(m, n.outs[1])
      f32 == New(n, ins[1], "_to_f32")
      result == IF HasFloatOutput(n) THEN out.name ELSE New(n, out.name, "_bn_f32")
  IN  IF ~UseFloatParams(n) THEN ProcessOutputs(m, n, ins, NoPar, "Batchnorm")
      ELSE <<AddWrapper(f32, "native", OnnxShape(n.ins[1]), "f32", NoQ), Op("Dequantize", <<ins[1]>>, <<f32>>, NoPar),
             AddWrapper(result, IF HasFloatOutput(n) THEN out.kind ELSE "native", out.shape, "f32", NoQ),
             Op("Batchnorm", <<f32, ins[2], ins[3]>>, <<result>>, NoPar)>>
           \o When(~HasFloatOutput(n), AddQuantizeNode(result, out.name, out.kind, out.dt, out.q, out.shape))

(***************************************************************************)
(* InstanceNormalization and GroupNormalization.                            *)
(***************************************************************************)
\* Mutant: the channels are looked up as if the layout never changed.
ChannelsAlwaysSecond(n) == OnnxShape(n.ins[1])[2]

ChannelsOf(n) == IF n.domain = "nhwc" THEN LastDim(n.ins[1]) ELSE OnnxShape(n.ins[1])[2]

InstanceNormSupported(m, n) ==
  LET x == n.ins[1]
  IN  /\ DataTypeCheckForCpuBackend(m, x)
      /\ Rank(x) \in 3..5
      /\ OnnxShape(n.ins[2]) = <<ChannelsOf(n)>> /\ OnnxShape(n.ins[3]) = <<ChannelsOf(n)>>
      /\ Eps(n) > 0
      /\ n.domain = "nhwc" => (Rank(x) = 5 => ~IsPerChannel(x.q))
                              /\ (IsHtp(m) /\ Rank(x) = 3 /\ ~IsConst(x) /\ OnnxShape(x)[1] # 1 => ~IsPerChannel(x.q))

\* The rank-4 shape that QNN's op gets for a tensor of this shape.
InstanceNormShape(m, s) ==
  CASE Len(s) = 5 -> <<s[1], s[2] * s[3], s[4], s[5]>>
    [] Len(s) = 3 /\ IsHtp(m) /\ s[1] # 1 -> <<s[1], 1, s[2], s[3]>>
    [] OTHER -> s

\* HTP takes no signed constant scale.
ProcessScale(m, n) ==
  LET scale == n.ins[2]
      converted == New(n, scale.name, "_convert_s8_to_u8")
  IN  IF IsHtp(m) /\ IsConst(scale) /\ scale.dt = "sf8"
      THEN [steps |-> ProcessInput(m, scale).steps
                      \o InsertConvertOp(scale.name, converted, "sf8", "uf8", scale.q, OnnxShape(scale), "native"),
            names |-> <<converted>>]
      ELSE ProcessInput(m, scale)

InstanceNormInputs(m, n) ==
  LET x == n.ins[1]
      shape == OnnxShape(x)
      to == InstanceNormShape(m, shape)
      name == New(n, x.name, "_reshape")
      act == IF to = shape THEN ProcessInput(m, x)
             ELSE IF IsConst(x)
             THEN [steps |-> <<AddStatic(x.name, x.dt, HandleUnsqueeze(x.q, shape, to), Reshape(x.val[1], to))>>,
                   names |-> <<x.name>>]
             ELSE [steps |-> AddReshapeNode(x.name, name, shape, to, x.dt, x.q, IsGraphInput(m, x.name), FALSE),
                   names |-> <<name>>]
  IN  Both(act, Both(ProcessScale(m, n), ProcessInput(m, n.ins[3])))

InstanceNormOutputs(m, n, ins) ==
  LET out == OutputTensor(m, n.outs[1])
      to == InstanceNormShape(m, out.shape)
      name == New(n, out.name, "_reshape")
      par == [eps |-> Eps(n)]
  IN  IF to = out.shape THEN ProcessOutputs(m, n, ins, par, "InstanceNorm")
      ELSE NativeOp("InstanceNorm", ins, name, to, out.dt, out.q, par)
           \o AddReshapeNode(name, out.name, to, out.shape, out.dt, out.q, FALSE, IsGraphOutput(m, out.name))

GroupNormSupported(m, n) ==
  /\ DataTypeCheckForCpuBackend(m, n.ins[1])
  /\ Len(n.outs) = 1 /\ Rank(n.ins[1]) > 2
  /\ OnnxShape(n.ins[2]) = <<ChannelsOf(n)>> /\ OnnxShape(n.ins[3]) = <<ChannelsOf(n)>>
  /\ Eps(n) > 0 /\ Get(n, "num_groups", 1) > 0 /\ ChannelsOf(n) % Get(n, "num_groups", 1) = 0

GroupNormOutputs(m, n, ins) ==
  ProcessOutputs(m, n, ins, [eps |-> Eps(n), group |-> Get(n, "num_groups", 1)], "GroupNorm")
=============================================================================
