---------------------------- MODULE LinearFusions ----------------------------
(***************************************************************************)
(* Fusions of matrix products, convolutions and whole normalizations        *)
(* (builder/qnn_node_group).                                                *)
(***************************************************************************)
EXTENDS BlockFusions

(***************************************************************************)
(* LayerNorm: (x - mean) / sqrt(mean of squares + epsilon), with a constant *)
(* factor and a constant summand behind it if they fit.                     *)
(***************************************************************************)
FindConstantInput(n) == LET cs == SelectSeq(n.ins, IsConst) IN IF cs = <<>> THEN <<>> ELSE <<cs[1]>>

FirstScalar(n) == SelectSeq([j \in 1..Len(n.ins) |-> GetScalarConstantValue(n.ins[j])], LAMBDA c : c # <<>>)

\* The Pow and the Div that read the Sub, <<>> if there are other readers.
SubReaders(v, sub) ==
  LET readers == {u[1] : u \in Uses(v, v.ns[sub].outs[1].name)}
      Of(type) == {j \in readers : v.ns[j].op = type}
  IN  IF /\ Cardinality(Uses(v, v.ns[sub].outs[1].name)) = 2
         /\ \A j \in readers : j \notin v.taken /\ Standalone(v.ns[j])
         /\ Of("Pow") # {} /\ Of("Div") # {}
      THEN <<CHOOSE j \in Of("Pow") : TRUE, CHOOSE j \in Of("Div") : TRUE>> ELSE <<>>

\* From the first ReduceMean to the Div.
CoreChain(v, k, sub, pair, chain) ==
  LET mean == v.ns[chain[2]]
      axes == GetReduceAxes(v.ns[k])
      rank == Rank(v.ns[k].ins[1])
  IN  IF chain = <<>> THEN <<>>
      ELSE IF /\ Get(mean, "keepdims", 1) = 1
              /\ axes # <<>> /\ GetReduceAxes(mean) = axes
              /\ axes[1] # {} /\ axes[1] = (rank - Cardinality(axes[1]))..(rank - 1)
              /\ FirstScalar(v.ns[chain[3]]) # <<>>
              /\ chain[5] = pair[2]
              /\ v.ns[pair[2]].ins[1].name = v.ns[sub].outs[1].name
      THEN <<k, sub>> \o chain ELSE <<>>

CorePair(v, k, sub, pair) ==
  IF pair = <<>> THEN <<>>
  ELSE IF IsScalarConstant(v.ns[pair[1]].ins[2], 2)
  THEN CoreChain(v, k, sub, pair, Chain(v, pair[1], <<"ReduceMean", "Add", "Sqrt", "Div">>)) ELSE <<>>

CoreSub(v, k, sub) ==
  IF sub = 0 THEN <<>>
  ELSE IF v.ns[sub].ins[1].name = v.ns[k].ins[1].name THEN CorePair(v, k, sub, SubReaders(v, sub)) ELSE <<>>

LayerNormCore(v, k) ==
  IF Standalone(v.ns[k]) /\ Get(v.ns[k], "keepdims", 1) = 1
  THEN CoreSub(v, k, GetOnlyChildOfType(v, k, {"Sub"})) ELSE <<>>

\* The shape of the factor or the summand without the axes that are not
\* normalized, <<>> if it does not fit.
ValidateAndSqueezeScaleShape(scale, in, axes) ==
  LET normalized == SubSeq(in, Len(in) - Cardinality(axes) + 1, Len(in))
  IN  CASE Len(scale) = Cardinality(axes) -> IF scale = normalized THEN <<normalized>> ELSE <<>>
        [] Len(scale) = Len(in) ->
             IF scale = [j \in 1..(Len(in) - Cardinality(axes)) |-> 1] \o normalized THEN <<normalized>> ELSE <<>>
        [] OTHER -> <<>>

\* tail: how many of the factor, of the unit mul, and the summand, of the unit
\* add, are taken in.
LayerNormTail(v, k, core, mul, add, tail) ==
  LET x == v.ns[k].ins[1]
      Fits(j) == LET c == FindConstantInput(v.ns[j])
                 IN  IF c = <<>> THEN FALSE
                     ELSE ValidateAndSqueezeScaleShape(OnnxShape(c[1]), OnnxShape(x), GetReduceAxes(v.ns[k])[1]) # <<>>
      synthesizes == x.q = NoQ /\ x.dt \in {"f32", "f16"}
  IN  IF tail = 0 THEN (IF synthesizes THEN Group("LayerNorm", core, k) ELSE NoMatch)
      ELSE IF mul = 0 THEN NoMatch
      ELSE IF ~Fits(mul) THEN NoMatch
      ELSE IF tail = 1 THEN (IF synthesizes THEN Group("LayerNorm", Append(core, mul), k) ELSE NoMatch)
      ELSE IF add = 0 THEN NoMatch
      ELSE IF Fits(add) THEN Group("LayerNorm", core \o <<mul, add>>, k) ELSE NoMatch

LayerNormScale(v, k, core, mul, tail) ==
  LayerNormTail(v, k, core, mul, GetOnlyChildOfType(v, mul, {"Add"}), tail)

LayerNormFrom(v, k, core, tail) ==
  IF core = <<>> THEN NoMatch ELSE LayerNormScale(v, k, core, GetOnlyChildOfType(v, LastOf(core), {"Mul"}), tail)

LayerNormMatch(v, k, tail) == LayerNormFrom(v, k, LayerNormCore(v, k), tail)

\* Several axes are made one, which HTP requires.
LayerNormSteps(m, U) ==
  LET x == U[1].ins[1] y == LastOf(U).outs[1]
      s == OnnxShape(x)
      axes == GetReduceAxes(U[1])[1]
      flatten == Cardinality(axes) > 1
      normalized == SubSeq(s, Len(s) - Cardinality(axes) + 1, Len(s))
      N1 == Prod(normalized)
      flat == <<Prod(s) \div N1, N1>>
      from == IF flatten THEN New(U[1], <<>>, "_ln_flat_x") ELSE x.name
      to == IF flatten THEN New(U[1], <<>>, "_ln_flat_out") ELSE y.name
      Param(j) == IF Len(U) < j THEN <<>> ELSE FindConstantInput(U[j])
      shape == IF flatten THEN <<N1>> ELSE normalized
      ParamName(j, suffix) == IF Param(j) = <<>> THEN New(U[1], <<>>, suffix)
                              ELSE IF flatten THEN New(U[1], Param(j)[1].name, "_ln_flat") ELSE Param(j)[1].name
      AddParam(j, suffix, value) ==
        IF Param(j) = <<>> THEN AddStatic(ParamName(j, suffix), x.dt, NoQ, Fill(shape, value))
        ELSE LET c == Param(j)[1] IN AddStatic(ParamName(j, suffix), c.dt, c.q, Reshape(c.val[1], shape))
  IN  <<MakeTensorWrapper(m, x)>>
      \o When(flatten, AddReshapeNode(x.name, from, s, flat, x.dt, x.q, FALSE, FALSE))
      \o << AddParam(8, "_gamma_ones", 1), AddParam(9, "_beta_zeros", 0),
            IF flatten THEN AddWrapper(to, "native", flat, y.dt, y.q) ELSE MakeTensorWrapper(m, y),
            Op("LayerNorm", <<from, ParamName(8, "_gamma_ones"), ParamName(9, "_beta_zeros")>>, <<to>>,
               [axes |-> IF flatten THEN {1} ELSE axes, eps |-> FirstScalar(U[5])[1][1]]) >>
      \o When(flatten, <<MakeTensorWrapper(m, y)>>
                       \o AddReshapeNode(to, y.name, flat, OnnxShape(y), y.dt, y.q, FALSE, FALSE))

(***************************************************************************)
(* A Reshape in front of a Gemm is what FullyConnected does itself; of the  *)
(* Reshapes behind it the last is kept.                                     *)
(***************************************************************************)
IsValidGemmForFusion(n) ==
  /\ n.op = "Gemm" /\ Standalone(n)
  /\ ~TransA(n) /\ ~TransB(n)
  /\ Get(n, "alpha", 1) = 1 /\ Get(n, "beta", 1) = 1
  /\ IsConst(n.ins[2])

GetInputReshapeNodeUnit(v, k) == GetParentOfType(v, k, {"Reshape", "Flatten"})

InputReshapeIsShared(v, j) == Cardinality(Uses(v, v.ns[j].outs[1].name)) > 1

GetWeightInputChannel(n) == LET s == OnnxShape(n.ins[2]) IN IF Len(s) = 2 THEN s[1] ELSE -1

CheckShape(reshape, channels) ==
  LET in == InShape(reshape) out == OutShape(reshape)
  IN  /\ Len(in) <= 4 /\ Len(out) = 2
      /\ out[2] = channels
      /\ \A d \in ToSet(in) : d > 0
      /\ Prod(in) = Prod(out)

\* after: how many Reshapes behind the Gemm are taken in.
ReshapeGemmMatch(v, k, after) ==
  LET n == v.ns[k]
      before == GetInputReshapeNodeUnit(v, k)
      chain == ChainAllowQdq(v, k, [j \in 1..after |-> "Reshape"])
  IN  IF UseNativeMatMul(v.m) \/ ~IsValidGemmForFusion(n) \/ before = 0 THEN NoMatch
      ELSE IF InputReshapeIsShared(v, before) \/ chain = <<>> THEN NoMatch
      ELSE IF GetWeightInputChannel(n) > 0 /\ CheckShape(v.ns[before], GetWeightInputChannel(n))
      THEN Group("ReshapeGemm", <<before>> \o chain, k) ELSE NoMatch

\* The weight is transposed under its own name.
ReshapeGemmSteps(m, U) ==
  LET x == U[1].ins[1] w == U[2].ins[2] fc == U[2].outs[1]
      bias == SubSeq(U[2].ins, 3, Len(U[2].ins))
      reshapes == Len(U) > 2
      out == LastOf(U).outs[1]
      result == IF reshapes THEN New(U[2], <<>>, "_fc_out") ELSE fc.name
  IN  << MakeTensorWrapper(m, x), AddStatic(w.name, w.dt, NoQ, Transpose(w.val[1], <<1, 0>>)) >>
      \o [j \in 1..Len(bias) |-> MakeTensorWrapper(m, bias[j])]
      \o <<IF reshapes THEN AddWrapper(result, "native", OnnxShape(fc), fc.dt, fc.q) ELSE MakeTensorWrapper(m, fc)>>
      \o When(reshapes, <<AddWrapper(out.name, OutputType(m, out.name), OnnxShape(out), out.dt, out.q)>>)
      \o <<Op("FullyConnected", <<x.name, w.name>> \o [j \in 1..Len(bias) |-> bias[j].name], <<result>>, NoTranspose)>>
      \o When(reshapes, <<Op("Reshape", <<result>>, <<out.name>>, NoPar)>>)

(***************************************************************************)
(* DynamicQuantizeLinear and MatMulInteger or ConvInteger, with the product *)
(* of the two scales behind: the product of the float itself.  Several      *)
(* integer operators may read one DynamicQuantizeLinear; the first fusion   *)
(* takes it in.                                                             *)
(***************************************************************************)
\* The producer of the integers, which a fusion of the same kind may have.
FindParentDql(v, k, fusion) ==
  LET makers == {j \in 1..Len(v.ns) : v.ns[k].ins[1].name \in OutNames(v.ns[j])}
      dql == CHOOSE j \in makers : TRUE
  IN  IF makers = {} THEN 0
      ELSE IF \E g \in v.groups : dql \in ToSet(g.members) /\ g.fusion # fusion THEN 0
      ELSE IF IsSingleNode(v, dql, "DynamicQuantizeLinear") THEN dql ELSE 0

ConsumersAreAllOfType(v, x, type) ==
  /\ ~IsGraphOutput(v.m, x)
  /\ \A u \in Uses(v, x) : IsSingleNode(v, u[1], type)

ConsumersAreAllParallelMuls(v, x) ==
  /\ ~IsGraphOutput(v.m, x)
  /\ \A u \in Uses(v, x) : /\ IsSingleNode(v, u[1], "Mul")
                           /\ IsConst(v.ns[u[1]].ins[IF v.ns[u[1]].ins[1].name = x THEN 2 ELSE 1])

\* The inputs of a unit other than the tensor x.
Other(n, x) == SelectSeq(n.ins, LAMBDA io : io.name # x)

\* A standalone unit that is the only reader of unit j.
OnlyReader(v, j, type) ==
  LET c == IF j = 0 THEN 0 ELSE OnlyChild(v, j) IN IF IsSingleNode(v, c, type) THEN c ELSE 0

IsFloatConst(io, shapes) == IsConst(io) /\ io.dt = "f32" /\ OnnxShape(io) \in shapes

\* The units behind an integer operator: Cast, the product of the scales, the
\* Mul by it and, if there is one, the Add of a constant.
RequantTail(v, k, aScale, scaleShapes, biasShapes) ==
  LET cast == OnlyReader(v, k, "Cast")
      requant == OnlyReader(v, cast, "Mul")
      factor == Other(v.ns[requant], v.ns[cast].outs[1].name)
      parallel == GetParentOfInputByName(v, factor[1].name)
      scale == Other(v.ns[parallel], aScale)
      next == OnlyChild(v, requant)
      bias == Other(v.ns[next], v.ns[requant].outs[1].name)
  IN  IF cast = 0 \/ requant = 0 THEN <<>>
      ELSE IF v.ns[cast].outs[1].dt # "f32" \/ Len(factor) # 1 THEN <<>>
      ELSE IF ~IsSingleNode(v, parallel, "Mul") THEN <<>>
      ELSE IF OnlyChild(v, parallel) # requant \/ Len(scale) # 1 THEN <<>>
      ELSE IF ~IsFloatConst(scale[1], scaleShapes) THEN <<>>
      ELSE IF OpOf(v, next) # "Add" THEN <<cast, parallel, requant>>
      ELSE IF Standalone(v.ns[next]) /\ Len(bias) = 1 /\ IsFloatConst(bias[1], biasShapes)
      THEN <<cast, parallel, requant, next>> ELSE <<>>

IsByteType(dt) == dt \in {"sf8", "i8", "uf8", "u8"}

\* The operands of an integer operator.
IntegerOperandsFit(n) ==
  /\ Len(n.ins) \in 3..4 /\ Exists(n.ins[3])
  /\ IsConst(n.ins[2]) /\ IsByteType(n.ins[2].dt)
  /\ Len(n.ins) = 4 => ConstantOrMissing(n.ins[4])

\* Both fusions, for the integer operator k that reads dql.
DQIntegerMatch(v, k, fusion, dql, tail) ==
  LET n == v.ns[k] d == v.ns[dql]
      claimed == \E g \in v.groups : dql \in ToSet(g.members)
      members == (IF claimed THEN <<>> ELSE <<dql>>) \o <<k>> \o tail
  IN  IF /\ n.ins[1].name = d.outs[1].name /\ n.ins[3].name = d.outs[3].name
         /\ tail # <<>>
         /\ ConsumersAreAllOfType(v, d.outs[1].name, n.op)
         /\ ConsumersAreAllParallelMuls(v, d.outs[2].name)
         /\ ConsumersAreAllOfType(v, d.outs[3].name, n.op)
      THEN <<[fusion |-> fusion, members |-> members, target |-> k, input |-> d.ins[1]]>> ELSE NoMatch

ZeroPoints(n) == IF Len(n.ins) = 4 /\ Exists(n.ins[4]) THEN Data(n.ins[4]) ELSE <<>>

\* The weight's encoding from the constants B_scale and B_zp.
BuildWeightQuantParams(scale, zps, axis) ==
  LET s == Data(scale)
      Offset(j) == IF zps = <<>> THEN 0 ELSE IF Len(zps) = 1 THEN 0 - zps[1] ELSE 0 - zps[j]
  IN  IF Len(s) = 1 THEN PerTensor(s[1], Offset(1)) ELSE <<s, [j \in 1..Len(s) |-> Offset(j)], axis>>

\* QNN's Dequantize takes one scale; a weight with more is made float here,
\* along its last axis.
FloatWeight(base, w, q, dt) ==
  LET codes == base \o <<"_quant">> name == base \o <<"_f32">>
  IN  IF IsPerChannel(q)
      THEN <<AddStatic(name, "f32", NoQ, Real(w, <<q[1], q[2], Len(w.shape) - 1>>))>>
      ELSE << AddStatic(codes, IF dt \in {"sf8", "i8"} THEN "sf8" ELSE "uf8", q, w),
              AddWrapper(name, "native", w.shape, "f32", NoQ), Op("Dequantize", <<codes>>, <<name>>, NoPar) >>

\* The place of the integer operator in the group.
IntegerAt(U) == IF U[1].op = "DynamicQuantizeLinear" THEN 2 ELSE 1

ScaleInput(U) == CHOOSE io \in ToSet(U[IntegerAt(U) + 2].ins) : IsConst(io)

\* The constant that is added to the tensor from.
BiasAdd(m, U, from) ==
  LET add == LastOf(U) out == add.outs[1]
      bias == Other(add, U[Len(U) - 1].outs[1].name)[1]
  IN  <<MakeTensorWrapper(m, bias), AddWrapper(out.name, OutputType(m, out.name), OnnxShape(out), "f32", NoQ),
        Op("Add", <<from, bias.name>>, <<out.name>>, NoPar)>>

DQMatMulIntegerMatch(v, k) ==
  LET n == v.ns[k]
      dql == FindParentDql(v, k, "DQMatMulInteger")
      a == OnnxShape(n.ins[1]) b == OnnxShape(n.ins[2])
      rows == {<<b[2]>>, <<1, b[2]>>}
  IN  IF ~IntegerOperandsFit(n) \/ ~Standalone(n) \/ dql = 0 THEN NoMatch
      ELSE IF Len(a) < 2 \/ Len(b) # 2 \/ LastOf(a) # b[1] THEN NoMatch
      ELSE DQIntegerMatch(v, k, "DQMatMulInteger", dql,
                          RequantTail(v, k, v.ns[dql].outs[2].name, {<<>>, <<1>>} \cup rows, rows))

DQMatMulIntegerSteps(m, u, U) ==
  LET n == U[IntegerAt(U)]
      x == u.input out == LastOf(U).outs[1]
      hasBias == LastOf(U).op = "Add"
      weight == New(n, <<>>, "_w")
      product == IF hasBias THEN New(n, <<>>, "_matmul_out") ELSE out.name
  IN  <<AddWrapper(x.name, IF IsGraphInput(m, x.name) THEN "input" ELSE "native", OnnxShape(n.ins[1]), "f32", NoQ)>>
      \o FloatWeight(weight, n.ins[2].val[1], BuildWeightQuantParams(ScaleInput(U), ZeroPoints(n), 1), n.ins[2].dt)
      \o <<AddWrapper(product, IF hasBias THEN "native" ELSE OutputType(m, product), OnnxShape(out), "f32", NoQ),
           Op("MatMul", <<x.name, weight \o <<"_f32">>>>, <<product>>, NoTranspose)>>
      \o When(hasBias, BiasAdd(m, U, product))

IsConvIntegerStructurallyFusible(n) ==
  /\ n.domain # "nhwc" /\ n.op = "ConvInteger" /\ Standalone(n)
  /\ IntegerOperandsFit(n)
  /\ Rank(n.ins[1]) = 4 /\ Rank(n.ins[2]) = 4
  /\ Get(n, "auto_pad", "NOTSET") = "NOTSET"

DQConvIntegerMatch(v, k) ==
  LET n == v.ns[k]
      dql == FindParentDql(v, k, "DQConvInteger")
      channels == OnnxShape(n.ins[2])[1]
      rows == {<<channels>>, <<1, channels, 1, 1>>}
      readers == Uses(v, n.ins[1].name)
  IN  IF ~IsConvIntegerStructurallyFusible(n) \/ dql = 0 THEN NoMatch
      ELSE IF \E r \in readers : ~IsConvIntegerStructurallyFusible(v.ns[r[1]]) THEN NoMatch
      ELSE DQIntegerMatch(v, k, "DQConvInteger", dql,
                          RequantTail(v, k, v.ns[dql].outs[2].name, {<<>>, <<1>>} \cup rows, rows))

\* The image's way to channel-last and back, which is registered even when
\* the fusion is only validated.
ConvIntegerTransposes(m, u, U) ==
  LET n == U[IntegerAt(U)]
      x == u.input.name
      in == OnnxShape(n.ins[1])
      out == LastOf(U).outs[1]
      hasBias == LastOf(U).op = "Add"
      Base(suffix) == New(n, <<>>, suffix)
      to == IF hasBias THEN Base("_conv_nchw") ELSE out.name
  IN  [before |-> AddTransposeNode(x, Base("_input_nhwc"), in, ToNhwc4, PermuteShape(in, ToNhwc4), "f32", NoQ,
                                   IsGraphInput(m, x), FALSE),
       after |-> AddTransposeNode(Base("_conv_nhwc"), to, PermuteShape(OnnxShape(out), ToNhwc4), ToNchw4, OnnxShape(out),
                                  "f32", NoQ, FALSE, ~hasBias /\ IsGraphOutput(m, out.name)),
       result |-> to]

DQConvIntegerSupportSteps(m, u, U) ==
  LET t == ConvIntegerTransposes(m, u, U) IN t.before \o t.after

DQConvIntegerSteps(m, u, U) ==
  LET n == U[IntegerAt(U)]
      w == n.ins[2]
      t == ConvIntegerTransposes(m, u, U)
      Base(suffix) == New(n, <<>>, suffix)
      group == Get(n, "group", 1)
      in == OnnxShape(n.ins[1])
      pads == Get(n, "pads", <<0, 0, 0, 0>>)
      depthwise == group = in[2] /\ group = w.shape[1]
      result == PermuteShape(OnnxShape(LastOf(U).outs[1]), ToNhwc4)
  IN  t.before
      \o FloatWeight(Base("_w_hwcn"), Transpose(w.val[1], <<2, 3, 1, 0>>),
                     BuildWeightQuantParams(ScaleInput(U), ZeroPoints(n), 0), w.dt)
      \o <<AddWrapper(Base("_conv_nhwc"), "native", result, "f32", NoQ),
           Op(IF depthwise THEN "DepthWiseConv2d" ELSE "Conv2d", <<Base("_input_nhwc"), Base("_w_hwcn") \o <<"_f32">>>>,
              <<Base("_conv_nhwc")>>,
              [group |-> group, stride |-> Get(n, "strides", <<1, 1>>), dilation |-> Get(n, "dilations", <<1, 1>>),
               pad |-> <<<<pads[1], pads[3]>>, <<pads[2], pads[4]>>>>])>>
      \o t.after
      \o When(LastOf(U).op = "Add", BiasAdd(m, U, t.result))
=============================================================================
