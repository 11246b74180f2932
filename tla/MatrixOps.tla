------------------------------ MODULE MatrixOps ------------------------------
(***************************************************************************)
(* The matrix builders of builder/opbuilder/: matmul_op_builder.cc,         *)
(* qlinear_matmul_op_builder.cc, gemm_op_builder.cc and                     *)
(* fusedmatmul_op_builder.cc.                                               *)
(***************************************************************************)
EXTENDS ConvOps

UseNativeMatMul(m) == "native_matmul" \in m.opts

(***************************************************************************)
(* MatMul and QLinearMatMul: operands a and b.  QNN has no operands of rank *)
(* 1, and its FullyConnected takes a weight [n, k] and a matrix.            *)
(***************************************************************************)
IsQuant16bit(dt) == dt \in {"uf16", "sf16"}

UseFullyConnected(m, a, b) ==
  /\ ~UseNativeMatMul(m)
  /\ (Rank(b) = 2 /\ IsConst(b)) \/ Rank(b) = 1
  /\ ~(IsPerChannel(a.q) /\ Rank(a) > 2)
  /\ ~(IsQuant16bit(a.dt) /\ ~IsConst(a) /\ IsQuant16bit(b.dt) /\ ~IsConst(b))

FlattenLeadingDims(io) == Prod(OnnxShape(io)) \div LastDim(io)

\* An operand in another shape: a static tensor or a Reshape.
Reshaped(m, n, io, shape) ==
  LET name == New(n, io.name, "_reshape")
      q == HandleUnsqueeze(io.q, OnnxShape(io), shape)
  IN  [names |-> <<name>>,
       steps |-> IF IsConst(io) THEN <<AddStatic(name, io.dt, q, Reshape(io.val[1], shape))>>
                 ELSE AddReshapeNodeOf(io.name, name, OnnxShape(io), shape, io.dt, io.q, q,
                                       IsGraphInput(m, io.name), FALSE)]

ProcessInput0(m, n, a, fc) ==
  IF Rank(a) = 1 THEN Reshaped(m, n, a, <<1, LastDim(a)>>)
  ELSE IF fc /\ Rank(a) > 2 THEN Reshaped(m, n, a, <<FlattenLeadingDims(a), LastDim(a)>>)
  ELSE ProcessInput(m, a)

ProcessInput1(m, n, b, fc) ==
  IF Rank(b) = 1 THEN Reshaped(m, n, b, IF fc THEN <<1, LastDim(b)>> ELSE <<LastDim(b), 1>>)
  ELSE IF ~fc THEN ProcessInput(m, b)
  ELSE LET name == New(n, b.name, "_transpose")
       IN  [names |-> <<name>>,
            steps |-> <<AddStatic(name, b.dt, HandleTranspose(b.q, <<1, 0>>), Transpose(b.val[1], <<1, 0>>))>>]

\* Scales are in units of the error budget: re-encoding with 8 bits moves a
\* value by more than the budget from this scale on.
U8Budget == 3

ShouldUseSymmetricU16ForMatMul(scale) == scale >= U8Budget

NeedsWeightConvert(m, a, b, fc) ==
  IF fc THEN IsHtp(m) /\ b.dt = "uf16" ELSE IsHtp(m) /\ ~IsConst(a) /\ a.dt = "uf16" /\ b.dt = "uf16"

\* HTP takes no asymmetric 16-bit weight.
ConvertWeight(m, n, a, b, fc, weight) ==
  LET name == weight.names[1]
      out == New(n, name, "_convert")
      shape == Do(m, weight.steps).tensors[name].shape
      steps == IF fc \/ IsConst(b) THEN InsertSymmetricConvertOp(name, out, "uf16", "sf16", b.q, shape)
               ELSE IF ShouldUseSymmetricU16ForMatMul(b.q[1])
               THEN InsertSymmetricConvertOp(name, out, "uf16", "uf16", b.q, shape)
               ELSE InsertConvertOp(name, out, "uf16", "uf8", b.q, shape, "native")
  IN  IF ~NeedsWeightConvert(m, a, b, fc) \/ (~fc /\ ~IsConst(b) /\ b.q[2] = -32768) THEN weight
      ELSE [steps |-> weight.steps \o steps, names |-> <<out>>]

\* The op's own result: in the shape that its operands have for it.
MatMulResult(m, a, b, out, fc) ==
  LET shape == CASE fc /\ Rank(a) > 2 -> <<FlattenLeadingDims(a), IF Rank(b) = 1 THEN 1 ELSE LastDim(b)>>
                 [] Rank(b) = 1 -> Append(out.shape, 1)
                 [] Rank(a) = 1 -> Insert(out.shape, Len(out.shape) - 1, 1)
                 [] OTHER -> out.shape
  IN  [out EXCEPT !.shape = shape, !.q = HandleUnsqueeze(@, out.shape, shape)]

ReshapesOutput(a, b, fc) == Rank(a) = 1 \/ Rank(b) = 1 \/ (fc /\ Rank(a) > 2)

NoTranspose == [in0 |-> FALSE, in1 |-> FALSE]

\* The op that writes result, and the Reshape to out, if there is one.
AroundReshape(m, n, a, b, out, fc, Steps(_)) ==
  LET result == MatMulResult(m, a, b, out, fc)
      name == New(n, out.name, "_reshape")
  IN  IF ~ReshapesOutput(a, b, fc) THEN Steps(result)
      ELSE Steps([result EXCEPT !.name = name, !.kind = "native"])
           \o AddReshapeNodeOf(name, out.name, result.shape, out.shape, out.dt, result.q, out.q, FALSE,
                               IsGraphOutput(m, out.name))

MatMulSupported(m, n) ==
  LET a == n.ins[1] b == n.ins[2] fc == UseFullyConnected(m, a, b)
  IN  /\ NeedsWeightConvert(m, a, b, fc) => ~IsPerChannel(b.q)
      /\ fc /\ Rank(a) > 2 => ~IsPerChannel(n.outs[1].q)

MatMulInputs(m, n) ==
  LET a == n.ins[1] b == n.ins[2] fc == UseFullyConnected(m, a, b)
  IN  Both(ProcessInput0(m, n, a, fc), ConvertWeight(m, n, a, b, fc, ProcessInput1(m, n, b, fc)))

MatMulOutputs(m, n, ins) ==
  LET a == n.ins[1] b == n.ins[2] fc == UseFullyConnected(m, a, b)
      wide == IF IsHtp(m) THEN ConvertActivationToOutputPrecision(m, n, ins, n.outs[1].dt)
              ELSE [steps |-> <<>>, names |-> ins]
      m1 == Do(m, wide.steps)
  IN  wide.steps
      \o AroundReshape(m, n, a, b, OutputTensor(m, n.outs[1]), fc,
                       LAMBDA result : AddOpWithQuantizedOutput(m1, n, IF fc THEN "FullyConnected" ELSE "MatMul",
                                         wide.names, NoTranspose, result, m1.tensors[wide.names[1]].dt))

\* QLinearMatMul's operands: integers that get the encodings of its inputs.
QOperand(n, k, s) == [n.ins[k] EXCEPT !.q = QuantParam(n, s, s + 1), !.dt = FixedPoint(@)]

QA(n) == QOperand(n, 1, 2)

QB(n) == QOperand(n, 4, 5)

QLinearMatMulSupported(m, n) ==
  /\ \A k \in {2, 5, 7} : IsConst(n.ins[k]) /\ OneElement(n.ins[k])
  /\ \A k \in {3, 6, 8} : ConstantOrMissing(n.ins[k])

QLinearMatMulInputs(m, n) ==
  LET fc == UseFullyConnected(m, QA(n), QB(n))
  IN  Both(ProcessInput0(m, n, QA(n), fc), ProcessInput1(m, n, QB(n), fc))

QLinearMatMulOutputs(m, n, ins) ==
  LET fc == UseFullyConnected(m, QA(n), QB(n))
      out == [OutputTensor(m, n.outs[1]) EXCEPT !.dt = FixedPoint(@), !.q = QuantParam(n, 7, 8)]
  IN  AroundReshape(m, n, QA(n), QB(n), out, fc,
                    LAMBDA r : <<AddWrapper(r.name, r.kind, r.shape, r.dt, r.q),
                                 Op(IF fc THEN "FullyConnected" ELSE "MatMul", ins, <<r.name>>, NoTranspose)>>)

(***************************************************************************)
(* Gemm.  A unit that the QDQ selector gave a Reshape has the attribute     *)
(* absorbed.                                                                *)
(***************************************************************************)
TransA(n) == Get(n, "transA", 0) # 0

TransB(n) == Get(n, "transB", 0) # 0

HasGemmBias(n) == Len(n.ins) = 3 /\ Get(n, "beta", 1) # 0

OutputChannels(n) == LET s == n.ins[2].shape IN IF TransB(n) THEN s[1] ELSE s[2]

IsCompatibleFcBiasShape(shape, channels) == shape \in {<<channels>>, <<1, channels>>}

RequiresFcAddDecomposition(m, n) ==
  /\ HasGemmBias(n)
  /\ \/ GetTensorType(m, n.ins[3]) = "native"
     \/ Rank(n.ins[2]) = 2 /\ ~IsCompatibleFcBiasShape(OnnxShape(n.ins[3]), OutputChannels(n))

GetLoweringPlan(m, n) ==
  CASE HasAttr(n, "absorbed") -> "reshaped"
    [] RequiresFcAddDecomposition(m, n) \/ (UseNativeMatMul(m) /\ HasGemmBias(n)) -> "decomposed"
    [] OTHER -> "single"

\* Whether operand k of a FullyConnected is transposed.
TransFlag(m, n, k) ==
  ~UseNativeMatMul(m) /\ CASE k = 1 -> TransA(n) [] k = 2 -> ~TransB(n) [] OTHER -> FALSE

GemmSupported(m, n) ==
  LET plan == GetLoweringPlan(m, n)
  IN  /\ IsHtp(m) /\ NeedsPrecisionConvert(n.ins[1].dt, n.outs[1].dt) => plan = "single"
      /\ m.dov =>
           /\ Get(n, "alpha", 1) = 1
           /\ Get(n, "beta", 1) \in {0, 1}
           /\ HasGemmBias(n) /\ plan # "decomposed" =>
                /\ Rank(n.ins[2]) = 2
                /\ IsCompatibleFcBiasShape(OnnxShape(n.ins[3]), OutputChannels(n))
      /\ \A k \in {1, 2} : TransFlag(m, n, k) /\ ~IsConst(n.ins[k]) => ~IsPerChannel(n.ins[k].q)
      /\ plan = "reshaped" => Rank(n.ins[1]) = 2 /\ Rank(n.ins[2]) = 2 /\ ~TransA(n) /\ ~TransB(n)

\* A static operand is transposed under its own name.
RegisterGemmInput(m, n, k) ==
  LET io == n.ins[k] s == OnnxShape(io)
      name == io.name \o <<"_transpose">>
      vector == IF k = 3 /\ Len(s) = 2 /\ s[1] = 1 THEN <<s[2]>> ELSE s
      w == MakeTensorWrapper(m, io)
  IN  IF ~TransFlag(m, n, k)
      THEN [names |-> <<io.name>>,
            steps |-> <<[w EXCEPT !.t.shape = vector, !.t.data = IF @ = <<>> THEN @ ELSE <<Reshape(@[1], vector)>>]>>]
      ELSE IF IsConst(io)
      THEN [names |-> <<io.name>>,
            steps |-> <<AddStatic(io.name, io.dt, HandleTranspose(io.q, <<1, 0>>), Transpose(io.val[1], <<1, 0>>))>>]
      ELSE [names |-> <<name>>,
            steps |-> AddTransposeNode(io.name, name, s, <<1, 0>>, <<s[2], s[1]>>, io.dt, io.q,
                                       IsGraphInput(m, io.name), FALSE)]

\* act is the first operand as FullyConnected reads it, of encoding actQ.
GemmOperands(m, n, act, actQ, widens) ==
  LET bias == IF ~HasGemmBias(n) THEN NoInputs
              ELSE IF widens /\ BiasHandled(n.ins[3], actQ, n.ins[2].q)
              THEN ProcessBiasForQuantizedOp(n, n.ins[3], actQ, n.ins[2].q)
              ELSE RegisterGemmInput(m, n, 3)
  IN  Both(act, Both(RegisterGemmInput(m, n, 2), bias))

GemmActivation(m, n, act, widens) == GemmOperands(m, n, act, Do(m, act.steps).tensors[act.names[1]].q, widens)

\* m1 is the wrapper with the first operand a.
GemmAfter(m, n, a, m1) ==
  IF IsHtp(m) /\ WidensActivation(m1, a.names, n.outs[1].dt)
  THEN GemmActivation(m, n, Both([a EXCEPT !.names = <<>>],
                                 ConvertActivationToOutputPrecision(m1, n, a.names, n.outs[1].dt)), TRUE)
  ELSE GemmActivation(m, n, a, FALSE)

GemmFrom(m, n, a) == GemmAfter(m, n, a, Do(m, a.steps))

GemmInputs(m, n) == GemmFrom(m, n, RegisterGemmInput(m, n, 1))

GemmOutputs(m, n, ins) ==
  LET plan == GetLoweringPlan(m, n)
      out == n.outs[1]
      fc == out.name \o <<"_fc">>
      op == IF UseNativeMatMul(m) THEN "MatMul" ELSE "FullyConnected"
      par == IF UseNativeMatMul(m) THEN [in0 |-> TransA(n), in1 |-> TransB(n)] ELSE NoTranspose
  IN  CASE plan = "reshaped" ->
             NativeOp("FullyConnected", ins, fc, <<n.ins[1].shape[1], n.ins[2].shape[2]>>, out.dt, out.q, NoTranspose)
             \o OutputOp(m, "Reshape", <<fc>>, out, NoPar)
        [] plan = "decomposed" ->
             NativeOp(op, SubSeq(ins, 1, 2), fc, OnnxShape(out), n.ins[1].dt, NoQ, par)
             \o OutputOp(m, "Add", <<fc, ins[3]>>, out, NoPar)
        [] OTHER -> ProcessOutputsAcrossPrecision(m, n, ins, par, op, m.tensors[ins[1]].dt)

(***************************************************************************)
(* FusedMatMul.  A batch transposition moves the first axis behind the      *)
(* others.                                                                  *)
(***************************************************************************)
Flag(n, a) == Get(n, a, 0) # 0

CreateBatchTransposePermVector(r, transMat) ==
  [k \in 1..(r - 2) |-> k] \o (IF transMat THEN <<r - 1, 0>> ELSE <<0, r - 1>>)

BatchTransposed(n, k) == Flag(n, IF k = 1 THEN "transBatchA" ELSE "transBatchB") /\ Rank(n.ins[k]) > 2

TransMat(n, k) == Flag(n, IF k = 1 THEN "transA" ELSE "transB")

\* The parameter of both Transpose ops has the same name, so that the first
\* of the two stands for both.
BatchPerm(n, k) ==
  LET of == IF BatchTransposed(n, 1) THEN 1 ELSE k
  IN  CreateBatchTransposePermVector(Rank(n.ins[of]), TransMat(n, of))

FusedMatMulSupported(m, n) == Len(n.ins) = 2

FusedMatMulOutputs(m, n, ins) ==
  LET out == n.outs[1]
      name(k) == New(n, ins[k], IF k = 1 THEN "_transposed_a" ELSE "_transposed_b")
      Moved(k) == IF BatchTransposed(n, k) THEN name(k) ELSE ins[k]
      HandleBatchTranspose(k) ==
        LET s == PermuteShape(OnnxShape(n.ins[k]), CreateBatchTransposePermVector(Rank(n.ins[k]), TransMat(n, k)))
        IN  When(BatchTransposed(n, k),
                 NativeOp("Transpose", <<ins[k]>>, name(k), s, n.ins[k].dt, n.ins[k].q, [perm |-> BatchPerm(n, k)]))
      par == [in0 |-> TransMat(n, 1) /\ ~Flag(n, "transBatchA"), in1 |-> TransMat(n, 2) /\ ~Flag(n, "transBatchB")]
      product == New(n, <<>>, "_matmul_output")
      alpha == New(n, <<>>, "_alpha")
      operands == <<Moved(1), Moved(2)>>
  IN  HandleBatchTranspose(1) \o HandleBatchTranspose(2)
      \o (IF Get(n, "alpha", 1) = 1 THEN OutputOp(m, "MatMul", operands, out, par)
          ELSE NativeOp("MatMul", operands, product, OnnxShape(out), out.dt, NoQ, par)
               \o <<AddStatic(alpha, out.dt, NoQ, Vec(<<n.attr.alpha>>))>>
               \o OutputOp(m, "Multiply", <<product, alpha>>, out, NoPar))
=============================================================================
