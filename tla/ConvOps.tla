------------------------------- MODULE ConvOps -------------------------------
(***************************************************************************)
(* The convolution builders: builder/opbuilder/conv_op_builder.cc (Conv and *)
(* ConvTranspose of the NHWC domain) and qlinear_conv_op_builder.cc, with   *)
(* the padding of base_op_builder.h and the biases of builder/qnn_utils.cc. *)
(* Block-quantized weights are not modelled.                                *)
(***************************************************************************)
EXTENDS Precision

(***************************************************************************)
(* Biases.                                                                  *)
(***************************************************************************)
Scales(q) == IF IsPerChannel(q) THEN q[1] ELSE <<q[1]>>

Offsets(q) == IF IsPerChannel(q) THEN q[2] ELSE <<q[2]>>

\* The weight's scale for channel c; a per-tensor weight has one for all.
GetWeightQuantScale(q, c) == IF c <= Len(Scales(q)) THEN Scales(q)[c] ELSE Scales(q)[1]

\* The encoding of an integer bias: the scale of the product that it is
\* added to, for each of the given number of channels.
BiasQuantParams(actQ, weightQ, channels) ==
  LET S == [c \in 1..channels |-> MulR(GetWeightQuantScale(weightQ, c), actQ[1])]
  IN  IF channels = 1 THEN PerTensor(S[1], 0) ELSE <<S, [c \in 1..channels |-> 0], 0>>

CheckBiasScaleMatch(q, actQ, weightQ) ==
  \A c \in 1..Len(Scales(q)) : Offsets(q)[c] = 0 /\ Scales(q)[c] = MulR(GetWeightQuantScale(weightQ, c), actQ[1])

\* A bias that ProcessBiasForQuantizedOp leaves to the builder is not handled.
BiasHandled(bias, actQ, weightQ) == IsConst(bias) /\ actQ # NoQ /\ weightQ # NoQ

\* A static bias in the encoding that the op needs.  Its name is the node's.
ProcessBiasForQuantizedOp(n, bias, actQ, weightQ) ==
  LET flat == OnnxShape(bias)
      shape == IF Len(flat) = 2 /\ flat[1] = 1 THEN <<flat[2]>> ELSE flat
      q1 == IF IsPerChannel(bias.q) THEN <<bias.q[1], bias.q[2], 0>> ELSE bias.q
      data == Reshape(bias.val[1], shape)
      kept == bias.q # NoQ /\ CheckBiasScaleMatch(q1, actQ, weightQ)
      q == IF kept THEN q1
           ELSE BiasQuantParams(actQ, weightQ, IF bias.q = NoQ THEN shape[1] ELSE Len(Scales(q1)))
      dt == IF bias.q = NoQ THEN "sf32" ELSE bias.dt
      name == <<n.name, IF bias.q = NoQ THEN "_bias_q" ELSE IF ~kept THEN "_bias_rq"
                        ELSE IF shape # flat THEN "_bias_1d" ELSE "_bias">>
  IN  [steps |-> <<AddStatic(name, dt, q, IF kept THEN data ELSE Code(Real(data, q1), q))>>, names |-> <<name>>]

(***************************************************************************)
(* Padding.                                                                 *)
(***************************************************************************)
\* C++ division rounds towards zero.
Truncated(a, b) == IF a < 0 THEN 0 - ((0 - a) \div b) ELSE a \div b

ComputeOutputShape(in, stride, kernel, pads) == Truncated(in + pads - kernel, stride) + 1

SamePadding(auto) == auto \in {"SAME_LOWER", "SAME_UPPER"}

ComputePad(in, stride, kernel, auto) ==
  LET target == CeilDiv(in, stride)
      needed == (target - 1) * stride + kernel - in
      total == IF ComputeOutputShape(in, stride, kernel, 2 * needed) < target THEN needed + 1 ELSE needed
      head == Truncated(IF auto = "SAME_LOWER" THEN total + 1 ELSE total, 2)
  IN  <<head, total - head>>

ComputeTotalPad(in, stride, adj, kernel, dilation, out) ==
  MaxOf(0, (in - 1) * stride + adj + (kernel - 1) * dilation + 1 - out)

DistributePadding(auto, total) ==
  LET half == total \div 2 IN IF auto = "SAME_UPPER" THEN <<half, total - half>> ELSE <<total - half, half>>

(***************************************************************************)
(* Conv and ConvTranspose.  A tensor of rank 3 gets a height of 1.          *)
(***************************************************************************)
IsTransposed(n) == n.op = "ConvTranspose"

AutoPad(n) == Get(n, "auto_pad", "NOTSET")

\* The weight's layout: spatial axes, input channels, output channels.
HwcnPerm(n, r) ==
  [k \in 1..r |-> IF k <= r - 2 THEN k + 1 ELSE IF IsTransposed(n) THEN k - (r - 1) ELSE r - k]

\* A row is an image of height 1; channels last and channels first.
ImageShape(s) == IF Len(s) = 3 THEN <<s[1], 1, s[2], s[3]>> ELSE s

KernelShape(s) == IF Len(s) = 3 THEN <<s[1], s[2], 1, s[3]>> ELSE s

Lift(v, first) == IF Len(v) = 1 THEN <<first>> \o v ELSE v

\* weight is the weight's shape in ONNX; in and out are channel-last shapes
\* of rank 4 or 5.
ConvParams(n, weight, in, out) ==
  LET r == Len(in) - 2
      ones == [k \in 1..r |-> 1] zeros == [k \in 1..r |-> 0]
      kernel == Lift(Get(n, "kernel_shape", SubSeq(weight, 3, Len(weight))), 1)
      stride == Lift(Get(n, "strides", ones), 1)
      dilation == IF IsTransposed(n) THEN ones ELSE Lift(Get(n, "dilations", ones), 1)
      outPad == Lift(Get(n, "output_padding", zeros), 0)
      given == Get(n, "pads", zeros \o zeros)
      pads == IF Len(given) = 2 THEN <<0, given[1], 0, given[2]>> ELSE given
      wanted == Lift(Get(n, "output_shape", SubSeq(out, 2, r + 1)), 1)
      Total(k) == ComputeTotalPad(in[k + 1], stride[k], outPad[k], kernel[k], dilation[k], wanted[k])
      Pad1(k) == CASE IsTransposed(n) /\ (HasAttr(n, "output_shape") \/ AutoPad(n) # "NOTSET") ->
                        DistributePadding(AutoPad(n), Total(k))
                   [] n.op = "Conv" /\ AutoPad(n) = "VALID" -> <<0, 0>>
                   [] SamePadding(AutoPad(n)) -> ComputePad(in[k + 1], stride[k], kernel[k], AutoPad(n))
                   [] OTHER -> <<pads[k], pads[k + r]>>
  IN  [stride |-> stride, dilation |-> dilation, outPad |-> outPad, pad |-> [k \in 1..r |-> Pad1(k)],
       kernel |-> kernel]

\* The first pass, before ORT changes the layout.
ConvCheck(m, n) ==
  LET act == FixedPointBitWidth(n.ins[1].dt)
      weight == FixedPointBitWidth(n.ins[2].dt)
      compute == MaxOf(act, FixedPointBitWidth(n.outs[1].dt))
  IN  /\ Len(n.ins) >= 2
      /\ Rank(n.ins[1]) \in 3..5
      /\ DataTypeCheckForCpuBackend(m, n.ins[1])
      /\ AutoPad(n) \in {"NOTSET", "SAME_LOWER", "SAME_UPPER", "VALID"}
      /\ IsTransposed(n) => \A d \in ToSet(Get(n, "dilations", <<1, 1>>)) : d = 1
      /\ IsHtp(m) =>
           /\ compute = 0 \/ weight <= compute
           /\ ~("v68" \in m.opts /\ act = 16 /\ weight = 16)
           /\ IsPerChannel(n.ins[2].q) => n.ins[2].q[3] = IF IsTransposed(n) THEN 1 ELSE 0

\* What makes the calls of the second pass fail.
ConvBuilds(m, n) ==
  LET w == n.ins[2]
      p == ConvParams(n, w.shape, ImageShape(n.ins[1].shape), ImageShape(n.outs[1].shape))
  IN  /\ IsPerChannel(w.q) => IsConst(w) /\ w.dt # "uf16"
      /\ Rank(n.ins[1]) = 3 => ~(IsPerChannel(n.ins[1].q) /\ ~IsConst(n.ins[1]))
      /\ ~IsTransposed(n) /\ SamePadding(AutoPad(n)) => \A d \in ToSet(p.dilation) : d = 1
      /\ \A k \in 1..Len(p.pad) : p.pad[k][1] >= 0 /\ p.pad[k][2] >= 0

ConvSupported(m, n) == IF m.dov /\ n.domain # "nhwc" THEN ConvCheck(m, n) ELSE ConvBuilds(m, n)

\* A static weight is laid out anew under its own name; QNN ops do it for
\* any other.
ConvWeight(m, n) ==
  LET w == n.ins[2]
      flat == KernelShape(w.shape)
      perm == HwcnPerm(n, Len(flat))
      hwcn == PermuteShape(flat, perm)
      row == New(n, w.name, "_reshape")
      name == New(n, w.name, "_transpose")
      read == IF Len(w.shape) = 3 THEN row ELSE w.name
  IN  IF IsConst(w)
      THEN [steps |-> <<AddStatic(w.name, w.dt,
                                  HandleTranspose(HandleUnsqueeze(w.q, w.shape, flat), InversePerm(perm)),
                                  Transpose(Reshape(w.val[1], flat), perm))>>,
            names |-> <<w.name>>]
      ELSE [steps |-> <<MakeTensorWrapper(m, w)>>
                      \o When(Len(w.shape) = 3,
                              AddReshapeNode(w.name, row, w.shape, flat, w.dt, w.q, IsGraphInput(m, w.name), FALSE))
                      \o AddTransposeNode(read, name, flat, perm, hwcn, w.dt, w.q,
                                          Len(w.shape) # 3 /\ IsGraphInput(m, w.name), FALSE),
            names |-> <<name>>]

\* HTP wants a 16-bit weight signed and symmetric.
SignedWeight(m, n, weight) ==
  LET name == weight.names[1]
      t == Do(m, weight.steps).tensors[name]
      converted == New(n, name, "_convert")
  IN  IF t.dt # "uf16" THEN weight
      ELSE [steps |-> weight.steps \o InsertSymmetricConvertOp(name, converted, "uf16", "sf16", t.q, t.shape),
            names |-> <<converted>>]

ProcessConv1DInputs(m, n) ==
  LET x == n.ins[1]
      image == ImageShape(x.shape)
      name == New(n, x.name, "_reshape")
      act == IF IsConst(x)
             THEN [steps |-> <<AddStatic(x.name, x.dt, HandleUnsqueeze(x.q, x.shape, image), Reshape(x.val[1], image))>>,
                   names |-> <<x.name>>]
             ELSE [steps |-> AddReshapeNode(x.name, name, x.shape, image, x.dt, x.q, IsGraphInput(m, x.name), FALSE),
                   names |-> <<name>>]
      bias == IF Len(n.ins) = 3 THEN ProcessInput(m, n.ins[3]) ELSE NoInputs
  IN  Both(act, Both(ConvWeight(m, n), bias))

\* act is the activation as the op reads it, of encoding actQ.
ConvOperands(m, n, act, actQ) ==
  Both(act, Both(SignedWeight(m, n, ConvWeight(m, n)),
                 IF Len(n.ins) # 3 THEN NoInputs
                 ELSE IF BiasHandled(n.ins[3], actQ, n.ins[2].q)
                 THEN ProcessBiasForQuantizedOp(n, n.ins[3], actQ, n.ins[2].q)
                 ELSE ProcessInput(m, n.ins[3])))

ConvActivation(m, n, act) == ConvOperands(m, n, act, Do(m, act.steps).tensors[act.names[1]].q)

ConvFrom(m, n, x) ==
  IF IsHtp(m)
  THEN ConvActivation(m, n, Both([x EXCEPT !.names = <<>>],
                                 ConvertActivationToOutputPrecision(Do(m, x.steps), n, x.names, n.outs[1].dt)))
  ELSE ConvActivation(m, n, x)

ProcessConv2D3DInputs(m, n) == ConvFrom(m, n, ProcessInput(m, n.ins[1]))

ConvInputs(m, n) == IF Len(n.ins[1].shape) = 3 THEN ProcessConv1DInputs(m, n) ELSE ProcessConv2D3DInputs(m, n)

\* A convolution of each channel on its own.
IsDepthwise(rank, in, out, group) == rank < 5 /\ in = out /\ group = out

ConvOutputs(m, n, ins) ==
  LET x == n.ins[1] out == n.outs[1]
      r == Len(x.shape)
      in == ImageShape(x.shape) res == ImageShape(OnnxShape(out))
      depthwise == ~IsTransposed(n) /\ IsDepthwise(r, LastOf(in), LastOf(res), Get(n, "group", 1))
      op == (IF depthwise THEN "DepthWiseConv" ELSE IF IsTransposed(n) THEN "TransposeConv" ELSE "Conv")
            \o (IF r = 5 THEN "3d" ELSE "2d")
      par == [group |-> Get(n, "group", 1)] @@ ConvParams(n, n.ins[2].shape, in, res)
      conv == New(n, out.name, "_conv")
      actDt == m.tensors[ins[1]].dt
      image == [OutputTensor(m, out) EXCEPT !.name = conv, !.kind = "native", !.shape = res]
  IN  IF r = 3
      THEN AddOpWithQuantizedOutput(m, n, op, ins, par, image, actDt)
           \o AddReshapeNode(conv, out.name, res, OnnxShape(out), out.dt, out.q, FALSE, IsGraphOutput(m, out.name))
      ELSE AddOpWithQuantizedOutput(m, n, op, ins, par, OutputTensor(m, out), actDt)
(***************************************************************************)
(* QLinearConv.  The encodings are inputs of the node, constants; the       *)
(* builder changes the layout itself.                                       *)
(***************************************************************************)
FixedPoint(dt) ==
  CASE dt = "u8" -> "uf8" [] dt = "i8" -> "sf8" [] dt = "u16" -> "uf16" [] dt = "i16" -> "sf16" [] dt = "i32" -> "sf32"
    [] OTHER -> dt

\* BuildQuantParam, of the scale and the zero point that are inputs s and z.
QuantParam(n, s, z) ==
  LET scales == Data(n.ins[s])
      offsets == IF Exists(n.ins[z]) THEN [k \in 1..Len(scales) |-> 0 - Data(n.ins[z])[k]]
                 ELSE [k \in 1..Len(scales) |-> 0]
  IN  IF Len(scales) = 1 THEN PerTensor(scales[1], offsets[1]) ELSE <<scales, offsets, 0>>

ConstantOrMissing(io) == Exists(io) => IsConst(io)

OneElement(io) == Exists(io) => Prod(io.shape) = 1

\* A tensor of integers gets an encoding, unless it is registered already.
Quantized(m, io, q) ==
  [MakeTensorWrapper(m, io) EXCEPT !.t.dt = FixedPoint(io.dt), !.t.q = q]

QLinearConvSupported(m, n) ==
  LET w == n.ins[4] channels == w.shape[1]
      x == KernelShape(n.ins[1].shape)
      p == ConvParams(n, w.shape, PermuteShape(x, ChannelFirstToLastPerm(Len(x))), n.outs[1].shape)
  IN  /\ Len(n.ins) >= 8
      /\ Rank(n.ins[1]) \in 3..5
      /\ DataTypeCheckForCpuBackend(m, n.ins[1])
      /\ AutoPad(n) \in {"NOTSET", "SAME_LOWER", "SAME_UPPER", "VALID"}
      /\ \A k \in {2, 3, 5, 6, 7, 8} : Exists(n.ins[k]) /\ IsConst(n.ins[k])
      /\ \A k \in {2, 3, 7, 8} : OneElement(n.ins[k])
      /\ IsConst(w) /\ Prod(n.ins[5].shape) \in {1, channels}
      /\ Prod(n.ins[5].shape) > 1 => Prod(n.ins[6].shape) = Prod(n.ins[5].shape)
      /\ Len(n.ins) = 9 => IsConst(n.ins[9])
      /\ SamePadding(AutoPad(n)) => \A d \in ToSet(p.dilation) : d = 1
      /\ \A k \in 1..Len(p.pad) : p.pad[k][1] >= 0 /\ p.pad[k][2] >= 0

QLinearConvInputs(m, n) ==
  LET x == n.ins[1] w == n.ins[4] y == n.outs[1]
      Base(suffix) == New(n, <<>>, suffix)
      qx == QuantParam(n, 2, 3) qw == QuantParam(n, 5, 6) qy == QuantParam(n, 7, 8)
      dx == FixedPoint(x.dt) dy == FixedPoint(y.dt)
      first == KernelShape(x.shape) wide == KernelShape(y.shape) flat == KernelShape(w.shape)
      r == Len(first)
      last == PermuteShape(first, ChannelFirstToLastPerm(r))
      result == PermuteShape(wide, ChannelFirstToLastPerm(r))
      row == Len(x.shape) = 3
      source == IF row THEN Base("_x_reshaped") ELSE x.name
      perm == HwcnPerm(n, r)
      hasBias == Len(n.ins) = 9
      group == Get(n, "group", 1)
      op == IF r = 5 THEN "Conv3d"
            ELSE IF IsDepthwise(r, x.shape[2], y.shape[2], group) THEN "DepthWiseConv2d" ELSE "Conv2d"
  IN  [names |-> <<>>,
       steps |->
         <<Quantized(m, x, qx)>>
         \o When(row, AddReshapeNode(x.name, source, x.shape, first, dx, qx, IsGraphInput(m, x.name), FALSE))
         \o AddTransposeNode(source, Base("_x_nhwc"), first, ChannelFirstToLastPerm(r), last, dx, qx, FALSE, FALSE)
         \o <<AddStatic(Base("_w_hwcn"), FixedPoint(w.dt), HandleTranspose(qw, InversePerm(perm)),
                        Transpose(Reshape(w.val[1], flat), perm))>>
         \o When(hasBias, <<Quantized(m, n.ins[9], BiasQuantParams(qx, qw, Len(Scales(qw))))>>)
         \o NativeOp(op, <<Base("_x_nhwc"), Base("_w_hwcn")>> \o When(hasBias, <<n.ins[9].name>>), Base("_y_nhwc"),
                     result, dy, qy, [group |-> group] @@ ConvParams(n, w.shape, last, result))
         \o (IF row
             THEN AddTransposeNode(Base("_y_nhwc"), Base("_y_nchw"), result, ChannelLastToFirstPerm(r), wide, dy, qy,
                                   FALSE, FALSE)
                  \o AddReshapeNode(Base("_y_nchw"), y.name, wide, y.shape, dy, qy, FALSE, IsGraphOutput(m, y.name))
             ELSE AddTransposeNode(Base("_y_nhwc"), y.name, result, ChannelLastToFirstPerm(r), wide, dy, qy,
                                   FALSE, IsGraphOutput(m, y.name)))]
=============================================================================
