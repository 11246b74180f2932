--------------------------- MODULE OnnxReference -----------------------------
(***************************************************************************)
(* What a node means: the ONNX operators, on real values.  X is the         *)
(* sequence of the inputs' values (a missing input is <<>>), a the          *)
(* attributes.  Images are channel-first.                                   *)
(***************************************************************************)
EXTENDS Tensors

Attr(a, name, default) == IF name \in DOMAIN a THEN a[name] ELSE default

Axis(axis, rank) == IF axis < 0 THEN axis + rank ELSE axis

HasInput(X, k) == Len(X) >= k /\ X[k] # <<>>

Seq1(X, k) == ToSeq(X[k])

Replace(s, F(_, _)) == [k \in 1..Len(s) |-> F(k, s[k])]

ChannelsLast(t) == LET r == Len(t.shape) IN Transpose(t, [k \in 1..r |-> IF k = 1 THEN 0 ELSE IF k = r THEN 1 ELSE k])

ChannelsFirst(t) ==
  LET r == Len(t.shape) IN Transpose(t, [k \in 1..r |-> IF k = 1 THEN 0 ELSE IF k = 2 THEN r - 1 ELSE k - 2])

(***************************************************************************)
(* Matrix products.                                                         *)
(***************************************************************************)
\* A vector is a row on the left and a column on the right.
\* Without the axis that a vector was given.
WithoutVectorAxes(y, ra, rb) ==
  LET r == Len(y.shape)
  IN  Reshape(y, SubSeq(y.shape, 1, r - 2) \o (IF ra = 1 THEN <<>> ELSE <<y.shape[r - 1]>>)
                                          \o (IF rb = 1 THEN <<>> ELSE <<y.shape[r]>>))

RefMatMul(a, b) ==
  WithoutVectorAxes(MatrixProduct(IF Len(a.shape) = 1 THEN Reshape(a, <<1>> \o a.shape) ELSE a,
                                  IF Len(b.shape) = 1 THEN Reshape(b, b.shape \o <<1>>) ELSE b),
                    Len(a.shape), Len(b.shape))

Times(t, v) == Unary(t, LAMBDA e : MulR(e, v))

RefGemm(X, a) ==
  LET A == IF Attr(a, "transA", 0) # 0 THEN SwapLast(X[1]) ELSE X[1]
      B == IF Attr(a, "transB", 0) # 0 THEN SwapLast(X[2]) ELSE X[2]
      product == Times(MatrixProduct(A, B), Attr(a, "alpha", 1))
  IN  IF HasInput(X, 3) THEN Binary(product, Times(X[3], Attr(a, "beta", 1)), AddR) ELSE product

\* With transBatch the first axis changes places with the batches.
RefFusedMatMul(X, a) ==
  LET Moved(t, matrix, batch) ==
        LET r == Len(t.shape)
            u == IF batch = 1 THEN Transpose(t, [k \in 1..r |-> IF k = r THEN r - 1 ELSE k % (r - 1)]) ELSE t
        IN  IF matrix = 1 THEN SwapLast(u) ELSE u
  IN  Times(MatrixProduct(Moved(X[1], Attr(a, "transA", 0), Attr(a, "transBatchA", 0)),
                          Moved(X[2], Attr(a, "transB", 0), Attr(a, "transBatchB", 0))), Attr(a, "alpha", 1))

\* The real values of codes, with the scale s and the zero point z, of which
\* there is one for each row of t or one for all.
Decoded(t, s, z) ==
  LET S == ToSeq(s) Z == IF z = <<>> THEN <<0>> ELSE ToSeq(z)
      Of(v, i) == IF Len(v) = 1 THEN v[1] ELSE v[i[1] + 1]
  IN  Tensor(t.shape, LAMBDA i : MulR(Of(S, i), t.at[i] - Of(Z, i)))

Encoded1(t, s, z) ==
  Unary(t, LAMBDA v : AddR(DivR(v, ToSeq(s)[1]), IF z = <<>> THEN 0 ELSE ToSeq(z)[1]))

RefQLinearMatMul(X) == Encoded1(RefMatMul(Decoded(X[1], X[2], X[3]), Decoded(X[4], X[5], X[6])), X[7], X[8])

\* Without its zero point; a matrix on the right has one for each column.
RefMatMulInteger(X) ==
  LET Less(k, z) == IF HasInput(X, z) THEN Binary(X[k], X[z], SubR) ELSE X[k] IN RefMatMul(Less(1, 3), Less(2, 4))

\* The sum over the letters that are not in the result.
RefEinsum(X, eq) ==
  LET letters == FlattenSeq(eq.ins)
      summed == FoldLeft(LAMBDA s, l : IF l \in ToSet(s) \cup ToSet(eq.out) THEN s ELSE Append(s, l), <<>>, letters)
      Size(l) == LET k == CHOOSE j \in 1..Len(X) : l \in ToSet(eq.ins[j])
                 IN  X[k].shape[CHOOSE p \in 1..Len(eq.ins[k]) : eq.ins[k][p] = l]
      names == eq.out \o summed
      Place(l) == CHOOSE p \in 1..Len(names) : names[p] = l
      Term(i) == FoldLeft(LAMBDA v, k : MulR(v, X[k].at[[p \in 1..Len(eq.ins[k]) |-> i[Place(eq.ins[k][p])]]]), 1,
                          [k \in 1..Len(X) |-> k])
  IN  Tensor([p \in 1..Len(eq.out) |-> Size(eq.out[p])],
             LAMBDA i : SumOver(Index([p \in 1..Len(summed) |-> Size(summed[p])]), LAMBDA o : Term(i \o o)))

(***************************************************************************)
(* Convolutions.  The weight is [output channels, channels of a group,      *)
(* kernel]; for ConvTranspose, [channels, output channels of a group,       *)
(* kernel].                                                                 *)
(***************************************************************************)
Ones(r) == [k \in 1..r |-> 1]

Zeros(r) == [k \in 1..r |-> 0]

RefConv(X, a) ==
  LET x == X[1] w == X[2]
      r == Len(x.shape) - 2
      g == Attr(a, "group", 1) s == Attr(a, "strides", Ones(r)) d == Attr(a, "dilations", Ones(r))
      auto == Attr(a, "auto_pad", "NOTSET")
      Extent(k) == (w.shape[k + 2] - 1) * d[k] + 1
      Same(k) == MaxOf(0, (CeilDiv(x.shape[k + 2], s[k]) - 1) * s[k] + Extent(k) - x.shape[k + 2])
      Padding(k) == CASE auto = "SAME_UPPER" -> <<Same(k) \div 2, Same(k) - Same(k) \div 2>>
                      [] auto = "SAME_LOWER" -> <<Same(k) - Same(k) \div 2, Same(k) \div 2>>
                      [] auto = "VALID" -> <<0, 0>>
                      [] OTHER -> LET p == Attr(a, "pads", Zeros(2 * r)) IN <<p[k], p[k + r]>>
      pad == [k \in 1..r |-> Padding(k)] \o <<>>
      Dimension(k) == (x.shape[k + 2] + pad[k][1] + pad[k][2] - Extent(k)) \div s[k] + 1
      Group(c) == c \div (w.shape[1] \div g)
      Source(i, o) == <<i[1], Group(i[2]) * w.shape[2] + o[1]>>
                      \o [k \in 1..r |-> i[k + 2] * s[k] - pad[k][1] + o[k + 1] * d[k]]
      Term(i, o) == MulR(IF Source(i, o) \in DOMAIN x.at THEN x.at[Source(i, o)] ELSE 0, w.at[<<i[2]>> \o o])
  IN  Tensor(<<x.shape[1], w.shape[1]>> \o [k \in 1..r |-> Dimension(k)],
             LAMBDA i : AddR(IF HasInput(X, 3) THEN X[3].at[<<i[2]>>] ELSE 0,
                             SumOver(Index(Tail(w.shape)), LAMBDA o : Term(i, o))))

RefConvTranspose(X, a) ==
  LET x == X[1] w == X[2]
      r == Len(x.shape) - 2
      g == Attr(a, "group", 1) s == Attr(a, "strides", Ones(r)) op == Attr(a, "output_padding", Zeros(r))
      auto == Attr(a, "auto_pad", "NOTSET")
      p == Attr(a, "pads", Zeros(2 * r))
      Full(k) == s[k] * (x.shape[k + 2] - 1) + op[k] + w.shape[k + 2]
      given == "output_shape" \in DOMAIN a \/ auto \in {"SAME_UPPER", "SAME_LOWER"}
      Wanted(k) == IF "output_shape" \in DOMAIN a THEN a.output_shape[k] ELSE x.shape[k + 2] * s[k]
      Total(k) == MaxOf(0, Full(k) - Wanted(k))
      pad == [k \in 1..r |-> CASE given -> (IF auto = "SAME_UPPER" THEN Total(k) \div 2 ELSE Total(k) - Total(k) \div 2)
                               [] auto = "VALID" -> 0
                               [] OTHER -> p[k]] \o <<>>
      Dimension(k) == IF given THEN Wanted(k) ELSE IF auto = "VALID" THEN Full(k) ELSE Full(k) - p[k] - p[k + r]
      Pairs(i) == {q \in Index(SubSeq(x.shape, 3, r + 2)) \X Index(SubSeq(w.shape, 3, r + 2)) :
                     \A k \in 1..r : q[1][k] * s[k] + q[2][k] - pad[k] = i[k + 2]}
      In(c) == LET per == x.shape[2] \div g G == c \div w.shape[2] IN (G * per)..(G * per + per - 1)
  IN  Tensor(<<x.shape[1], w.shape[2] * g>> \o [k \in 1..r |-> Dimension(k)],
             LAMBDA i : AddR(IF HasInput(X, 3) THEN X[3].at[<<i[2]>>] ELSE 0,
                             SumOver(In(i[2]) \X Pairs(i), LAMBDA q :
                               MulR(x.at[<<i[1], q[1]>> \o q[2][1]], w.at[<<q[1], i[2] % w.shape[2]>> \o q[2][2]]))))

RefQLinearConv(X, a) ==
  LET x == Decoded(X[1], X[2], X[3])
      w == Decoded(X[4], X[5], X[6])
      S == ToSeq(X[5])
      bias == IF HasInput(X, 9)
              THEN <<Tensor(X[9].shape, LAMBDA i : MulR(X[9].at[i], MulR(ToSeq(X[2])[1],
                                                                         S[IF Len(S) = 1 THEN 1 ELSE i[1] + 1])))>>
              ELSE <<>>
  IN  Encoded1(RefConv(<<x, w>> \o bias, a), X[7], X[8])

RefConvInteger(X, a) ==
  RefConv(<<IF HasInput(X, 3) THEN Binary(X[1], X[3], SubR) ELSE X[1],
            IF HasInput(X, 4) THEN Decoded(X[2], Scalar(1), X[4]) ELSE X[2]>>, a)

(***************************************************************************)
(* Normalizations.                                                          *)
(***************************************************************************)
Trailing(x, a) == Axis(Attr(a, "axis", -1), Len(x.shape))..(Len(x.shape) - 1)

RefLayerNorm(X, a) ==
  Affine(Standardized(X[1], Trailing(X[1], a), Attr(a, "epsilon", Epsilon)), X[2],
         IF HasInput(X, 3) THEN <<X[3]>> ELSE <<>>)

RefRmsNorm(X, a) == Binary(UnitRms(X[1], Trailing(X[1], a), Attr(a, "epsilon", Epsilon)), X[2], MulR)

\* The scale and the bias of each channel.
PerChannelAffine(y, X) ==
  Affine(y, Channelwise(X[2], y.shape, 1), <<Channelwise(X[3], y.shape, 1)>>)

RefBatchNorm(X, a) ==
  LET x == X[1]
      centered == Binary(x, Channelwise(X[4], x.shape, 1), SubR)
      root == Unary(X[5], LAMBDA v : SqrtR(AddR(v, Attr(a, "epsilon", Epsilon))))
  IN  PerChannelAffine(Binary(centered, Channelwise(root, x.shape, 1), DivR), X)

RefGroupNorm(X, a, groups) ==
  LET x == X[1]
      grouped == Reshape(x, <<x.shape[1], groups, Prod(x.shape) \div (x.shape[1] * groups)>>)
  IN  PerChannelAffine(Reshape(Standardized(grouped, {2}, Attr(a, "epsilon", Epsilon)), x.shape), X)

AlgebraOpTypes == {"LayerNormalization", "RMSNormalization", "SimplifiedLayerNormalization", "BatchNormalization",
                   "InstanceNormalization", "GroupNormalization", "MatMul", "Gemm", "FusedMatMul", "QLinearMatMul",
                   "MatMulInteger", "Einsum", "Conv", "ConvTranspose", "QLinearConv", "ConvInteger"}

AlgebraReference(n, X) ==
  CASE n.op = "MatMul" -> RefMatMul(X[1], X[2])
    [] n.op = "Gemm" -> RefGemm(X, n.attr)
    [] n.op = "FusedMatMul" -> RefFusedMatMul(X, n.attr)
    [] n.op = "QLinearMatMul" -> RefQLinearMatMul(X)
    [] n.op = "MatMulInteger" -> RefMatMulInteger(X)
    [] n.op = "Einsum" -> RefEinsum(X, n.attr.equation)
    [] n.op = "ConvInteger" -> RefConvInteger(X, n.attr)
    [] n.op = "Conv" -> RefConv(X, n.attr)
    [] n.op = "ConvTranspose" -> RefConvTranspose(X, n.attr)
    [] n.op = "QLinearConv" -> RefQLinearConv(X, n.attr)
    [] n.op = "LayerNormalization" -> RefLayerNorm(X, n.attr)
    [] n.op \in {"RMSNormalization", "SimplifiedLayerNormalization"} -> RefRmsNorm(X, n.attr)
    [] n.op = "BatchNormalization" -> RefBatchNorm(X, n.attr)
    [] n.op = "InstanceNormalization" -> RefGroupNorm(X, n.attr, X[1].shape[2])
    [] n.op = "GroupNormalization" -> RefGroupNorm(X, n.attr, Attr(n.attr, "num_groups", 1))

(***************************************************************************)
(* Data movement, indexing, elementwise and reducing operators.             *)
(***************************************************************************)
\* 0 copies a dimension, -1 takes what is left.
RefReshape(X) ==
  LET want == Replace(Seq1(X, 2), LAMBDA k, d : IF d = 0 THEN X[1].shape[k] ELSE d)
      rest == Prod(SelectSeq(want, LAMBDA d : d # -1))
  IN  Reshape(X[1], Replace(want, LAMBDA k, d : IF d = -1 THEN Prod(X[1].shape) \div rest ELSE d))

RefTranspose(X, a) ==
  LET r == Len(X[1].shape) IN Transpose(X[1], Attr(a, "perm", [k \in 1..r |-> r - k]))

RefSlice(X, a, opset) ==
  LET shape == X[1].shape
      starts == IF opset < 10 THEN a.starts ELSE Seq1(X, 2)
      ends == IF opset < 10 THEN a.ends ELSE Seq1(X, 3)
      all == [k \in 1..Len(starts) |-> k - 1]
      axes == Replace(IF opset < 10 THEN Attr(a, "axes", all)
                      ELSE IF HasInput(X, 4) THEN Seq1(X, 4) ELSE all,
                      LAMBDA k, x : Axis(x, Len(shape)))
      steps == IF opset >= 10 /\ HasInput(X, 5) THEN Seq1(X, 5) ELSE [k \in 1..Len(starts) |-> 1]
      Of(d, k) ==
        LET dim == shape[d]
            Off(v) == IF v < 0 THEN v + dim ELSE v
        IN  IF steps[k] > 0 THEN <<Clamp(Off(starts[k]), 0, dim), Clamp(Off(ends[k]), 0, dim), steps[k]>>
            ELSE <<Clamp(Off(starts[k]), 0, dim - 1), Clamp(Off(ends[k]), -1, dim - 1), steps[k]>>
  IN  StridedSlice(X[1], [d \in 1..Len(shape) |->
        IF \E k \in 1..Len(axes) : axes[k] = d - 1
        THEN Of(d, CHOOSE k \in 1..Len(axes) : axes[k] = d - 1) ELSE <<0, shape[d], 1>>])

RefSplit(X, a, outs) ==
  LET ax == Axis(Attr(a, "axis", 0), Len(X[1].shape))
      dim == X[1].shape[ax + 1]
      chunk == (dim + outs - 1) \div outs
      len == IF HasInput(X, 2) THEN Seq1(X, 2)
             ELSE Attr(a, "split", [k \in 1..outs |-> MinOf(chunk, dim - (k - 1) * chunk)])
      From(k) == FoldLeft(LAMBDA x, l : x + l, 0, SubSeq(len, 1, k - 1))
  IN  [k \in 1..outs |-> Narrow(X[1], ax, From(k), From(k) + len[k])]

\* A negative amount removes elements.
RefPad(X, a, byInput) ==
  LET p == IF byInput THEN Seq1(X, 2) ELSE a.pads
      r == Len(p) \div 2
      v == IF byInput THEN (IF HasInput(X, 3) THEN Seq1(X, 3)[1] ELSE 0) ELSE Attr(a, "value", 0)
      kept == StridedSlice(X[1], [d \in 1..r |-> <<MaxOf(0, 0 - p[d]), X[1].shape[d] + MinOf(0, p[d + r]), 1>>])
  IN  Pad(kept, [d \in 1..r |-> <<MaxOf(0, p[d]), MaxOf(0, p[d + r])>>], Attr(a, "mode", "constant"), v)

RefExpand(X) == Binary(X[1], Fill(Seq1(X, 2), 1), LAMBDA v, one : v)

RefShape(X, a) ==
  LET r == Len(X[1].shape)
      s == Clamp(Axis(Attr(a, "start", 0), r), 0, r)
      e == Clamp(Axis(Attr(a, "end", r), r), 0, r)
  IN  Vec(SubSeq(X[1].shape, s + 1, e))

RefRange(X) ==
  LET s == Seq1(X, 1)[1] e == Seq1(X, 2)[1] d == Seq1(X, 3)[1]
      in == {k \in 0..20 : IF d > 0 THEN s + k * d < e ELSE s + k * d > e}
  IN  Vec([k \in 1..Cardinality(in) |-> s + (k - 1) * d])

\* Indices count from the end if they are negative.
Wrapped(t, Size(_)) == Tensor(t.shape, LAMBDA i : IF t.at[i] < 0 THEN t.at[i] + Size(i) ELSE t.at[i])

AxisOf(X, a, default) == Axis(Attr(a, "axis", default), Len(X[1].shape))

OnAxis(X, a) == Wrapped(X[2], LAMBDA i : X[1].shape[AxisOf(X, a, 0) + 1])

RefOneHot(X, a) ==
  LET depth == Seq1(X, 2)[1]
  IN  OneHot(Wrapped(X[1], LAMBDA i : depth), depth, Seq1(X, 3)[1], Seq1(X, 3)[2],
             Axis(Attr(a, "axis", -1), Len(X[1].shape) + 1))

RefCumSum(X, a) ==
  LET ax == Axis(Seq1(X, 2)[1], Len(X[1].shape)) + 1
      dir == IF Attr(a, "reverse", 0) = 1 THEN -1 ELSE 1
      Takes(k, at) == IF Attr(a, "exclusive", 0) = 1 THEN dir * k < dir * at ELSE dir * k <= dir * at
  IN  Tensor(X[1].shape, LAMBDA i : SumOver({k \in 0..(X[1].shape[ax] - 1) : Takes(k, i[ax])},
                                            LAMBDA k : X[1].at[[i EXCEPT ![ax] = k]]))

\* The results of a node on the values X.
MoveReference(n, X) ==
  LET a == n.attr
  IN  CASE n.op = "Reshape" -> <<RefReshape(X)>>
        [] n.op = "Transpose" -> <<RefTranspose(X, a)>>
        [] n.op = "Identity" -> <<X[1]>>
        [] n.op = "Slice" -> <<RefSlice(X, a, n.opset)>>
        [] n.op = "Split" -> RefSplit(X, a, Len(n.outs))
        [] n.op = "Concat" -> <<Concat(X, AxisOf(X, a, 0))>>
        [] n.op = "Pad" -> <<RefPad(X, a, n.opset >= 11 \/ n.domain = "ms")>>
        [] n.op = "Expand" -> <<RefExpand(X)>>
        [] n.op = "Tile" -> <<Tile(X[1], Seq1(X, 2))>>
        [] n.op = "Shape" -> <<RefShape(X, a)>>
        [] n.op = "Range" -> <<RefRange(X)>>

IndexReference(n, X) ==
  LET a == n.attr
      ax == AxisOf(X, a, 0)
  IN  CASE n.op = "Gather" -> <<Gather(X[1], OnAxis(X, a), ax)>>
        [] n.op = "GatherElements" -> <<GatherElements(X[1], OnAxis(X, a), ax)>>
        [] n.op = "GatherND" -> <<GatherNd(X[1], Wrapped(X[2], LAMBDA i : X[1].shape[LastOf(i) + 1]), 0)>>
        [] n.op = "ArrayFeatureExtractor" ->
             <<Gather(X[1], Wrapped(X[2], LAMBDA i : LastOf(X[1].shape)), Len(X[1].shape) - 1)>>
        [] n.op = "ScatterElements" ->
             <<ScatterElements(X[1], OnAxis(X, a), X[3], ax, Attr(a, "reduction", "none"))>>
        [] n.op = "ScatterND" ->
             <<ScatterNd(X[1], Wrapped(X[2], LAMBDA i : X[1].shape[LastOf(i) + 1]), X[3],
                         Attr(a, "reduction", "none"))>>
        [] n.op = "OneHot" -> <<RefOneHot(X, a)>>
        [] n.op = "TopK" -> TopK(X[1], AxisOf(X, a, -1), Seq1(X, 2)[1], Attr(a, "largest", 1) # 0)
        [] n.op = "ArgMax" -> <<ArgBest(X[1], ax, 1, Attr(a, "keepdims", 1) # 0)>>
        [] n.op = "ArgMin" -> <<ArgBest(X[1], ax, -1, Attr(a, "keepdims", 1) # 0)>>
        [] n.op = "CumSum" -> <<RefCumSum(X, a)>>

(***************************************************************************)
(* Elementwise operators.                                                   *)
(***************************************************************************)
Logical(b) == IF b THEN 1 ELSE 0

PairFn(op, a, b) ==
  CASE op \in {"Add", "Sum", "Mean"} -> AddR(a, b)
    [] op = "Sub" -> SubR(a, b)
    [] op = "Mul" -> MulR(a, b)
    [] op = "Div" -> DivR(a, b)
    [] op = "Pow" -> PowR(a, b)
    [] op = "Max" -> MaxOf(a, b)
    [] op = "Min" -> MinOf(a, b)
    [] op = "And" -> Logical(a # 0 /\ b # 0)
    [] op = "Or" -> Logical(a # 0 \/ b # 0)
    [] op = "Xor" -> Logical((a # 0) # (b # 0))
    [] op = "Equal" -> Logical(a = b)
    [] op = "Greater" -> Logical(a > b)
    [] op = "GreaterOrEqual" -> Logical(a >= b)
    [] op = "Less" -> Logical(a < b)
    [] op = "LessOrEqual" -> Logical(a <= b)
    [] op = "PRelu" -> IF a < 0 THEN MulR(a, b) ELSE a
    [] op = "Mod" -> SubR(a, MulR(b, Fn("Floor", DivR(a, b))))

PairOps == {"Add", "Sub", "Mul", "Div", "Pow", "Max", "Min", "Sum", "And", "Or", "Xor", "Equal", "Greater",
            "GreaterOrEqual", "Less", "LessOrEqual", "PRelu", "Mod"}

ElementFn(n, v) ==
  LET a == n.attr
  IN  CASE n.op = "Abs" -> Abs(v)
        [] n.op = "Neg" -> 0 - v
        [] n.op = "Not" -> Logical(v = 0)
        [] n.op = "Relu" -> MaxOf(v, 0)
        [] n.op = "Sign" -> Sign(v)
        [] n.op = "Gelu" -> GeluOf(v)
        [] n.op = "Elu" -> EluOf(v, Attr(a, "alpha", 1))
        [] n.op = "LeakyRelu" -> IF v < 0 THEN MulR(v, Attr(a, "alpha", InvR(100))) ELSE v
        [] n.op = "HardSigmoid" -> Clamp(AddR(MulR(v, Attr(a, "alpha", InvR(5))), Attr(a, "beta", Half)), 0, 1)
        [] n.op = "Reciprocal" -> InvR(v)
        [] n.op = "Tan" -> DivR(Fn("Sin", v), Fn("Cos", v))
        [] n.op = "Selu" -> MulR(Attr(a, "gamma", 1050), EluOf(v, Attr(a, "alpha", 1673)))
        [] n.op = "QuickGelu" -> MulR(v, Fn("Sigmoid", MulR(v, Attr(a, "alpha", 1702))))
        [] n.op = "Swish" -> MulR(v, Fn("Sigmoid", MulR(v, Attr(a, "alpha", 1))))
        [] n.op = "ThresholdedRelu" -> IF v > a.alpha THEN v ELSE 0
        [] n.op = "IsInf" -> Logical((v = Inf /\ Attr(a, "detect_positive", 1) = 1)
                                    \/ (v = 0 - Inf /\ Attr(a, "detect_negative", 1) = 1))
        [] n.op = "IsNaN" -> Logical(v = Nan)
        [] n.op \in {"Cast", "CastLike"} -> IF n.outs[1].dt = "bool" THEN Logical(v # 0) ELSE v
        [] n.op \in {"QuantizeLinear", "DequantizeLinear"} -> v
        [] OTHER -> Fn(n.op, v)

ElementOps == {"Abs", "Neg", "Not", "Relu", "Sign", "Gelu", "Elu", "LeakyRelu", "HardSigmoid", "Reciprocal", "Tan",
               "Selu", "QuickGelu", "Swish", "ThresholdedRelu", "IsInf", "IsNaN", "Cast", "CastLike",
               "QuantizeLinear", "DequantizeLinear", "HardSwish", "Softplus", "Sqrt"} \cup DOMAIN Seed

RefClip(X) ==
  LET lo == IF HasInput(X, 2) THEN Seq1(X, 2)[1] ELSE -4000
      hi == IF HasInput(X, 3) THEN Seq1(X, 3)[1] ELSE 4000
  IN  Unary(X[1], LAMBDA v : MinOf(hi, MaxOf(lo, v)))

\* ONNX images have their channels first.
RefDepthToSpace(t, a) ==
  LET b == a.blocksize
      c == t.shape[2] \div (b * b)
      crd == Attr(a, "mode", "DCR") = "CRD"
      six == IF crd THEN <<t.shape[1], c, b, b, t.shape[3], t.shape[4]>>
             ELSE <<t.shape[1], b, b, c, t.shape[3], t.shape[4]>>
      perm == IF crd THEN <<0, 1, 4, 2, 5, 3>> ELSE <<0, 3, 4, 1, 5, 2>>
  IN  Reshape(Transpose(Reshape(t, six), perm), <<t.shape[1], c, t.shape[3] * b, t.shape[4] * b>>)

RefSpaceToDepth(t, a) ==
  LET b == a.blocksize
      six == <<t.shape[1], t.shape[2], t.shape[3] \div b, b, t.shape[4] \div b, b>>
  IN  Reshape(Transpose(Reshape(t, six), <<0, 3, 5, 1, 2, 4>>),
              <<t.shape[1], t.shape[2] * b * b, t.shape[3] \div b, t.shape[4] \div b>>)

RefLRN(t, a) ==
  LET before == (a.size - 1) \div 2 after == a.size \div 2
      Window(c) == MaxOf(0, c - before)..MinOf(t.shape[2] - 1, c + after)
      squares == Unary(t, Sq)
      sums == Tensor(t.shape, LAMBDA i : SumOver(Window(i[2]), LAMBDA k : squares.at[At(i, 1, k)]))
      base == Unary(sums, LAMBDA v : AddR(Attr(a, "bias", 1), MulR(DivR(a.alpha, a.size), v)))
  IN  Tensor(t.shape, LAMBDA i : DivR(t.at[i], PowR(base.at[i], a.beta)))

RefGridSample(X, a) ==
  LET mode == Attr(a, "mode", "linear")
  IN  ChannelsFirst(GridSample(ChannelsLast(X[1]), X[2],
        [mode |-> IF mode = "nearest" THEN "nearest" ELSE "bilinear", padding |-> Attr(a, "padding_mode", "zeros"),
         align |-> Attr(a, "align_corners", 0)]))

ElementReference(n, X) ==
  LET a == n.attr
      Chain(op) == FoldLeft(LAMBDA s, t : Binary(s, t, LAMBDA x, y : PairFn(op, x, y)), X[1], Tail(X))
  IN  CASE n.op \in PairOps -> Chain(n.op)
        [] n.op = "Mean" -> Unary(Chain("Add"), LAMBDA v : DivR(v, Len(X)))
        [] n.op \in ElementOps -> Unary(X[1], LAMBDA v : ElementFn(n, v))
        [] n.op = "Where" -> Select(X[1], X[2], X[3])
        [] n.op = "Clip" -> RefClip(X)
        [] n.op = "LpNormalization" -> L2Norm(X[1], {AxisOf(X, a, -1)}, 0)
        [] n.op = "DepthToSpace" -> RefDepthToSpace(X[1], a)
        [] n.op = "SpaceToDepth" -> RefSpaceToDepth(X[1], a)
        [] n.op = "GridSample" -> RefGridSample(X, a)
        [] n.op = "LRN" -> RefLRN(X[1], a)

(***************************************************************************)
(* Operators that combine elements along axes.                              *)
(***************************************************************************)
RefSoftmax(t, a, opset) ==
  LET ax == Axis(Attr(a, "axis", IF opset < 13 THEN 1 ELSE -1), Len(t.shape))
      rows == Prod(SubSeq(t.shape, 1, ax))
      flat == Reshape(t, <<rows, Prod(t.shape) \div rows>>)
  IN  IF opset < 13 THEN Reshape(SoftmaxAlong(flat, 1, 1), t.shape) ELSE SoftmaxAlong(t, ax, 1)

RefReduce(X, n) ==
  LET r == Len(X[1].shape)
      byInput == n.opset >= IF n.op = "ReduceSum" THEN 13 ELSE 18
      given == IF byInput THEN (IF HasInput(X, 2) THEN Seq1(X, 2) ELSE <<>>) ELSE Attr(n.attr, "axes", <<>>)
      A == IF given = <<>> THEN 0..(r - 1) ELSE {Axis(x, r) : x \in ToSet(given)}
      keep == Attr(n.attr, "keepdims", 1) # 0
      top == ReduceKeep(X[1], A, "Max")
      powers == Unary(Binary(X[1], top, SubR), LAMBDA v : Fn("Exp", v))
      logs == Binary(Unary(ReduceKeep(powers, A, "Sum"), LAMBDA v : Fn("Log", v)), top, AddR)
  IN  CASE given = <<>> /\ Attr(n.attr, "noop_with_empty_axes", 0) # 0 -> X[1]
        [] n.op = "ReduceL2" ->
             Unary(Reduce(Unary(X[1], Sq), A, "Sum", keep), LAMBDA v : Fn("Sqrt", v))
        [] n.op = "ReduceLogSumExp" -> Reduce(logs, A, "Sum", keep)
        [] n.op = "ReduceMax" -> Reduce(X[1], A, "Max", keep)
        [] n.op = "ReduceMin" -> Reduce(X[1], A, "Min", keep)
        [] n.op = "ReduceMean" -> Reduce(X[1], A, "Mean", keep)
        [] n.op = "ReduceProd" -> Reduce(X[1], A, "Prod", keep)
        [] OTHER -> Reduce(X[1], A, "Sum", keep)

\* The windows of a pooling operator.
PoolWindows(t, a) ==
  LET r == Len(t.shape) - 2
      k == a.kernel_shape
      s == Attr(a, "strides", [d \in 1..r |-> 1])
      same == Attr(a, "auto_pad", "NOTSET") \in {"SAME_UPPER", "SAME_LOWER"}
      pads == Attr(a, "pads", [d \in 1..(2 * r) |-> 0])
      lack(d) == MaxOf(0, (CeilDiv(t.shape[d + 2], s[d]) - 1) * s[d] + k[d] - t.shape[d + 2])
      few(d) == lack(d) \div 2
      many(d) == lack(d) - few(d)
  IN  [filter |-> k, stride |-> s, ceil |-> Attr(a, "ceil_mode", 0) # 0,
       countPad |-> Attr(a, "count_include_pad", 0) # 0,
       pad |-> [d \in 1..r |-> IF ~same THEN <<pads[d], pads[d + r]>>
                              ELSE IF a.auto_pad = "SAME_UPPER" THEN <<few(d), many(d)>> ELSE <<many(d), few(d)>>]]

RefPool(t, n) ==
  LET r == Len(t.shape) - 2
      all == SubSeq(t.shape, 3, r + 2)
      whole == [filter |-> all, stride |-> all, pad |-> [d \in 1..r |-> <<0, 0>>], ceil |-> FALSE, countPad |-> FALSE]
      last == ChannelsLast(t)
      p == IF n.op \in {"GlobalMaxPool", "GlobalAveragePool"} THEN whole ELSE PoolWindows(t, n.attr)
  IN  ChannelsFirst(Pool(last, IF n.op \in {"GlobalMaxPool", "MaxPool"} THEN "max" ELSE "avg", p))

RefLpPool(t, n) ==
  LET p == PoolWindows(t, n.attr) r == Len(t.shape) - 2
      order == Attr(n.attr, "p", 2)
      powers == ChannelsLast(Unary(t, LAMBDA v : IF order = 2 THEN Sq(v) ELSE Abs(v)))
      Sum(shape) == Tensor(shape, LAMBDA i :
        LET window == {o \in Index(p.filter) : \A d \in 1..r :
                         i[d + 1] * p.stride[d] - p.pad[d][1] + o[d] \in 0..(powers.shape[d + 1] - 1)}
        IN  SumOver(window, LAMBDA o : powers.at[<<i[1]>>
                      \o [d \in 1..r |-> i[d + 1] * p.stride[d] - p.pad[d][1] + o[d]] \o <<i[r + 2]>>]))
      sums == Sum(Pool(powers, "max", p).shape)
  IN  ChannelsFirst(IF order = 2 THEN Unary(sums, LAMBDA v : Fn("Sqrt", v)) ELSE sums)

\* Upsample is an asymmetric Resize.
RefResize(X, n) ==
  LET in == X[1].shape a == n.attr
      up == n.op = "Upsample"
      scales == IF up THEN (IF n.opset > 7 THEN Seq1(X, 2) ELSE a.scales) ELSE IF HasInput(X, 3) THEN Seq1(X, 3) ELSE <<>>
      out == IF ~up /\ HasInput(X, 4) THEN Seq1(X, 4) ELSE [d \in 1..Len(in) |-> Res(MulR(in[d], scales[d]))]
      p == [interp |-> Attr(a, "mode", "nearest"),
            coord |-> IF up THEN "asymmetric" ELSE Attr(a, "coordinate_transformation_mode", "half_pixel"),
            nearest |-> IF up THEN "floor" ELSE Attr(a, "nearest_mode", "round_prefer_floor"),
            coeff |-> Attr(a, "cubic_coeff_a", DivR(-3, 4))]
  IN  FoldLeft(LAMBDA t, d : IF out[d] = in[d] THEN t ELSE ResizeAxis(t, d - 1, out[d], p), X[1],
               [d \in 1..Len(in) |-> d])

CombineReference(n, X) ==
  CASE n.op = "Softmax" -> RefSoftmax(X[1], n.attr, n.opset)
    [] n.op = "LogSoftmax" -> Unary(RefSoftmax(X[1], n.attr, n.opset), LAMBDA v : Fn("Log", v))
    [] n.op \in {"MaxPool", "AveragePool", "GlobalMaxPool", "GlobalAveragePool"} -> RefPool(X[1], n)
    [] n.op = "LpPool" -> RefLpPool(X[1], n)
    [] n.op \in {"Resize", "Upsample"} -> RefResize(X, n)
    [] OTHER -> RefReduce(X, n)

CombineOpTypes == {"Softmax", "LogSoftmax", "MaxPool", "AveragePool", "GlobalMaxPool", "GlobalAveragePool", "LpPool",
                   "Resize", "Upsample", "ReduceL2", "ReduceLogSumExp", "ReduceMax", "ReduceMean", "ReduceMin",
                   "ReduceProd", "ReduceSum"}

MoveOpTypes == {"Reshape", "Transpose", "Identity", "Slice", "Split", "Concat", "Pad", "Expand", "Tile",
                "Shape", "Range"}

IndexOpTypes == {"Gather", "GatherElements", "GatherND", "ArrayFeatureExtractor", "ScatterElements",
                 "ScatterND", "OneHot", "TopK", "ArgMax", "ArgMin", "CumSum"}

\* The scale and the zero point are any function of the values; the scale is
\* not 0.
RefDynamicQuantize(x) ==
  LET sample == SumOver(DOMAIN x.at, LAMBDA i : Arbitrary("Sample", x.at[i]))
      scale == Scalar(IF sample = 0 THEN 1 ELSE sample)
      zero == Scalar(Abs(sample) % 256)
  IN  <<Encoded1(x, scale, zero), scale, zero>>

Reference(n, X) ==
  CASE n.op \in MoveOpTypes -> MoveReference(n, X)
    [] n.op \in IndexOpTypes -> IndexReference(n, X)
    [] n.op \in CombineOpTypes -> <<CombineReference(n, X)>>
    [] n.op = "DynamicQuantizeLinear" -> RefDynamicQuantize(X[1])
    [] n.op = "DequantizeLinear" /\ Len(X) = 3 -> <<Decoded(X[1], X[2], X[3])>>
    [] n.op \in AlgebraOpTypes -> <<AlgebraReference(n, X)>>
    [] OTHER -> <<ElementReference(n, X)>>
=============================================================================
