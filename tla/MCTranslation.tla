--------------------------- MODULE MCTranslation -----------------------------
(***************************************************************************)
(* Graphs with patterns that fusions look for, and all the models that      *)
(* OpTranslation is checked on.                                             *)
(***************************************************************************)
EXTENDS MCOperators

C(name, v) == Scal(name, v, "f32")

\* A node that writes the tensor of its own name.
At13(op, name, ins, attr) == Make(op, name, ins, <<F32(name)>>, attr, 13, "")

\* A model with one result, in which the backend may refuse the fusion tag.
Pattern(backend, tag, ns) == [Model(backend, ns, {LastOf(ns).outs[1].name}) EXCEPT !.refusable = {tag}]

Re(name, in, shape) == At13("Reshape", name, <<in, I64(name \o "_shape", shape)>>, A0)

Tr(name, in, perm) == At13("Transpose", name, <<in>>, [perm |-> perm])

\* A model in which the backend accepts every node and every fusion.
Accepted(backend, ns) == [Model(backend, ns, {LastOf(ns).outs[1].name}) EXCEPT !.refusable = {}]

E8 == <<2, -3>>

E16 == <<5, 7>>

SmallX == [X(<<2, 3>>) EXCEPT !.data = <<-4, -1, 0, 1, 2, 7>>]

(***************************************************************************)
(* Pointwise patterns.                                                      *)
(***************************************************************************)
ScaleThen(backend, ins, attr) ==
  Pattern(backend, "m+ScaleSoftmax", <<At13("Mul", "m", ins, A0), At13("Softmax", "y", <<From("m")>>, attr)>>)

Swish6(alpha, ins) ==
  Pattern("htp", "s+HardSigmoidMul", <<At13("HardSigmoid", "s", <<SmallX>>, [alpha |-> alpha, beta |-> Half]),
                      At13("Mul", "y", ins, A0)>>)

Unit2(attr, eps) ==
  Pattern("htp", "r+L2Norm", <<At13("ReduceL2", "r", <<SmallX>>, attr), At13("Add", "a", eps, A0),
                      At13("Div", "y", <<SmallX, From("a")>>, A0)>>)

\* The four forms of Gelu by Erf: how the root is scaled, and the end.
ErfOf2(scaled, ns) == Pattern("htp", "e+Gelu", <<scaled, At13("Erf", "e", <<From("d")>>, A0)>> \o ns)

Div2 == At13("Div", "d", <<SmallX, C("c", Sqrt2)>>, A0)

Mul2 == At13("Mul", "d", <<SmallX, C("c", InvR(Sqrt2))>>, A0)

One == At13("Add", "a", <<From("e"), C("one", 1)>>, A0)

TanhTail(ns) ==
  Pattern("htp", "t+TanhGelu", ns \o <<
    At13("Mul", "k", <<From("i"), C("root", Sqrt2OverPi)>>, A0), At13("Tanh", "t", <<From("k")>>, A0),
    At13("Add", "a", <<C("one", 1), From("t")>>, A0), At13("Mul", "m", <<From("a"), SmallX>>, A0),
    At13("Mul", "y", <<From("m"), C("half", Half)>>, A0)>>)

PointModels == <<
  ScaleThen("htp", <<X(<<2, 3>>), C("c", 5)>>, [axis |-> -1]),
  ScaleThen("cpu", <<Const("c", <<1>>, <<5>>, "f32"), X(<<2, 3>>)>>, [axis |-> 1]),
  ScaleThen("htp", <<X(<<2, 3>>), C("c", 5)>>, [axis |-> 0]),
  ScaleThen("htp", <<Const("c", <<1>>, <<5>>, "f32"), X(<<1>>)>>, A0),
  Swish6(InvR(6), <<From("s"), SmallX>>),
  Swish6(InvR(6), <<SmallX, From("s")>>),
  Swish6(InvR(5), <<SmallX, From("s")>>),
  Unit2([axes |-> <<-1>>], <<From("r"), C("eps", 9)>>),
  Unit2([axes |-> <<0, 1>>], <<C("eps", 9), From("r")>>),
  Unit2([keepdims |-> 1], <<From("r"), C("eps", 9)>>),
  ErfOf2(Div2, <<One, At13("Mul", "h", <<SmallX, C("half", Half)>>, A0), At13("Mul", "y", <<From("h"), From("a")>>, A0)>>),
  ErfOf2(Mul2, <<One, At13("Mul", "h", <<SmallX, From("a")>>, A0), At13("Mul", "y", <<From("h"), C("half", Half)>>, A0)>>),
  ErfOf2(Mul2, <<At13("Mul", "h", <<From("e"), C("half", Half)>>, A0), At13("Add", "a", <<From("h"), C("half", Half)>>, A0),
                 At13("Mul", "y", <<From("a"), SmallX>>, A0)>>),
  ErfOf2(Div2, <<One, At13("Mul", "h", <<C("half", Half), From("a")>>, A0), At13("Mul", "y", <<From("h"), SmallX>>, A0)>>),
  \* Not a Gelu: the root does not come back.
  ErfOf2(Div2, <<One, At13("Mul", "h", <<C("half", Half), From("a")>>, A0), At13("Mul", "y", <<From("h"), In("z", <<3>>, "f32")>>, A0)>>),
  TanhTail(<<At13("Mul", "x2", <<SmallX, SmallX>>, A0), At13("Mul", "x3", <<From("x2"), SmallX>>, A0),
             At13("Mul", "c3", <<From("x3"), C("c", GeluCubic)>>, A0), At13("Add", "i", <<SmallX, From("c3")>>, A0)>>),
  TanhTail(<<At13("Mul", "x2", <<SmallX, SmallX>>, A0), At13("Mul", "x3", <<SmallX, From("x2")>>, A0),
             At13("Mul", "c3", <<C("c", GeluCubic), From("x3")>>, A0), At13("Add", "i", <<From("c3"), SmallX>>, A0)>>),
  TanhTail(<<At13("Mul", "x2", <<SmallX, SmallX>>, A0), At13("Mul", "x3", <<SmallX, From("x2")>>, A0),
             At13("Mul", "c3", <<C("c", 2), From("x3")>>, A0), At13("Add", "i", <<From("c3"), SmallX>>, A0)>>) >>

(***************************************************************************)
(* Patterns of quantizers.                                                  *)
(***************************************************************************)
CodesQ(name) == Q(Const(name, <<2>>, <<4, 8>>, "f32"), "uf8", E8)

DqQ(in, tail) ==
  [Pattern("htp", "d+DQQ", <<At13("DequantizeLinear", "d", <<in>>, A0),
                       Yields(At13("QuantizeLinear", "q", <<From("d")>>, A0), "uf16", E16)>> \o tail)
     EXCEPT !.refusable = @ \cup {"y"}]

Relu16 == Yields(At13("Relu", "y", <<From("q")>>, A0), "uf16", E16)

QuantizerModels == <<
  DqQ(Q(X(<<2>>), "uf8", E8), <<>>),
  DqQ(Q(X(<<2>>), "uf8", E8), <<Relu16>>),
  DqQ(CodesQ("w"), <<Relu16>>),
  DqQ(CodesQ("w"), <<>>),
  \* A chain of folds.
  [DqQ(CodesQ("w"), <<At13("DequantizeLinear", "d2", <<From("q")>>, A0),
                      Yields(At13("QuantizeLinear", "q2", <<From("d2")>>, A0), "uf8", E8),
                      Yields(At13("Relu", "y", <<From("q2")>>, A0), "uf8", E8)>>)
     EXCEPT !.refusable = @ \cup {"d2+DQQ"}],
  Pattern("htp", "c+CastLoneQ", <<At13("Cast", "c", <<In("x", <<2>>, "f16")>>, A0),
                      Yields(At13("QuantizeLinear", "y", <<From("c")>>, A0), "uf8", E8)>>),
  Pattern("htp", "c+CastLoneQ", <<At13("Relu", "r", <<X(<<2>>)>>, A0), Yields(At13("Cast", "c", <<From("r")>>, A0), "f16", NoQ),
                      Yields(At13("QuantizeLinear", "y", <<From("c")>>, A0), "uf8", E8)>>),
  Pattern("htp", "dql+DqlDq", <<Make("DynamicQuantizeLinear", "dql", <<X(<<2, 2>>)>>,
                             <<Out("c", "u8", NoQ), F32("s"), Out("z", "u8", NoQ)>>, A0, 13, ""),
                        At13("DequantizeLinear", "y", <<From("c"), From("s"), From("z")>>, A0)>>) >>

(***************************************************************************)
(* Operators that the op_affinity option pins to a backend.                 *)
(***************************************************************************)
ScaledSoftmax(backend) == ScaleThen(backend, <<X(<<2, 3>>), C("c", 5)>>, [axis |-> -1])

PinnedModels == <<
  Pinned("Softmax" :> "cpu", ScaledSoftmax("htp")),
  Pinned("Mul" :> "cpu", ScaledSoftmax("htp")),
  Pinned("Softmax" :> "htp", ScaledSoftmax("htp")),
  Pinned("Softmax" :> "gpu", ScaledSoftmax("htp")),
  Pinned("Softmax" :> "cpu", ScaledSoftmax("cpu")),
  Pinned("Softmax" :> "htp", ScaledSoftmax("cpu")) >>

(***************************************************************************)
(* Units with an activation or a Reshape between the node and its           *)
(* QuantizeLinear, and units with float results.                            *)
(***************************************************************************)
Unit8(name, shape, data) == Q([In(name, shape, "f32") EXCEPT !.data = data], "uf8", <<1, -9>>)

\* Sums below 0, in a small range, and above 255.
Add8 == At13("Add", "a", <<Unit8("x", <<4>>, <<-9, 2, 5, 200>>), Unit8("z", <<4>>, <<3, 1, -2, 90>>)>>, A0)

Activated(act, ins, offset) ==
  Accepted("htp", <<Add8, Yields(At13(act, "y", <<From("a")>> \o ins, A0), "uf8", <<1, offset>>)>>)

Clipped(min, max, offset) == Activated("Clip", <<C("min", min), C("max", max)>>, offset)

Bias3 == Q(Const("b", <<3>>, <<8, 16, 24>>, "f32"), "sf32", <<8, 0>>)

Gemm8 == At13("Gemm", "g", <<Q(X(<<4, 2>>), "uf8", E8), Q(Const("w", <<2, 3>>, <<4, 6, 8, 10, 12, 14>>, "f32"), "uf8", E8),
                               Bias3>>, [beta |-> 1])

Transposed8 == Q(Const("w", <<3, 2>>, <<4, 6, 8, 10, 12, 14>>, "f32"), "uf8", E8)

Stored8(name, of) == Yields(At13("QuantizeLinear", name, <<From(of)>>, A0), "uf8", <<1, 0>>)

InRows == Re("r", From("g"), <<2, 2, 3>>)

XCodes(shape, data) == Q([X(shape) EXCEPT !.data = data], "uf8", E8)

ZCodes(shape) == Q(In("z", shape, "f32"), "uf8", E8)

QuantizedNodes == <<
  Make("TopK", "n1", <<XCodes(<<2, 3>>, <<5, 9, 7, 3, 2, 1>>), I64("k", <<2>>)>>, <<Out("y", "uf8", E8), Out("j", "i64", NoQ)>>, A0, 13, ""),
  Make("Split", "n1", <<XCodes(<<4>>, <<>>)>>, <<Out("y", "uf8", E8), Out("z", "uf8", E8)>>, A0, 13, ""),
  Make("Split", "n1", <<XCodes(<<4>>, <<>>)>>, <<Out("y", "uf8", E8), Out("z", "uf8", <<4, -3>>)>>, A0, 13, ""),
  To("ArgMax", <<XCodes(<<2, 3>>, <<5, 9, 7, 3, 2, 1>>)>>, "i64", NoQ, [axis |-> -1]),
  To("Less", <<XCodes(<<2>>, <<>>), ZCodes(<<2>>)>>, "bool", NoQ, A0),
  To("Where", <<Bool(<<2>>), Q(In("w", <<2>>, "f32"), "uf8", E8), ZCodes(<<2>>)>>, "uf8", E8, A0),
  Nd("ScatterElements", <<XCodes(<<3>>, <<>>), Const("i", <<1>>, <<1>>, "i32"), ZCodes(<<1>>)>>, A0),
  Nd("CumSum", <<XCodes(<<2, 3>>, <<>>), Scal("a", 1, "i64")>>, A0),
  Nd("Concat", <<XCodes(<<2>>, <<>>), ZCodes(<<1>>)>>, [axis |-> 0]),
  Nd("Max", <<XCodes(<<2>>, <<>>), ZCodes(<<2>>)>>, A0),
  To("Transpose", <<XCodes(<<2, 3>>, <<>>)>>, "uf8", E8, A0),
  To("Transpose", <<XCodes(<<2, 3>>, <<>>)>>, "uf8", <<4, -3>>, A0) >>

UnitModels == Singles(QuantizedNodes) \o <<
  Activated("Relu", <<>>, 0), Activated("Relu", <<>>, 3), Activated("Relu", <<>>, -3),
  Clipped(-10, 300, 0), Clipped(0, 255, 0), Clipped(0, 6, 0), Clipped(-2, 300, -3), Clipped(-2, 250, 0),
  Accepted("htp", <<Gemm8, Yields(Re("y", From("g"), <<2, 2, 3>>), "uf8", E8)>>),
  Accepted("htp", <<Gemm8, InRows, Yields(At13("Relu", "y", <<From("r")>>, A0), "uf8", <<2, 0>>)>>),
  Accepted("htp", <<Gemm8, InRows, Yields(At13("Relu", "y", <<From("r")>>, A0), "uf8", E8)>>),
  Accepted("htp", <<[Gemm8 EXCEPT !.ins = <<@[1], Transposed8, @[3]>>, !.attr = [beta |-> 1, transB |-> 1]],
                    Yields(Re("y", From("g"), <<2, 2, 3>>), "uf8", E8)>>),
  \* A float result has another reader, or leaves the graph.
  Accepted("htp", <<Add8, Stored8("q", "a"), At13("Relu", "y", <<From("a")>>, A0)>>),
  [Accepted("htp", <<Add8, Stored8("q", "a")>>) EXCEPT !.outputs = @ \cup {<<"a">>}],
  Accepted("htp", <<Add8, At13("Relu", "r", <<From("a")>>, A0), Stored8("q", "r"), At13("Neg", "y", <<From("a")>>, A0)>>),
  [Accepted("htp", <<Add8, At13("Relu", "r", <<From("a")>>, A0), Stored8("q", "r")>>) EXCEPT !.outputs = @ \cup {<<"r">>}],
  [Accepted("htp", <<Gemm8, InRows, Stored8("q", "r")>>) EXCEPT !.outputs = @ \cup {<<"g">>}] >>

FusionModels == PointModels \o QuantizerModels \o UnitModels \o PinnedModels

(***************************************************************************)
(* Reshapes and Transposes.                                                 *)
(***************************************************************************)
Columns(indices, perm) ==
  Pattern("htp", "g+GatherTransposeReshape", <<
    At13("Gather", "g", <<X(<<1, 1, 2, 2, 6>>), Const("i", <<2, 3>>, indices, "i64")>>, [axis |-> -1]),
    Tr("t", From("g"), perm), Re("y", From("t"), <<4, 6>>)>>)

Squeezed(shape, mid, perm) ==
  Pattern("htp", "r+ReshapeTranspose", <<Re("r", X(shape), mid), Tr("y", From("r"), perm)>>)

Between(in, mid, perm, out) == Accepted("htp", <<Re("r", In("x", in, "f32"), mid), Tr("t", From("r"), perm), Re("y", From("t"), out)>>)

Turned(in, first, mid, second) == Accepted("htp", <<Tr("t", X(in), first), Re("r", From("t"), mid), Tr("y", From("r"), second)>>)

ShapeModels == <<
  Columns(<<0, 1, 2, 3, 4, 5>>, <<0, 1, 2, 4, 3, 5>>),
  Columns(<<0, 2, 4, 1, 3, 5>>, <<0, 1, 2, 5, 3, 4>>),
  Columns(<<5, 4, 3, 2, 1, 0>>, <<0, 1, 2, 4, 3, 5>>),
  Squeezed(<<2, 1, 3>>, <<1, 2, 3>>, <<2, 1, 0>>),
  Squeezed(<<2, 1, 2>>, <<1, 2, 2>>, <<1, 0, 2>>),
  Squeezed(<<2, 1, 3>>, <<1, 3, 2>>, <<1, 0, 2>>),
  Between(<<2, 2, 6>>, <<1, 2, 2, 1, 2, 3>>, <<0, 2, 1, 3, 5, 4>>, <<4, 6>>),
  Between(<<4, 6>>, <<2, 2, 1, 3, 1, 2>>, <<0, 1, 3, 2, 5, 4>>, <<4, 6>>),
  Between(<<2, 6>>, <<2, 1, 2, 3, 1>>, <<2, 3, 0, 1, 4>>, <<6, 2>>),
  Between(<<2, 6>>, <<2, 1, 2, 3, 1>>, <<4, 0, 2, 3, 1>>, <<2, 6>>),
  Turned(<<2, 3, 2>>, <<1, 2, 0>>, <<6, 2>>, <<1, 0>>),
  Turned(<<2, 3, 2>>, <<0, 2, 1>>, <<2, 6>>, <<0, 1>>),
  Turned(<<2, 1, 3>>, <<2, 1, 0>>, <<3, 1, 1, 2>>, <<3, 2, 1, 0>>) >>

(***************************************************************************)
(* Blocks and groups of channels.                                           *)
(***************************************************************************)
Shuffled(mid, swap) ==
  Pattern("htp", "t+ChannelShuffle", <<
    Tr("t", X(<<1, 2, 1, 6>>), ToNchw4), Re("r", From("t"), mid), Tr("u", From("r"), swap),
    Re("s", From("u"), <<1, 6, 2, 1>>), Tr("y", From("s"), ToNhwc4)>>)

\* The first Transpose is gone, which the layout transformation does.
ShuffledLast ==
  Pattern("htp", "r+ChannelShuffle", <<
    Re("r", X(<<1, 2, 1, 6>>), <<1, 2, 1, 2, 3>>), Tr("u", From("r"), <<0, 4, 3, 1, 2>>),
    Re("s", From("u"), <<1, 6, 2, 1>>), Tr("t", From("s"), ToNhwc4),
    At13("GlobalMaxPool", "y", <<From("t")>>, A0)>>)

ToDepth(backend, ns) == Pattern(backend, "r+SpaceToDepth", ns)

Blocked(in, mid, perm, out) == <<Re("r", in, mid), Tr("u", From("r"), perm), Re("s", From("u"), out)>>

Nhwc == Tr("y", From("s"), ToNhwc4)

\* Rows, or columns, or both, of step two.
CutTile(name, in, starts, axes) ==
  At13("Slice", name, <<in, I64(name \o "_b", starts), I64(name \o "_e", [j \in 1..Len(axes) |-> 9]), I64(name \o "_a", axes),
                        I64(name \o "_s", [j \in 1..Len(axes) |-> 2])>>, A0)

Tiles(backend, phases) ==
  LET at == <<"t1", "t2", "t3", "t4">> image == X(<<1, 2, 2, 2>>)
  IN  Pattern(backend, "y+SliceConcatSpaceToDepth",
              [j \in 1..4 |-> CutTile(at[j], image, phases[j], <<2, 3>>)]
              \o <<At13("Concat", "y", [j \in 1..4 |-> From(at[j])], [axis |-> 1])>>)

TilesOfRows(inner, outer) ==
  LET image == X(<<1, 1, 2, 4>>)
  IN  Pattern("htp", "y+SliceConcatSpaceToDepth", <<
        CutTile("r1", image, <<0>>, <<outer>>), CutTile("r2", image, <<1>>, <<outer>>),
        CutTile("t1", From("r1"), <<0>>, <<inner>>), CutTile("t2", From("r1"), <<1>>, <<inner>>),
        CutTile("t3", From("r2"), <<0>>, <<inner>>), CutTile("t4", From("r2"), <<1>>, <<inner>>),
        At13("Concat", "y", <<From("t1"), From("t2"), From("t3"), From("t4")>>, [axis |-> 1])>>)

BlockModels == <<
  Shuffled(<<1, 2, 3, 2, 1>>, <<0, 2, 1, 3, 4>>),
  Shuffled(<<3, 2, 2, 1>>, <<1, 0, 2, 3>>),
  Shuffled(<<1, 2, 3, 2, 1>>, <<0, 2, 1, 4, 3>>),
  ShuffledLast,
  ToDepth("htp", Blocked(X(<<1, 2, 4, 2>>), <<1, 2, 2, 2, 1, 2>>, <<0, 3, 5, 1, 2, 4>>, <<1, 8, 2, 1>>) \o <<Nhwc>>),
  ToDepth("cpu", <<Tr("t", X(<<1, 4, 2, 2>>), ToNchw4)>>
                 \o Blocked(From("t"), <<1, 2, 2, 2, 1, 2>>, <<0, 1, 3, 5, 2, 4>>, <<1, 8, 2, 1>>) \o <<Nhwc>>),
  ToDepth("htp", <<Tr("t", X(<<1, 4, 2, 2>>), ToNchw4)>>
                 \o Blocked(From("t"), <<2, 2, 2, 2, 1>>, <<2, 4, 0, 1, 3>>, <<1, 4, 2, 2>>)),
  ToDepth("htp", Blocked(X(<<1, 4, 2, 2>>), <<1, 2, 2, 1, 2, 2>>, <<0, 2, 4, 5, 1, 3>>, <<1, 8, 2, 1>>) \o <<Nhwc>>),
  ToDepth("htp", Blocked(X(<<1, 4, 2, 2>>), <<1, 2, 2, 2, 1, 2>>, <<0, 5, 2, 4, 1, 3>>, <<1, 4, 2, 2>>) \o <<Nhwc>>),
  ToDepth("cpu", Blocked(X(<<1, 4, 2, 2>>), <<1, 2, 2, 2, 1, 2>>, <<0, 5, 2, 4, 1, 3>>, <<1, 4, 2, 2>>) \o <<Nhwc>>),
  Tiles("htp", CanonicalDcrPhases),
  Tiles("htp", <<<<0, 0>>, <<1, 0>>, <<0, 1>>, <<1, 1>>>>),
  Tiles("htp", <<<<1, 1>>, <<0, 0>>, <<1, 0>>, <<0, 1>>>>),
  Tiles("htp", <<<<0, 0>>, <<0, 0>>, <<1, 0>>, <<1, 1>>>>),
  Tiles("cpu", CanonicalDcrPhases),
  With({"v68"}, Tiles("htp", CanonicalDcrPhases)),
  TilesOfRows(3, 2), TilesOfRows(2, 3),
  Pattern("htp", "e+ReshapeEinsumReshape", <<
    Re("r", X(<<1, 2, 4>>), <<1, 1, 2, 2, 2, 1>>),
    At13("Einsum", "e", <<From("r")>>, [equation |-> [ins |-> <<<<"a", "b", "c", "d", "e", "f">>>>, out |-> <<"a", "f", "b", "d", "c", "e">>]]),
    Re("y", From("e"), <<1, 1, 2, 4>>)>>) >>

(***************************************************************************)
(* Normalizations and products.                                             *)
(***************************************************************************)
Norm(in, axes, ns) ==
  Pattern("htp", "r+LayerNorm", <<
    At13("ReduceMean", "r", <<in>>, [axes |-> axes]), At13("Sub", "s", <<in, From("r")>>, A0),
    At13("Pow", "p", <<From("s"), C("two", 2)>>, A0), At13("ReduceMean", "v", <<From("p")>>, [axes |-> axes]),
    At13("Add", "a", <<From("v"), C("eps", Epsilon)>>, A0), At13("Sqrt", "q", <<From("a")>>, A0),
    At13("Div", "d", <<From("s"), From("q")>>, A0)>> \o ns)

Vector(name, shape) == Const(name, shape, [j \in 1..Prod(shape) |-> j + 1], "f32")

Scaled(shape) == At13("Mul", "m", <<From("d"), Vector("gamma", shape)>>, A0)

Moved(shape) == At13("Add", "y", <<From("m"), Vector("beta", shape)>>, A0)

ReGemm(backend, in, rows, ns) ==
  Pattern(backend, "g+ReshapeGemm", <<
    Re("r", X(in), <<rows, 3>>),
    At13("Gemm", "g", <<From("r"), Const("w", <<3, 2>>, <<1, 2, 3, 4, 5, 7>>, "f32"), Vector("bias", <<2>>)>>, A0)>> \o ns)

\* The integers of x times those of w, and what makes them reals again.
Dql(shape) ==
  Make("DynamicQuantizeLinear", "dql", <<X(shape)>>, <<Out("c", "u8", NoQ), F32("s"), Out("z", "u8", NoQ)>>, A0, 13, "")

Product(op, id, weight, zero, scale, attr) ==
  << Yields(At13(op, id, <<From("c"), weight, From("z")>> \o zero, attr), "i32", NoQ),
     At13("Cast", id \o "f", <<From(id)>>, A0),
     At13("Mul", id \o "s", <<From("s"), scale>>, A0),
     At13("Mul", id \o "y", <<From(id \o "f"), From(id \o "s")>>, A0) >>

Bytes(name, shape, dt) == Const(name, shape, [j \in 1..Prod(shape) |-> (j * 5) % 7], dt)

MatInt(id, zero, scale) == Product("MatMulInteger", id, Bytes(id \o "w", <<2, 3>>, "u8"), zero, scale, A0)

ConvInt(id, dt, zero, scale, attr) == Product("ConvInteger", id, Bytes(id \o "w", <<2, 1, 2, 1>>, dt), zero, scale, attr)

Biased(id, shape) == At13("Add", "y", <<From(id \o "y"), Vector("bias", shape)>>, A0)

Siblings(m, tags) == [m EXCEPT !.outputs = {<<"ky">>, <<"ly">>}, !.refusable = tags]

LinearModels == <<
  Norm(SmallX, <<-1>>, <<>>),
  Norm(SmallX, <<-1>>, <<Scaled(<<3>>)>>),
  Norm(SmallX, <<-1>>, <<Scaled(<<1, 3>>), Moved(<<3>>)>>),
  Norm(SmallX, <<0, 1>>, <<Scaled(<<2, 3>>), Moved(<<2, 3>>)>>),
  Norm(SmallX, <<1>>, <<Scaled(<<3>>), Moved(<<1>>)>>),
  Norm(SmallX, <<1>>, <<Scaled(<<2, 1>>), Moved(<<3>>)>>),
  Norm(SmallX, <<0>>, <<>>),
  ReGemm("htp", <<2, 1, 3>>, 2, <<>>),
  ReGemm("htp", <<6>>, 2, <<Re("y", From("g"), <<1, 2, 2>>)>>),
  ReGemm("cpu", <<1, 3>>, 1, <<Re("u", From("g"), <<2>>), Re("y", From("u"), <<2, 1>>)>>),
  With({"native_matmul"}, ReGemm("htp", <<2, 1, 3>>, 2, <<>>)),
  Pattern("htp", "k+DQMatMulInteger", <<Dql(<<2, 2>>)>> \o MatInt("k", <<Scal("kz", 3, "u8")>>, C("kscale", 5))),
  Pattern("htp", "k+DQMatMulInteger", <<Dql(<<1, 2, 2>>)>>
          \o MatInt("k", <<Const("kz", <<3>>, <<3, 1, 2>>, "u8")>>, Vector("kscale", <<3>>)) \o <<Biased("k", <<3>>)>>),
  Pattern("htp", "k+DQMatMulInteger", <<Dql(<<2, 2>>)>> \o MatInt("k", <<>>, Vector("kscale", <<1, 3>>)) \o <<Biased("k", <<2, 1>>)>>),
  Siblings(Pattern("htp", "", <<Dql(<<2, 2>>)>> \o MatInt("k", <<>>, C("kscale", 5)) \o MatInt("l", <<>>, C("lscale", 3))), {}),
  Pattern("htp", "k+DQConvInteger", <<Dql(<<1, 2, 2, 2>>)>>
          \o ConvInt("k", "u8", <<Scal("kz", 3, "u8")>>, C("kscale", 5), [group |-> 2, pads |-> <<0, 1, 1, 0>>])),
  Pattern("cpu", "k+DQConvInteger", <<Dql(<<1, 1, 2, 2>>)>>
          \o ConvInt("k", "i8", <<Const("kz", <<2>>, <<3, 1>>, "i8")>>, Vector("kscale", <<1, 2, 1, 1>>), A0)
          \o <<Biased("k", <<1, 2, 1, 1>>)>>),
  Siblings(Pattern("htp", "", <<Dql(<<1, 1, 2, 2>>)>> \o ConvInt("k", "u8", <<>>, C("kscale", 5), A0)
                                \o ConvInt("l", "u8", <<>>, C("lscale", 3), A0)), {}) >>

BlockFusionModels == ShapeModels \o BlockModels \o LinearModels

(***************************************************************************)
(* Every graph of four nodes, each the sum of what it reads: the backend    *)
(* may refuse any of the nodes, so every set of units is the supported one. *)
(***************************************************************************)
Pairs == <<<<1, 2>>, <<1, 3>>, <<1, 4>>, <<2, 3>>, <<2, 4>>, <<3, 4>>>>

Dag(E) ==
  LET at == <<"a", "b", "c", "d">>
      Preds(k) == SelectSeq(<<1, 2, 3>>, LAMBDA j : <<j, k>> \in E)
      Sums(k) == IF Preds(k) = <<>> THEN <<X(<<1>>)>> ELSE [j \in 1..Len(Preds(k)) |-> From(at[Preds(k)[j]])]
      sinks == {k \in 1..4 : \A e \in E : e[1] # k}
  IN  Model("htp", [k \in 1..4 |-> At13(IF Len(Sums(k)) = 1 THEN "Neg" ELSE "Sum", at[k], Sums(k), A0)],
            {<<at[k]>> : k \in sinks})

\* A node that reads another one twice.
Twice == Model("htp", <<At13("Neg", "a", <<X(<<1>>)>>, A0), At13("Mul", "b", <<From("a"), From("a")>>, A0),
                        At13("Add", "c", <<From("b"), From("a")>>, A0)>>, {<<"c">>})

DagModels == [k \in 1..64 |-> Dag({Pairs[j] : j \in {b \in 1..6 : ((k - 1) \div 2^(b - 1)) % 2 = 1}})] \o <<Twice>>

\* The QuantizeLinear keeps the Reciprocal from being a unit with its
\* DequantizeLinear, until the partition is without it.
LoneModels == <<
  [Model("htp", <<At13("Reciprocal", "r", <<Q(X(<<3>>), "uf8", E8)>>, A0),
                  Yields(At13("QuantizeLinear", "y", <<From("r")>>, A0), "uf16", E16)>>, {<<"y">>}) EXCEPT !.refusable = {"y"}] >>

TranslationModels ==
  MoveModels \o ElementModels \o CombineModels \o ProductModels \o NormModels \o FusionModels \o BlockFusionModels
  \o DagModels \o LoneModels

\* x * 3 where a Gelu has x * 1/2.
TripledModels == <<
  ErfOf2(Div2, <<One, At13("Mul", "h", <<SmallX, C("three", 3)>>, A0), At13("Mul", "y", <<From("h"), From("a")>>, A0)>>) >>

\* "We now verify its non-Add input comes from Mul(root, Mul const=0.5)"
\* (gelu_fusion.cc:142): of the units that are fused into a Gelu, one
\* multiplies by one half.
GeluHalvesItsRoot ==
  \A k \in 1..Len(units) : units[k].fusion = "Gelu" =>
    \E n \in ToSet(Members(node_units, units[k])) :
      n.op = "Mul" /\ \E p \in 1..2 : IsScalarConstant(n.ins[p], Half)
=============================================================================
