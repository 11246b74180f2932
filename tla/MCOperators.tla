---------------------------- MODULE MCOperators ------------------------------
(***************************************************************************)
(* Graphs of one or two operators, for OpTranslation.                       *)
(***************************************************************************)
EXTENDS OpTranslation

(***************************************************************************)
(* How the models are written down.                                         *)
(***************************************************************************)
In(name, shape, dt) == [name |-> <<name>>, from |-> "input", shape |-> shape, dt |-> dt, q |-> NoQ, data |-> <<>>]

X(shape) == In("x", shape, "f32")

Bool(shape) == [In("x", shape, "bool") EXCEPT !.data = [k \in 1..Prod(shape) |-> k % 2]]

Const(name, shape, data, dt) == [In(name, shape, dt) EXCEPT !.from = "const", !.data = data]

I64(name, d) == Const(name, <<Len(d)>>, d, "i64")

Scal(name, v, dt) == Const(name, <<>>, <<v>>, dt)

Missing == [In("", <<>>, "none") EXCEPT !.from = "none"]

From(name) == [In(name, <<>>, "none") EXCEPT !.from = "node"]

As(io, dt) == [io EXCEPT !.dt = dt]

Q(io, dt, q) == [io EXCEPT !.dt = dt, !.q = q]

Out(name, dt, q) == [name |-> <<name>>, dt |-> dt, q |-> q]

Make(op, name, ins, outs, attr, opset, domain) ==
  [op |-> op, name |-> name, ins |-> ins, outs |-> outs, attr |-> attr, opset |-> opset,
   domain |-> domain, consumers |-> <<>>]

Nd(op, ins, attr) == Make(op, "n1", ins, <<Out("y", ins[1].dt, ins[1].q)>>, attr, 13, "")

A0 == [none |-> 0]

F32(name) == Out(name, "f32", NoQ)

\* The node n with a first result of another type or encoding.
Yields(n, dt, q) == [n EXCEPT !.outs = <<[@[1] EXCEPT !.dt = dt, !.q = q]>>]

Model(backend, ns, outputs) ==
  [backend |-> backend, opts |-> {}, affinity |-> <<>>, offload |-> FALSE, nodes |-> ns, outputs |-> outputs,
   refusable |-> IF Len(ns) = 1 THEN {} ELSE {ns[k].name : k \in 1..Len(ns)}]

\* A model of which the backend takes the nodes S for certain.
Taking(S, model) == [model EXCEPT !.refusable = @ \ S]

With(opts, model) == [model EXCEPT !.opts = opts]

Pinned(affinity, model) == [model EXCEPT !.affinity = affinity]

\* Each node as a model of its own, on HTP and on the CPU backend.
Singles(ns) ==
  [k \in 1..(2 * Len(ns)) |->
     LET n == ns[(k + 1) \div 2] IN Model(IF k % 2 = 1 THEN "htp" ELSE "cpu", <<n>>, OutNames(n))]

(***************************************************************************)
(* Data movement and indexing.                                              *)
(***************************************************************************)
Slice(x, s, e, a, st) == Nd("Slice", <<x, I64("s", s), I64("e", e), I64("a", a), I64("t", st)>>, A0)

MoveNodes == <<
  Nd("Reshape", <<X(<<2, 3>>), I64("shape", <<3, -1>>)>>, A0),
  Nd("Reshape", <<As(X(<<2, 3>>), "i64"), I64("shape", <<0, 3, 1>>)>>, A0),
  Yields(Nd("Reshape", <<Q(X(<<2>>), "uf8", <<2, -3>>), I64("shape", <<1, 2>>)>>, A0), "uf8", <<5, -3>>),
  Nd("Transpose", <<X(<<2, 3, 2>>)>>, [perm |-> <<1, 2, 0>>]),
  Nd("Transpose", <<X(<<2, 1, 3>>)>>, [perm |-> <<1, 0, 2>>]),
  Nd("Transpose", <<X(<<2, 3>>)>>, A0),
  Nd("Identity", <<As(X(<<2, 3>>), "i64")>>, A0),
  Slice(X(<<4, 3>>), <<-1, 0>>, <<-1000, 2>>, <<0, -1>>, <<-2, 1>>),
  Slice(Bool(<<4, 3>>), <<1>>, <<IntMax>>, <<0>>, <<1>>),
  Make("Slice", "n1", <<X(<<4, 3>>)>>, <<Out("y", "f32", NoQ)>>, [starts |-> <<1>>, ends |-> <<-1>>], 9, ""),
  Slice(X(<<4>>), <<2>>, <<2>>, <<0>>, <<1>>),
  Make("Split", "n1", <<X(<<5, 2>>)>>, <<Out("y", "f32", NoQ), Out("z", "f32", NoQ)>>, A0, 18, ""),
  Make("Split", "n1", <<X(<<2, 5>>), I64("len", <<1, 3, 1>>)>>,
           <<Out("y", "f32", NoQ), Out("z", "f32", NoQ), Out("w", "f32", NoQ)>>, [axis |-> -1], 13, ""),
  Nd("Concat", <<X(<<2, 2>>), In("x2", <<2, 1>>, "f32"), In("x3", <<2, 0>>, "f32")>>, [axis |-> -1]),
  Nd("Pad", <<X(<<2, 3>>), I64("pads", <<1, 0, 0, 2>>), Scal("v", 9, "f32")>>, A0),
  Nd("Pad", <<X(<<3, 3>>), I64("pads", <<1, -1, -2, 2>>), Missing>>, A0),
  Nd("Pad", <<X(<<3, 3>>), I64("pads", <<-1, -1, 0, -1>>)>>, A0),
  Nd("Pad", <<X(<<3, 2>>), I64("pads", <<2, 0, 1, 1>>)>>, [mode |-> "reflect"]),
  Nd("Pad", <<X(<<3, 2>>), I64("pads", <<2, 0, 1, 1>>)>>, [mode |-> "edge"]),
  Nd("Pad", <<Q(X(<<2>>), "uf8", <<5, -3>>), I64("pads", <<1, 1>>),
              Q(Scal("v", 9, "f32"), "uf8", <<2, -1>>)>>, A0),
  Nd("Expand", <<X(<<2, 1>>), I64("shape", <<2, 3>>)>>, A0),
  Nd("Expand", <<As(X(<<3>>), "i64"), I64("shape", <<2, 1>>)>>, A0),
  Nd("Tile", <<X(<<2, 2>>), I64("rep", <<2, 1>>)>>, A0),
  Make("Shape", "n1", <<X(<<2, 3, 4>>)>>, <<Out("y", "i64", NoQ)>>, [start |-> -2, end |-> 9], 15, ""),
  Make("Shape", "n1", <<X(<<2, 3>>)>>, <<Out("y", "i64", NoQ)>>, [start |-> 2], 15, ""),
  Nd("Range", <<Scal("a", 1, "i64"), Scal("b", 8, "i64"), Scal("c", 3, "i64")>>, A0),
  Nd("Range", <<Scal("a", 5, "f32"), Scal("b", 0, "f32"), Scal("c", -2, "f32")>>, A0)>>

DynI64(name, shape, d) == [In(name, shape, "i64") EXCEPT !.data = d]

Ix(op, ins, dt, attr) == Make(op, "n1", ins, <<Out("y", dt, NoQ)>>, attr, 13, "")

IndexNodes == <<
  Nd("Gather", <<X(<<3, 2>>), I64("i", <<-1, 0>>)>>, [axis |-> 0]),
  Nd("Gather", <<X(<<3, 2>>), Scal("i", 1, "i64")>>, [axis |-> -1]),
  Nd("Gather", <<X(<<3, 2>>), DynI64("i", <<2, 2>>, <<2, 0, 1, 1>>)>>, A0),
  Nd("Gather", <<As(X(<<3, 2>>), "i64"), DynI64("i", <<2>>, <<2, 0>>)>>, A0),
  Nd("Gather", <<Bool(<<3, 2>>), I64("i", <<2, 0>>)>>, A0),
  Nd("Gather", <<Bool(<<3, 2>>), Scal("i", 2, "i64")>>, A0),
  Nd("Gather", <<Q(X(<<3>>), "uf8", <<4, -2>>), I64("i", <<5>>)>>, A0),
  Nd("GatherElements", <<X(<<3, 2>>), Const("i", <<2, 2>>, <<-1, 0, 1, 2>>, "i64")>>, A0),
  Nd("GatherElements", <<Bool(<<3, 2>>), Const("i", <<2, 2>>, <<2, 0, 1, 2>>, "i32")>>, A0),
  Nd("GatherND", <<X(<<2, 3>>), Const("i", <<2, 2>>, <<-1, 0, 1, -2>>, "i64")>>, A0),
  Nd("GatherND", <<X(<<2, 3>>), Const("i", <<2, 1>>, <<1, 0>>, "i64")>>, A0),
  Nd("GatherND", <<As(X(<<2, 3>>), "i64"), DynI64("i", <<1, 1, 1, 2, 2>>, <<1, 0, 0, 2>>)>>, A0),
  Nd("GatherND", <<Bool(<<2, 3>>), Const("i", <<1, 2>>, <<1, 0>>, "i64")>>, A0),
  Nd("ArrayFeatureExtractor", <<X(<<2, 3>>), I64("i", <<-1, 0>>)>>, A0),
  Nd("ArrayFeatureExtractor", <<As(X(<<2, 3>>), "i64"), DynI64("i", <<2>>, <<2, 1>>)>>, A0),
  Nd("ScatterElements", <<X(<<3, 2>>), Const("i", <<1, 2>>, <<-1, 0>>, "i64"), In("u", <<1, 2>>, "f32")>>, A0),
  Nd("ScatterElements", <<X(<<3>>), Const("i", <<2>>, <<1, 1>>, "i32"), In("u", <<2>>, "f32")>>, [reduction |-> "add"]),
  Nd("ScatterElements", <<X(<<3>>), Const("i", <<2>>, <<1, 1>>, "i32"), In("u", <<2>>, "f32")>>, [reduction |-> "min"]),
  Nd("ScatterND", <<X(<<3, 2>>), Const("i", <<2, 1>>, <<-1, 0>>, "i64"), In("u", <<2, 2>>, "f32")>>, A0),
  Nd("ScatterND", <<X(<<3, 2>>), Const("i", <<2, 2>>, <<2, 1, 2, 1>>, "i64"), In("u", <<2>>, "f32")>>, [reduction |-> "mul"]),
  Ix("OneHot", <<[In("x", <<2>>, "i32") EXCEPT !.data = <<2, 0>>], Scal("d", 3, "i64"), Const("v", <<2>>, <<0, 5>>, "f32")>>, "f32", A0),
  Ix("OneHot", <<DynI64("x", <<2>>, <<1, 2>>), Scal("d", 3, "i64"), Const("v", <<2>>, <<7, 5>>, "f32")>>, "f32", [axis |-> 0]),
  Make("TopK", "n1", <<[X(<<2, 3>>) EXCEPT !.data = <<5, 9, 7, 3, 3, 1>>], I64("k", <<2>>)>>,
       <<Out("y", "f32", NoQ), Out("z", "i64", NoQ)>>, A0, 11, ""),
  Make("TopK", "n1", <<[X(<<3, 2>>) EXCEPT !.data = <<5, 9, 7, 3, 3, 1>>], I64("k", <<2>>)>>,
       <<Out("y", "f32", NoQ), Out("z", "i64", NoQ)>>, [axis |-> 0, largest |-> 0], 11, ""),
  Ix("ArgMax", <<[X(<<2, 3>>) EXCEPT !.data = <<5, 9, 9, 3, 3, 1>>]>>, "i64", [axis |-> -1, keepdims |-> 0]),
  Ix("ArgMin", <<[X(<<2, 3>>) EXCEPT !.data = <<5, 9, 9, 3, 3, 1>>]>>, "i64", A0),
  Ix("ArgMax", <<X(<<2, 3>>)>>, "i64", [select_last_index |-> 1]),
  Nd("CumSum", <<X(<<2, 3>>), Scal("a", -1, "i64")>>, A0),
  Nd("CumSum", <<X(<<2, 3>>), Scal("a", 0, "i32")>>, [reverse |-> 1])>>

(***************************************************************************)
(* Models of several nodes, which meet on a tensor.                         *)
(***************************************************************************)
Two(op, k, ins, outs, attr) == Make(op, <<"n1", "n2", "n3">>[k], ins, outs, attr, 13, "")

Chains == <<
  \* An empty slice that only a Concat reads.
  Taking({"n2"}, Model("htp",
    <<Two("Slice", 1, <<X(<<4>>), I64("s", <<2>>), I64("e", <<2>>), I64("a", <<0>>), I64("t", <<1>>)>>, <<F32("p")>>, A0),
      Two("Concat", 2, <<From("p"), In("x2", <<2>>, "f32")>>, <<F32("y")>>, [axis |-> 0])>>, {<<"y">>})),
  \* A transpose of a constant, folded, and one of its result.
  Model("htp", <<Two("Transpose", 1, <<Const("c", <<2, 3>>, <<1, 2, 3, 4, 5, 6>>, "f32")>>, <<F32("p")>>, A0),
                 Two("Concat", 2, <<From("p"), In("x2", <<3, 1>>, "f32")>>, <<F32("y")>>, [axis |-> 1])>>, {<<"y">>}),
  Model("htp", <<Two("Transpose", 1, <<Const("c", <<2, 3>>, <<1, 2, 3, 4, 5, 6>>, "f32")>>, <<F32("p")>>, A0),
                 Two("Transpose", 2, <<From("p")>>, <<F32("y")>>, A0),
                 Two("Tile", 3, <<From("p"), I64("r", <<1, 2>>)>>, <<F32("z")>>, A0)>>, {<<"y">>, <<"z">>}),
  \* int64 through two nodes: shape arithmetic.
  Model("htp", <<Two("Shape", 1, <<X(<<2, 3>>)>>, <<Out("p", "i64", NoQ)>>, A0),
                 Two("Gather", 2, <<From("p"), I64("i", <<-1>>)>>, <<Out("q", "i64", NoQ)>>, A0),
                 Two("Concat", 3, <<From("q"), I64("c", <<7>>)>>, <<Out("y", "i64", NoQ)>>, [axis |-> 0])>>, {<<"y">>}),
  \* Two gathers of one initializer of negative indices.
  Model("htp", <<Two("Gather", 1, <<X(<<3, 2>>), I64("i", <<-1>>)>>, <<F32("p")>>, A0),
                 Two("Gather", 2, <<X(<<3, 2>>), I64("i", <<-1>>)>>, <<F32("q")>>, [axis |-> 1]),
                 Two("Gather", 3, <<From("p"), I64("i", <<-1>>)>>, <<F32("y")>>, A0)>>, {<<"q">>, <<"y">>}),
  \* Two readers of int64 indices, a model input.
  Model("htp", <<Two("Gather", 1, <<X(<<3, 2>>), DynI64("i", <<2>>, <<1, 0>>)>>, <<F32("p")>>, A0),
                 Two("Gather", 2, <<From("p"), DynI64("i", <<2>>, <<1, 0>>)>>, <<F32("y")>>, [axis |-> 1])>>, {<<"y">>}),
  \* A tensor that both leaves the model and is read.
  Model("htp", <<Two("Identity", 1, <<As(X(<<2>>), "i64")>>, <<Out("y", "i64", NoQ)>>, A0),
                 Two("Tile", 2, <<From("y"), I64("r", <<2>>)>>, <<Out("z", "i64", NoQ)>>, A0)>>, {<<"y">>, <<"z">>}),
  \* A diamond.
  Model("cpu", <<Two("Tile", 1, <<X(<<2>>), I64("r", <<2>>)>>, <<F32("p")>>, A0),
                 Two("Reshape", 2, <<From("p"), I64("s", <<2, 2>>)>>, <<F32("q")>>, A0),
                 Two("Concat", 3, <<From("q"), From("q")>>, <<F32("y")>>, A0)>>, {<<"y">>}) >>

MoveModels == Singles(MoveNodes) \o Singles(IndexNodes) \o Chains

(***************************************************************************)
(* Elementwise operators.                                                   *)
(***************************************************************************)
\* A node with one output of the given type.
To(op, ins, dt, q, attr) == Make(op, "n1", ins, <<Out("y", dt, q)>>, attr, 13, "")

Signed(shape) == [X(shape) EXCEPT !.data = [k \in 1..Prod(shape) |-> 2 * k - 5]]

Y(shape) == In("x2", shape, "f32")

Z(shape) == In("x3", shape, "f32")

Unaries == <<"Abs", "Asin", "Atan", "Ceil", "Cos", "Exp", "Floor", "Gelu", "HardSwish", "Log", "Neg", "Relu", "Round",
             "Sigmoid", "Sign", "Sin", "Softplus", "Sqrt", "Tanh", "Elu", "HardSigmoid", "LeakyRelu", "Reciprocal",
             "Tan", "Selu", "QuickGelu", "Swish">>

Binaries == <<"Add", "Sub", "Mul", "Div", "Pow", "Max", "Min", "Sum", "PRelu">>

Compares == <<"Equal", "Greater", "GreaterOrEqual", "Less", "LessOrEqual">>

QU8 == <<2, -3>>

U16 == <<5, -7>>

ElementNodes ==
  [k \in 1..Len(Unaries) |-> Nd(Unaries[k], <<Signed(<<2, 3>>)>>, A0)]
  \o [k \in 1..Len(Binaries) |-> Nd(Binaries[k], <<Signed(<<2, 2>>), Y(<<2>>)>>, A0)]
  \o [k \in 1..Len(Compares) |-> To(Compares[k], <<Signed(<<2, 2>>), Y(<<2>>)>>, "bool", NoQ, A0)]
  \o <<
  \* Quantized: the same precision, a wider input, a narrower and a wider output.
  To("Add", <<Q(X(<<3>>), "uf8", QU8), Q(Y(<<3>>), "uf8", QU8)>>, "uf8", <<4, -9>>, A0),
  To("Mul", <<Q(X(<<3>>), "uf16", U16), Q(Y(<<3>>), "uf8", QU8)>>, "uf16", <<4, -9>>, A0),
  To("Sub", <<Q(X(<<3>>), "uf8", QU8), Q(Y(<<3>>), "uf16", U16)>>, "uf8", <<4, -9>>, A0),
  To("Relu", <<Q(Signed(<<3>>), "uf16", U16)>>, "uf8", QU8, A0),
  To("Neg", <<Q(Signed(<<3>>), "uf8", QU8)>>, "uf16", U16, A0),
  To("LeakyRelu", <<Q(Signed(<<3>>), "uf8", QU8)>>, "uf8", QU8, [alpha |-> 3]),
  To("LeakyRelu", <<As(Signed(<<3>>), "f16")>>, "f16", NoQ, [alpha |-> 3]),
  To("Sigmoid", <<Q(Signed(<<3>>), "uf8", QU8)>>, "uf8", QU8, A0),
  To("Tanh", <<Q(Signed(<<3>>), "uf16", U16)>>, "uf16", <<InvR(32768), -32768>>, A0),
  \* Three inputs.
  Nd("Sum", <<Signed(<<2>>), Y(<<2, 1>>), Z(<<1>>)>>, A0),
  Nd("Max", <<Signed(<<2>>), Y(<<2>>), Z(<<2>>)>>, A0),
  To("Min", <<Q(Signed(<<2>>), "uf8", QU8), Y(<<2>>), Q(Z(<<2>>), "uf16", U16)>>, "uf8", QU8, A0),
  Nd("Sum", <<As(Signed(<<2>>), "i64"), As(Y(<<2>>), "i64"), As(Z(<<2>>), "i64")>>, A0),
  Nd("Mean", <<Signed(<<2>>), Y(<<2>>), Z(<<2>>)>>, A0),
  Nd("Max", <<X(<<2>>)>>, A0),
  \* Booleans and selection.
  Nd("And", <<Bool(<<2>>), [Bool(<<2>>) EXCEPT !.name = <<"x2">>]>>, A0),
  Nd("Or", <<Bool(<<2>>), [Bool(<<2>>) EXCEPT !.name = <<"x2">>]>>, A0),
  Nd("Xor", <<Bool(<<2>>), [Bool(<<1>>) EXCEPT !.name = <<"x2">>]>>, A0),
  Nd("Not", <<Bool(<<2>>)>>, A0),
  To("Where", <<Bool(<<2>>), Y(<<2, 2>>), Z(<<1>>)>>, "f32", NoQ, A0),
  To("IsInf", <<[X(<<3>>) EXCEPT !.data = <<Inf, 0 - Inf, 2>>]>>, "bool", NoQ, [detect_negative |-> 0]),
  To("IsNaN", <<[X(<<2>>) EXCEPT !.data = <<Nan, 2>>]>>, "bool", NoQ, A0),
  \* Attributes.
  Nd("Elu", <<Signed(<<3>>)>>, [alpha |-> 4]),
  Nd("HardSigmoid", <<Signed(<<3>>)>>, [alpha |-> 2, beta |-> 1]),
  Nd("Swish", <<Signed(<<3>>)>>, [alpha |-> 3]),
  Nd("ThresholdedRelu", <<Signed(<<4>>)>>, [alpha |-> 2]),
  Nd("LpNormalization", <<X(<<2, 2>>)>>, [axis |-> 0]),
  Nd("LpNormalization", <<X(<<2, 2>>)>>, [p |-> 1]),
  Nd("Mod", <<Signed(<<2, 2>>), Y(<<1>>)>>, A0),
  Nd("Mod", <<As(Signed(<<2, 2>>), "i64"), As(Y(<<2>>), "i64")>>, A0),
  Nd("Mod", <<Signed(<<2>>), Y(<<2>>)>>, [fmod |-> 1]),
  Nd("Reciprocal", <<Q(X(<<3>>), "uf8", QU8)>>, A0),
  \* Clip.
  Nd("Clip", <<Signed(<<4>>), Scal("lo", 0, "f32"), Scal("hi", 2, "f32")>>, A0),
  Nd("Clip", <<Signed(<<4>>), Missing, Scal("hi", 2, "f32")>>, A0),
  Nd("Clip", <<Signed(<<4>>), Scal("lo", -1, "f32")>>, A0),
  Nd("Clip", <<Q(Signed(<<4>>), "uf8", QU8), Q(Scal("lo", 0, "f32"), "uf8", <<3, -1>>)>>, A0),
  Nd("Clip", <<Signed(<<4>>), In("lo", <<>>, "f32")>>, A0),
  \* Cast.
  To("Cast", <<X(<<2>>)>>, "f16", NoQ, A0),
  To("Cast", <<Signed(<<3>>)>>, "bool", NoQ, A0),
  To("Cast", <<As(Signed(<<3>>), "f16")>>, "bool", NoQ, A0),
  To("Cast", <<As(X(<<3>>), "u8")>>, "f32", NoQ, A0),
  To("Cast", <<As(X(<<3>>), "i64")>>, "f32", NoQ, A0),
  To("Cast", <<As(X(<<3>>), "i32")>>, "i64", NoQ, A0),
  To("Cast", <<As(X(<<3>>), "i32")>>, "bool", NoQ, A0),
  To("Cast", <<As(X(<<3>>), "f64")>>, "f32", NoQ, A0),
  To("CastLike", <<X(<<2>>), In("like", <<1>>, "i32")>>, "i32", NoQ, A0),
  \* Layout.
  Nd("DepthToSpace", <<X(<<1, 4, 1, 2>>)>>, [blocksize |-> 2]),
  Nd("DepthToSpace", <<X(<<1, 8, 1, 1>>)>>, [blocksize |-> 2, mode |-> "CRD"]),
  Nd("SpaceToDepth", <<X(<<1, 2, 2, 2>>)>>, [blocksize |-> 2]),
  To("SpaceToDepth", <<Q(X(<<1, 1, 2, 2>>), "uf8", QU8)>>, "uf8", QU8, [blocksize |-> 2]),
  Nd("GridSample", <<X(<<1, 2, 1, 2>>), In("g", <<1, 2, 1, 2>>, "f32")>>, [mode |-> "bilinear"]),
  Nd("GridSample", <<X(<<1, 1, 1, 2>>), In("g", <<1, 1, 1, 2>>, "f32")>>,
     [mode |-> "nearest", padding_mode |-> "border", align_corners |-> 1]),
  Nd("LRN", <<X(<<1, 3, 1, 2>>)>>, [size |-> 3, alpha |-> 6, beta |-> 2, bias |-> 5]),
  Nd("LRN", <<X(<<1, 3, 1>>)>>, [size |-> 2, alpha |-> 6, beta |-> 2])>>

Seq2(op, k, ins, out, attr) == Make(op, <<"n1", "n2", "n3">>[k], ins, <<out>>, attr, 13, "")

F(name) == Out(name, "f32", NoQ)

ElementChains == <<
  \* 16-bit Sigmoid inside of a partition takes QNN's encoding.
  Taking({"n2"},
    Model("htp", <<Seq2("Sigmoid", 1, <<Q(Signed(<<2>>), "uf16", U16)>>, Out("p", "uf16", U16), A0),
                   Seq2("Mul", 2, <<From("p"), Q(Y(<<2>>), "uf16", U16)>>, Out("y", "uf16", U16), A0)>>, {<<"y">>})),
  \* A Dequantize and a Quantize at the border.
  Model("htp", <<Seq2("DequantizeLinear", 1, <<Q(Signed(<<2>>), "uf8", QU8)>>, F("p"), A0),
                 Seq2("Relu", 2, <<From("p")>>, F("q"), A0),
                 Seq2("QuantizeLinear", 3, <<From("q")>>, Out("y", "uf8", QU8), A0)>>, {<<"y">>}),
  [Model("htp", <<Seq2("QuantizeLinear", 1, <<Signed(<<2>>)>>, Out("p", "uf8", QU8), A0),
                  Seq2("Relu", 2, <<From("p")>>, Out("q", "uf8", QU8), A0),
                  Seq2("DequantizeLinear", 3, <<From("q")>>, F("y"), A0)>>, {<<"y">>}) EXCEPT !.offload = TRUE],
  \* A Gelu in front of a Transpose.
  Model("htp", <<Seq2("Gelu", 1, <<Signed(<<2, 2, 3>>)>>, F("p"), A0),
                 Seq2("Transpose", 2, <<From("p")>>, F("y"), [perm |-> <<0, 2, 1>>])>>, {<<"y">>}),
  \* Casts there and back.
  Model("htp", <<Seq2("Cast", 1, <<Signed(<<3>>)>>, Out("p", "bool", NoQ), A0),
                 Seq2("Not", 2, <<From("p")>>, Out("q", "bool", NoQ), A0),
                 Seq2("Cast", 3, <<From("q")>>, F("y"), A0)>>, {<<"p">>, <<"y">>}),
  Model("cpu", <<Seq2("Cast", 1, <<As(Signed(<<3>>), "i64")>>, Out("p", "i32", NoQ), A0),
                 Seq2("Cast", 2, <<From("p")>>, Out("q", "i64", NoQ), A0),
                 Seq2("Cast", 3, <<From("q")>>, F("y"), A0)>>, {<<"y">>}) >>

ElementModels == Singles(ElementNodes) \o ElementChains

(***************************************************************************)
(* Operators that combine elements along axes.                              *)
(***************************************************************************)
AtOpset(opset, n) == [n EXCEPT !.opset = opset]

\* A quantized node whose output has an encoding of its own.
Encoded(n, q) == [n EXCEPT !.outs = <<[@[1] EXCEPT !.q = q]>>]

QX(shape) == Q(X(shape), "uf8", <<2, -3>>)

Sizes(s) == <<Missing, Missing, I64("sizes", s)>>

ReduceOps7 == <<"ReduceL2", "ReduceLogSumExp", "ReduceMax", "ReduceMean", "ReduceMin", "ReduceProd", "ReduceSum">>

CombineNodes ==
  <<
  \* Softmax: before and after opset 13, every axis.
  Nd("Softmax", <<X(<<2, 3>>)>>, A0),
  Nd("Softmax", <<X(<<2, 3, 2>>)>>, [axis |-> 0]),
  Nd("Softmax", <<X(<<2, 3, 2>>)>>, [axis |-> 1]),
  Nd("Softmax", <<X(<<2, 1, 2>>)>>, [axis |-> -2]),
  Nd("LogSoftmax", <<X(<<2, 3>>)>>, [axis |-> 0]),
  AtOpset(11, Nd("Softmax", <<X(<<2, 2, 2>>)>>, A0)),
  AtOpset(11, Nd("Softmax", <<X(<<2, 2, 2>>)>>, [axis |-> 0])),
  AtOpset(11, Nd("LogSoftmax", <<X(<<2, 2, 2>>)>>, [axis |-> -1])),
  Nd("Softmax", <<X(<<2, 2>>)>>, [axis |-> 2]),
  Encoded(Nd("Softmax", <<QX(<<2, 2>>)>>, A0), <<InvR(256), 0>>),
  Encoded(Nd("Softmax", <<QX(<<2, 2>>)>>, A0), <<InvR(256), -128>>),
  Encoded(Nd("Softmax", <<QX(<<2, 2>>)>>, [axis |-> 0]), <<InvR(256), -128>>),
  Encoded(AtOpset(11, Nd("Softmax", <<QX(<<2, 2, 1>>)>>, A0)), <<InvR(256), -128>>),
  \* Pooling.
  Nd("MaxPool", <<X(<<1, 2, 3, 3>>)>>, [kernel_shape |-> <<2, 2>>]),
  Nd("MaxPool", <<X(<<1, 1, 4, 3>>)>>, [kernel_shape |-> <<2, 1>>, strides |-> <<2, 1>>, pads |-> <<1, 0, 0, 0>>]),
  Nd("MaxPool", <<X(<<1, 1, 4, 4>>)>>, [kernel_shape |-> <<3, 3>>, strides |-> <<2, 2>>, ceil_mode |-> 1]),
  Nd("AveragePool", <<X(<<1, 1, 3, 3>>)>>, [kernel_shape |-> <<2, 2>>, auto_pad |-> "SAME_UPPER"]),
  Nd("AveragePool", <<X(<<1, 1, 3, 4>>)>>, [kernel_shape |-> <<2, 3>>, auto_pad |-> "SAME_LOWER", strides |-> <<1, 2>>]),
  Nd("AveragePool", <<X(<<1, 1, 2, 2>>)>>, [kernel_shape |-> <<2, 2>>, pads |-> <<1, 1, 0, 1>>, count_include_pad |-> 1]),
  Nd("AveragePool", <<X(<<1, 2, 4>>)>>, [kernel_shape |-> <<2>>, strides |-> <<2>>, pads |-> <<1, 1>>]),
  Nd("MaxPool", <<QX(<<1, 2, 3>>)>>, [kernel_shape |-> <<2>>]),
  Nd("MaxPool", <<QX(<<1, 2, 2, 2>>)>>, [kernel_shape |-> <<2, 1>>]),
  Nd("AveragePool", <<X(<<1, 1, 2, 2, 2>>)>>, [kernel_shape |-> <<2, 1, 2>>]),
  Nd("MaxPool", <<X(<<1, 1, 2, 2, 2>>)>>, [kernel_shape |-> <<2, 1, 2>>]),
  Nd("MaxPool", <<X(<<1, 1, 3, 3>>)>>, [kernel_shape |-> <<2, 2>>, dilations |-> <<2, 2>>]),
  Nd("MaxPool", <<As(X(<<1, 1, 2, 2>>), "f16")>>, [kernel_shape |-> <<2, 2>>]),
  Nd("GlobalAveragePool", <<X(<<1, 2, 2, 3>>)>>, A0),
  Nd("GlobalMaxPool", <<X(<<2, 1, 4>>)>>, A0),
  Nd("LpPool", <<X(<<1, 2, 3, 2>>)>>, [kernel_shape |-> <<2, 2>>, pads |-> <<1, 0, 0, 1>>]),
  Nd("LpPool", <<X(<<1, 1, 4>>)>>, [kernel_shape |-> <<3>>, p |-> 1, pads |-> <<1, 1>>, strides |-> <<2>>]),
  Nd("LpPool", <<X(<<1, 1, 3, 3>>)>>, [kernel_shape |-> <<2, 2>>, p |-> 1, auto_pad |-> "SAME_UPPER"]),
  Nd("LpPool", <<X(<<1, 1, 2, 2, 2>>)>>, [kernel_shape |-> <<2, 2, 1>>]),
  Nd("LpPool", <<X(<<1, 1, 2, 2>>)>>, [kernel_shape |-> <<2, 2>>, p |-> 3]),
  \* Resize and Upsample.
  Nd("Resize", <<X(<<1, 2, 2, 2>>)>> \o Sizes(<<1, 2, 4, 3>>),
     [mode |-> "nearest", nearest_mode |-> "floor", coordinate_transformation_mode |-> "asymmetric"]),
  Nd("Resize", <<X(<<1, 1, 2, 3>>)>> \o Sizes(<<1, 1, 4, 3>>),
     [mode |-> "nearest", nearest_mode |-> "round_prefer_ceil", coordinate_transformation_mode |-> "align_corners"]),
  Nd("Resize", <<X(<<1, 2, 3>>)>> \o Sizes(<<1, 2, 5>>),
     [mode |-> "nearest", nearest_mode |-> "floor", coordinate_transformation_mode |-> "half_pixel"]),
  Nd("Resize", <<X(<<1, 1, 3, 2>>)>> \o Sizes(<<1, 1, 2, 5>>),
     [mode |-> "nearest", nearest_mode |-> "floor", coordinate_transformation_mode |-> "tf_half_pixel_for_nn"]),
  Nd("Resize", <<QX(<<1, 1, 3, 2>>)>> \o Sizes(<<1, 1, 2, 4>>),
     [mode |-> "nearest", nearest_mode |-> "floor", coordinate_transformation_mode |-> "tf_half_pixel_for_nn"]),
  Nd("Resize", <<X(<<1, 1, 3, 2>>)>> \o Sizes(<<1, 1, 2, 5>>),
     [mode |-> "linear", coordinate_transformation_mode |-> "tf_half_pixel_for_nn"]),
  Nd("Resize", <<X(<<1, 1, 2, 2>>)>> \o Sizes(<<1, 1, 3, 4>>), [mode |-> "linear"]),
  Nd("Resize", <<X(<<1, 1, 2, 2>>)>> \o Sizes(<<1, 1, 3, 4>>),
     [mode |-> "linear", coordinate_transformation_mode |-> "align_corners"]),
  Nd("Resize", <<X(<<1, 1, 2, 3>>)>> \o Sizes(<<1, 1, 4, 2>>),
     [mode |-> "linear", coordinate_transformation_mode |-> "pytorch_half_pixel"]),
  Nd("Resize", <<X(<<1, 1, 2, 3>>)>> \o Sizes(<<1, 1, 1, 2>>),
     [mode |-> "linear", coordinate_transformation_mode |-> "pytorch_half_pixel"]),
  Nd("Resize", <<X(<<1, 1, 2, 3>>)>> \o Sizes(<<1, 1, 3, 2>>),
     [mode |-> "linear", coordinate_transformation_mode |-> "asymmetric"]),
  Nd("Resize", <<X(<<1, 1, 2, 2>>), Missing, Const("s", <<4>>, <<1, 1, 2, 2>>, "f32")>>, [mode |-> "cubic"]),
  Nd("Resize", <<X(<<1, 1, 2, 2>>)>> \o Sizes(<<1, 2, 2, 2>>), [mode |-> "linear"]),
  Nd("Resize", <<X(<<1, 1, 2, 2>>)>> \o Sizes(<<1, 1, 4, 4>>),
     [mode |-> "nearest", nearest_mode |-> "ceil", coordinate_transformation_mode |-> "asymmetric"]),
  AtOpset(9, Nd("Upsample", <<X(<<1, 2, 2, 1>>), Const("s", <<4>>, <<1, 1, 2, 3>>, "f32")>>, A0)),
  AtOpset(9, Nd("Upsample", <<X(<<1, 1, 2, 2>>), Const("s", <<4>>, <<1, 1, 2, 3>>, "f32")>>, [mode |-> "linear"])),
  AtOpset(9, Nd("Upsample", <<X(<<1, 1, 3>>), Const("s", <<3>>, <<1, 1, 2>>, "f32")>>, [mode |-> "linear"])),
  AtOpset(7, Nd("Upsample", <<X(<<1, 1, 2, 2>>)>>, [scales |-> <<1, 1, 2, 1>>])),
  \* Reduce*: quantized, without the reduced axes, with axes as input.
  Nd("ReduceL2", <<QX(<<2, 2>>)>>, [axes |-> <<1>>]),
  Nd("ReduceMean", <<QX(<<2, 2>>)>>, [axes |-> <<-1>>, keepdims |-> 0]),
  AtOpset(18, Nd("ReduceMax", <<X(<<2, 2, 2>>), I64("axes", <<0, -1>>)>>, [keepdims |-> 0])),
  AtOpset(18, Nd("ReduceMin", <<X(<<2, 2>>)>>, [noop_with_empty_axes |-> 1])),
  AtOpset(18, Nd("ReduceMin", <<X(<<2, 2>>), In("axes", <<1>>, "i64")>>, A0)),
  Nd("ReduceLogSumExp", <<QX(<<2, 2>>)>>, A0)
  >>
  \o [k \in 1..7 |-> AtOpset(IF ReduceOps7[k] = "ReduceSum" THEN 11 ELSE 13,
                             Nd(ReduceOps7[k], <<X(<<2, 2, 2>>)>>, [axes |-> <<-1, 0>>, keepdims |-> k % 2]))]
  \o [k \in 1..7 |-> Nd(ReduceOps7[k], <<X(<<2, 2>>)>>, [keepdims |-> 0])]

CombineModels == Singles(CombineNodes)

(***************************************************************************)
(* Matrix products and convolutions.                                        *)
(***************************************************************************)
\* A weight, and the encodings of weights and biases.
W(shape) == Const("w", shape, [k \in 1..Prod(shape) |-> (k * k) % 11], "f32")

B(len) == Const("b", <<len>>, [k \in 1..len |-> 20 + k], "f32")

Q8(io) == Q(io, "uf8", <<2, -3>>)

Q16(io) == Q(io, "uf16", <<2, -3>>)

\* The output in an encoding of its own.
Codes(name, shape, dt) == Const(name, shape, [k \in 1..Prod(shape) |-> (k * k) % 7], dt)

S1(name, v) == Scal(name, v, "f32")

QL(op, ins, attr) == Make(op, "n1", ins, <<Out("y", "u8", NoQ)>>, attr, 13, "")

QLConv(x, w, scales, zeros, extra, attr) ==
  QL("QLinearConv", <<x, S1("xs", 2), Scal("xz", 3, "u8"), w, scales, zeros, S1("ys", 5),
                      Scal("yz", 1, "u8")>> \o extra, attr)

QLMatMul(a, b) == QL("QLinearMatMul", <<a, S1("as", 2), Scal("az", 3, "u8"), b, S1("bs", 3), Scal("bz", 1, "u8"),
                                        S1("ys", 5), Missing>>, A0)

U8(name, shape) == In(name, shape, "u8")

Bias32(shape) == Q(Const("b", shape, <<8, 4>>, "f32"), "sf32", <<4, 0>>)

\* A weight with a scale for each channel along axis.
PerChannel(io, axis) == Q(io, "sf8", <<<<2, 3>>, <<0, 0>>, axis>>)

ProductNodes ==
  <<
  Nd("MatMul", <<X(<<2, 3>>), W(<<3, 2>>)>>, A0),
  Nd("MatMul", <<X(<<2, 2, 3>>), W(<<3, 2>>)>>, A0),
  Nd("MatMul", <<X(<<3>>), W(<<3, 2>>)>>, A0),
  Nd("MatMul", <<X(<<2, 3>>), W(<<3>>)>>, A0),
  Nd("MatMul", <<X(<<3>>), W(<<3>>)>>, A0),
  Nd("MatMul", <<X(<<2, 2, 3>>), W(<<3>>)>>, A0),
  Nd("MatMul", <<X(<<2, 2, 3>>), In("w", <<3>>, "f32")>>, A0),
  Nd("MatMul", <<X(<<3>>), W(<<2, 3, 2>>)>>, A0),
  Nd("MatMul", <<X(<<2, 1, 2, 3>>), In("w", <<2, 3, 2>>, "f32")>>, A0),
  Nd("MatMul", <<Q8(X(<<2, 2>>)), Q(W(<<2, 2>>), "sf8", <<<<2, 3>>, <<0, 0>>, 1>>)>>, A0),
  Nd("MatMul", <<Q8(X(<<2, 2, 2>>)), Q(W(<<2, 2>>), "sf8", <<<<2, 3>>, <<0, 0>>, 1>>)>>, A0),
  Nd("MatMul", <<Q16(X(<<2, 2>>)), Q16(In("w", <<2, 2>>, "f32"))>>, A0),
  Nd("MatMul", <<Q16(X(<<2, 2>>)), Q(In("w", <<2, 2>>, "f32"), "uf16", <<4, -2>>)>>, A0),
  Nd("MatMul", <<Q16(X(<<2, 2>>)), Q(In("w", <<2, 2>>, "f32"), "uf16", <<4, -32768>>)>>, A0),
  Nd("MatMul", <<Q16(X(<<2, 2>>)), Q16(W(<<2, 2>>))>>, A0),
  Nd("MatMul", <<Q16(X(<<2, 1, 2>>)), Q16(W(<<2, 2, 2>>))>>, A0),
  Nd("MatMul", <<Q16(X(<<2, 2>>)), Q(W(<<2, 2>>), "uf16", <<<<2, 3>>, <<-1, -1>>, 0>>)>>, A0),
  Yields(Nd("MatMul", <<Q8(X(<<2, 2>>)), Q8(W(<<2, 2>>))>>, A0), "uf16", <<3, -9>>),
  Yields(Nd("MatMul", <<Q16(X(<<2, 2>>)), Q8(W(<<2, 2>>))>>, A0), "uf8", <<3, -9>>),
  Nd("MatMul", <<X(<<2, 2>>), Q8(W(<<2, 2>>))>>, A0),
  Nd("MatMul", <<X(<<2, 2>>), PerChannel(W(<<2, 2>>), 1)>>, A0),
  \* Gemm.
  Nd("Gemm", <<X(<<2, 3>>), W(<<3, 2>>), B(2)>>, A0),
  Nd("Gemm", <<X(<<3, 2>>), W(<<2, 3>>), B(2)>>, [transA |-> 1, transB |-> 1]),
  Nd("Gemm", <<X(<<2, 3>>), In("w", <<3, 2>>, "f32"), Const("b", <<1, 2>>, <<7, 8>>, "f32")>>, A0),
  Nd("Gemm", <<X(<<2, 3>>), W(<<3, 2>>), Const("b", <<2, 1>>, <<7, 8>>, "f32")>>, A0),
  Nd("Gemm", <<X(<<2, 3>>), W(<<3, 1>>), S1("b", 7)>>, A0),
  Nd("Gemm", <<X(<<2, 3>>), W(<<3, 2>>), B(2)>>, [beta |-> 0]),
  Nd("Gemm", <<X(<<2, 3>>), W(<<3, 2>>)>>, A0),
  Nd("Gemm", <<X(<<2, 3>>), W(<<3, 2>>), B(2)>>, [alpha |-> 2]),
  Nd("Gemm", <<Q8(X(<<2, 2>>)), Q(W(<<2, 2>>), "sf8", <<<<2, 3>>, <<0, 0>>, 1>>),
               Q(B(2), "sf32", <<<<4, 6>>, <<0, 0>>, 0>>)>>, [beta |-> 1]),
  Nd("Gemm", <<Q8(X(<<2, 2>>)), Q(W(<<2, 2>>), "sf8", <<<<2, 3>>, <<0, 0>>, 0>>), Bias32(<<2>>)>>, [beta |-> 1, transB |-> 1]),
  Yields(Nd("Gemm", <<Q8(X(<<2, 2>>)), Q8(W(<<2, 2>>))>>, A0), "uf16", <<3, -9>>),
  Yields(Nd("Gemm", <<Q8(X(<<2, 2>>)), Q8(W(<<2, 2>>)), Bias32(<<2>>)>>, [beta |-> 1]), "uf16", <<3, -9>>),
  Yields(Nd("Gemm", <<Q16(X(<<2, 2>>)), Q8(W(<<2, 2>>)), Bias32(<<2>>)>>, [beta |-> 1]), "uf8", <<3, -9>>),
  Yields(Nd("Gemm", <<Q8(X(<<2, 2>>)), Q8(W(<<2, 2>>)), Bias32(<<2, 1>>)>>, [beta |-> 1]), "uf16", <<3, -9>>),
  Yields(Nd("Gemm", <<Q8(X(<<2, 2>>)), Q8(W(<<2, 2>>)), Bias32(<<2>>)>>, [beta |-> 1]), "f32", NoQ),
  \* No units of quantized Gemms: beta is not given, the bias is a float.
  Nd("Gemm", <<Q8(X(<<2, 2>>)), Q8(W(<<2, 2>>)), Bias32(<<2>>)>>, A0),
  Nd("Gemm", <<Q8(X(<<2, 2>>)), Q8(W(<<2, 2>>)), B(2)>>, [beta |-> 1]),
  \* FusedMatMul.
  Nd("FusedMatMul", <<X(<<3, 2>>), W(<<2, 3>>)>>, [transA |-> 1, transB |-> 1, alpha |-> 3]),
  Nd("FusedMatMul", <<X(<<2, 3, 2>>), In("w", <<3, 2, 2>>, "f32")>>, [transBatchA |-> 1, alpha |-> 1]),
  Nd("FusedMatMul", <<X(<<2, 3, 2>>), In("w", <<2, 3, 2>>, "f32")>>, [transBatchA |-> 1, transBatchB |-> 1]),
  Nd("FusedMatMul", <<X(<<2, 3, 4>>), In("w", <<3, 2, 2>>, "f32")>>, [transBatchA |-> 1, transA |-> 1]),
  \* QLinearMatMul.
  QLMatMul(U8("x", <<2, 3>>), Codes("w", <<3, 2>>, "u8")),
  QLMatMul(U8("x", <<2, 2, 3>>), Codes("w", <<3, 2>>, "u8")),
  QLMatMul(U8("x", <<3>>), U8("w", <<3, 2>>)),
  QLMatMul(U8("x", <<2, 3>>), U8("w", <<3>>))
  >>

ConvNodes ==
  <<
  Nd("Conv", <<X(<<1, 2, 3, 3>>), W(<<3, 2, 2, 2>>), B(3)>>, A0),
  Nd("Conv", <<X(<<1, 2, 4, 3>>), W(<<2, 2, 2, 1>>)>>, [strides |-> <<2, 1>>, pads |-> <<1, 0, 0, 1>>]),
  Nd("Conv", <<X(<<1, 4, 2, 2>>), W(<<2, 2, 1, 2>>)>>, [group |-> 2]),
  Nd("Conv", <<X(<<1, 2, 2, 2>>), W(<<2, 1, 2, 2>>)>>, [group |-> 2, auto_pad |-> "SAME_UPPER"]),
  Nd("Conv", <<X(<<1, 1, 4, 3>>), W(<<1, 1, 2, 2>>)>>, [auto_pad |-> "SAME_LOWER", strides |-> <<3, 2>>]),
  Nd("Conv", <<X(<<1, 1, 4, 3>>), W(<<2, 1, 2, 2>>)>>, [auto_pad |-> "VALID", dilations |-> <<2, 1>>]),
  Nd("Conv", <<X(<<1, 2, 4>>), W(<<2, 2, 2>>), B(2)>>, [pads |-> <<1, 0>>, strides |-> <<2>>]),
  Nd("Conv", <<X(<<1, 2, 3>>), In("w", <<2, 2, 2>>, "f32")>>, A0),
  Nd("Conv", <<X(<<1, 1, 2, 2>>), In("w", <<2, 1, 2, 1>>, "f32")>>, A0),
  Nd("Conv", <<X(<<1, 1, 2, 3, 2>>), W(<<2, 1, 2, 2, 1>>), B(2)>>, [pads |-> <<0, 0, 0, 0, 1, 0>>]),
  Nd("Conv", <<Q8(X(<<1, 2, 2, 2>>)), Q(W(<<2, 2, 2, 1>>), "sf8", <<<<2, 3>>, <<0, 0>>, 0>>),
               Q(B(2), "sf32", <<<<4, 6>>, <<0, 0>>, 0>>)>>, A0),
  Nd("Conv", <<Q8(X(<<1, 2, 2, 2>>)), Q(W(<<2, 2, 2, 1>>), "sf8", <<<<2, 3>>, <<0, 0>>, 0>>),
               Q(B(2), "sf32", <<7, -1>>)>>, A0),
  Nd("Conv", <<Q8(X(<<1, 2, 2, 2>>)), Q(W(<<2, 2, 2, 1>>), "sf8", <<<<2, 3>>, <<0, 0>>, 0>>), B(2)>>, A0),
  Nd("Conv", <<Q8(X(<<1, 2, 3>>)), Q(W(<<2, 2, 2>>), "sf8", <<<<2, 3>>, <<0, 0>>, 0>>)>>, A0),
  Nd("Conv", <<Q16(X(<<1, 1, 2, 2>>)), Q16(W(<<2, 1, 2, 1>>)), B(2)>>, A0),
  Yields(Nd("Conv", <<Q8(X(<<1, 1, 2, 2>>)), Q8(W(<<2, 1, 2, 1>>)), B(2)>>, A0), "uf16", <<3, -9>>),
  Yields(Nd("Conv", <<Q16(X(<<1, 1, 2, 2>>)), Q8(W(<<2, 1, 2, 1>>)), B(2)>>, A0), "uf8", <<3, -9>>),
  Yields(Nd("Conv", <<Q16(X(<<1, 1, 3>>)), Q8(W(<<2, 1, 2>>))>>, A0), "uf8", <<3, -9>>),
  Nd("Conv", <<X(<<1, 1, 2, 2>>), Q8(W(<<2, 1, 2, 1>>))>>, A0),
  Nd("Conv", <<X(<<1, 1, 2, 2, 1, 1>>), W(<<2, 1, 2, 1, 1, 1>>)>>, A0),
  Nd("Conv", <<Q8(X(<<1, 2, 2, 2>>)), Q16(W(<<2, 2, 2, 1>>))>>, A0),
  \* ConvTranspose.
  Nd("ConvTranspose", <<X(<<1, 2, 2, 2>>), W(<<2, 2, 2, 2>>), B(2)>>, [strides |-> <<2, 1>>]),
  Nd("ConvTranspose", <<X(<<1, 2, 2, 2>>), W(<<2, 1, 2, 3>>)>>, [group |-> 2, pads |-> <<0, 1, 1, 0>>, strides |-> <<2, 2>>,
                                                               output_padding |-> <<1, 0>>]),
  Nd("ConvTranspose", <<X(<<1, 1, 2, 2>>), W(<<1, 2, 3, 3>>)>>, [auto_pad |-> "SAME_UPPER", strides |-> <<2, 2>>]),
  Nd("ConvTranspose", <<X(<<1, 1, 2, 2>>), W(<<1, 2, 3, 2>>)>>, [auto_pad |-> "SAME_LOWER", strides |-> <<2, 1>>]),
  Nd("ConvTranspose", <<X(<<1, 1, 2, 2>>), W(<<1, 2, 3, 2>>)>>, [auto_pad |-> "VALID"]),
  Nd("ConvTranspose", <<X(<<1, 1, 2, 2>>), W(<<1, 2, 3, 3>>)>>, [output_shape |-> <<3, 4>>, strides |-> <<2, 2>>]),
  Nd("ConvTranspose", <<X(<<1, 2, 3>>), W(<<2, 1, 2>>), B(1)>>, [strides |-> <<2>>, pads |-> <<1, 0>>]),
  Nd("ConvTranspose", <<X(<<1, 2, 3>>), In("w", <<2, 1, 2>>, "f32")>>, [output_padding |-> <<1>>, strides |-> <<2>>]),
  Nd("ConvTranspose", <<X(<<1, 1, 2, 1, 2>>), W(<<1, 2, 2, 1, 2>>)>>, A0),
  Nd("ConvTranspose", <<Q8(X(<<1, 2, 2, 1>>)), Q(W(<<2, 2, 2, 1>>), "sf8", <<<<2, 3>>, <<0, 0>>, 1>>), B(2)>>, A0),
  Nd("ConvTranspose", <<X(<<1, 2, 2, 1>>), W(<<2, 2, 2, 1>>)>>, [dilations |-> <<2, 1>>]),
  \* QLinearConv.
  QLConv(U8("x", <<1, 2, 3, 2>>), Codes("w", <<2, 2, 2, 1>>, "i8"), S1("ws", 3), Scal("wz", 1, "i8"), <<>>, A0),
  QLConv(U8("x", <<1, 2, 3, 2>>), Codes("w", <<2, 2, 2, 1>>, "i8"), Const("ws", <<2>>, <<3, 5>>, "f32"), Const("wz", <<2>>, <<0, 1>>, "i8"),
         <<Codes("b", <<2>>, "i32")>>, [pads |-> <<1, 0, 0, 0>>]),
  QLConv(U8("x", <<1, 2, 3>>), Codes("w", <<2, 1, 2>>, "i8"), S1("ws", 3), Scal("wz", 1, "i8"), <<>>, [group |-> 2]),
  QLConv(U8("x", <<1, 2, 2, 2>>), Codes("w", <<2, 1, 2, 2>>, "i8"), S1("ws", 3), Scal("wz", 1, "i8"), <<>>, [group |-> 2, auto_pad |-> "SAME_UPPER"]),
  QLConv(U8("x", <<1, 1, 2, 2, 2>>), Codes("w", <<2, 1, 2, 1, 2>>, "i8"), S1("ws", 3), Scal("wz", 1, "i8"), <<>>, A0),
  QLConv(U8("x", <<1, 1, 2, 2>>), Codes("w", <<2, 1, 2, 1>>, "i8"), Const("ws", <<2>>, <<3, 5>>, "f32"),
         Scal("wz", 1, "i8"), <<>>, A0),
  QLConv(U8("x", <<1, 1, 2, 2>>), U8("w", <<2, 1, 2, 1>>), S1("ws", 3), Scal("wz", 1, "i8"), <<>>, A0)
  >>

\* With the option of native matrix products.
NativeProducts ==
  [k \in 1..Len(ProductNodes) |-> With({"native_matmul"}, Model("htp", <<ProductNodes[k]>>, {<<"y">>}))]

ProductModels == Singles(ProductNodes) \o NativeProducts \o Singles(ConvNodes)

(***************************************************************************)
(* Normalizations.                                                          *)
(***************************************************************************)
\* A parameter, and the encodings of parameters.
G(name, shape) == Const(name, shape, [k \in 1..Prod(shape) |-> ((k * k) % 11) + 2], "f32")

G8(io) == Q(io, "uf8", <<3, -2>>)

GS8(io) == Q(io, "sf8", <<3, 1>>)

G16(io) == Q(io, "sf16", <<3, 5>>)

X8(shape) == Q(X(shape), "uf8", <<2, -3>>)

X16(shape) == Q(X(shape), "uf16", <<2, -3>>)

LN(x, ps, axis) == Nd("LayerNormalization", <<x>> \o ps, [axis |-> axis, epsilon |-> 3])

RMS(x, scale, axis) == Nd("RMSNormalization", <<x, scale>>, [axis |-> axis])

BN(x, ps) == Nd("BatchNormalization", <<x>> \o ps, A0)

Four(c) == <<G("s", <<c>>), G("b", <<c>>), G("mean", <<c>>), G("var", <<c>>)>>

\* The image norms.
ImageNorm(op, x, c, attr) == Nd(op, <<x, G("s", <<c>>), G("b", <<c>>)>>, attr)

NormNodes ==
  <<
  LN(X(<<2, 3>>), <<G("s", <<3>>), G("b", <<3>>)>>, -1),
  LN(X(<<2, 2, 2>>), <<G("s", <<2, 2>>), G("b", <<2, 2>>)>>, 1),
  LN(X(<<2, 2, 2>>), <<G("s", <<2, 2>>)>>, -2),
  LN(X(<<2, 3>>), <<G("s", <<2, 3>>), G("b", <<2, 3>>)>>, 0),
  LN(X(<<1, 4>>), <<G("s", <<1, 4>>), G("b", <<4>>)>>, 0),
  LN(X(<<2, 3>>), <<G("s", <<2, 1>>), G("b", <<3>>)>>, -1),
  LN(X(<<2, 3>>), <<G("s", <<2, 3>>)>>, -1),
  LN(X(<<2, 3>>), <<G("s", <<3>>), G("b", <<2, 1>>)>>, -1),
  LN(X(<<2, 2, 2>>), <<G("s", <<2>>)>>, 1),
  LN(X8(<<2, 3>>), <<G8(G("s", <<3>>)), Q(G("b", <<3>>), "sf32", <<6, 0>>)>>, -1),
  LN(X16(<<2, 3>>), <<G8(G("s", <<2, 1>>)), Q(G("b", <<3>>), "sf32", <<6, 0>>)>>, -1),
  LN(X8(<<2, 2, 2>>), <<G8(G("s", <<2, 2>>)), G8(G("b", <<2, 2>>))>>, 1),
  Yields(LN(X8(<<2, 3>>), <<G8(G("s", <<3>>))>>, -1), "uf16", <<5, -7>>),
  Yields(LN(X16(<<2, 3>>), <<G8(G("s", <<3>>))>>, -1), "uf8", <<5, -7>>),
  Yields(LN(X8(<<2, 3>>), <<G8(G("s", <<2, 3>>))>>, -1), "uf16", <<5, -7>>),
  \* RMSNormalization.
  RMS(X(<<2, 3>>), G("s", <<3>>), -1),
  RMS(X(<<2, 3>>), G("s", <<1, 3>>), -1),
  RMS(X(<<2, 3>>), In("s", <<1, 3>>, "f32"), 1),
  RMS(X(<<2, 3>>), G("s", <<2, 1>>), -1),
  RMS(X(<<2, 2, 2>>), G("s", <<2, 2>>), 1),
  RMS(X(<<2, 2, 2>>), G("s", <<2>>), 1),
  RMS(X(<<1, 2, 1, 2, 2>>), G("s", <<2>>), -1),
  RMS(X16(<<2, 3>>), G16(G("s", <<3>>)), -1),
  RMS(X16(<<2, 3>>), G16(G("s", <<1, 3>>)), -1),
  RMS(X8(<<2, 3>>), G8(G("s", <<1, 3>>)), -1),
  RMS(X8(<<2, 3>>), G8(G("s", <<2, 1>>)), -1),
  RMS(X8(<<2, 2>>), Q(G("s", <<1, 2>>), "uf8", <<<<2, 3>>, <<0, 1>>, 1>>), -1),
  [RMS(X(<<2, 3>>), G("s", <<3>>), -1) EXCEPT !.op = "SimplifiedLayerNormalization"],
  \* BatchNormalization.
  BN(X(<<2, 2, 2, 1>>), Four(2)),
  BN(X(<<1, 3, 2>>), Four(3)),
  BN(X(<<1, 2, 2, 1, 2>>), Four(2)),
  BN(X(<<1, 2, 2>>), <<In("s", <<2>>, "f32"), G("b", <<2>>), G("mean", <<2>>), G("var", <<2>>)>>),
  BN(X8(<<1, 2, 2, 2>>), <<G8(G("s", <<2>>)), Q(G("b", <<2>>), "sf32", <<6, 0>>), G8(G("mean", <<2>>)), G8(G("var", <<2>>))>>),
  BN(X8(<<1, 2, 2, 2>>), <<GS8(G("s", <<2>>)), G("b", <<2>>), G("mean", <<2>>), G("var", <<2>>)>>),
  BN(X16(<<1, 2, 2, 2>>), <<GS8(G("s", <<2>>)), G("b", <<2>>), G("mean", <<2>>), G("var", <<2>>)>>),
  BN(X16(<<1, 2, 2, 2>>), <<Q(G("s", <<2>>), "uf16", <<3, -5>>), G8(G("b", <<2>>)), G("mean", <<2>>), G("var", <<2>>)>>),
  BN(X8(<<1, 2, 2, 2>>), <<Q(G("s", <<2>>), "uf8", <<<<2, 3>>, <<0, 1>>, 0>>), G("b", <<2>>), G("mean", <<2>>), G("var", <<2>>)>>),
  Yields(BN(X8(<<1, 2, 2, 2>>), <<GS8(G("s", <<2>>)), G("b", <<2>>), G("mean", <<2>>), G("var", <<2>>)>>), "f32", NoQ),
  BN(X8(<<1, 2, 2, 2>>), Four(2)),
  \* InstanceNormalization and GroupNormalization.
  ImageNorm("InstanceNormalization", X(<<2, 2, 2, 2>>), 2, A0),
  ImageNorm("InstanceNormalization", X(<<2, 2, 3>>), 2, A0),
  ImageNorm("InstanceNormalization", X(<<1, 2, 3>>), 2, [epsilon |-> 9]),
  ImageNorm("InstanceNormalization", X(<<1, 2, 2, 1, 2>>), 2, A0),
  ImageNorm("InstanceNormalization", X(<<1, 2, 2>>), 2, [epsilon |-> 0]),
  Nd("InstanceNormalization", <<X8(<<2, 2, 2>>), GS8(G("s", <<2>>)), Q(G("b", <<2>>), "sf32", <<6, 0>>)>>, A0),
  ImageNorm("GroupNormalization", X(<<2, 4, 2>>), 4, [num_groups |-> 2]),
  ImageNorm("GroupNormalization", X(<<1, 4, 1, 2>>), 4, A0),
  ImageNorm("GroupNormalization", X(<<1, 4, 1, 2>>), 4, [epsilon |-> 0])
  >>

\* Two batch norms that share a scale and a bias initializer.
SharedParams ==
  LET second == Make("BatchNormalization", "n2", <<From("y"), G("s", <<2>>), G("b", <<2>>),
                                                   G("mean2", <<2>>), Const("var2", <<2>>, <<9, 4>>, "f32")>>,
                     <<Out("z", "f32", NoQ)>>, A0, 13, "")
  IN  Model("htp", <<BN(X(<<1, 2, 2>>), Four(2)), second>>, {<<"z">>})

NormModels == Singles(NormNodes) \o <<SharedParams>>
=============================================================================
