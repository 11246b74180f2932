------------------------------ MODULE OpBuilder ------------------------------
(***************************************************************************)
(* What every op builder uses: QnnModelWrapper's tensor table and op list   *)
(* (builder/qnn_model_wrapper.cc) and BaseOpBuilder's steps                 *)
(* (builder/opbuilder/base_op_builder.cc).                                  *)
(*                                                                          *)
(* A wrapper m is a record: backend, the graph's inputs' and outputs'       *)
(* names, dov (do_op_validation, TRUE in GetCapability), tensors            *)
(* (model_tensors_map_), ops (qnn_op_property_list_) and ok, FALSE once a   *)
(* call failed.  A builder gives the sequence of calls ("steps") that it    *)
(* makes on the wrapper; Do makes them.                                     *)
(*                                                                          *)
(* A node unit n is a record: op, name, ins and outs (sequences of          *)
(* OrtNodeUnitIODef: name, shape, dt, q, val), attr, opset, domain ("nhwc"  *)
(* once ORT has changed its layout) and consumers, the nodes that read its  *)
(* results.  A missing optional input has the name <<>>.  val is a sequence *)
(* of the contents of an initializer, and <<>> for any other tensor.        *)
(*                                                                          *)
(* Tensor names are sequences of strings.  A name of UniqueNameGenerator    *)
(* ends in the node's name, which makes it fresh; a name that the code puts *)
(* together itself has no such part, so two nodes can meet on it.           *)
(***************************************************************************)
EXTENDS Tensors, Functions

NoQ == <<>>

PerTensor(scale, offset) == <<scale, offset>>

Exists(io) == io.name # <<>>

IsConst(io) == io.val # <<>>

\* The elements of an initializer.
Data(io) == ToSeq(io.val[1])

\* GetOnnxShape: QNN has no scalars, they are tensors of one element.
OnnxShape(io) == IF io.shape = <<>> THEN <<1>> ELSE io.shape

Get(n, a, default) == IF a \in DOMAIN n.attr THEN n.attr[a] ELSE default

ConsumerOps(n) == [k \in 1..Len(n.consumers) |-> n.consumers[k].op]

HasAttr(n, a) == a \in DOMAIN n.attr

IsHtp(m) == m.backend = "htp"

IsCpu(m) == m.backend = "cpu"

IsGraphInput(m, name) == name \in m.inputs

IsGraphOutput(m, name) == name \in m.outputs

\* Mutant: the generator leaves out the part that makes the name unique.
NewShared(n, base, suffix) == base \o <<suffix>>

New(n, base, suffix) == base \o <<suffix, n.name>>

(***************************************************************************)
(* The wrapper's tensors.  QNN has no 64-bit arithmetic: a native or static *)
(* tensor of int64 or double is one of int32 or float, so only the graph's  *)
(* inputs and outputs stay 64-bit.                                          *)
(***************************************************************************)
Wrapper(kind, dt, q, shape, data) ==
  [kind |-> kind, q |-> q, shape |-> shape, data |-> data,
   dt |-> IF kind = "native" \/ data # <<>>
          THEN (CASE dt = "i64" -> "i32" [] dt = "f64" -> "f32" [] OTHER -> dt)
          ELSE dt]

GetTensorType(m, io) ==
  IF IsConst(io) THEN "static"
  ELSE IF IsGraphInput(m, io.name) THEN "input"
  ELSE IF IsGraphOutput(m, io.name) THEN "output" ELSE "native"

OutputType(m, name) == IF IsGraphOutput(m, name) THEN "output" ELSE "native"

Has(m, name) == name \in DOMAIN m.tensors

\* The name that a step registers: AddTensorWrapper, and AddCastNode, which
\* does nothing when the tensor it would write is there already.
Registers(s, x) == CASE s.step = "tensor" -> s.name = x
                     [] s.step = "cast" -> s.o.outs[1] = x
                     [] OTHER -> FALSE

\* Making the calls: the first tensor of a name stays; CreateQnnNode needs
\* its tensors and appends the op, unless it only validates.
Do(m, steps) ==
  LET K == 1..Len(steps)
      First(x) == CHOOSE k \in K : Registers(steps[k], x) /\ \A j \in 1..(k - 1) : ~Registers(steps[j], x)
      new == {IF steps[k].step = "tensor" THEN steps[k].name ELSE steps[k].o.outs[1] :
                k \in {j \in K : steps[j].step # "op"}} \ DOMAIN m.tensors
      Creates(k) == \/ steps[k].step = "op"
                    \/ steps[k].step = "cast" /\ steps[k].o.outs[1] \in new /\ First(steps[k].o.outs[1]) = k
      Known(x, k) == Has(m, x) \/ (x \in new /\ First(x) <= k)
      created == SelectSeq([k \in K |-> k], Creates)
  IN  [m EXCEPT !.tensors = [x \in new |-> steps[First(x)].t] @@ m.tensors,
                !.ok = @ /\ \A k \in ToSet(created) :
                             \A x \in ToSet(steps[k].o.ins) \cup ToSet(steps[k].o.outs) : Known(x, k),
                !.ops = IF m.dov THEN @ ELSE @ \o [j \in 1..Len(created) |-> steps[created[j]].o]]

(***************************************************************************)
(* The steps.                                                               *)
(***************************************************************************)
AddWrapper(name, kind, shape, dt, q) ==
  [step |-> "tensor", name |-> name, t |-> Wrapper(kind, dt, q, shape, <<>>)]

AddStatic(name, dt, q, t) ==
  [step |-> "tensor", name |-> name, t |-> Wrapper("static", dt, q, t.shape, <<t>>)]

Op(op, ins, outs, par) ==
  [step |-> "op", o |-> [op |-> op, ins |-> ins, outs |-> outs, par |-> par]]

NoPar == [none |-> 0]

When(c, steps) == IF c THEN steps ELSE <<>>

\* An op with one result, and the tensor it writes.
NativeOp(op, ins, out, shape, dt, q, par) ==
  <<AddWrapper(out, "native", shape, dt, q), Op(op, ins, <<out>>, par)>>

OutputOp(m, op, ins, io, par) ==
  <<AddWrapper(io.name, OutputType(m, io.name), OnnxShape(io), io.dt, io.q),
    Op(op, ins, <<io.name>>, par)>>

AddCastNode(in, out, kind, shape, dt, q) ==
  [step |-> "cast", o |-> [op |-> "Cast", ins |-> <<in>>, outs |-> <<out>>, par |-> [to |-> dt]],
   t |-> Wrapper(kind, dt, q, shape, <<>>)]

\* forInput, forOutput: in is a graph input, out a graph output.
AddReshapeNodeOf(in, out, inShape, outShape, dt, inQ, outQ, forInput, forOutput) ==
  <<AddWrapper(in, IF forInput THEN "input" ELSE "native", inShape, dt, inQ),
    AddWrapper(out, IF forOutput THEN "output" ELSE "native", outShape, dt, outQ),
    Op("Reshape", <<in>>, <<out>>, NoPar)>>

AddReshapeNode(in, out, inShape, outShape, dt, q, forInput, forOutput) ==
  AddReshapeNodeOf(in, out, inShape, outShape, dt, q, q, forInput, forOutput)

\* A permutation that only moves dimensions of size 1 leaves the order of
\* the elements alone, and HTP miscomputes it.
NeedsHtpTransposeReshapeWorkaround(inShape, perm, outShape) ==
  LET r == Len(inShape)
      NonUnit == {k \in 1..Len(perm) : perm[k] < r /\ inShape[perm[k] + 1] # 1}
  IN  /\ Len(perm) = r /\ Len(outShape) = r
      /\ \E k \in 1..r : perm[k] # k - 1
      /\ inShape # outShape
      /\ \A k \in 1..r : perm[k] < r
      /\ IsInjective(perm)
      /\ \A k \in 1..r : inShape[perm[k] + 1] # 0 /\ outShape[k] = inShape[perm[k] + 1]
      /\ \A j, k \in NonUnit : j < k => perm[j] < perm[k]

AddTransposeNode(in, out, inShape, perm, outShape, dt, q, forInput, forOutput) ==
  IF NeedsHtpTransposeReshapeWorkaround(inShape, perm, outShape)
  THEN AddReshapeNode(in, out, inShape, outShape, dt, q, forInput, forOutput)
  ELSE <<AddWrapper(in, IF forInput THEN "input" ELSE "native", inShape, dt, q),
         AddWrapper(out, IF forOutput THEN "output" ELSE "native", outShape, dt, q),
         Op("Transpose", <<in>>, <<out>>, [perm |-> perm])>>

AddNoopReshapeNode(m, in, io) ==
  <<AddWrapper(io.name, GetTensorType(m, io), OnnxShape(io), io.dt, io.q),
    Op("Reshape", <<in>>, <<io.name>>, NoPar)>>

(***************************************************************************)
(* BaseOpBuilder.  ProcessInputs gives steps and input names.               *)
(***************************************************************************)
MakeTensorWrapper(m, io) ==
  [step |-> "tensor", name |-> io.name,
   t |-> Wrapper(GetTensorType(m, io), io.dt, io.q, OnnxShape(io),
                 IF IsConst(io) THEN <<Reshape(io.val[1], OnnxShape(io))>> ELSE <<>>)]

ProcessInput(m, io) == [steps |-> <<MakeTensorWrapper(m, io)>>, names |-> <<io.name>>]

Both(a, b) == [steps |-> a.steps \o b.steps, names |-> a.names \o b.names]

NoInputs == [steps |-> <<>>, names |-> <<>>]

GetInputCountQnnRequired(n) == IF n.op = "BatchNormalization" THEN 3 ELSE Len(n.ins)

GetOutputCountQnnRequired(n) ==
  IF n.op \in {"BatchNormalization", "GlobalAveragePool", "LayerNormalization", "MaxPool"}
  THEN 1 ELSE Len(n.outs)

ProcessInputs(m, n) ==
  FoldLeft(LAMBDA a, io : Both(a, ProcessInput(m, io)), NoInputs,
           SubSeq(n.ins, 1, GetInputCountQnnRequired(n)))

\* An input that is still int64 in the wrapper is a graph input: an int32
\* copy of it takes its place.
CastToInt32(n, m, name) == name # <<>> /\ m.tensors[name].dt = "i64"

ProcessInt64Tensors(m, n, names) ==
  [steps |-> FlattenSeq([k \in 1..Len(names) |->
               IF CastToInt32(n, m, names[k])
               THEN <<AddCastNode(names[k], New(n, names[k], "_cast_int32"), "native",
                                  OnnxShape(n.ins[k]), "i32", NoQ)>>
               ELSE <<>>]),
   names |-> [k \in 1..Len(names) |->
                IF CastToInt32(n, m, names[k]) THEN New(n, names[k], "_cast_int32") ELSE names[k]]]

IsCastToInt32(name) == \E k \in 1..Len(name) : name[k] = "_cast_int32"

\* Mutant: the output takes the input's encoding, however far apart they are.
InputEncoding(m, in, q) == IF Len(q) = 2 /\ Len(m.tensors[in].q) = 2 THEN m.tensors[in].q ELSE q

\* Scales are in units of the threshold: encodings at most one unit apart
\* with the same offset are nearly equal.
SetOutputQParamEqualToInputIfNearlyEqual(m, in, q) ==
  LET p == m.tensors[in].q
      d == IF p[1] >= q[1] THEN p[1] - q[1] ELSE q[1] - p[1]
  IN  IF Len(q) = 2 /\ Len(p) = 2 /\ p[2] = q[2] /\ d <= 1 THEN p ELSE q

Narrow64(dt) == CASE dt = "i64" -> "i32" [] dt = "u64" -> "u32" [] OTHER -> dt

\* Supported(k, dt) is GetSupportedOutputDataType, Override(q) is
\* OverrideOutputQuantParam.  A graph output of 64 bits, or of a type the op
\* cannot write, is written by a Cast that follows the op.
ProcessOutputsOf(m, n, ins, par, op, Supported(_, _), Override(_)) ==
  LET Out(k) == n.outs[k]
      dt(k) == Supported(k, Out(k).dt)
      is64(k) == IsGraphOutput(m, Out(k).name) /\ dt(k) = Out(k).dt /\ Narrow64(dt(k)) # dt(k)
      retype(k) == dt(k) # Out(k).dt /\ IsGraphOutput(m, Out(k).name) /\ ~m.dov
      q(k) == IF Out(k).q = NoQ THEN NoQ ELSE Override(Out(k).q)
      Written(k) == IF is64(k) THEN New(n, Out(k).name, "_cast_int64")
                    ELSE IF retype(k) THEN New(n, Out(k).name, "_cast") ELSE Out(k).name
      Casts(k) == is64(k) \/ retype(k)
      Tensors(k) ==
        (IF Casts(k) THEN <<AddWrapper(Written(k), "native", OnnxShape(Out(k)),
                                       IF is64(k) THEN Narrow64(dt(k)) ELSE dt(k), q(k))>>
                     ELSE <<>>)
        \o <<AddWrapper(Out(k).name, OutputType(m, Out(k).name), OnnxShape(Out(k)),
                        IF Casts(k) THEN Out(k).dt ELSE dt(k), q(k))>>
      N == GetOutputCountQnnRequired(n)
  IN  FlattenSeq([k \in 1..N |-> Tensors(k)])
      \o <<Op(op, ins, [k \in 1..N |-> Written(k)], par)>>
      \o FlattenSeq([k \in 1..N |->
           IF Casts(k) THEN <<Op("Cast", <<Written(k)>>, <<Out(k).name>>, [to |-> Out(k).dt])>>
                       ELSE <<>>])

ProcessOutputs(m, n, ins, par, op) ==
  ProcessOutputsOf(m, n, ins, par, op, LAMBDA k, dt : dt, LAMBDA q : q)

\* ProcessOutputs of the builders whose output takes the input's encoding
\* when the two are nearly equal.
ProcessOutputsNearlyEqual(m, n, ins, par, op) ==
  ProcessOutputsOf(m, n, ins, par, op, LAMBDA k, dt : dt,
                   LAMBDA q : SetOutputQParamEqualToInputIfNearlyEqual(m, ins[1], q))

ProcessOutputsNarrow64(m, n, ins, par, op) ==
  ProcessOutputsOf(m, n, ins, par, op, LAMBDA k, dt : Narrow64(dt), LAMBDA q : q)

\* HTP's data movement ops take no BOOL: the data goes through as UINT8.
NeedsBoolCast(m, n) == IsHtp(m) /\ n.ins[1].dt = "bool"

BoolToU8(m, n) ==
  IF NeedsBoolCast(m, n)
  THEN [steps |-> ProcessInput(m, n.ins[1]).steps
                  \o <<AddCastNode(n.ins[1].name, New(n, n.ins[1].name, "_bool_to_u8"), "native",
                                   OnnxShape(n.ins[1]), "uf8", PerTensor(1, 0))>>,
        names |-> <<New(n, n.ins[1].name, "_bool_to_u8")>>]
  ELSE ProcessInput(m, n.ins[1])

\* The op writes UINT8, a Cast makes it the BOOL output.
OutputsThroughU8(m, n, ins, par, op) ==
  LET out == n.outs[1]
      u8 == New(n, out.name, "_u8_to_bool_in")
  IN  <<AddWrapper(u8, "native", OnnxShape(out), "uf8", PerTensor(1, 0)),
        Op(op, ins, <<u8>>, par),
        AddCastNode(u8, out.name, OutputType(m, out.name), OnnxShape(out), out.dt, out.q)>>

ChannelFirstToLastPerm(r) == [k \in 1..r |-> IF k = 1 THEN 0 ELSE IF k = r THEN 1 ELSE k]

ChannelLastToFirstPerm(r) == [k \in 1..r |-> IF k = 1 THEN 0 ELSE IF k = 2 THEN r - 1 ELSE k - 2]

Rank(io) == Len(OnnxShape(io))

LastDim(io) == LastOf(OnnxShape(io))

CanonicalAxis(axis, rank) == IF axis < 0 THEN axis + rank ELSE axis

AxisAttr(n, default) == CanonicalAxis(Get(n, "axis", default), Rank(n.ins[1]))

DataTypeCheckForCpuBackend(m, io) == IsCpu(m) => io.dt = "f32"

\* An axis changes places with the last one.
GetPermToLastAxis(axis, rank) ==
  [k \in 1..rank |-> IF k = axis + 1 THEN rank - 1 ELSE IF k = rank THEN axis ELSE k - 1]

\* Mutant: the transposed tensor is declared with the shape it had.
Unswapped(shape, axis) == shape

Swapped(shape, axis) == PermuteShape(shape, GetPermToLastAxis(axis, Len(shape)))

GetCanonicalizedAxisOk(n, default) == AxisAttr(n, default) \in 0..(Rank(n.ins[1]) - 1)
=============================================================================
