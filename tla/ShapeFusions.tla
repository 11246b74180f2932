---------------------------- MODULE ShapeFusions -----------------------------
(***************************************************************************)
(* Fusions of Reshape, Transpose, Gather, Slice and Einsum                  *)
(* (builder/qnn_node_group).  XMatch(v, k) is TryFusion at unit k without   *)
(* the backend's validation; XSteps(m, U) is AddToModelBuilder, U being the *)
(* units of the group.                                                      *)
(***************************************************************************)
EXTENDS PointFusions

\* Unit k and those that follow it, each the only reader of the one before
\* and of the type given; <<>> if there are no such units.
Follow(k, types, Child(_, _)) ==
  FoldLeft(LAMBDA c, t : IF c = <<>> THEN <<>>
                         ELSE LET j == Child(LastOf(c), t) IN IF j = 0 THEN <<>> ELSE Append(c, j),
           <<k>>, types)

Chain(v, k, types) == Follow(k, types, LAMBDA j, t : GetOnlyChildOfType(v, j, {t}))

ChainAllowQdq(v, k, types) == Follow(k, types, LAMBDA j, t : GetChildNodeUnitAllowQdq(v, j, t))

\* The attribute, without the default that ONNX gives it.
Perm(n) == Get(n, "perm", <<>>)

PermOfSize(p, r) == Len(p) = r /\ ToSet(p) = Below(r)

InShape(n) == OnnxShape(n.ins[1])

OutShape(n) == OnnxShape(n.outs[1])

IdentityPerm(r) == [k \in 1..r |-> k - 1]

(***************************************************************************)
(* Gather that splits the last dimension, Transpose, Reshape: reshapes and  *)
(* transposes of rank 4 at most.                                            *)
(***************************************************************************)
IsRowMajorPattern(d, rows, cols) == \A i \in Below(rows), j \in Below(cols) : d[i * cols + j + 1] = i * cols + j

IsColMajorPattern(d, rows, cols) == \A i \in Below(rows), j \in Below(cols) : d[i * cols + j + 1] = j * rows + i

DetectIndicesPattern(idx) ==
  IF IsRowMajorPattern(Data(idx), idx.shape[1], idx.shape[2]) THEN "row"
  ELSE IF IsColMajorPattern(Data(idx), idx.shape[1], idx.shape[2]) THEN "col" ELSE "none"

GatherTransposeReshapeMatch(v, k) ==
  LET c == Chain(v, k, <<"Transpose", "Reshape">>)
      gather == v.ns[k]
      x == InShape(gather)
      idx == gather.ins[2]
      perm == Perm(v.ns[c[2]])
  IN  IF /\ Standalone(gather) /\ c # <<>>
         /\ Len(x) = 5 /\ 0 \notin ToSet(x)
         /\ AxisAttr(gather, 0) = 4
         /\ IsConst(idx) /\ Rank(idx) = 2 /\ idx.dt \in {"i64", "i32"} /\ Prod(idx.shape) = x[5]
         /\ DetectIndicesPattern(idx) # "none"
         /\ PermOfSize(perm, 6) /\ SubSeq(perm, 1, 3) = <<0, 1, 2>>
         /\ Len(OutShape(v.ns[c[3]])) < 6
      THEN Group("GatherTransposeReshape", c, k) ELSE NoMatch

GatherTransposeReshapeSteps(m, U) ==
  LET in == U[1].ins[1]
      out == U[3].outs[1]
      x == InShape(U[1])
      idx == U[1].ins[2]
      byColumn == DetectIndicesPattern(idx) = "col"
      merged == <<x[1] * x[2] * x[3], x[4]>>
      split == merged \o idx.shape
      first == IF byColumn THEN merged \o <<idx.shape[2], idx.shape[1]>> ELSE split
      perm == [j \in 1..4 |-> IF j = 1 THEN 0 ELSE Perm(U[2])[j + 2] - 2]
      r1 == New(U[1], <<>>, "_gtr_r1_out")
      col == New(U[1], <<>>, "_gtr_col_t_out")
      main == New(U[1], <<>>, "_gtr_main_t_out")
  IN  AddReshapeNode(in.name, r1, x, first, in.dt, in.q, IsGraphInput(m, in.name), FALSE)
      \o When(byColumn, AddTransposeNode(r1, col, first, <<0, 1, 3, 2>>, split, in.dt, in.q, FALSE, FALSE))
      \o AddTransposeNode(IF byColumn THEN col ELSE r1, main, split, perm, PermuteShape(split, perm), in.dt, in.q, FALSE, FALSE)
      \o AddReshapeNode(main, out.name, PermuteShape(split, perm), OutShape(U[3]), out.dt, out.q, FALSE, IsGraphOutput(m, out.name))

(***************************************************************************)
(* Reshape that only moves unit dimensions, and Transpose: one Transpose.   *)
(***************************************************************************)
NonUnit(s) == SelectSeq(s, LAMBDA d : d # 1)

IsReshapePermutable(a, b) == Len(a) = Len(b) /\ NonUnit(a) = NonUnit(b)

\* For each dimension of b the first one of a of that size that is not taken.
ComputeReshapePerm(a, b) ==
  FoldLeft(LAMBDA p, d : Append(p, Min({j \in Below(Len(a)) : a[j + 1] = d /\ j \notin ToSet(p)})), <<>>, b)

\* Scales are in units of the difference that is tolerated.
HaveMatchingIntermediateEncoding(reshape, transpose) ==
  LET a == reshape.outs[1].q
      b == transpose.outs[1].q
  IN  \/ a = NoQ /\ b = NoQ
      \/ Len(a) = 2 /\ Len(b) = 2 /\ Abs(a[1] - b[1]) <= 1 /\ a[2] = b[2]

ComputeFusedPerm(reshape, transpose) ==
  LET r == ComputeReshapePerm(InShape(reshape), OutShape(reshape))
      t == GetTransposePerm(transpose)
  IN  [k \in 1..Len(t) |-> r[t[k] + 1]]

ReshapeTransposeMatch(v, k) ==
  LET c == ChainAllowQdq(v, k, <<"Transpose">>)
  IN  IF c = <<>> THEN NoMatch
      ELSE IF /\ IsReshapePermutable(InShape(v.ns[k]), OutShape(v.ns[k]))
              /\ HaveMatchingIntermediateEncoding(v.ns[k], v.ns[c[2]])
      THEN Group("ReshapeTranspose", c, k) ELSE NoMatch

ReshapeTransposeSteps(m, U) ==
  LET in == U[1].ins[1]
      out == U[2].outs[1]
      perm == ComputeFusedPerm(U[1], U[2])
  IN  <<MakeTensorWrapper(m, in)>>
      \o IF perm = IdentityPerm(Len(perm)) THEN AddNoopReshapeNode(m, in.name, out)
         ELSE AddTransposeNode(in.name, out.name, InShape(U[1]), perm, OutShape(U[2]), out.dt, out.q,
                               IsGraphInput(m, in.name), IsGraphOutput(m, out.name))

(***************************************************************************)
(* Reshape, Transpose, Reshape at a lower rank: a dimension is dropped or   *)
(* two are merged.                                                          *)
(***************************************************************************)
ShapesAreConst(v, c) == IsConst(v.ns[c[1]].ins[2]) /\ IsConst(v.ns[c[3]].ins[2])

HasRank(v, c, r) == Len(OutShape(v.ns[c[1]])) = r /\ Len(OutShape(v.ns[c[2]])) = r

\* A permutation without position p, its values above limit moved down.
Contracted(perm, p, limit) == LET q == Drop(perm, p) IN [j \in 1..Len(q) |-> IF q[j] > limit THEN q[j] - 1 ELSE q[j]]

\* A shape and the permutation of it when the dimensions that perm brings to
\* positions p and p + 1, which are adjacent, become one.
MergedShape(s, perm, p) == LET a == perm[p + 1] IN SubSeq(s, 1, a) \o <<s[a + 1] * s[a + 2]>> \o SubSeq(s, a + 3, Len(s))

MergedPerm(perm, p) == Contracted(perm, p + 1, perm[p + 1] + 1)

\* The three ops, the ONNX tensors between them having the lower rank.
ReshapedAround(m, U, shape, perm) ==
  LET in == U[1].ins[1]
      t1 == U[1].outs[1]
      t2 == U[2].outs[1]
      out == U[3].outs[1]
  IN  << MakeTensorWrapper(m, in),
         AddWrapper(t1.name, "native", shape, t1.dt, t1.q),
         Op("Reshape", <<in.name>>, <<t1.name>>, NoPar),
         AddWrapper(t2.name, "native", PermuteShape(shape, perm), t2.dt, t2.q),
         Op("Transpose", <<t1.name>>, <<t2.name>>, [perm |-> perm]),
         AddWrapper(out.name, OutputType(m, out.name), OutShape(U[3]), out.dt, out.q),
         Op("Reshape", <<t2.name>>, <<out.name>>, NoPar) >>

\* The dimensions of size 1 that stay where they are.
UnitDimsInPlace(t1, t2, perm) == {j \in Below(Len(perm)) : t1[j + 1] = 1 /\ t2[j + 1] = 1 /\ perm[j + 1] = j}

Rank6ToRank5Match(v, k) ==
  LET c == ChainAllowQdq(v, k, <<"Transpose", "Reshape">>)
      perm == Perm(v.ns[c[2]])
  IN  IF /\ c # <<>> /\ ShapesAreConst(v, c) /\ HasRank(v, c, 6)
         /\ Len(perm) = 6
         /\ UnitDimsInPlace(OutShape(v.ns[c[1]]), OutShape(v.ns[c[2]]), perm) # {} \/ SubSeq(perm, 1, 2) = <<0, 1>>
      THEN Group("Rank6ToRank5", c, k) ELSE NoMatch

Rank6ToRank5Steps(m, U) ==
  LET t1 == OutShape(U[1])
      perm == Perm(U[2])
      units == UnitDimsInPlace(t1, OutShape(U[2]), perm)
  IN  IF units # {} THEN ReshapedAround(m, U, Drop(t1, Min(units)), Contracted(perm, Min(units), Min(units)))
      ELSE ReshapedAround(m, U, MergedShape(t1, perm, 0), MergedPerm(perm, 0))

FindAdjacentMergeIndex(perm) == {p \in 0..(Len(perm) - 2) : perm[p + 2] = perm[p + 1] + 1}

Rank5ToRank4Match(v, k) ==
  LET c == ChainAllowQdq(v, k, <<"Transpose", "Reshape">>)
      perm == Perm(v.ns[c[2]])
      encodings == {v.ns[k].ins[1].q} \cup {v.ns[c[j]].outs[1].q : j \in 1..3}
  IN  IF /\ c # <<>> /\ ShapesAreConst(v, c) /\ HasRank(v, c, 5)
         /\ PermOfSize(perm, 5) /\ FindAdjacentMergeIndex(perm) # {}
         /\ \A q \in encodings : Len(q) <= 2
      THEN Group("Rank5ToRank4", c, k) ELSE NoMatch

Rank5ToRank4Steps(m, U) ==
  LET perm == Perm(U[2])
      p == Min(FindAdjacentMergeIndex(perm))
  IN  ReshapedAround(m, U, MergedShape(OutShape(U[1]), perm, p), MergedPerm(perm, p))

(***************************************************************************)
(* Transpose, Reshape that merges dimensions, Transpose: one Reshape if the *)
(* dimensions end up in their order.                                        *)
(***************************************************************************)
\* For each dimension of `to' those of `from' that it is the product of, as
\* [ok, next, map].
ReshapeMapping(from, to) ==
  LET Taken(s, n) == SubSeq(from, s.next + 1, s.next + n)
      Enough(s, target) == {n \in 0..(Len(from) - s.next) : Prod(Taken(s, n)) >= target \/ n = Len(from) - s.next}
      Next1(s) == s.next < Len(from) /\ Taken(s, 1) = <<1>>
      Take(s, target) ==
        LET n == Min(Enough(s, target))
            width == IF n = 0 THEN 1 ELSE n
        IN  IF ~s.ok THEN s
            ELSE [ok |-> Prod(Taken(s, n)) = target /\ (n = 0 => Next1(s)), next |-> s.next + width,
                  map |-> Append(s.map, [j \in 1..width |-> s.next + j - 1])]
  IN  FoldLeft(Take, [ok |-> TRUE, next |-> 0, map |-> <<>>], to)

CanFuseToReshape(first, reshape, second) ==
  LET r == ReshapeMapping(InShape(reshape), OutShape(reshape))
      Origin(k) == LET dims == r.map[Perm(second)[k] + 1] IN [j \in 1..Len(dims) |-> Perm(first)[dims[j] + 1]]
  IN  r.ok /\ FlattenSeq([k \in 1..Len(Perm(second)) |-> Origin(k)]) = IdentityPerm(Len(InShape(first)))

TransposeReshapeTransposeMatch(v, k) ==
  LET c == ChainAllowQdq(v, k, <<"Reshape", "Transpose">>)
  IN  IF c = <<>> THEN NoMatch
      ELSE IF CanFuseToReshape(v.ns[c[1]], v.ns[c[2]], v.ns[c[3]])
      THEN Group("TransposeReshapeTranspose", c, k) ELSE NoMatch

TransposeReshapeTransposeSteps(m, U) == FusedOp(m, U[1].ins[1], U[3].outs[1], "Reshape", NoPar)
=============================================================================
