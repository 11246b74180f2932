---------------------------- MODULE BlockFusions -----------------------------
(***************************************************************************)
(* Fusions of reshapes, transposes and slices that together move blocks of  *)
(* an image or groups of channels (builder/qnn_node_group).                 *)
(***************************************************************************)
EXTENDS ShapeFusions

ToNhwc4 == <<0, 2, 3, 1>>

ToNchw4 == <<0, 3, 1, 2>>

TransposedTo(in, out, perm) == Op("Transpose", <<in>>, <<out>>, [perm |-> perm])

(***************************************************************************)
(* ChannelShuffle: the channels are split in two, swapped and merged.       *)
(***************************************************************************)
\* The Reshape's result with a batch of its own, <<>> if it has none.
NormalizeChannelShuffleIntermediateShape(in, mid) ==
  CASE Len(mid) = Len(in) + 1 -> mid
    [] Len(mid) = Len(in) /\ in[1] = 1 -> <<1>> \o mid
    [] OTHER -> <<>>

\* <<[groups, nhwc]>>, nhwc if the Transpose also moves the channels to the
\* front; <<>> if the three units are no shuffle.
GetChannelShuffleCoreInfo(reshape1, transpose, reshape2) ==
  LET in == InShape(reshape1)
      out == OutShape(reshape2)
      mid == NormalizeChannelShuffleIntermediateShape(in, OutShape(reshape1))
      given == Perm(transpose)
      perm == IF Len(given) = Len(mid) THEN given ELSE <<0>> \o [j \in 1..Len(given) |-> given[j] + 1]
      r == Len(mid)
      swap == [j \in 1..r |-> IF j = 2 THEN 2 ELSE IF j = 3 THEN 1 ELSE j - 1]
      toFront == <<0, r - 1, r - 2>> \o [j \in 1..(r - 3) |-> j]
  IN  IF Len(in) < 3 \/ Len(out) # Len(in) \/ mid = <<>> THEN <<>>
      ELSE IF mid[1] # in[1] THEN <<>>
      ELSE IF /\ perm = swap
              /\ out = in /\ in[2] = mid[2] * mid[3] /\ SubSeq(in, 3, Len(in)) = SubSeq(mid, 4, r)
      THEN <<[groups |-> mid[2], nhwc |-> FALSE]>>
      ELSE IF /\ perm = toFront
              /\ LastOf(in) = mid[r - 1] * mid[r] /\ SubSeq(in, 2, Len(in) - 1) = SubSeq(mid, 2, r - 2)
              /\ out = PermuteShape(in, ChannelLastToFirstPerm(Len(in)))
      THEN <<[groups |-> mid[r - 1], nhwc |-> TRUE]>>
      ELSE <<>>

ChannelShuffleCore(v, c) == GetChannelShuffleCoreInfo(v.ns[c[1]], v.ns[c[2]], v.ns[c[3]])

IsInverse(p, q) == Len(p) = Len(q) /\ \A j \in 1..Len(p) : q[p[j] + 1] = j - 1

\* Transpose, Reshape, Transpose, Reshape, Transpose.
ChannelShuffleMatch(v, k) ==
  LET c == Chain(v, k, <<"Reshape", "Transpose", "Reshape", "Transpose">>)
      core == ChannelShuffleCore(v, Tail(c))
      head == Perm(v.ns[k])
  IN  IF c = <<>> THEN NoMatch
      ELSE IF core = <<>> THEN NoMatch
      ELSE IF ~core[1].nhwc /\ IsInverse(head, Perm(v.ns[c[5]])) /\ head[2] = Len(head) - 1
      THEN Group("ChannelShuffle", c, k) ELSE NoMatch

\* The same after the layout transformation has absorbed the first Transpose.
ChannelShuffleFromReshapeMatch(v, k) ==
  LET c == Chain(v, k, <<"Transpose", "Reshape", "Transpose">>)
      core == ChannelShuffleCore(v, c)
  IN  IF ~v.m.postLayout \/ c = <<>> THEN NoMatch
      ELSE IF core = <<>> THEN NoMatch
      ELSE IF core[1].nhwc /\ Perm(v.ns[c[4]]) = ToNhwc4 /\ InShape(v.ns[k]) = OutShape(v.ns[c[4]])
      THEN Group("ChannelShuffle", c, k) ELSE NoMatch

ChannelShuffleSteps(m, U) ==
  LET first == Len(U) - 3
      core == GetChannelShuffleCoreInfo(U[first], U[first + 1], U[first + 2])[1]
  IN  FusedOp(m, U[1].ins[1], LastOf(U).outs[1], "ChannelShuffle",
              [axis |-> Len(OutShape(LastOf(U))) - 1, groups |-> core.groups])

(***************************************************************************)
(* SpaceToDepth from Reshape, Transpose, Reshape, with or without the       *)
(* Transposes to and from NCHW around them.                                 *)
(***************************************************************************)
\* The signature of a decomposition: the permutation, the layout it is in and
\* the order of the channels.
SpaceToDepthPerms == {
  [perm |-> <<0, 3, 5, 1, 2, 4>>, nhwc |-> FALSE, mode |-> "DCR"],
  [perm |-> <<0, 1, 3, 5, 2, 4>>, nhwc |-> FALSE, mode |-> "CRD"],
  [perm |-> <<0, 2, 4, 5, 1, 3>>, nhwc |-> TRUE, mode |-> "DCR"],
  [perm |-> <<0, 5, 2, 4, 1, 3>>, nhwc |-> TRUE, mode |-> "CRD"] }

\* <<[block, mode, nhwc]>>, or <<>>.  in is the shape before, s the one that
\* the first Reshape gives, of rank 6.
CoreOfForm(in, s, out, form) ==
  LET image == IF form.nhwc THEN in ELSE PermuteShape(in, ToNhwc4)
      blocked == IF form.nhwc THEN s ELSE <<s[1], s[3], s[4], s[5], s[6], s[2]>>
      b == <<blocked[3], blocked[5]>>
  IN  IF /\ blocked[1] = image[1] /\ blocked[6] = image[4]
         /\ b[1] > 0 /\ b[2] > 0
         /\ image[2] = blocked[2] * b[1] /\ image[3] = blocked[4] * b[2]
         /\ out = <<image[1], image[4] * b[1] * b[2], blocked[2], blocked[4]>>
      THEN <<[block |-> b, mode |-> form.mode, nhwc |-> form.nhwc]>>
      ELSE <<>>

CoreOfPerm(in, s, out, perm) ==
  IF Len(in) # 4 \/ Len(out) # 4 \/ 0 \in ToSet(in) \/ Len(s) # 6 \/ ~\E f \in SpaceToDepthPerms : f.perm = perm
  THEN <<>> ELSE CoreOfForm(in, s, out, CHOOSE f \in SpaceToDepthPerms : f.perm = perm)

\* A decomposition without the batch is taken as one with a batch of one.
GetSpaceToDepthCoreInfo(reshape1, transpose, reshape2) ==
  LET raw == OutShape(reshape1)
      perm == Perm(transpose)
  IN  IF Len(raw) = 5 /\ Len(perm) = 5 /\ InShape(reshape1)[1] = 1
      THEN CoreOfPerm(InShape(reshape1), <<1>> \o raw, OutShape(reshape2), <<0>> \o [j \in 1..5 |-> perm[j] + 1])
      ELSE CoreOfPerm(InShape(reshape1), raw, OutShape(reshape2), perm)

\* The Transpose before the first Reshape, and the one after the second.
HeadTranspose(v, k) ==
  LET p == GetParentOfInput(v, v.ns[k].ins[1].name)
  IN  IF OpOf(v, p) # "Transpose" THEN 0
      ELSE IF GetChildNodeUnitAllowQdq(v, p, "Reshape") = k /\ Perm(v.ns[p]) = ToNchw4 THEN p ELSE 0

TailTranspose(v, j) ==
  LET t == GetChildNodeUnitAllowQdq(v, j, "Transpose") IN IF t = 0 THEN 0 ELSE IF Perm(v.ns[t]) = ToNhwc4 THEN t ELSE 0

Present(j) == IF j = 0 THEN <<>> ELSE <<j>>

\* c is the chain of Reshape, Transpose and Reshape, core what it computes.
AroundCore(v, k, c, core, head, tail) ==
  IF core = <<>> THEN NoMatch
  ELSE IF /\ IsCpu(v.m) => core[1].block[1] = core[1].block[2]
          /\ head # 0 => ~core[1].nhwc
          /\ head # 0 \/ tail # 0 \/ v.m.postLayout
  THEN Group("SpaceToDepth", Present(head) \o c \o Present(tail), k) ELSE NoMatch

SpaceToDepthChain(v, k, c) ==
  IF c = <<>> THEN NoMatch
  ELSE AroundCore(v, k, c, GetSpaceToDepthCoreInfo(v.ns[c[1]], v.ns[c[2]], v.ns[c[3]]),
                  HeadTranspose(v, k), TailTranspose(v, c[3]))

SpaceToDepthMatch(v, k) == SpaceToDepthChain(v, k, ChainAllowQdq(v, k, <<"Transpose", "Reshape">>))

\* first is the first Reshape of U.
SpaceToDepthOf(m, U, first, core) ==
  LET head == first = 2
      tail == LastOf(U).op = "Transpose"
      in == U[1].ins[1]
      out == LastOf(U).outs[1]
      before == ~head /\ ~core.nhwc
      base == New(U[first + 2], <<>>, "_spacetodepth_nhwc")
      from == IF before THEN base \o <<"_in">> ELSE in.name
      to == IF tail THEN out.name ELSE base \o <<"_out">>
  IN  <<MakeTensorWrapper(m, in), MakeTensorWrapper(m, out)>>
      \o When(before, << AddWrapper(from, "native", PermuteShape(OnnxShape(in), ToNhwc4), in.dt, in.q),
                         TransposedTo(in.name, from, ToNhwc4) >>)
      \o When(~tail, <<AddWrapper(to, "native", PermuteShape(OnnxShape(out), ToNhwc4), out.dt, out.q)>>)
      \o <<Op("SpaceToDepth", <<from>>, <<to>>, [block |-> core.block, mode |-> core.mode])>>
      \o When(~tail, <<TransposedTo(to, out.name, ToNchw4)>>)

SpaceToDepthSteps(m, U) ==
  LET first == IF U[1].op = "Transpose" THEN 2 ELSE 1
  IN  SpaceToDepthOf(m, U, first, GetSpaceToDepthCoreInfo(U[first], U[first + 1], U[first + 2])[1])

(***************************************************************************)
(* SpaceToDepth from the Concat of the four tiles that Slices of step two   *)
(* cut out of an image.                                                     *)
(***************************************************************************)
\* The first row and column that a Slice takes, -1 where it takes all;
\* <<>> if it is not a tile.  starts, ends, axes and steps are the Slice's,
\* data is the shape of the image.
TileOf(data, starts, ends, axes, steps) ==
  LET FromEnd(x, j) == IF x < 0 THEN x + data[axes[j] + 1] ELSE x
      TakesAll(j) == /\ steps[j] = 1
                     /\ Clamp(FromEnd(starts[j], j), 0, data[axes[j] + 1]) = 0
                     /\ Clamp(FromEnd(ends[j], j), 0, data[axes[j] + 1]) = data[axes[j] + 1]
      TakesHalf(j) == steps[j] = 2 /\ axes[j] \in {2, 3} /\ FromEnd(starts[j], j) \in {0, 1}
      Cut(js) == IF js = {} THEN -1 ELSE LET j == CHOOSE l \in js : TRUE IN FromEnd(starts[j], j)
  IN  IF Cardinality(ToSet(axes)) # Len(axes) \/ \E j \in 1..Len(axes) : ~TakesAll(j) /\ ~TakesHalf(j) THEN <<>>
      ELSE [a \in 1..2 |-> Cut({j \in 1..Len(axes) : axes[j] = a + 1 /\ steps[j] = 2})]

ParseSliceTile(n) ==
  LET size == Len(Data(n.ins[2]))
  IN  IF n.opset < 10 \/ Len(n.ins) <= 3 \/ Len(InShape(n)) # 4 THEN <<>>
      ELSE IF \E j \in 2..Len(n.ins) : ~IsConst(n.ins[j]) \/ Len(Data(n.ins[j])) # size THEN <<>>
      ELSE TileOf(InShape(n), Data(n.ins[2]), Data(n.ins[3]),
                  [j \in 1..size |-> CanonicalAxis(Data(n.ins[4])[j], 4)],
                  IF Len(n.ins) > 4 THEN Data(n.ins[5]) ELSE [j \in 1..size |-> 1])

GetParentSlice(v, io) ==
  LET p == GetParentOfInput(v, io.name) IN IF OpOf(v, p) = "Slice" THEN p ELSE 0

TileAt(v, s) == IF s = 0 THEN <<>> ELSE ParseSliceTile(v.ns[s])

CutsOne(tile, a) == tile[a] >= 0 /\ tile[3 - a] < 0

\* The phase of what the Slice s cuts out, alone if it cuts both axes, or
\* with the Slice p in front of it if each cuts one, and the Slices it takes;
\* <<>> if that is not a tile.
JoinTiles(tile, above, s, p) ==
  CASE tile = <<>> -> <<>>
    [] tile # <<>> /\ tile[1] >= 0 /\ tile[2] >= 0 -> <<[phase |-> tile, path |-> <<s>>]>>
    [] OTHER -> IF above # <<>> /\ \E a \in 1..2 : CutsOne(tile, a) /\ CutsOne(above, 3 - a)
                THEN <<[phase |-> [a \in 1..2 |-> MaxOf(tile[a], above[a])], path |-> <<s, p>>]>> ELSE <<>>

ResolveConcatInputPhase(v, io) ==
  LET s == GetParentSlice(v, io)
      p == IF s = 0 THEN 0 ELSE GetParentSlice(v, v.ns[s].ins[1])
  IN  JoinTiles(TileAt(v, s), TileAt(v, p), s, p)

CanonicalDcrPhases == <<<<0, 0>>, <<0, 1>>, <<1, 0>>, <<1, 1>>>>

\* The place of a phase in the order that SpaceToDepth gives.
PhaseIndex(phase) == (CHOOSE j \in 1..4 : CanonicalDcrPhases[j] = phase) - 1

\* A unit's result is read by the units given and no other, once for each
\* time they are given.
HasExactlyUnitConsumers(v, j, readers) ==
  LET uses == Uses(v, v.ns[j].outs[1].name)
  IN  Cardinality(uses) = Len(readers) /\ ToSet(readers) \subseteq {u[1] : u \in uses} /\ ~LeavesGraph(v, j)

\* walks are the ways from the inputs of the Concat k to the image, slices the
\* Slices on them.
MatchTiles(v, k, walks, slices, root) ==
  LET n == v.ns[k]
      Reader(w, s) == IF w.path[1] = s THEN k ELSE w.path[1]
      Readers(s) == LET ws == SelectSeq(walks, LAMBDA w : s \in ToSet(w.path))
                    IN  [l \in 1..Len(ws) |-> Reader(ws[l], s)]
      x == OnnxShape(root)
      tile == <<x[1], x[2], x[3] \div 2, x[4] \div 2>>
      edges == ToSet(n.ins) \cup ToSet(n.outs) \cup UNION {{v.ns[s].ins[1], v.ns[s].outs[1]} : s \in slices}
  IN  IF /\ \A w \in ToSet(walks) : v.ns[LastOf(w.path)].ins[1].name = root.name
         /\ \A s \in slices : HasExactlyUnitConsumers(v, s, Readers(s))
         /\ Len(x) = 4 /\ 0 \notin ToSet(x) /\ x[3] % 2 = 0 /\ x[4] % 2 = 0
         /\ \A j \in 1..4 : OnnxShape(n.ins[j]) = tile
         /\ OnnxShape(n.outs[1]) = At(tile, 1, 4 * x[2])
         /\ {w.phase : w \in ToSet(walks)} = ToSet(CanonicalDcrPhases)
         /\ \A io \in edges : io.q = root.q /\ io.dt = root.dt /\ Len(io.q) <= 2
         /\ root.q = NoQ => root.dt \in {"f32", "f16"} /\ "v68" \notin v.m.opts
      THEN Group("SliceConcatSpaceToDepth", SelectSeq([j \in 1..Len(v.ns) |-> j], LAMBDA j : j \in slices) \o <<k>>, k)
      ELSE NoMatch

MatchWalks(v, k, found) ==
  IF \E j \in 1..4 : found[j] = <<>> THEN NoMatch
  ELSE MatchTiles(v, k, FlattenSeq(found), UNION {ToSet(found[j][1].path) : j \in 1..4},
                  v.ns[LastOf(found[1][1].path)].ins[1])

SliceConcatSpaceToDepthMatch(v, k) ==
  LET n == v.ns[k]
  IN  IF IsHtp(v.m) /\ Len(n.ins) = 4 /\ CanonicalAxis(Get(n, "axis", -1), 4) = 1
      THEN MatchWalks(v, k, [j \in 1..4 |-> ResolveConcatInputPhase(v, n.ins[j])]) ELSE NoMatch

\* The unit of U that yields a tensor.
Maker(U, x) == CHOOSE u \in ToSet(U) : x \in OutNames(u)

BuildDcrGatherIndices(phases, channels) ==
  [j \in 1..(4 * channels) |-> phases[(j - 1) \div channels + 1] * channels + ((j - 1) % channels)]

\* How the fused units U cut the input io of the Concat.
CutOf(U, io) ==
  LET slice == Maker(U, io.name)
      above == Maker(U, slice.ins[1].name)
  IN  JoinTiles(ParseSliceTile(slice), ParseSliceTile(above), slice, above)[1]

\* in is the image, order the place of each input of the Concat in the order
\* of SpaceToDepth.
TiledSteps(m, concat, in, order) ==
  LET out == concat.outs[1]
      columnsFirst == order = <<0, 2, 1, 3>>
      gathers == ~columnsFirst /\ order # <<0, 1, 2, 3>>
      base == New(concat, <<>>, "_tiled_s2d")
      image == PermuteShape(OnnxShape(in), ToNhwc4)
      half == <<image[1], image[2] \div 2, image[3], image[4] * 2>>
      from == base \o <<"_in">>
      mid == base \o <<"_s2d_mid">>
      cut == base \o <<"_s2d_out">>
      back == IF gathers THEN base \o <<"_gather_in">> ELSE out.name
      index == base \o <<"_gather_idx">>
      indices == BuildDcrGatherIndices(order, image[4])
      Cut(x, y, b) == Op("SpaceToDepth", <<x>>, <<y>>, [block |-> b, mode |-> "DCR"])
  IN  << MakeTensorWrapper(m, in), MakeTensorWrapper(m, out), AddWrapper(from, "native", image, in.dt, in.q) >>
      \o When(columnsFirst, <<AddWrapper(mid, "native", half, out.dt, out.q)>>)
      \o <<AddWrapper(cut, "native", PermuteShape(OnnxShape(out), ToNhwc4), out.dt, out.q)>>
      \o When(gathers, << AddWrapper(back, "native", OnnxShape(out), out.dt, out.q),
                          AddStatic(index, "i32", NoQ, Vec(indices)) >>)
      \o <<TransposedTo(in.name, from, ToNhwc4)>>
      \o (IF columnsFirst THEN <<Cut(from, mid, <<2, 1>>), Cut(mid, cut, <<1, 2>>)>> ELSE <<Cut(from, cut, <<2, 2>>)>>)
      \o <<TransposedTo(cut, back, ToNchw4)>>
      \o When(gathers, <<Op("Gather", <<back, index>>, <<out.name>>, [axis |-> 1])>>)

\* The cuts of the Concat's inputs.
TiledFrom(m, concat, cuts) ==
  TiledSteps(m, concat, LastOf(cuts[1].path).ins[1], [j \in 1..4 |-> PhaseIndex(cuts[j].phase)])

SliceConcatSpaceToDepthSteps(m, U) ==
  TiledFrom(m, LastOf(U), [j \in 1..4 |-> CutOf(U, LastOf(U).ins[j])])

(***************************************************************************)
(* DepthToSpace from Reshape, an Einsum that only transposes, and Reshape.  *)
(* An equation is the sequence of its terms, each a sequence of letters, in *)
(* the form [ins, out].                                                     *)
(***************************************************************************)
\* The permutation, <<>> if the equation is something else.
IsEquationEqualToTranspose(eq, rank) ==
  LET from == eq.ins[1]
  IN  IF /\ Len(eq.ins) = 1 /\ Len(from) = rank /\ Len(eq.out) = rank
         /\ Cardinality(ToSet(eq.out)) = rank /\ ToSet(eq.out) \subseteq ToSet(from)
      THEN [j \in 1..rank |-> Min({l \in 1..rank : from[l] = eq.out[j]}) - 1]
      ELSE <<>>

ReshapeEinsumReshapeMatch(v, k) ==
  LET n == v.ns[k]
      before == GetParentOfInputByName(v, n.ins[1].name)
      after == GetOnlyChildOfOutput(v, k, n.outs[1].name)
      s == OutShape(v.ns[before])
  IN  IF /\ Len(n.ins) = 1 /\ IsEquationEqualToTranspose(n.attr.equation, 6) = <<0, 5, 1, 3, 2, 4>>
         /\ OpOf(v, before) = "Reshape" /\ OpOf(v, after) = "Reshape"
         /\ Len(s) = 6
         /\ OutShape(v.ns[after]) = <<s[1], s[6], s[2] * s[4], s[3] * s[5]>>
      THEN Group("ReshapeEinsumReshape", <<before, k, after>>, k) ELSE NoMatch

ReshapeEinsumReshapeSteps(m, U) ==
  LET in == U[1].ins[1]
      mid == U[1].outs[1]
      ein == U[2].outs[1]
      out == U[3].outs[1]
      s == OutShape(U[1])
  IN  << MakeTensorWrapper(m, in),
         AddWrapper(mid.name, "native", <<s[1], s[2], s[3], s[4] * s[5] * s[6]>>, mid.dt, NoQ),
         Op("Reshape", <<in.name>>, <<mid.name>>, NoPar),
         AddWrapper(ein.name, "native", <<s[1], s[2] * s[4], s[3] * s[5], s[6]>>, ein.dt, NoQ),
         Op("DepthToSpace", <<mid.name>>, <<ein.name>>, [block |-> <<s[4], s[5]>>, mode |-> "DCR"]),
         AddWrapper(out.name, OutputType(m, out.name), OutShape(U[3]), out.dt, NoQ),
         TransposedTo(ein.name, out.name, ToNchw4) >>
=============================================================================
