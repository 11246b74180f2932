------------------------------- MODULE Tensors -------------------------------
(***************************************************************************)
(* Dense tensors, the arithmetic of their elements, and what the QNN data-  *)
(* movement operations compute on them.  The QNN SDK is not in the          *)
(* repository: the operations are modelled from the parameters that the op  *)
(* builders give them and from what the builders' comments say of them.     *)
(*                                                                          *)
(* Real numbers are residues modulo a prime P: sums, products and quotients *)
(* are exact, so that an algebraic identity that a translation relies on    *)
(* holds of them and one it breaks fails, and small integers keep their     *)
(* order.  Rounding and overflow of floats are abstracted away, saturation  *)
(* too except for encodings of scale 1 (Precision).                         *)
(* A transcendental function is an arbitrary function of its own; Erf is    *)
(* what Gelu's approximation by Tanh takes it for.                          *)
(***************************************************************************)
EXTENDS Integers, Sequences, FiniteSets, SequencesExt, FiniteSetsExt

P == 8191

\* The residue of x nearest to 0.
Res(x) == LET r == x % P IN IF r > P \div 2 THEN r - P ELSE r

AddR(a, b) == Res(a + b)

SubR(a, b) == Res(a - b)

MulR(a, b) == Res(a * b)

Sq(x) == MulR(x, x)

InverseOf[x \in 1..(P - 1)] == IF x = 1 THEN 1 ELSE MulR(-(P \div x), InverseOf[P % x])

\* The inverses of 1, ..., P - 1.  (The empty sequence makes TLC tabulate them.)
Inverses == [x \in 1..(P - 1) |-> InverseOf[x]] \o <<>>

\* x^(2^k)
PowerOf2(x, k) == FoldLeft(LAMBDA r, j : Sq(r), x, [j \in 1..k |-> j])

\* x^((P + 1) / 4), with P = 2^13 - 1: a square root of x or of -x, so that the
\* root of a product is the product of the roots.
SquareRoots == [x \in 1..(P - 1) |-> PowerOf2(x, 11)] \o <<>>

SqrtR(x) == LET r == x % P IN IF r = 0 THEN 0 ELSE SquareRoots[r]

InvR(x) == LET r == x % P IN IF r = 0 THEN 0 ELSE Inverses[r]

DivR(a, b) == MulR(a, InvR(b))

MaxOf(a, b) == IF a >= b THEN a ELSE b

MinOf(a, b) == IF a <= b THEN a ELSE b

CeilDiv(a, b) == (a + b - 1) \div b

Clamp(v, lo, hi) == MaxOf(lo, MinOf(v, hi))

\* (The empty function makes TLC tabulate.)
SumOver(S, F(_)) == LET f == [x \in S |-> F(x)] @@ <<>> IN FoldSet(LAMBDA x, a : AddR(f[x], a), 0, S)

ProdOver(S, F(_)) == LET f == [x \in S |-> F(x)] @@ <<>> IN FoldSet(LAMBDA x, a : MulR(f[x], a), 1, S)

MaxOver(S, F(_)) == LET V == {F(x) : x \in S} IN CHOOSE v \in V : \A w \in V : v >= w

MinOver(S, F(_)) == LET V == {F(x) : x \in S} IN CHOOSE v \in V : \A w \in V : v <= w

\* One arbitrary function for each of these names.
Seed == [Asin |-> 2, Atan |-> 3, Cos |-> 5, Sin |-> 7, Exp |-> 11, Log |-> 13, Cubic |-> 17,
         Sigmoid |-> 19, Tanh |-> 23, Erf |-> 29, Floor |-> 31, Ceil |-> 37, Round |-> 41,
         Softplus |-> 43, HardSwish |-> 47, Power |-> 53, IsInf |-> 59, IsNan |-> 61, Sample |-> 67]

Arbitrary(f, x) ==
  LET s == Seed[f] IN Res(Res((x + s) * (x + s)) * (x - 2 * s) + s)

Half == InvR(2)

\* Arbitrary residues for sqrt(2), 0.044715 and sqrt(2 / pi).
Sqrt2 == 1414

GeluCubic == 447

Sqrt2OverPi == 798

ErfOf(x) ==
  LET u == MulR(Sqrt2, x)
  IN  Arbitrary("Tanh", MulR(Sqrt2OverPi, AddR(u, MulR(GeluCubic, MulR(Sq(u), u)))))

HardSwishOf(x) == MulR(x, Clamp(AddR(MulR(InvR(6), x), Half), 0, 1))

Fn(f, x) ==
  CASE f = "Sqrt" -> SqrtR(x) [] f = "Erf" -> ErfOf(x) [] f = "HardSwish" -> HardSwishOf(x)
    [] OTHER -> Arbitrary(f, x)

PowR(a, b) == IF b = 2 THEN MulR(a, a) ELSE Fn("Power", Res(a + 7 * b))

\* x * (1 + erf(x / sqrt(2))) / 2.
GeluOf(x) == MulR(MulR(x, Half), AddR(1, Fn("Erf", DivR(x, Sqrt2))))

EluOf(x, alpha) == IF x > 0 THEN x ELSE MulR(alpha, SubR(Fn("Exp", x), 1))

\* The elements that stand for infinity and NaN.
Inf == 4001

Nan == 4002

Sign(x) == IF x > 0 THEN 1 ELSE IF x < 0 THEN -1 ELSE 0

Abs(x) == IF x < 0 THEN 0 - x ELSE x

(***************************************************************************)
(* A tensor is its shape and a function from multi-indices (sequences of    *)
(* 0-based coordinates) to elements.  Axes and permutations are 0-based, as *)
(* in the code.                                                             *)
(***************************************************************************)
\* A tensor has at most 6 dimensions.
Dim(s, k) == IF k <= Len(s) THEN s[k] ELSE 1

Coord(i, k) == IF k <= Len(i) THEN i[k] ELSE 0

Prod(s) == Dim(s, 1) * Dim(s, 2) * Dim(s, 3) * Dim(s, 4) * Dim(s, 5) * Dim(s, 6)

Below(d) == 0..(d - 1)

Index(s) ==
  CASE Len(s) = 0 -> {<<>>}
    [] Len(s) = 1 -> {<<a>> : a \in Below(s[1])}
    [] Len(s) = 2 -> Below(s[1]) \X Below(s[2])
    [] Len(s) = 3 -> Below(s[1]) \X Below(s[2]) \X Below(s[3])
    [] Len(s) = 4 -> Below(s[1]) \X Below(s[2]) \X Below(s[3]) \X Below(s[4])
    [] Len(s) = 5 -> Below(s[1]) \X Below(s[2]) \X Below(s[3]) \X Below(s[4]) \X Below(s[5])
    [] Len(s) = 6 -> Below(s[1]) \X Below(s[2]) \X Below(s[3]) \X Below(s[4]) \X Below(s[5]) \X Below(s[6])

\* The row-major offset of index i in a tensor of shape s, and its inverse.
Flat(i, s) ==
  ((((Coord(i, 1) * Dim(s, 2) + Coord(i, 2)) * Dim(s, 3) + Coord(i, 3)) * Dim(s, 4) + Coord(i, 4))
     * Dim(s, 5) + Coord(i, 5)) * Dim(s, 6) + Coord(i, 6)

Unflat(f, s) ==
  [k \in 1..Len(s) |-> (f \div Prod(SubSeq(s, k + 1, Len(s)))) % s[k]]

\* (The empty functions make TLC tabulate the shape and the elements.)
Tensor(s, F(_)) == [shape |-> s \o <<>>, at |-> [i \in Index(s) |-> F(i)] @@ <<>>]

\* The tensor whose row-major elements are d.
FromSeq(s, d) == Tensor(s, LAMBDA i : d[Flat(i, s) + 1])

Scalar(v) == FromSeq(<<>>, <<v>>)

Vec(d) == FromSeq(<<Len(d)>>, d)

\* The indices of shape s in row-major order.
RowMajor(s) == [f \in 1..Prod(s) |-> Unflat(f - 1, s)]

ToSeq(t) == [f \in 1..Prod(t.shape) |-> t.at[Unflat(f - 1, t.shape)]]

\* Elements 1, 2, 3, ... : every element tells its position.
Iota(s) == Tensor(s, LAMBDA i : Flat(i, s) + 1)

Fill(s, v) == Tensor(s, LAMBDA i : v)

\* s with its entry for the 0-based axis a replaced by v, removed, or
\* preceded by v.
At(s, a, v) == [k \in 1..Len(s) |-> IF k = a + 1 THEN v ELSE s[k]]

Drop(s, a) == SubSeq(s, 1, a) \o SubSeq(s, a + 2, Len(s))

Insert(s, a, v) == SubSeq(s, 1, a) \o <<v>> \o SubSeq(s, a + 1, Len(s))

(***************************************************************************)
(* Broadcasting.                                                            *)
(***************************************************************************)
PadLeft(s, r) == [k \in 1..(r - Len(s)) |-> 1] \o s

BroadcastShape(a, b) ==
  LET r == MaxOf(Len(a), Len(b))
  IN  [k \in 1..r |-> IF PadLeft(a, r)[k] = 1 THEN PadLeft(b, r)[k] ELSE PadLeft(a, r)[k]]

\* The element of t that index i of a broadcast result reads.
BroadcastAt(t, i) ==
  LET off == Len(i) - Len(t.shape)
  IN  t.at[[k \in 1..Len(t.shape) |-> IF t.shape[k] = 1 THEN 0 ELSE i[k + off]]]

Binary(a, b, F(_, _)) ==
  Tensor(BroadcastShape(a.shape, b.shape),
         LAMBDA i : F(BroadcastAt(a, i), BroadcastAt(b, i)))

Unary(a, F(_)) == Tensor(a.shape, LAMBDA i : F(a.at[i]))

(***************************************************************************)
(* Moving elements.                                                         *)
(***************************************************************************)
Reshape(t, s) == Tensor(s, LAMBDA i : t.at[Unflat(Flat(i, s), t.shape)])

PermuteShape(s, perm) == [k \in 1..Len(perm) |-> s[perm[k] + 1]]

InversePerm(perm) ==
  [k \in 1..Len(perm) |-> (CHOOSE j \in 1..Len(perm) : perm[j] = k - 1) - 1]

Transpose(t, perm) ==
  Tensor(PermuteShape(t.shape, perm),
         LAMBDA i : t.at[[k \in 1..Len(perm) |-> i[InversePerm(perm)[k] + 1]]])

\* The number of steps from b to e exclusive, and the slice they select.
RangeCount(b, e, s) ==
  IF s > 0 THEN (IF e > b THEN (e - b + s - 1) \div s ELSE 0)
           ELSE (IF b > e THEN (b - e - s - 1) \div (0 - s) ELSE 0)

\* ranges[k] is <<begin, end, stride>> of axis k - 1.
StridedSlice(t, ranges) ==
  Tensor([k \in 1..Len(ranges) |-> RangeCount(ranges[k][1], ranges[k][2], ranges[k][3])],
         LAMBDA i : t.at[[k \in 1..Len(ranges) |-> ranges[k][1] + i[k] * ranges[k][3]]])

Narrow(t, a, b, e) ==
  StridedSlice(t, [k \in 1..Len(t.shape) |->
                     IF k = a + 1 THEN <<b, e, 1>> ELSE <<0, t.shape[k], 1>>])

Concat2(a, b, ax) ==
  Tensor(At(a.shape, ax, a.shape[ax + 1] + b.shape[ax + 1]),
         LAMBDA i : IF i[ax + 1] < a.shape[ax + 1] THEN a.at[i]
                    ELSE b.at[At(i, ax, i[ax + 1] - a.shape[ax + 1])])

Concat(ts, ax) == FoldLeft(LAMBDA a, t : Concat2(a, t, ax), Head(ts), Tail(ts))

\* The pieces of t along ax that start at 0 and at the given split indices.
Split(t, ax, index) ==
  LET b == <<0>> \o index \o <<t.shape[ax + 1]>>
  IN  [k \in 1..(Len(index) + 1) |-> Narrow(t, ax, b[k], b[k + 1])]

\* amount[k] is <<before, after>> of axis k - 1.
Pad(t, amount, scheme, v) ==
  Tensor([k \in 1..Len(t.shape) |-> t.shape[k] + amount[k][1] + amount[k][2]],
         LAMBDA i :
           LET j == [k \in 1..Len(i) |-> i[k] - amount[k][1]]
               In(k) == j[k] \in 0..(t.shape[k] - 1)
               Edge(k) == Clamp(j[k], 0, t.shape[k] - 1)
               Mirror(k) == IF j[k] < 0 THEN 0 - j[k]
                            ELSE IF j[k] >= t.shape[k] THEN 2 * (t.shape[k] - 1) - j[k] ELSE j[k]
           IN  IF scheme = "constant"
               THEN (IF \A k \in 1..Len(i) : In(k) THEN t.at[j] ELSE v)
               ELSE t.at[[k \in 1..Len(i) |-> IF scheme = "edge" THEN Edge(k) ELSE Mirror(k)]])

Tile(t, multiples) ==
  Tensor([k \in 1..Len(t.shape) |-> t.shape[k] * multiples[k]],
         LAMBDA i : t.at[[k \in 1..Len(i) |-> i[k] % t.shape[k]]])

(***************************************************************************)
(* Gathering and scattering.  An index that does not name an element reads  *)
(* Poison: QNN takes only non-negative indices within the axis.             *)
(***************************************************************************)
Poison == -999

ReadAt(t, i) == IF i \in DOMAIN t.at THEN t.at[i] ELSE Poison

Gather(t, idx, ax) ==
  LET r == Len(idx.shape)
  IN  Tensor(SubSeq(t.shape, 1, ax) \o idx.shape \o SubSeq(t.shape, ax + 2, Len(t.shape)),
             LAMBDA i : ReadAt(t, SubSeq(i, 1, ax) \o <<idx.at[SubSeq(i, ax + 1, ax + r)]>>
                                  \o SubSeq(i, ax + r + 1, Len(i))))

GatherElements(t, idx, ax) == Tensor(idx.shape, LAMBDA i : ReadAt(t, At(i, ax, idx.at[i])))

LastOf(s) == s[Len(s)]

IndexTuple(idx, i) == [c \in 1..LastOf(idx.shape) |-> idx.at[Append(i, c - 1)]]

GatherNd(t, idx, batch) ==
  LET r == Len(idx.shape) - 1
  IN  Tensor(Front(idx.shape) \o SubSeq(t.shape, batch + LastOf(idx.shape) + 1, Len(t.shape)),
             LAMBDA i : ReadAt(t, SubSeq(i, 1, batch) \o IndexTuple(idx, SubSeq(i, 1, r))
                                  \o SubSeq(i, r + 1, Len(i))))

Combine(reduction, old, v) ==
  CASE reduction = "none" -> v
    [] reduction = "add" -> AddR(old, v)
    [] reduction = "mul" -> MulR(old, v)
    [] reduction = "max" -> MaxOf(old, v)
    [] reduction = "min" -> MinOf(old, v)

\* t with the values F(i), i an index of shape, combined into the elements
\* To(i), in row-major order.
ScatterInto(t, shape, To(_), F(_), reduction) ==
  [t EXCEPT !.at = FoldLeft(LAMBDA f, i : IF To(i) \in DOMAIN f
                                          THEN [f EXCEPT ![To(i)] = Combine(reduction, @, F(i))]
                                          ELSE [j \in DOMAIN f |-> Poison],
                            t.at, RowMajor(shape))]

ScatterElements(t, idx, u, ax, reduction) ==
  ScatterInto(t, idx.shape, LAMBDA i : At(i, ax, idx.at[i]),
              LAMBDA i : u.at[i], reduction)

ScatterNd(t, idx, u, reduction) ==
  LET r == Len(idx.shape) - 1
  IN  ScatterInto(t, u.shape,
                  LAMBDA i : IndexTuple(idx, SubSeq(i, 1, r)) \o SubSeq(i, r + 1, Len(i)),
                  LAMBDA i : u.at[i], reduction)

OneHot(idx, depth, off, on, ax) ==
  Tensor(Insert(idx.shape, ax, depth),
         LAMBDA i : IF idx.at[Drop(i, ax)] = i[ax + 1] THEN on ELSE off)

(***************************************************************************)
(* Along an axis.                                                           *)
(***************************************************************************)
CumulativeSum(t, ax) ==
  Tensor(t.shape, LAMBDA i : SumOver(0..i[ax + 1], LAMBDA k : t.at[At(i, ax, k)]))

\* The first position along ax of a largest (sign = 1) or smallest
\* (sign = -1) element.
ArgBest(t, ax, sign, keep) ==
  LET At2(i, k) == t.at[IF keep THEN At(i, ax, k) ELSE Insert(i, ax, k)]
      D == 0..(t.shape[ax + 1] - 1)
  IN  Tensor(IF keep THEN At(t.shape, ax, 1) ELSE Drop(t.shape, ax),
             LAMBDA i : CHOOSE k \in D :
                          /\ \A j \in D : sign * At2(i, k) >= sign * At2(i, j)
                          /\ \A j \in 0..(k - 1) : sign * At2(i, k) > sign * At2(i, j))

\* The k best elements along ax, in order, and their positions.
TopK(t, ax, k, largest) ==
  LET D == 0..(t.shape[ax + 1] - 1)
      Better(i, a, b) ==
        LET x == t.at[At(i, ax, a)] y == t.at[At(i, ax, b)]
        IN  IF x = y THEN a < b ELSE IF largest THEN x > y ELSE x < y
      indices == Tensor(At(t.shape, ax, k), LAMBDA i :
                   CHOOSE p \in D : Cardinality({a \in D : Better(i, a, p)}) = i[ax + 1])
  IN  <<Tensor(At(t.shape, ax, k), LAMBDA i : t.at[At(i, ax, indices.at[i])]), indices>>

\* The indices of the non-zero elements, one per row in row-major order, and
\* rows of -1 after them.
NonZero(t) ==
  LET z == SelectSeq(RowMajor(t.shape), LAMBDA i : t.at[i] # 0)
  IN  Tensor(<<Prod(t.shape), Len(t.shape)>>,
             LAMBDA i : IF i[1] < Len(z) THEN z[i[1] + 1][i[2] + 1] ELSE -1)
(***************************************************************************)
(* Spatial operators on channel-last tensors.                               *)
(***************************************************************************)
Select(c, a, b) ==
  LET s == BroadcastShape(c.shape, BroadcastShape(a.shape, b.shape))
  IN  Tensor(s, LAMBDA i : IF BroadcastAt(c, i) # 0 THEN BroadcastAt(a, i) ELSE BroadcastAt(b, i))


\* alpha is not divided by the number of channels in the window.
LRN(t, ax, radius, alpha, beta, bias) ==
  Tensor(t.shape, LAMBDA i :
    LET window == {k \in Below(t.shape[ax + 1]) : Abs(k - i[ax + 1]) <= radius}
        sum == SumOver(window, LAMBDA k : Sq(t.at[At(i, ax, k)]))
    IN  DivR(t.at[i], PowR(AddR(bias, MulR(alpha, sum)), beta)))

\* Channels to blocks of b[1] by b[2] and back: in mode DCR a block's place
\* varies slowest among the channels, in mode CRD fastest.
DepthToSpace(t, b, mode) ==
  LET size == b[1] * b[2]
      c == t.shape[4] \div size
      From(place, i) == IF mode = "DCR" THEN place * c + i ELSE i * size + place
  IN  Tensor(<<t.shape[1], t.shape[2] * b[1], t.shape[3] * b[2], c>>, LAMBDA i :
        t.at[<<i[1], i[2] \div b[1], i[3] \div b[2], From((i[2] % b[1]) * b[2] + (i[3] % b[2]), i[4])>>])

SpaceToDepth(t, b, mode) ==
  LET size == b[1] * b[2]
      c == t.shape[4]
      Place(i) == IF mode = "DCR" THEN i \div c ELSE i % size
      Channel(i) == IF mode = "DCR" THEN i % c ELSE i \div size
  IN  Tensor(<<t.shape[1], t.shape[2] \div b[1], t.shape[3] \div b[2], c * size>>, LAMBDA i :
        t.at[<<i[1], i[2] * b[1] + Place(i[4]) \div b[2], i[3] * b[2] + (Place(i[4]) % b[2]), Channel(i[4])>>])

\* The channels of each of g groups, taken in turn.
ChannelShuffle(t, axis, g) ==
  LET each == t.shape[axis + 1] \div g
  IN  Tensor(t.shape, LAMBDA i : t.at[At(i, axis, (i[axis + 1] % g) * each + i[axis + 1] \div g)])

\* Grid sampling: an arbitrary function of the pixel row, the grid point and
\* the parameters stands for the interpolation.
GridSample(t, grid, p) ==
  Tensor(<<t.shape[1], grid.shape[2], grid.shape[3], t.shape[4]>>, LAMBDA i :
    LET point == AddR(grid.at[<<i[1], i[2], i[3], 0>>], MulR(3, grid.at[<<i[1], i[2], i[3], 1>>]))
        image == SumOver(Below(t.shape[2]) \X Below(t.shape[3]), LAMBDA k :
                   MulR(t.at[<<i[1], k[1], k[2], i[4]>>], 5 * k[1] + k[2] + 1))
    IN  Fn("Sample", AddR(MulR(image, point), 7 * Len(p.mode) + 11 * Len(p.padding) + p.align)))

\* kind: what becomes of the elements along the axes A.
Fold1(kind, S, F(_)) ==
  CASE kind = "Sum" -> SumOver(S, F)
    [] kind = "Mean" -> DivR(SumOver(S, F), Cardinality(S))
    [] kind = "Prod" -> ProdOver(S, F)
    [] kind = "Max" -> MaxOver(S, F)
    [] kind = "Min" -> MinOver(S, F)

ReduceKeep(t, A, kind) ==
  Tensor([k \in 1..Len(t.shape) |-> IF k - 1 \in A THEN 1 ELSE t.shape[k]],
         LAMBDA i : Fold1(kind, Index([k \in 1..Len(t.shape) |-> IF k - 1 \in A THEN t.shape[k] ELSE 1]),
                          LAMBDA j : t.at[[k \in 1..Len(i) |-> i[k] + j[k]]]))

Without(s, A) ==
  LET kept == SelectSeq([k \in 1..Len(s) |-> k], LAMBDA k : k - 1 \notin A)
  IN  [k \in 1..Len(kept) |-> s[kept[k]]]

Reduce(t, A, kind, keep) == IF keep THEN ReduceKeep(t, A, kind) ELSE Reshape(ReduceKeep(t, A, kind), Without(t.shape, A))

L2Norm(t, A, eps) ==
  Binary(t, Unary(ReduceKeep(Unary(t, Sq), A, "Sum"), LAMBDA v : AddR(Fn("Sqrt", v), eps)), DivR)

SoftmaxAlong(t, ax, beta) ==
  LET e == Unary(t, LAMBDA v : Fn("Exp", MulR(beta, v)))
  IN  Binary(e, ReduceKeep(e, {ax}, "Sum"), DivR)

\* Pooling of a channel-last tensor: pad[k] is <<before, after>> of a spatial
\* axis; an average counts the padding only when countPad says so.
PoolDim(in, f, s, pad, ceil) ==
  LET room == in + pad[1] + pad[2] - f IN 1 + (IF ceil THEN CeilDiv(room, s) ELSE room \div s)

Pool(t, kind, p) ==
  LET r == Len(t.shape) - 2
      Pos(i, o, k) == i[k + 1] * p.stride[k] - p.pad[k][1] + o[k]
      Inside(i, o) == \A k \in 1..r : Pos(i, o, k) \in Below(t.shape[k + 1])
      Padded(i, o) == \A k \in 1..r : Pos(i, o, k) \in (0 - p.pad[k][1])..(t.shape[k + 1] + p.pad[k][2] - 1)
      Element(i, o) == t.at[<<i[1]>> \o [k \in 1..r |-> Pos(i, o, k)] \o <<i[r + 2]>>]
      Window(i) == {o \in Index(p.filter) : Inside(i, o)}
  IN  Tensor(<<t.shape[1]>>
             \o [k \in 1..r |-> PoolDim(t.shape[k + 1], p.filter[k], p.stride[k], p.pad[k], p.ceil)]
             \o <<t.shape[r + 2]>>,
             LAMBDA i : IF kind = "max" THEN MaxOver(Window(i), LAMBDA o : Element(i, o))
                        ELSE DivR(SumOver(Window(i), LAMBDA o : Element(i, o)),
                                  Cardinality(IF p.countPad THEN {o \in Index(p.filter) : Padded(i, o)} ELSE Window(i))))

(***************************************************************************)
(* Resizing the spatial axes of a channel-last tensor.  A coordinate is a   *)
(* fraction <<numerator, denominator>>.                                     *)
(***************************************************************************)
SourceCoord(mode, o, in, out) ==
  LET half == <<(2 * o + 1) * in - out, 2 * out>>
  IN  CASE mode = "half_pixel" -> half
        [] mode = "pytorch_half_pixel" -> IF out = 1 THEN <<0, 1>> ELSE half
        [] mode = "align_corners" -> IF out = 1 THEN <<0, 1>> ELSE <<o * (in - 1), out - 1>>
        [] mode = "asymmetric" -> <<o * in, out>>
        [] mode = "tf_half_pixel_for_nn" -> <<(2 * o + 1) * in, 2 * out>>

Nearest(x, rounding) ==
  LET n == x[1] d == x[2]
  IN  CASE rounding = "floor" -> n \div d
        [] rounding = "ceil" -> 0 - ((0 - n) \div d)
        [] rounding = "round_prefer_floor" -> 0 - ((d - 2 * n) \div (2 * d))
        [] rounding = "round_prefer_ceil" -> (2 * n + d) \div (2 * d)

\* A cubic interpolation is an arbitrary function of the row and the coordinate.
ResizeAxis(t, ax, out, p) ==
  LET in == t.shape[ax + 1]
      Value(i, k) == t.at[At(i, ax, Clamp(k, 0, in - 1))]
      X(i) == SourceCoord(p.coord, i[ax + 1], in, out)
      Linear(i) == LET f == X(i)[1] \div X(i)[2]
                       w == DivR(X(i)[1] - f * X(i)[2], X(i)[2])
                   IN  AddR(MulR(SubR(1, w), Value(i, f)), MulR(w, Value(i, f + 1)))
      Cubic(i) == Fn("Cubic", AddR(SumOver(Below(in), LAMBDA k : MulR(Value(i, k), k + 3)),
                                   AddR(DivR(X(i)[1], X(i)[2]), MulR(19, p.coeff))))
  IN  Tensor(At(t.shape, ax, out), LAMBDA i :
        CASE p.interp = "nearest" -> Value(i, Nearest(X(i), p.nearest))
          [] p.interp = "linear" -> Linear(i)
          [] p.interp = "cubic" -> Cubic(i))

ResizeTo(t, shape, p) ==
  FoldLeft(LAMBDA a, k : ResizeAxis(a, k, shape[k + 1], p), t, [k \in 1..(Len(shape) - 2) |-> k])

-----------------------------------------------------------------------------
(***************************************************************************)
(* Matrix products, convolutions and normalizations as the QNN backend      *)
(* computes them: matrices with broadcast batches, channel-last images.     *)
(***************************************************************************)

\* The last two axes change places.
SwapLast(t) ==
  LET r == Len(t.shape)
  IN  Transpose(t, [k \in 1..r |-> IF k = r - 1 THEN r - 1 ELSE IF k = r THEN r - 2 ELSE k - 1])

MatrixProduct(a, b) ==
  LET ra == Len(a.shape) rb == Len(b.shape)
      batch == BroadcastShape(SubSeq(a.shape, 1, ra - 2), SubSeq(b.shape, 1, rb - 2))
      r == Len(batch) + 2
      Cell(i, j, k) == SubSeq(i, 1, r - 2) \o <<j, k>>
  IN  Tensor(batch \o <<a.shape[ra - 1], b.shape[rb]>>,
             LAMBDA i : SumOver(Below(a.shape[ra]), LAMBDA k : MulR(BroadcastAt(a, Cell(i, i[r - 1], k)),
                                                                   BroadcastAt(b, Cell(i, k, i[r])))))

\* x is taken as [m, k], w is [n, k].
FullyConnected(ts) ==
  LET k == ts[2].shape[2]
      y == MatrixProduct(Reshape(ts[1], <<Prod(ts[1].shape) \div k, k>>), SwapLast(ts[2]))
  IN  IF Len(ts) = 3 THEN Binary(y, ts[3], AddR) ELSE y

ConvDim(in, kernel, stride, dilation, pad) == (in + pad[1] + pad[2] - (kernel - 1) * dilation - 1) \div stride + 1

BiasAt(ts, c) == IF Len(ts) = 3 THEN ts[3].at[<<c>>] ELSE 0

\* The filter is [spatial, channels of a group, output channels].
Convolution(ts, p, group) ==
  LET x == ts[1] w == ts[2]
      r == Len(x.shape) - 2
      per == w.shape[r + 1]
      made == w.shape[r + 2]
      Pos(i, o, k) == i[k + 1] * p.stride[k] - p.pad[k][1] + o[k] * p.dilation[k]
      Taps(i) == {o \in Index(SubSeq(w.shape, 1, r + 1)) : \A k \in 1..r : Pos(i, o, k) \in Below(x.shape[k + 1])}
      First(c) == (c \div (made \div group)) * per
  IN  Tensor(<<x.shape[1]>>
             \o [k \in 1..r |-> ConvDim(x.shape[k + 1], w.shape[k], p.stride[k], p.dilation[k], p.pad[k])] \o <<made>>,
             LAMBDA i : AddR(BiasAt(ts, i[r + 2]),
               SumOver(Taps(i), LAMBDA o :
                 MulR(x.at[<<i[1]>> \o [k \in 1..r |-> Pos(i, o, k)] \o <<First(i[r + 2]) + o[r + 1]>>],
                      w.at[o \o <<i[r + 2]>>]))))

\* The filter is [spatial, input channels, output channels of a group].
TransposeConvolution(ts, p) ==
  LET x == ts[1] w == ts[2]
      r == Len(x.shape) - 2
      per == w.shape[r + 2]
      in == w.shape[r + 1] \div p.group
      Far(i, o, k) == i[k + 1] + p.pad[k][1] - o[k]
      Hits(i) == {o \in Index(SubSeq(w.shape, 1, r) \o <<in>>) :
                    \A k \in 1..r : Far(i, o, k) % p.stride[k] = 0 /\ Far(i, o, k) \div p.stride[k] \in Below(x.shape[k + 1])}
      Channel(i, o) == (i[r + 2] \div per) * in + o[r + 1]
  IN  Tensor(<<x.shape[1]>>
             \o [k \in 1..r |-> p.stride[k] * (x.shape[k + 1] - 1) + p.outPad[k] + w.shape[k] - p.pad[k][1] - p.pad[k][2]]
             \o <<per * p.group>>,
             LAMBDA i : AddR(BiasAt(ts, i[r + 2]),
               SumOver(Hits(i), LAMBDA o :
                 MulR(x.at[<<i[1]>> \o [k \in 1..r |-> Far(i, o, k) \div p.stride[k]] \o <<Channel(i, o)>>],
                      w.at[SubSeq(o, 1, r) \o <<Channel(i, o), i[r + 2] % per>>]))))

(***************************************************************************)
(* Normalization of slices of a tensor.                                     *)
(***************************************************************************)
\* The default of the epsilon attributes, 1e-05.
Epsilon == 105

\* Each slice along the axes A less its mean.
Centered(t, A) == Binary(t, Reduce(t, A, "Mean", TRUE), SubR)

\* Each slice divided by its root mean square.
UnitRms(t, A, eps) ==
  LET squares == Unary(t, Sq)
      roots == Unary(Reduce(squares, A, "Mean", TRUE), LAMBDA v : SqrtR(AddR(v, eps)))
  IN  Binary(t, roots, DivR)

Standardized(t, A, eps) == UnitRms(Centered(t, A), A, eps)

\* t * gamma + beta; beta is <<>> when there is none.
Affine(t, gamma, beta) ==
  LET y == Binary(t, gamma, MulR) IN IF beta = <<>> THEN y ELSE Binary(y, beta[1], AddR)

\* A tensor that holds one value for each index of the axis.
Channelwise(v, shape, axis) == Tensor(shape, LAMBDA i : v.at[<<i[axis + 1]>>])

\* Channel-last images, the statistics of each group of channels.
GroupStandardized(t, groups, eps) ==
  LET c == LastOf(t.shape)
      split == Reshape(t, <<t.shape[1], Prod(t.shape) \div (t.shape[1] * c), groups, c \div groups>>)
  IN  Reshape(Standardized(split, {1, 3}, eps), t.shape)
=============================================================================
