------------------------------- MODULE Ecmult -------------------------------
(***************************************************************************)
(* Multiplication of points by scalars in variable time (ecmult_impl.h):   *)
(* tables of odd multiples that share one z coordinate, scalars rewritten  *)
(* so that few additions are left, and the algorithms of Strauss and       *)
(* Pippenger over them.                                                    *)
(***************************************************************************)
EXTENDS Group, Scalar, SequencesExt

CONSTANTS
  Generator,             \* secp256k1_ge_const_g
  WindowA,               \* WINDOW_A
  WindowG                \* WINDOW_G, the size of the precomputed tables

NoScalar == -1           \* a NULL scalar

TableSize(w) == 2^(w - 2)

Least(S)    == CHOOSE x \in S : \A y \in S : x <= y
Greatest(S) == CHOOSE x \in S : \A y \in S : y <= x

(* The entries are affine on a curve isomorphic to ours: their z coordinates *)
(* are left out, zr[i] being the ratio of that of entry i to the one before, *)
(* and z that of the last one.                                               *)
RECURSIVE OddMultiplesTo(_, _, _)
OddMultiplesTo(size, a, d) ==
  LET First(ge) == [ai |-> [GejSetGe(ge) EXCEPT !.z = a.z],
                    pre |-> <<ge>>, zr |-> <<d.z>>]
      With(t, sum) == [ai |-> sum.r,
                       pre |-> Append(t.pre, SetXY(sum.r.x, sum.r.y)),
                       zr |-> Append(t.zr, sum.rzr)]
      More(t) == With(t, GejAddGeVar(t.ai, SetXY(d.x, d.y)))
  IN IF size = 1 THEN First(SetGejZinv(a, d.z))
     ELSE More(OddMultiplesTo(size - 1, a, d))

OddMultiplesTable(size, a) ==
  LET Whole(t, d) == [pre |-> t.pre, zr |-> t.zr, z |-> Mul(t.ai.z, d.z)]
      Of(d)       == Whole(OddMultiplesTo(size, a, d), d)
  IN Of(GejDoubleVar(a).r)

(* Brings all entries to the z coordinate of the last. *)
TableSetGlobalz(a, zr) ==
  LET len == Len(a)
      zs[i \in 1..len-1] ==
        IF i = len - 1 THEN zr[len] ELSE Mul(zs[i + 1], zr[i + 1])
  IN [i \in 1..len |->
        IF i = len THEN [a[i] EXCEPT !.y = NormalizeWeak(@)]
        ELSE SetGeZinv(a[i], zs[i])]

(* Entry n of a table of odd multiples, n odd and of either sign. *)
TableGetGe(pre, m) ==
  IF m > 0 THEN pre[(m + 1) \div 2]
  ELSE [pre[(1 - m) \div 2] EXCEPT !.y = Negate(@, 1)]

(* Mutation: negative digits are not negated. *)
TableGetGeLambdaPositive(pre, x, m) ==
  LET i == IF m > 0 THEN (m + 1) \div 2 ELSE (1 - m) \div 2
  IN SetXY(x[i], pre[i].y)

(* The same for Lambda times the table, which only differs in x. *)
TableGetGeLambda(pre, x, m) ==
  LET i == IF m > 0 THEN (m + 1) \div 2 ELSE (1 - m) \div 2
  IN SetXY(x[i], IF m > 0 THEN pre[i].y ELSE Negate(pre[i].y, 1))

(* secp256k1_ecmult_compute_table: affine odd multiples, for the storage.   *)
(* Entries in the form they are stored in, one after the other. *)
StoredAll(ges) ==
  LET Stored(ge) == [ge EXCEPT !.x = Canonical(@.v), !.y = Canonical(@.v)]
      upTo[j \in 0..Len(ges)] ==
        IF j = 0 THEN <<>> ELSE Append(upTo[j - 1], Stored(ges[j]))
  IN upTo[Len(ges)]

RECURSIVE OddAffineTo(_, _, _)
OddAffineTo(m, gen, dgen) ==
  LET More(t) == Append(t, SetGejVar(GejAddGeVar(GejSetGe(Last(t)), dgen).r))
  IN IF m = 1 THEN <<SetGejVar(gen)>> ELSE More(OddAffineTo(m - 1, gen, dgen))

ComputeTable(w, gen) ==
  StoredAll(OddAffineTo(TableSize(w), gen, SetGejVar(GejDoubleVar(gen).r)))

RECURSIVE Doubled(_, _)
Doubled(a, times) ==
  IF times = 0 THEN a ELSE GejDoubleVar(Doubled(a, times - 1)).r

PreG    == ComputeTable(WindowG, GejSetGe(Generator))
PreG128 == ComputeTable(WindowG, Doubled(GejSetGe(Generator), HalfBits))
----------------------------------------------------------------------------
(* secp256k1_ecmult_wnaf: the digits of s from bit 0 on, zero or odd, the   *)
(* nonzero ones at least w apart; what a digit takes too much is carried.   *)
Wnaf(s, len, w) ==
  LET negative == GetBits(s, ScalarBits - 1, 1) = 1
      a == IF negative THEN SNegate(s) ELSE s
      from[bit \in 0..len, carry \in 0..1] ==
        IF bit = len THEN <<>>
        ELSE IF GetBits(a, bit, 1) = carry THEN <<0>> \o from[bit + 1, carry]
        ELSE LET now  == Least({w, len - bit})
                 word == GetBits(a, bit, now) + carry
                 over == (word \div 2^(w - 1)) % 2
                 digit == word - over * 2^w
             IN <<IF negative THEN -digit ELSE digit>>
                  \o [i \in 1..now-1 |-> 0] \o from[bit + now, over]
  IN from[0, 0]

(* One more than the position of the last nonzero digit. *)
BitsOf(wnaf) == Greatest({0} \cup {i \in DOMAIN wnaf : wnaf[i] # 0})

(* secp256k1_wnaf_fixed: WNAF_SIZE(w) digits of w bits, all odd, or zero    *)
(* where that saves an addition; skew is what was added to make s odd.      *)
WnafSize(w) == (HalfBits + w - 1) \div w

WnafFixed(s, w) ==
  LET size == WnafSize(w)
      lastW == HalfBits - (size - 1) * w
      skew == IF s % 2 = 0 THEN 1 ELSE 0
      Val(pos) == GetBits(s, pos * w, IF pos = size - 1 THEN lastW ELSE w)
      maxPos == Greatest({0} \cup {pos \in 1..size-1 : Val(pos) # 0})
      (* digit pos, and what it changes in the one before *)
      Put(d, pos) ==
        IF Val(pos) % 2 = 0
        THEN Append([d EXCEPT ![pos] = @ - 2^w], Val(pos) + 1)
        ELSE Append(d, Val(pos))
      (* a digit of 1 or -1 goes into an earlier one of the other sign      *)
      Merge(d, pos) ==
        IF pos >= 2 /\ ((d[pos] = 1 /\ d[pos - 1] < 0)
                         \/ (d[pos] = -1 /\ d[pos - 1] > 0))
        THEN [d EXCEPT ![pos - 1] = @ + d[pos] * 2^w, ![pos] = 0]
        ELSE d
      upTo[pos \in 0..maxPos] ==
        IF pos = 0 THEN <<Val(0) + skew>>
        ELSE Merge(Put(upTo[pos - 1], pos), pos)
  IN IF s = 0 THEN [digits |-> [i \in 1..size |-> 0], skew |-> 0]
     ELSE [digits |-> upTo[maxPos] \o [i \in 1..size-1-maxPos |-> 0],
           skew |-> skew]
----------------------------------------------------------------------------
(* One table of odd multiples per point, each starting from the z           *)
(* coordinate where the one before ended, and all brought to the last z.    *)
RECURSIVE ChainedTables(_)
ChainedTables(points) ==
  LET size == TableSize(WindowA)
      Joined(before, t, zr1) == [pre |-> before.pre \o t.pre,
                                 zr |-> before.zr \o [t.zr EXCEPT ![1] = zr1],
                                 z |-> t.z]
      Later(before, ak, t) == Joined(before, t, Mul(t.zr[1], ak.z))
      More(before, ak) ==
        Later(before, ak, OddMultiplesTable(size, Rescale(ak, before.z)))
  IN IF Len(points) = 1 THEN OddMultiplesTable(size, points[1])
     ELSE More(ChainedTables(Front(points)), Last(points))

StraussTables(points) ==
  LET Same(pre, z) == [pre |-> pre, z |-> z,
                       aux |-> [i \in 1..Len(pre) |->
                                  Mul(pre[i].x, Canonical(Beta))]]
      Brought(all) == Same(TableSetGlobalz(all.pre, all.zr), all.z)
  IN IF points = <<>> THEN [pre |-> <<>>, z |-> One, aux |-> <<>>]
     ELSE Brought(ChainedTables(points))

(* The digits of both halves of every scalar, and of the generator's. *)
StraussDigits(na, ng) ==
  LET Halves(split) == <<Wnaf(split.r1, HalfBits + 1, WindowA),
                         Wnaf(split.r2, HalfBits + 1, WindowA)>>
      Parts(g) == <<Wnaf(g.low, HalfBits + 1, WindowG),
                    Wnaf(g.high, HalfBits + 1, WindowG)>>
  IN [a |-> [k \in 1..Len(na) |-> Halves(SplitLambda(na[k]))],
      g |-> Parts(Split128(IF ng = NoScalar THEN 0 ELSE ng))]

(* What the digits at position i ask for, of the first k points ...         *)
RECURSIVE AddDigits(_, _, _, _, _)
AddDigits(table, digits, i, k, r) ==
  LET size == TableSize(WindowA)
      Of(seq) == SubSeq(seq, (k - 1) * size + 1, k * size)
      Plain(sum, m) ==
        IF m = 0 THEN sum ELSE GejAddGeVar(sum, TableGetGe(Of(table.pre), m)).r
      Lam(sum, m) ==
        IF m = 0 THEN sum
        ELSE GejAddGeVar(sum, TableGetGeLambda(Of(table.pre), Of(table.aux), m)).r
  IN IF k = 0 THEN r
     ELSE Lam(Plain(AddDigits(table, digits, i, k - 1, r), digits.a[k][1][i]),
              digits.a[k][2][i])

(* ... and of the generator, whose tables are affine.                       *)
AddG(table, r, pre, m) ==
  IF m = 0 THEN r ELSE GejAddZinvVar(r, TableGetGe(pre, m), table.z).r

(* From the top bit on, double, and add what the digits ask for. *)
RECURSIVE StraussFrom(_, _, _, _)
StraussFrom(table, digits, bits, i) ==
  LET All(r) == AddG(table,
                     AddG(table, AddDigits(table, digits, i, Len(digits.a), r),
                          PreG, digits.g[1][i]),
                     PreG128, digits.g[2][i])
  IN IF i > bits THEN GejInfinity
     ELSE All(GejDoubleVar(StraussFrom(table, digits, bits, i + 1)).r)

StraussSum(table, digits) ==
  LET bits == Greatest({BitsOf(digits.g[h]) : h \in 1..2}
                \cup {BitsOf(digits.a[k][h]) : k \in 1..Len(digits.a), h \in 1..2})
      Back(r) == IF r.inf THEN r ELSE [r EXCEPT !.z = Mul(@, table.z)]
  IN Back(StraussFrom(table, digits, bits, 1))

(* secp256k1_ecmult_strauss_wnaf: the sum of na[i] * a[i], and of ng times  *)
(* the generator, over one chain of doublings.                              *)
Strauss(a, na, ng) ==
  LET used == SelectSeq([i \in 1..Len(a) |-> i],
                        LAMBDA i : na[i] # 0 /\ ~a[i].inf)
      At(seq) == [k \in 1..Len(used) |-> seq[used[k]]]
  IN StraussSum(StraussTables(At(a)), StraussDigits(At(na), ng))

(* secp256k1_ecmult *)
Multiply(a, na, ng) == Strauss(<<a>>, <<na>>, ng)
----------------------------------------------------------------------------
(* secp256k1_ecmult_endo_split: two half scalars of points, both small and  *)
(* nonnegative.                                                             *)
EndoSplit(s, p) ==
  LET Positive(k, q) == IF IsHigh(k) THEN [s |-> SNegate(k), p |-> GeNeg(q)]
                        ELSE [s |-> k, p |-> q]
      Of(split) == <<Positive(split.r1, p), Positive(split.r2, MulLambda(p))>>
  IN Of(SplitLambda(s))

(* secp256k1_ecmult_pippenger_wnaf: for every digit, from the top, each     *)
(* point goes to the bucket of its digit, and a running sum weighs the      *)
(* buckets 1, 3, 5, ...  terms is a sequence of [s, p].                     *)
Into(b, idx, p) == [b EXCEPT ![idx] = GejAddGeVar(@, p).r]

RECURSIVE Filled(_, _, _, _, _)
Filled(buckets, used, wnaf, i, k) ==
  LET Unskew(b) ==
        IF i = 1 /\ wnaf[k].skew = 1 THEN Into(b, 1, GeNeg(used[k].p)) ELSE b
      Drop(b, m) ==
        IF m > 0 THEN Into(b, (m + 1) \div 2, used[k].p)
        ELSE IF m < 0 THEN Into(b, (1 - m) \div 2, GeNeg(used[k].p))
        ELSE b
  IN IF k = 0 THEN [j \in 1..buckets |-> GejInfinity]
     ELSE Drop(Unskew(Filled(buckets, used, wnaf, i, k - 1)), wnaf[k].digits[i])

(* The buckets from the last on are added to a running sum, and that to r.  *)
RECURSIVE Weighed(_, _, _)
Weighed(b, r, j) ==
  LET To(t, sum) == [sum |-> sum, r |-> GejAddVar(t.r, sum).r]
      More(t)    == To(t, GejAddVar(t.sum, b[j]).r)
  IN IF j > Len(b) THEN [sum |-> GejInfinity, r |-> r]
     ELSE More(Weighed(b, r, j + 1))

Total(b, t) == GejAddVar(GejDoubleVar(t.r).r, GejAddVar(t.sum, b[1]).r).r

RECURSIVE PippengerFrom(_, _, _, _)
PippengerFrom(bucketWindow, used, wnaf, i) ==
  LET Over(b, r) == Total(b, Weighed(b, r, 2))
  IN IF i > WnafSize(bucketWindow + 1) THEN GejInfinity
     ELSE Over(Filled(2^bucketWindow, used, wnaf, i, Len(used)),
               Doubled(PippengerFrom(bucketWindow, used, wnaf, i + 1),
                       bucketWindow))

Pippenger(bucketWindow, terms) ==
  LET Of(used) ==
        IF used = <<>> THEN GejInfinity
        ELSE PippengerFrom(bucketWindow, used,
               [k \in 1..Len(used) |-> WnafFixed(used[k].s, bucketWindow + 1)],
               1)
  IN Of(SelectSeq(terms, LAMBDA t : t.s # 0 /\ ~t.p.inf))
----------------------------------------------------------------------------
(* The reference: multiples by repeated addition.  Those of the generator   *)
(* are used all the time.                                                   *)
MultipleOf(k, pt) ==
  LET upTo[i \in Scalars] ==
        IF i = 0 THEN NoPoint ELSE Plus(upTo[i - 1], pt)
  IN upTo[k]

Multiples ==
  LET upTo[i \in Scalars] ==
        IF i = 0 THEN NoPoint ELSE Plus(upTo[i - 1], PointOf(Generator))
  IN upTo
=============================================================================
