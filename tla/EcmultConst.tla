---------------------------- MODULE EcmultConst -----------------------------
(***************************************************************************)
(* Multiplication in constant time (ecmult_const_impl.h): the bits of the  *)
(* two half scalars are read as signs, and looked up in groups.            *)
(***************************************************************************)
EXTENDS Ecmult

CONSTANT GroupSize               \* ECMULT_CONST_GROUP_SIZE

ConstTableSize == 2^(GroupSize - 1)
ConstGroups    == (HalfBits + GroupSize) \div GroupSize
ConstBits      == ConstGroups * GroupSize

(* The correction of a scalar whose signs are read instead of its bits.     *)
ConstK == ((2^ConstBits - 2^(HalfBits + 1) - 1) * (1 + Lambda)) % N

ConstTableGlobalz(a) ==
  LET Brought(t) == [pre |-> TableSetGlobalz(t.pre, t.zr), z |-> t.z]
  IN Brought(OddMultiplesTable(ConstTableSize, a))

(* bits as signs: 2 * bits + 1 - 2^GroupSize times the point.  Every entry  *)
(* of the table is looked at.                                               *)
ConstTableGetGe(pre, bits) ==
  LET negative == bits < ConstTableSize
      index == IF negative THEN ConstTableSize - 1 - bits
               ELSE bits - ConstTableSize
      Looked(r, m) == [x |-> Cmov(r.x, pre[m].x, m = index + 1),
                      y |-> Cmov(r.y, pre[m].y, m = index + 1)]
      upTo[m \in 1..ConstTableSize] ==
        IF m = 1 THEN [x |-> pre[1].x, y |-> pre[1].y] ELSE Looked(upTo[m - 1], m)
      Signed(r) == SetXY(r.x, Cmov(r.y, Negate(r.y, 1), negative))
  IN Signed(upTo[ConstTableSize])

DoubledConst(a, times) ==
  LET upTo[i \in 0..times] == IF i = 0 THEN a ELSE GejDouble(upTo[i - 1])
  IN upTo[times]

(* secp256k1_ecmult_const *)
MultiplyConst(a, q) ==
  LET At(pre, v, group) ==
        ConstTableGetGe(pre, GetBits(v, group * GroupSize, GroupSize))
      Lambdas(pre) == [i \in 1..ConstTableSize |-> MulLambda(pre[i])]
      Over(pre, preLam, v1, v2) ==
        LET from[group \in 0..ConstGroups-1] ==
              GejAddGe(IF group = ConstGroups - 1
                       THEN GejSetGe(At(pre, v1, group))
                       ELSE GejAddGe(DoubledConst(from[group + 1], GroupSize),
                                     At(pre, v1, group)).r,
                       At(preLam, v2, group)).r
        IN from[0]
      Of(t, split) ==
        [Over(t.pre, Lambdas(t.pre), SAdd(split.r1, 2^HalfBits),
              SAdd(split.r2, 2^HalfBits)) EXCEPT !.z = Mul(@, t.z)]
  IN IF a.inf THEN GejInfinity
     ELSE Of(ConstTableGlobalz(GejSetGe(a)), SplitLambda(SHalf(SAdd(q, ConstK))))

(* secp256k1_ecmult_const_xonly: the x of q times the point with x = n / d, *)
(* if there is one, without a square root.  d is NULL for <<>>.             *)
MultiplyXonly(n, d, q, knownOnCurve) ==
  LET Cubed == Mul(Sqr(n), n)
      Answer(g, r) ==
        LET i == Mul(Sqr(r.z), g)
        IN [found |-> TRUE,
            x |-> Mul(r.x, Inv(IF d = <<>> THEN i ELSE Mul(i, d[1])))]
      Of(g) ==
        IF ~knownOnCurve /\ ~IsSquare((IF d = <<>> THEN g ELSE Mul(g, d[1])).v)
        THEN [found |-> FALSE]
        ELSE Answer(g, MultiplyConst(SetXY(Mul(g, n), Sqr(g)), q))
  IN Of(IF d = <<>> THEN AddInt(Cubed, Curve)
        ELSE Add(Cubed, Mul(MulInt(Sqr(d[1]), Curve), d[1])))
=============================================================================
