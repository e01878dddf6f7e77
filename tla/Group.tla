------------------------------- MODULE Group --------------------------------
(***************************************************************************)
(* The group of the curve y^2 = x^3 + Curve, in affine coordinates (ge)    *)
(* and in Jacobian ones (gej), where (x, y, z) is the point                *)
(* (x / z^2, y / z^3) (group_impl.h).  Every formula is carried out on     *)
(* FieldElement, magnitudes included.                                      *)
(***************************************************************************)
EXTENDS FieldElement, Sequences

CONSTANTS
  Curve,                 \* SECP256K1_B
  Beta                   \* a cube root of one in the field

ASSUME CurveAssumption ==
  /\ Curve \in 1..P-1
  /\ Beta \in 2..P-1 /\ (Beta * Beta * Beta) % P = 1
  /\ P % 4 = 3
  (* no point has y = 0: the doubling formulas have no case for it *)
  /\ \A x \in 0..P-1 : (x * x * x + Curve) % P # 0

GeXMax  == 4
GeYMax  == 3
GejXMax == 4
GejYMax == 4
GejZMax == 1

Zero == SetInt(0)
One  == SetInt(1)

Infinity    == [x |-> Zero, y |-> Zero, inf |-> TRUE]
GejInfinity == [x |-> Zero, y |-> Zero, z |-> Zero, inf |-> TRUE]

(* secp256k1_ge_verify and secp256k1_gej_verify *)
GeVerified(a) ==
  /\ Verified(a.x) /\ Verified(a.y)
  /\ a.x.m <= GeXMax /\ a.y.m <= GeYMax

GejVerified(a) ==
  /\ Verified(a.x) /\ Verified(a.y) /\ Verified(a.z)
  /\ a.x.m <= GejXMax /\ a.y.m <= GejYMax /\ a.z.m <= GejZMax

----------------------------------------------------------------------------
SetXY(x, y) == [x |-> x, y |-> y, inf |-> FALSE]

(* (a.x, a.y, 1 / zi) in affine coordinates, for both kinds of a.           *)
SetGejZinv(a, zi) ==
  [x |-> Mul(a.x, Sqr(zi)), y |-> Mul(a.y, Mul(Sqr(zi), zi)), inf |-> a.inf]

SetGeZinv(a, zi) == SetGejZinv(a, zi)

(* In constant time, the inverse of zero being zero ...                     *)
SetGej(a) == SetGejZinv(a, Inv(a.z))

(* ... and with a case for infinity. *)
SetGejVar(a) == IF a.inf THEN Infinity ELSE SetGej(a)

(* All of a sequence with one inversion: products of the z coordinates up   *)
(* to each, and from the inverse of the last one back down.                 *)
SetAllGejVar(a) ==
  LET Over(finite) ==
        LET count == Len(finite)
            Z(k)  == a[finite[k]].z
            upTo[k \in 1..count] == IF k = 1 THEN Z(1) ELSE Mul(upTo[k - 1], Z(k))
            u[k \in 1..count] ==
              IF k = count THEN Inv(upTo[count]) ELSE Mul(u[k + 1], Z(k + 1))
            zi(k) == IF k = 1 THEN u[1] ELSE Mul(upTo[k - 1], u[k])
        IN [i \in 1..Len(a) |->
              IF a[i].inf THEN Infinity
              ELSE SetGejZinv(a[i], zi(CHOOSE k \in 1..count : finite[k] = i))]
  IN Over(SelectSeq([i \in 1..Len(a) |-> i], LAMBDA i : ~a[i].inf))

GeNeg(a) == [a EXCEPT !.y = Negate(NormalizeWeak(@), 1)]

GejSetGe(a) == [x |-> a.x, y |-> a.y, z |-> One, inf |-> a.inf]

GejNeg(a) == [a EXCEPT !.y = Negate(NormalizeWeak(@), 1)]

(* The point with this x and a y of this parity, if there is one. *)
SetXoVar(x, odd) ==
  LET Lifted(sqrt, y) ==
        [ge |-> SetXY(x, IF IsOdd(y) # odd THEN Negate(y, 1) ELSE y),
         found |-> sqrt.found, ok |-> sqrt.ok /\ MayAsk(y)]
      From(sqrt) == Lifted(sqrt, Normalize(sqrt.root))
  IN From(Sqrt(AddInt(Mul(x, Sqr(x)), Curve)))

IsValidVar(a) ==
  /\ ~a.inf
  /\ Equal(Sqr(a.y), AddInt(Mul(Sqr(a.x), a.x), Curve))

MulLambda(a) == [a EXCEPT !.x = Mul(@, Canonical(Beta))]

Rescale(a, s) ==
  [x |-> Mul(a.x, Sqr(s)), y |-> Mul(Mul(a.y, Sqr(s)), s), z |-> Mul(a.z, s),
   inf |-> a.inf]

EqXVar(x, a) == Equal(Mul(Sqr(a.z), x), a.x)

----------------------------------------------------------------------------
(* The formulas.  r is the result, rzr the ratio of its z to that of a, and *)
(* ok what the checks on the way say.                                       *)
Result(r, rzr, ok) == [r |-> r, rzr |-> rzr, ok |-> ok /\ GejVerified(r)]

(* With s = y^2, l = 3/2 * x^2 and t = -x * s *)
DoubleAt(a, s, l, t, x3) ==
  [x |-> x3, y |-> Negate(Add(Mul(Add(t, x3), l), Sqr(s)), 2),
   z |-> Mul(a.z, a.y), inf |-> a.inf]

DoubleAlong(a, s, l, t) == DoubleAt(a, s, l, t, Add(Add(Sqr(l), t), t))

GejDouble(a) ==
  DoubleAlong(a, Sqr(a.y), Half(MulInt(Sqr(a.x), 3)),
              Mul(Negate(Sqr(a.y), 1), a.x))

GejDoubleVar(a) ==
  IF a.inf THEN Result(GejInfinity, One, TRUE)
  ELSE Result(GejDouble(a), NormalizeWeak(a.y), TRUE)

(* What the additions of two finite points share, once both are on a common *)
(* denominator: u1, u2 the x coordinates, s1, s2 the y ones, h = u2 - u1    *)
(* and i = s1 - s2.  ratio is what the z of a gets multiplied by.  With     *)
(* h2 = -h^2, h3 = h2 * h and t = u1 * h2 the third point is:               *)
ChordAt(a, s1, i, ratio, h3, t, x3) ==
  [x |-> x3, y |-> Add(Mul(Add(t, x3), i), Mul(h3, s1)),
   z |-> Mul(a.z, ratio), inf |-> FALSE]

ChordAlong(a, s1, i, ratio, h3, t) ==
  ChordAt(a, s1, i, ratio, h3, t, Add(Add(Add(Sqr(i), h3), t), t))

Chord(a, u1, s1, h, i, ratio, h2) ==
  ChordAlong(a, s1, i, ratio, Mul(h2, h), Mul(u1, h2))

(* Mutation: equal points are taken for opposite ones. *)
AddDistinct(a, u1, s1, h, i, ratio) ==
  IF ~NormalizesToZero(h)
  THEN Result(Chord(a, u1, s1, h, i, ratio, Negate(Sqr(h), 1)), ratio,
              Verified(h) /\ Verified(i))
  ELSE Result(GejInfinity, Zero, Verified(h) /\ Verified(i))

AddCommon(a, u1, s1, h, i, ratio) ==
  IF ~NormalizesToZero(h)
  THEN Result(Chord(a, u1, s1, h, i, ratio, Negate(Sqr(h), 1)), ratio,
              Verified(h) /\ Verified(i))
  ELSE IF ~NormalizesToZero(i)
  THEN Result(GejInfinity, Zero, Verified(h) /\ Verified(i))
  ELSE [GejDoubleVar(a) EXCEPT !.ok = @ /\ Verified(h) /\ Verified(i)]

AddOver(a, b, u1, u2, s1, s2) ==
  AddCommon(a, u1, s1, Add(Negate(u1, 1), u2), Add(Negate(s2, 1), s1),
            Mul(Add(Negate(u1, 1), u2), b.z))

GejAddVar(a, b) ==
  IF a.inf THEN Result(b, One, TRUE)
  ELSE IF b.inf THEN Result(a, One, TRUE)
  ELSE AddOver(a, b, Mul(a.x, Sqr(b.z)), Mul(b.x, Sqr(a.z)),
               Mul(Mul(a.y, Sqr(b.z)), b.z), Mul(Mul(b.y, Sqr(a.z)), a.z))

(* Mutation: a.x is taken for a product. *)
AddBetweenProducts(a, u2, s2) ==
  AddCommon(a, a.x, a.y, Add(Negate(a.x, 1), u2),
            Add(Negate(s2, 1), a.y), Add(Negate(a.x, 1), u2))

(* a is on its own denominator, b is brought to that of z. *)
AddBetween(a, u2, s2) ==
  AddCommon(a, a.x, a.y, Add(Negate(a.x, GejXMax), u2),
            Add(Negate(s2, 1), a.y), Add(Negate(a.x, GejXMax), u2))

AddAffine(a, b, z) ==
  AddBetween(a, Mul(b.x, Sqr(z)), Mul(Mul(b.y, Sqr(z)), z))

GejAddGeVar(a, b) ==
  IF a.inf THEN Result(GejSetGe(b), One, TRUE)
  ELSE IF b.inf THEN Result(a, One, TRUE)
  ELSE AddAffine(a, b, a.z)

(* b is (b.x, b.y, 1 / bzinv): a's z is multiplied by bzinv on the way, and *)
(* the result's is not.                                                     *)
GejAddZinvVar(a, b, bzinv) ==
  IF a.inf
  THEN Result([x |-> Mul(b.x, Sqr(bzinv)),
               y |-> Mul(b.y, Mul(Sqr(bzinv), bzinv)),
               z |-> One, inf |-> b.inf], One, TRUE)
  ELSE IF b.inf THEN Result(a, One, TRUE)
  ELSE AddAffine(a, b, Mul(a.z, bzinv))

(* Addition in constant time: one formula for adding and doubling, with     *)
(* another slope where y1 = -y2, and conditional moves instead of branches. *)
(* b is not infinity.  t and m are the sums of the x and of the y           *)
(* coordinates, rr / mAlt is the slope, q = -t * mAlt^2, and n = m^3 * mAlt *)
(* (which is zero where the slope is the other one).                        *)
ConstChosen(a, b, x3, y3, z3) ==
  [x |-> Cmov(x3, b.x, a.inf), y |-> Cmov(y3, b.y, a.inf),
   z |-> Cmov(z3, One, a.inf),
   inf |-> NormalizesToZero(Cmov(z3, One, a.inf))]

ConstAt(a, b, rr, mAlt, n, q, x3) ==
  ConstChosen(a, b, x3,
    Half(Negate(Add(Mul(Add(MulInt(x3, 2), q), rr), n), GejYMax + 2)),
    Mul(a.z, mAlt))

ConstThird(a, b, m, rr, mAlt, n2, q) ==
  ConstAt(a, b, rr, mAlt, Cmov(Sqr(n2), m, NormalizesToZero(m)), q,
          Add(Sqr(rr), q))

ConstAlong(a, b, t, m, rr, mAlt) ==
  ConstThird(a, b, m, rr, mAlt, Sqr(mAlt),
             Mul(Negate(t, GejXMax + 1), Sqr(mAlt)))

ConstSlope(a, b, t, m, u2neg) ==
  Result(ConstAlong(a, b, t, m,
           Cmov(MulInt(a.y, 2), Add(Sqr(t), Mul(a.x, u2neg)),
                ~NormalizesToZero(m)),
           Cmov(Add(u2neg, a.x), m, ~NormalizesToZero(m))),
         One, Verified(m) /\ ~b.inf)

ConstOver(a, b, u2, s2) ==
  ConstSlope(a, b, Add(a.x, u2), Add(a.y, s2), Negate(u2, 1))

GejAddGe(a, b) ==
  ConstOver(a, b, Mul(b.x, Sqr(a.z)), Mul(Mul(b.y, Sqr(a.z)), a.z))

GejCmov(r, a, flag) ==
  [x |-> Cmov(r.x, a.x, flag), y |-> Cmov(r.y, a.y, flag),
   z |-> Cmov(r.z, a.z, flag), inf |-> IF flag THEN a.inf ELSE r.inf]

GejEqVar(a, b) == GejAddVar(GejNeg(a), b).r.inf

GejEqGeVar(a, b) == GejAddGeVar(GejNeg(a), b).r.inf
----------------------------------------------------------------------------
(* The reference: the group law by chord and tangent, on plain pairs.       *)
NoPoint == <<>>
OnCurve == {pt \in (0..P-1) \X (0..P-1) :
              (pt[2] * pt[2] - pt[1] * pt[1] * pt[1] - Curve) % P = 0}
Points == OnCurve \cup {NoPoint}

InverseOf == [d \in 1..P-1 |-> CHOOSE i \in 1..P-1 : (i * d) % P = 1]

Minus(s) == IF s = NoPoint THEN s ELSE <<s[1], (P - s[2]) % P>>

Along(s, u, slope) ==
  LET x == (slope * slope - s[1] - u[1]) % P
  IN <<x, (slope * (s[1] - x) - s[2]) % P>>

Plus(s, u) ==
  IF s = NoPoint THEN u
  ELSE IF u = NoPoint THEN s
  ELSE IF u = Minus(s) THEN NoPoint
  ELSE IF s = u
       THEN Along(s, u, (3 * s[1] * s[1] * InverseOf[(2 * s[2]) % P]) % P)
       ELSE Along(s, u, ((u[2] - s[2]) * InverseOf[(u[1] - s[1]) % P]) % P)

(* What the code's points stand for. *)
PointOf(a) == IF a.inf THEN NoPoint ELSE <<a.x.v, a.y.v>>

PointOfGej(a) ==
  IF a.inf THEN NoPoint
  ELSE LET zi == InverseOf[a.z.v]
       IN <<(a.x.v * ((zi * zi) % P)) % P,
            (a.y.v * ((zi * zi * zi) % P)) % P>>
============================================================================
