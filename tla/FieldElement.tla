--------------------------- MODULE FieldElement ----------------------------
(***************************************************************************)
(* Elements of the field of the integers modulo P as libsecp256k1's group  *)
(* code sees them (field_impl.h): a value, the magnitude that bounds its   *)
(* representation, and whether that representation is the canonical one.   *)
(* Builds without VERIFY drop the magnitude and every check of it, so the  *)
(* callers must keep within it on their own.  Here `ok` records whether    *)
(* every check on the way to an element would have passed.                 *)
(***************************************************************************)
EXTENDS Integers

CONSTANTS
  P,             \* the characteristic
  MaxMagnitude,  \* 32: no element may have more
  MulMagnitude   \* 8: what mul and sqr accept

ASSUME FieldAssumption ==
  /\ P \in Nat /\ P > 3 /\ P % 2 = 1
  /\ MaxMagnitude \in Nat /\ MulMagnitude \in 1..MaxMagnitude

Elements == [v : 0..P-1, m : 0..MaxMagnitude, norm : BOOLEAN, ok : BOOLEAN]

(* x * y modulo P, digit by digit where TLC's integers could not hold it.   *)
TimesByDigits(x, y) ==
  LET upTo[d \in 0..P-1] ==
        IF d = 0 THEN 0 ELSE (8 * upTo[d \div 8] + (d % 8) * x) % P
  IN upTo[y]

Times(x, y) == IF P < 2^15 THEN (x * y) % P ELSE TimesByDigits(x, y)

Canonical(v) == [v |-> v % P, m |-> 1, norm |-> TRUE, ok |-> TRUE]

(* secp256k1_fe_verify *)
Verified(a) == a.ok /\ a.m <= MaxMagnitude /\ (a.norm => a.m <= 1)

Element(v, m, checks) ==
  [v |-> v % P, m |-> m, norm |-> FALSE, ok |-> checks /\ m <= MaxMagnitude]

NormalizeWeak(a) == [a EXCEPT !.m = 1, !.ok = Verified(a)]
Normalize(a)     == [a EXCEPT !.m = 1, !.norm = TRUE, !.ok = Verified(a)]

SetInt(i) ==
  [v |-> i % P, m |-> IF i # 0 THEN 1 ELSE 0, norm |-> TRUE, ok |-> TRUE]

MaxAddend == 32767    \* 0x7FFF

AddInt(a, i) == Element(a.v + i, a.m + 1, Verified(a) /\ i <= MaxAddend)

Negate(a, m) ==
  Element(P - a.v, m + 1, Verified(a) /\ m < MaxMagnitude /\ a.m <= m)

MulInt(a, i) ==
  Element(a.v * i, a.m * i, Verified(a) /\ i <= 32)

Add(a, b) == Element(a.v + b.v, a.m + b.m, Verified(a) /\ Verified(b))

Mul(a, b) ==
  Element(Times(a.v, b.v), 1,
          Verified(a) /\ Verified(b) /\ a.m <= MulMagnitude
            /\ b.m <= MulMagnitude)

Sqr(a) == Element(Times(a.v, a.v), 1, Verified(a) /\ a.m <= MulMagnitude)

Half(a) ==
  Element(IF a.v % 2 = 0 THEN a.v \div 2 ELSE (a.v + P) \div 2,
          (a.m \div 2) + 1, Verified(a) /\ a.m < MaxMagnitude)

(* r is kept, or replaced by a; its bounds must cover both. *)
Cmov(r, a, flag) ==
  [v |-> IF flag THEN a.v ELSE r.v,
   m |-> IF a.m > r.m THEN a.m ELSE r.m,
   norm |-> r.norm /\ a.norm,
   ok |-> Verified(r) /\ Verified(a)]

Inv(a) ==
  [v |-> IF a.v = 0 THEN 0 ELSE CHOOSE i \in 1..P-1 : (i * a.v) % P = 1,
   m |-> IF a.m > 0 THEN 1 ELSE 0, norm |-> TRUE, ok |-> Verified(a)]

(* The answers below come with the check that the question was allowed.    *)
NormalizesToZero(a) == a.v = 0

IsOdd(a)    == a.v % 2 = 1
MayAsk(a)   == Verified(a) /\ a.norm

Equal(a, b)    == NormalizesToZero(Add(Negate(a, 1), b))
MayEqual(a, b) == Add(Negate(a, 1), b).ok

IsSquare(v) == \E s \in 0..P-1 : (s * s) % P = v

RootChecked(a, r) == [root |-> r, found |-> Equal(Sqr(r), a),
                      ok |-> MayEqual(Sqr(r), a)]

(* a ** ((P + 1) / 4), which is the root of a that is itself a square; if a *)
(* has no root it is that of -a, and the comparison at the end says so.     *)
Sqrt(a) ==
  LET square == IF IsSquare(a.v) THEN a.v ELSE (P - a.v) % P
      root   == CHOOSE s \in 0..P-1 : (s * s) % P = square /\ IsSquare(s)
  IN RootChecked(a, Element(root, 1, Verified(a) /\ a.m <= MulMagnitude))
============================================================================
