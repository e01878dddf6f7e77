---------------------------- MODULE Field5x52_proofs ----------------------------
(***************************************************************************)
(* The representation of field elements with the sizes of the code, where  *)
(* TLC can only look at small ones: whatever operations a register goes    *)
(* through, as long as they keep to its magnitude, no word overflows that  *)
(* must not, the limbs stay within the bounds of the magnitude, and their  *)
(* value is that of the element, modulo P.                                 *)
(***************************************************************************)
EXTENDS Field5x52, WellFoundedInduction, TLAPS

(* The sizes of the code in proportion to each other: B is 16 times T and   *)
(* Word 4096 times B, and C is so much smaller that it fits between them.   *)
Sizes ==
  /\ T \in Nat /\ C \in Nat /\ C % 2 = 1 /\ 65535 * C < T
  /\ B = 16 * T /\ Word = 4096 * B
  /\ MaxMagnitude = 32 /\ MulMagnitude = 8

(* T is 2^48 and C 0x1000003D1 (field_5x52.h, field_5x52_impl.h).           *)
LEMMA SizesOfTheCode ==
  ASSUME T = 281474976710656, C = 4294968273, B = 16 * T, Word = 4096 * B,
         MaxMagnitude = 32, MulMagnitude = 8
  PROVE  Sizes
<1>1. T \in Nat /\ C \in Nat /\ 65535 * C < T
  BY SMT
<1>2. C % 2 = 1
  BY SMT
<1> QED
  BY <1>1, <1>2 DEF Sizes

--------------------------------------------------------------------------------
(***************************************************************************)
(* Quotients and remainders.                                               *)
(***************************************************************************)
LEMMA DivMod ==
  ASSUME NEW x \in Nat, NEW b \in Nat \ {0}
  PROVE  x \div b \in Nat /\ x % b \in 0..b-1 /\ x = b * (x \div b) + (x % b)
BY SMT

LEMMA Fits == ASSUME NEW x \in Nat, NEW b \in Nat, x < b PROVE x % b = x
BY SMT

(* x is q times b and a remainder r.                                        *)
Divides(x, b, q, r) ==
  /\ b \in Nat \ {0} /\ q \in Int /\ r \in Int /\ 0 <= r /\ r < b
  /\ x = b * q + r

LEMMA Division ==
  ASSUME NEW x \in Nat, NEW b \in Nat \ {0}
  PROVE  Divides(x, b, x \div b, x % b) /\ x \div b \in Nat
BY DivMod DEF Divides

(* There is one quotient and one remainder.                                 *)
LEMMA OneQuotient ==
  ASSUME NEW x, NEW b, NEW q, NEW r, NEW p, NEW s,
         Divides(x, b, q, r), Divides(x, b, p, s)
  PROVE  q = p /\ r = s
<1> USE DEF Divides
<1>1. ASSUME q > p PROVE FALSE
  <2>1. b * (q - p) >= b
    BY <1>1, SMT
  <2>2. b * (q - p) = s - r
    BY SMT
  <2> QED
    BY <2>1, <2>2, SMT
<1>2. ASSUME q < p PROVE FALSE
  <2>1. b * (p - q) >= b
    BY <1>2, SMT
  <2>2. b * (p - q) = r - s
    BY SMT
  <2> QED
    BY <2>1, <2>2, SMT
<1> QED
  BY <1>1, <1>2, SMT

LEMMA QuotientIs ==
  ASSUME NEW x \in Nat, NEW b, NEW q, NEW r, Divides(x, b, q, r)
  PROVE  x \div b = q /\ x % b = r
<1>1. b \in Nat \ {0}
  BY DEF Divides
<1>2. Divides(x, b, x \div b, x % b)
  BY <1>1, Division
<1> QED
  BY <1>2, OneQuotient

(* What differs by multiples has the same rest.                             *)
LEMMA SameRest ==
  ASSUME NEW b \in Nat \ {0}, NEW x \in Nat, NEW y \in Nat, NEW k \in Int,
         x = y + b * k
  PROVE  x % b = y % b
<1>1. Divides(x, b, x \div b, x % b) /\ Divides(y, b, y \div b, y % b)
  BY Division
<1>2. Divides(x, b, (y \div b) + k, y % b)
  BY <1>1, SMT DEF Divides
<1> QED
  BY <1>1, <1>2, OneQuotient

(* The quotient of what is small is small.                                  *)
LEMMA QuotientAtMost ==
  ASSUME NEW x \in Nat, NEW b \in Nat \ {0}, NEW m \in Nat, x < b * (m + 1)
  PROVE  x \div b <= m
<1>1. /\ x \div b \in Nat /\ x % b \in 0..b-1 /\ x = b * (x \div b) + (x % b)
  BY DivMod
<1>2. ASSUME x \div b >= m + 1 PROVE FALSE
  <2>1. b * (x \div b) >= b * (m + 1)
    BY <1>1, <1>2, SMT
  <2> QED
    BY <1>1, <2>1, SMT
<1> QED
  BY <1>1, <1>2, SMT

LEMMA Monotone ==
  ASSUME NEW x \in Int, NEW y \in Int, NEW b \in Nat, x <= y
  PROVE  b * x <= b * y /\ b * x \in Int /\ b * y \in Int
<1>1. b * (y - x) >= 0
  BY SMT
<1>2. b * (y - x) = b * y - b * x
  BY SMT
<1> QED
  BY <1>1, <1>2, SMT

LEMMA QuotientBound ==
  ASSUME NEW x \in Nat, NEW b, NEW q, NEW r, Divides(x, b, q, r),
         NEW m \in Nat, x < b * (m + 1)
  PROVE  q \in Nat /\ q <= m
<1>1. b \in Nat \ {0} /\ q \in Int
  BY DEF Divides
<1>2. q = x \div b
  BY QuotientIs
<1>3. x \div b \in Nat
  BY <1>1, DivMod
<1> QED
  BY <1>1, <1>2, <1>3, QuotientAtMost

LEMMA ProductNat ==
  ASSUME NEW a \in Nat \ {0}, NEW b \in Nat \ {0} PROVE a * b \in Nat \ {0}
BY SMT

LEMMA TwoDigits ==
  ASSUME NEW b \in Nat \ {0}, NEW c \in Nat \ {0}, NEW lo \in 0..b-1, NEW hi \in 0..c-1
  PROVE  lo + b * hi \in 0..(b * c)-1
<1>1. b * hi <= b * (c - 1) /\ b * hi \in Nat
  BY SMT
<1>2. b * (c - 1) = b * c - b
  BY SMT
<1> QED
  BY <1>1, <1>2, SMT
--------------------------------------------------------------------------------
LEMMA SizeFacts ==
  ASSUME Sizes
  PROVE  /\ T \in Nat \ {0} /\ C \in Nat \ {0} /\ B \in Nat \ {0} /\ Word \in Nat \ {0}
         /\ B = 16 * T /\ Word = 4096 * B /\ 65535 * C < T /\ T > 65535
         /\ M = B - 1 /\ Lowest = B - C /\ R = 16 * C /\ X = 4096
         /\ M \in Nat /\ Lowest \in Nat
<1>1. /\ T \in Nat /\ C \in Nat /\ C % 2 = 1 /\ 65535 * C < T /\ B = 16 * T /\ Word = 4096 * B
  BY DEF Sizes
<1>2. C # 0
  BY <1>1
<1>3. /\ T \in Nat \ {0} /\ C \in Nat \ {0} /\ B \in Nat \ {0} /\ Word \in Nat \ {0}
      /\ T > 65535
  BY <1>1, <1>2
<1>4. Divides(B, T, 16, 0) /\ Divides(Word, B, 4096, 0)
  BY <1>1, <1>3 DEF Divides
<1>5. B \div T = 16 /\ Word \div B = 4096
  BY <1>3, <1>4, QuotientIs
<1>6. R = 16 * C /\ X = 4096
  BY <1>3, <1>5 DEF R, X
<1>7. M = B - 1 /\ Lowest = B - C /\ M \in Nat /\ Lowest \in Nat
  BY <1>1, <1>3 DEF M, Lowest
<1> QED
  BY <1>1, <1>3, <1>6, <1>7

--------------------------------------------------------------------------------
(***************************************************************************)
(* Limbs.                                                                  *)
(***************************************************************************)
LEMMA L5Is ==
  ASSUME NEW a0, NEW a1, NEW a2, NEW a3, NEW a4
  PROVE  /\ L5(a0, a1, a2, a3, a4)[0] = a0 /\ L5(a0, a1, a2, a3, a4)[1] = a1
         /\ L5(a0, a1, a2, a3, a4)[2] = a2 /\ L5(a0, a1, a2, a3, a4)[3] = a3
         /\ L5(a0, a1, a2, a3, a4)[4] = a4
         /\ L5(a0, a1, a2, a3, a4) \in [Limbs -> {a0, a1, a2, a3, a4}]
BY DEF L5, Limbs

(* Limbs are determined one by one.                                         *)
LEMMA SameLimbs ==
  ASSUME NEW S, NEW R1, NEW a \in [Limbs -> S], NEW b \in [Limbs -> R1],
         a[0] = b[0], a[1] = b[1], a[2] = b[2], a[3] = b[3], a[4] = b[4]
  PROVE  a = b
BY DEF Limbs

(* Below B (and the top one whatever), as after a carry.                    *)
Carried(a) ==
  /\ a \in [Limbs -> Nat]
  /\ a[0] < B /\ a[1] < B /\ a[2] < B /\ a[3] < B

(* No value is represented twice then.                                      *)
LEMMA OneRepresentation ==
  ASSUME Sizes, NEW a, NEW b, Carried(a), Carried(b), Value(a) = Value(b)
  PROVE  a = b
<1>b. B \in Nat \ {0}
  BY SizeFacts
<1>a. /\ a[0] \in 0..B-1 /\ a[1] \in 0..B-1 /\ a[2] \in 0..B-1 /\ a[3] \in 0..B-1
      /\ b[0] \in 0..B-1 /\ b[1] \in 0..B-1 /\ b[2] \in 0..B-1 /\ b[3] \in 0..B-1
      /\ a[4] \in Nat /\ b[4] \in Nat
  BY <1>b DEF Carried, Limbs
<1> DEFINE a3 == a[3] + B * a[4]  a2 == a[2] + B * a3  a1 == a[1] + B * a2
           b3 == b[3] + B * b[4]  b2 == b[2] + B * b3  b1 == b[1] + B * b2
<1>n. a3 \in Nat /\ a2 \in Nat /\ a1 \in Nat /\ b3 \in Nat /\ b2 \in Nat /\ b1 \in Nat
  BY <1>a, <1>b
<1>v. Value(a) = B * a1 + a[0] /\ Value(b) = B * b1 + b[0]
  BY <1>a, <1>b, <1>n DEF Value
<1>3a. Divides(a3, B, a[4], a[3]) /\ Divides(b3, B, b[4], b[3])
  BY <1>a, <1>b, <1>n DEF Divides
<1> HIDE DEF a3, b3
<1>2a. Divides(a2, B, a3, a[2]) /\ Divides(b2, B, b3, b[2])
  BY <1>a, <1>b, <1>n DEF Divides
<1> HIDE DEF a2, b2
<1>1a. Divides(a1, B, a2, a[1]) /\ Divides(b1, B, b2, b[1])
  BY <1>a, <1>b, <1>n DEF Divides
<1> HIDE DEF a1, b1
<1>0a. Divides(Value(a), B, a1, a[0])
  BY <1>a, <1>b, <1>n, <1>v DEF Divides
<1>0b. Divides(Value(b), B, b1, b[0])
  <2> DEFINE y == Value(b)
  <2>1. y = B * b1 + b[0]
    BY <1>v
  <2> HIDE DEF y
  <2>2. Divides(y, B, b1, b[0])
    BY <1>a, <1>b, <1>n, <2>1 DEF Divides
  <2> QED
    BY <2>2 DEF y
<1>d. /\ Divides(a3, B, a[4], a[3]) /\ Divides(b3, B, b[4], b[3])
      /\ Divides(a2, B, a3, a[2]) /\ Divides(b2, B, b3, b[2])
      /\ Divides(a1, B, a2, a[1]) /\ Divides(b1, B, b2, b[1])
      /\ Divides(Value(a), B, a1, a[0]) /\ Divides(Value(a), B, b1, b[0])
  BY <1>0a, <1>0b, <1>1a, <1>2a, <1>3a
<1>1. a1 = b1 /\ a[0] = b[0]
  BY <1>d, OneQuotient
<1>2. a2 = b2 /\ a[1] = b[1]
  BY <1>d, <1>1, OneQuotient
<1>3. a3 = b3 /\ a[2] = b[2]
  BY <1>d, <1>2, OneQuotient
<1>4. a[4] = b[4] /\ a[3] = b[3]
  BY <1>d, <1>3, OneQuotient
<1> QED
  BY <1>1, <1>2, <1>3, <1>4, SameLimbs DEF Carried

LEMMA ValueOf ==
  ASSUME Sizes, NEW a \in [Limbs -> Nat]
  PROVE  /\ a[0] \in Nat /\ a[1] \in Nat /\ a[2] \in Nat /\ a[3] \in Nat /\ a[4] \in Nat
         /\ Value(a) \in Nat
<1>1. a[0] \in Nat /\ a[1] \in Nat /\ a[2] \in Nat /\ a[3] \in Nat /\ a[4] \in Nat
  BY DEF Limbs
<1>2. B \in Nat
  BY SizeFacts
<1>3. \A x, y \in Nat : x + B * y \in Nat
  BY <1>2, SMT
<1>4. a[3] + B * a[4] \in Nat
  BY <1>1, <1>3
<1>5. a[2] + B * (a[3] + B * a[4]) \in Nat
  BY <1>1, <1>3, <1>4
<1>6. a[1] + B * (a[2] + B * (a[3] + B * a[4])) \in Nat
  BY <1>1, <1>3, <1>5
<1> QED
  BY <1>1, <1>3, <1>6 DEF Value

(* 32 bytes spell the limbs they were made of.                              *)
LEMMA SpelledBack ==
  ASSUME Sizes, NEW a, Carried(a)
  PROVE  SetB32Mod(Value(a)) = a
<1>b. B \in Nat \ {0}
  BY SizeFacts
<1>a. /\ a[0] \in 0..B-1 /\ a[1] \in 0..B-1 /\ a[2] \in 0..B-1 /\ a[3] \in 0..B-1
      /\ a[4] \in Nat
  BY <1>b DEF Carried, Limbs
<1>c. /\ B * B \in Nat \ {0} /\ B * B * B \in Nat \ {0} /\ B * B * B * B \in Nat \ {0}
  BY <1>b, ProductNat
<1> DEFINE a3 == a[3] + B * a[4]  a2 == a[2] + B * a3  a1 == a[1] + B * a2
           l1 == a[0] + B * a[1]
           l2 == l1 + (B * B) * a[2]
           l3 == l2 + (B * B * B) * a[3]
           x == Value(a)
<1>n. a3 \in Nat /\ a2 \in Nat /\ a1 \in Nat
  BY <1>a, <1>b
<1>l. l1 \in 0..(B*B)-1 /\ l2 \in 0..(B*B*B)-1 /\ l3 \in 0..(B*B*B*B)-1
  <2>1. l1 \in 0..(B*B)-1
    BY <1>a, <1>b, TwoDigits
  <2> HIDE DEF l1
  <2>2. l2 \in 0..(B*B*B)-1
    BY <1>a, <1>b, <1>c, <2>1, TwoDigits
  <2> HIDE DEF l2
  <2>3. l3 \in 0..(B*B*B*B)-1
    BY <1>a, <1>b, <1>c, <2>2, TwoDigits
  <2> QED
    BY <2>1, <2>2, <2>3
<1>v. /\ x = B * a1 + a[0] /\ x = (B * B) * a2 + l1 /\ x = (B * B * B) * a3 + l2
      /\ x = (B * B * B * B) * a[4] + l3
  BY <1>a, <1>b, <1>n, SMT DEF Value
<1>x. x \in Nat
  BY <1>a, <1>b, <1>n, <1>v
<1>d. /\ Divides(x, B, a1, a[0]) /\ Divides(a1, B, a2, a[1]) /\ Divides(a2, B, a3, a[2])
      /\ Divides(a3, B, a[4], a[3])
  BY <1>a, <1>b, <1>n, <1>v DEF Divides
<1> HIDE DEF l1, l2, l3, x
<1>e. /\ Divides(x, B * B, a2, l1) /\ Divides(x, B * B * B, a3, l2)
      /\ Divides(x, B * B * B * B, a[4], l3)
  BY <1>a, <1>c, <1>n, <1>v, <1>l DEF Divides
<1> HIDE DEF a1, a2, a3
<1>1. x % B = a[0] /\ x \div B = a1 /\ a1 % B = a[1]
  BY <1>d, <1>n, <1>x, QuotientIs
<1>2. x \div (B * B) = a2 /\ a2 % B = a[2]
  BY <1>d, <1>e, <1>n, <1>x, QuotientIs
<1>3. x \div (B * B * B) = a3 /\ a3 % B = a[3]
  BY <1>d, <1>e, <1>n, <1>x, QuotientIs
<1>4. x \div (B * B * B * B) = a[4]
  BY <1>e, <1>x, QuotientIs
<1>5. SetB32Mod(x) = L5(a[0], a[1], a[2], a[3], a[4])
  BY <1>1, <1>2, <1>3, <1>4 DEF SetB32Mod
<1>6. SetB32Mod(x) = a
  <2> DEFINE y == L5(a[0], a[1], a[2], a[3], a[4])
  <2>1. /\ y[0] = a[0] /\ y[1] = a[1] /\ y[2] = a[2] /\ y[3] = a[3] /\ y[4] = a[4]
        /\ y \in [Limbs -> {a[0], a[1], a[2], a[3], a[4]}]
    BY L5Is
  <2> HIDE DEF y
  <2>2. y = a
    BY <2>1, SameLimbs DEF Carried
  <2> QED
    BY <1>5, <2>2 DEF y
<1> QED
  BY <1>6 DEF x
--------------------------------------------------------------------------------
(***************************************************************************)
(* Carries and reductions.                                                 *)
(***************************************************************************)
(* Limbs that are to be carried may be as large as 2^60.                    *)
Small(x) == x \in Nat /\ x <= 256 * B

(* The limbs of a magnitude, one by one.                                    *)
LEMMA BoundsAre ==
  ASSUME Sizes, NEW a \in [Limbs -> Nat], NEW m \in Nat
  PROVE  WithinBounds(a, m) <=>
           /\ a[0] <= 2 * m * M /\ a[1] <= 2 * m * M
           /\ a[2] <= 2 * m * M /\ a[3] <= 2 * m * M
           /\ a[4] <= 2 * m * (T - 1)
<1>1. /\ a[0] \in Nat /\ a[1] \in Nat /\ a[2] \in Nat /\ a[3] \in Nat /\ a[4] \in Nat
  BY DEF Limbs
<1>m. M \in Nat /\ T \in Nat
  BY SizeFacts
<1>2. /\ Bound(0, m) = 2 * m * M /\ Bound(1, m) = 2 * m * M
      /\ Bound(2, m) = 2 * m * M /\ Bound(3, m) = 2 * m * M
      /\ Bound(4, m) = 2 * m * (T - 1)
  BY SMT DEF Bound
<1>3. WithinBounds(a, m) <=> /\ a[0] <= Bound(0, m) /\ a[1] <= Bound(1, m)
                             /\ a[2] <= Bound(2, m) /\ a[3] <= Bound(3, m)
                             /\ a[4] <= Bound(4, m)
  BY SMT DEF WithinBounds, Limbs
<1> QED
  BY <1>2, <1>3, SMT

(* A limb t takes the carry q: s is what it is then, r what stays of it, p  *)
(* the carry to the next limb.                                              *)
Carries(t, q, s, p, r) == s = U64(t + q) /\ Divides(s, B, p, r)

Carry256(q) == q \in Nat /\ q <= 256

LEMMA OneCarry ==
  ASSUME Sizes, NEW t, Small(t), NEW q, Carry256(q), NEW s, NEW p, NEW r,
         Carries(t, q, s, p, r)
  PROVE  /\ s \in Nat /\ s = t + q /\ s = B * p + r
         /\ r \in Nat /\ r < B /\ Carry256(p)
<1>b. B \in Nat /\ B > 1000 /\ Word = 4096 * B /\ Word \in Nat
  BY SizeFacts
<1>1. t + q \in Nat /\ t + q < Word
  BY <1>b, SMT DEF Small, Carry256
<1>2. s = t + q /\ s \in Nat
  <2>1. (t + q) % Word = t + q
    BY <1>b, <1>1, Fits
  <2>2. s = (t + q) % Word
    BY DEF Carries, U64
  <2> QED
    BY <1>1, <2>1, <2>2
<1>3. s = B * p + r /\ r \in Nat /\ r < B /\ p \in Int
  BY SMT DEF Carries, Divides
<1>4. Carry256(p)
  <2>1. s < B * (256 + 1)
    BY <1>b, <1>2, SMT DEF Small, Carry256
  <2>2. Divides(s, B, p, r)
    BY DEF Carries
  <2> QED
    BY <1>2, <2>1, <2>2, QuotientBound DEF Carry256
<1> QED
  BY <1>2, <1>3, <1>4

LEMMA U64Nat == ASSUME Sizes, NEW x \in Nat PROVE U64(x) \in Nat
<1>1. Word \in Nat \ {0}
  BY SizeFacts
<1> QED
  BY <1>1, DivMod DEF U64

LEMMA ShiftIn ==
  ASSUME NEW b \in Nat, NEW r \in Nat, NEW q \in Nat, NEW t \in Nat, NEW p \in Nat,
         NEW s, NEW x \in Nat, NEW y, y = x + q, s = t + p, s = b * q + r
  PROVE  /\ r + b * y = (t + b * x) + p
         /\ r + b * y \in Nat /\ t + b * x \in Nat
<1>1. b * y = b * x + b * q
  BY SMT
<1> QED
  BY <1>1, SMT

(* A carry loses nothing while limbs are small.                             *)
LEMMA CarryIs ==
  ASSUME Sizes, NEW t \in [Limbs -> Nat],
         Small(t[0]), Small(t[1]), Small(t[2]), Small(t[3]), Small(t[4])
  PROVE  /\ Carried(Carry(t)) /\ Value(Carry(t)) = Value(t)
         /\ Carry(t)[4] <= t[4] + 256
<1>n. t[0] \in Nat /\ t[1] \in Nat /\ t[2] \in Nat /\ t[3] \in Nat /\ t[4] \in Nat
  BY DEF Limbs
<1>b. B \in Nat \ {0} /\ Word \in Nat
  BY SizeFacts
<1>1. PICK q0, r0 : q0 = t[0] \div B /\ r0 = t[0] % B
  OBVIOUS
<1>2. PICK u1, q1, r1 : u1 = U64(t[1] + q0) /\ q1 = u1 \div B /\ r1 = u1 % B
  OBVIOUS
<1>3. PICK u2, q2, r2 : u2 = U64(t[2] + q1) /\ q2 = u2 \div B /\ r2 = u2 % B
  OBVIOUS
<1>4. PICK u3, q3, r3 : u3 = U64(t[3] + q2) /\ q3 = u3 \div B /\ r3 = u3 % B
  OBVIOUS
<1>5. PICK u4 : u4 = U64(t[4] + q3)
  OBVIOUS
<1>6. Carry(t) = L5(r0, r1, r2, r3, u4)
  BY <1>1, <1>2, <1>3, <1>4, <1>5, Zenon DEF Carry
<1>a. Divides(t[0], B, q0, r0)
  BY <1>n, <1>b, <1>1, Division
<1>7. /\ t[0] = B * q0 + r0 /\ r0 \in Nat /\ r0 < B /\ Carry256(q0)
  <2>1. t[0] = B * q0 + r0 /\ r0 \in Nat /\ r0 < B /\ q0 \in Int
    BY <1>a, SMT DEF Divides
  <2>2. t[0] < B * (256 + 1)
    BY <1>n, <1>b, SMT DEF Small
  <2>3. Carry256(q0)
    BY <1>n, <1>a, <2>2, QuotientBound DEF Carry256
  <2> QED
    BY <2>1, <2>3
<1>8. /\ u1 \in Nat /\ u1 = t[1] + q0 /\ u1 = B * q1 + r1
      /\ r1 \in Nat /\ r1 < B /\ Carry256(q1)
  <2>1. u1 \in Nat
    BY <1>n, <1>2, <1>7, U64Nat DEF Carry256
  <2>2. Carries(t[1], q0, u1, q1, r1)
    BY <1>2, <1>b, <2>1, Division DEF Carries
  <2> QED
    BY <1>7, <2>2, OneCarry
<1>9. /\ u2 \in Nat /\ u2 = t[2] + q1 /\ u2 = B * q2 + r2
      /\ r2 \in Nat /\ r2 < B /\ Carry256(q2)
  <2>1. u2 \in Nat
    BY <1>n, <1>3, <1>8, U64Nat DEF Carry256
  <2>2. Carries(t[2], q1, u2, q2, r2)
    BY <1>3, <1>b, <2>1, Division DEF Carries
  <2> QED
    BY <1>8, <2>2, OneCarry
<1>10. /\ u3 \in Nat /\ u3 = t[3] + q2 /\ u3 = B * q3 + r3
       /\ r3 \in Nat /\ r3 < B /\ Carry256(q3)
  <2>1. u3 \in Nat
    BY <1>n, <1>4, <1>9, U64Nat DEF Carry256
  <2>2. Carries(t[3], q2, u3, q3, r3)
    BY <1>4, <1>b, <2>1, Division DEF Carries
  <2> QED
    BY <1>9, <2>2, OneCarry
<1>11. u4 \in Nat /\ u4 = t[4] + q3
  <2>0. B > 1000 /\ Word = 4096 * B
    BY SizeFacts
  <2>1. t[4] + q3 \in Nat /\ t[4] + q3 < Word
    BY <1>b, <2>0, <1>10, SMT DEF Small, Carry256
  <2> QED
    BY <1>b, <1>5, <2>1, Fits DEF U64
<1>12. /\ Carry(t)[0] = r0 /\ Carry(t)[1] = r1 /\ Carry(t)[2] = r2
       /\ Carry(t)[3] = r3 /\ Carry(t)[4] = u4
       /\ Carry(t) \in [Limbs -> {r0, r1, r2, r3, u4}]
  <2> DEFINE y == L5(r0, r1, r2, r3, u4)
  <2>1. /\ y[0] = r0 /\ y[1] = r1 /\ y[2] = r2 /\ y[3] = r3 /\ y[4] = u4
        /\ y \in [Limbs -> {r0, r1, r2, r3, u4}]
    BY L5Is
  <2>2. Carry(t) = y
    BY <1>6
  <2> HIDE DEF y
  <2> QED
    BY <2>1, <2>2
<1>13. Carry(t) \in [Limbs -> Nat]
  BY <1>7, <1>8, <1>9, <1>10, <1>11, <1>12, Zenon
<1>14. Carried(Carry(t))
  BY <1>7, <1>8, <1>9, <1>10, <1>12, <1>13, Zenon DEF Carried
<1>15. u4 <= t[4] + 256
  BY <1>n, <1>10, <1>11, SMT DEF Carry256
<1>16. r0 + B * (r1 + B * (r2 + B * (r3 + B * u4)))
         = t[0] + B * (t[1] + B * (t[2] + B * (t[3] + B * t[4])))
  <2> DEFINE x3 == t[3] + B * t[4]  x2 == t[2] + B * x3  x1 == t[1] + B * x2
             y3 == r3 + B * u4      y2 == r2 + B * y3    y1 == r1 + B * y2
  <2>q. q0 \in Nat /\ q1 \in Nat /\ q2 \in Nat /\ q3 \in Nat
    BY <1>7, <1>8, <1>9, <1>10 DEF Carry256
  <2>3. y3 = x3 + q2 /\ y3 \in Nat /\ x3 \in Nat
    BY <1>n, <1>b, <1>10, <1>11, <2>q, ShiftIn
  <2> HIDE DEF x3, y3
  <2>2. y2 = x2 + q1 /\ y2 \in Nat /\ x2 \in Nat
    BY <1>n, <1>b, <1>9, <2>q, <2>3, ShiftIn
  <2> HIDE DEF x2, y2
  <2>1. y1 = x1 + q0 /\ y1 \in Nat /\ x1 \in Nat
    BY <1>n, <1>b, <1>8, <2>q, <2>2, ShiftIn
  <2> HIDE DEF x1, y1
  <2>0. r0 + B * y1 = t[0] + B * x1
    BY <1>n, <1>b, <1>7, <2>q, <2>1, SMT
  <2> QED
    BY <2>0 DEF x1, x2, x3, y1, y2, y3
<1>17. Value(Carry(t)) = Value(t)
  BY <1>12, <1>16, Zenon DEF Value
<1> QED
  BY <1>12, <1>14, <1>15, <1>17, Zenon
(* What a register may hold.                                                *)
Holds(a, m) == a \in [Limbs -> Nat] /\ m \in Nat /\ m <= 32 /\ WithinBounds(a, m)

LEMMA HeldLimbs ==
  ASSUME Sizes, NEW a, NEW m, Holds(a, m)
  PROVE  /\ Small(a[0]) /\ Small(a[1]) /\ Small(a[2]) /\ Small(a[3]) /\ Small(a[4])
         /\ a[0] <= 64 * M /\ a[1] <= 64 * M /\ a[2] <= 64 * M
         /\ a[3] <= 64 * M /\ a[4] <= 64 * (T - 1)
<1>1. /\ a[0] \in Nat /\ a[1] \in Nat /\ a[2] \in Nat /\ a[3] \in Nat /\ a[4] \in Nat
  BY DEF Holds, Limbs
<1>2. /\ a[0] <= 2 * m * M /\ a[1] <= 2 * m * M /\ a[2] <= 2 * m * M
      /\ a[3] <= 2 * m * M /\ a[4] <= 2 * m * (T - 1)
  BY BoundsAre DEF Holds
<1>3. m \in Nat /\ m <= 32
  BY DEF Holds
<1>4. B \in Nat /\ T \in Nat \ {0} /\ M \in Nat /\ M = B - 1 /\ B = 16 * T
  BY SizeFacts
<1>5. 2 * m * M <= 64 * M /\ 2 * m * (T - 1) <= 64 * (T - 1)
  <2>1. M * m <= M * 32 /\ (T - 1) * m <= (T - 1) * 32
    BY <1>3, <1>4, Monotone
  <2> QED
    BY <1>3, <1>4, <2>1, SMT
<1>6. /\ a[0] <= 64 * M /\ a[1] <= 64 * M /\ a[2] <= 64 * M
      /\ a[3] <= 64 * M /\ a[4] <= 64 * (T - 1)
  <2>1. PICK u, v : u = 2 * m * M /\ v = 2 * m * (T - 1)
    OBVIOUS
  <2>2. u \in Int /\ v \in Int /\ u <= 64 * M /\ v <= 64 * (T - 1)
    BY <1>3, <1>4, <1>5, <2>1
  <2>3. a[0] <= u /\ a[1] <= u /\ a[2] <= u /\ a[3] <= u /\ a[4] <= v
    BY <1>2, <2>1
  <2> QED
    BY <1>1, <1>4, <2>2, <2>3, SMT
<1> QED
  BY <1>1, <1>4, <1>6, SMT DEF Small

(* What exceeds the top limb is taken off as so many times P.               *)
LEMMA NormalizeWeakIs ==
  ASSUME Sizes, NEW a, NEW m, Holds(a, m)
  PROVE  /\ Carried(NormalizeWeak(a)) /\ NormalizeWeak(a)[4] <= T + 255
         /\ Holds(NormalizeWeak(a), 1)
         /\ a[4] \div T \in Nat
         /\ Value(a) = Value(NormalizeWeak(a)) + (a[4] \div T) * Prime
<1>n. a[0] \in Nat /\ a[1] \in Nat /\ a[2] \in Nat /\ a[3] \in Nat /\ a[4] \in Nat
  BY DEF Holds, Limbs
<1>s. /\ Small(a[0]) /\ Small(a[1]) /\ Small(a[2]) /\ Small(a[3]) /\ Small(a[4])
      /\ a[0] <= 64 * M /\ a[4] <= 64 * (T - 1)
  BY HeldLimbs
<1>b. T \in Nat \ {0} /\ Word \in Nat
  BY SizeFacts
<1>c. B \in Nat /\ C \in Nat
  BY SizeFacts
<1>1. PICK x, s : /\ x = a[4] \div T /\ s = a[4] % T /\ x \in Nat
                  /\ Divides(a[4], T, x, s)
  BY <1>n, <1>b, Division
<1>2. a[4] = T * x + s /\ s \in Nat /\ s < T /\ x \in Nat /\ x < 64
  <2>1. a[4] = T * x + s /\ s \in Nat /\ s < T /\ x \in Nat
    BY <1>1, SMT DEF Divides
  <2>2. a[4] < T * (63 + 1)
    BY <1>n, <1>b, <1>s, SMT
  <2>3. x <= 63
    BY <1>n, <1>1, <2>2, QuotientBound
  <2> QED
    BY <2>1, <2>3
<1>3. a[0] + x * C \in Nat /\ a[0] + x * C < Word /\ Small(a[0] + x * C)
  <2>1. C * x <= C * 63 /\ C * x \in Nat /\ C * x = x * C
    BY <1>2, <1>c, Monotone
  <2>2. a[0] <= 64 * (B - 1) /\ Word = 4096 * B /\ 65535 * C < B
    BY <1>s, SizeFacts
  <2> QED
    BY <1>n, <1>c, <2>1, <2>2, SMT DEF Small
<1>4. PICK y : y = a[0] + x * C
  OBVIOUS
<1>5. U64(a[0] + x * C) = y
  BY <1>b, <1>3, <1>4, Fits DEF U64
<1>6. PICK t : t = [a EXCEPT ![0] = y, ![4] = s]
  OBVIOUS
<1>7. NormalizeWeak(a) = Carry(t)
  BY <1>1, <1>5, <1>6, Zenon DEF NormalizeWeak
<1>8. /\ t \in [Limbs -> Nat]
      /\ t[0] = y /\ t[1] = a[1] /\ t[2] = a[2] /\ t[3] = a[3] /\ t[4] = s
  BY <1>2, <1>3, <1>4, <1>6 DEF Holds, Limbs
<1>9. Small(t[0]) /\ Small(t[1]) /\ Small(t[2]) /\ Small(t[3]) /\ Small(t[4])
  <2>1. Small(s)
    BY <1>2, <1>b, SizeFacts DEF Small
  <2> QED
    BY <1>3, <1>4, <1>8, <1>s, <2>1
<1>10. /\ Carried(Carry(t)) /\ Value(Carry(t)) = Value(t)
       /\ Carry(t)[4] <= t[4] + 256
  BY <1>8, <1>9, CarryIs
<1>11. Value(a) = Value(t) + x * Prime
  <2>1. /\ Value(a) = a[0] + B * (a[1] + B * (a[2] + B * (a[3] + B * a[4])))
        /\ Value(t) = y + B * (a[1] + B * (a[2] + B * (a[3] + B * s)))
    BY <1>8 DEF Value
  <2>2. \A a0, a1, a2, a3 \in Nat :
          a0 + B * (a1 + B * (a2 + B * (a3 + B * (T * x + s))))
            = ((a0 + x * C) + B * (a1 + B * (a2 + B * (a3 + B * s)))) + x * Prime
    BY <1>2, <1>b, <1>c, SMT DEF Prime
  <2> QED
    BY <1>n, <1>2, <1>4, <2>1, <2>2
<1>12. Holds(Carry(t), 1) /\ Carry(t)[4] <= T + 255
  <2>1. /\ Carry(t) \in [Limbs -> Nat] /\ Carry(t)[0] < B /\ Carry(t)[1] < B
        /\ Carry(t)[2] < B /\ Carry(t)[3] < B
    BY <1>10 DEF Carried
  <2>2. /\ Carry(t)[0] \in Nat /\ Carry(t)[1] \in Nat /\ Carry(t)[2] \in Nat
        /\ Carry(t)[3] \in Nat /\ Carry(t)[4] \in Nat
    BY <2>1 DEF Limbs
  <2>3. Carry(t)[4] <= T + 255
    BY <1>2, <1>8, <1>10, <1>b, <2>2, SMT
  <2>4. /\ Carry(t)[0] <= 2 * 1 * M /\ Carry(t)[1] <= 2 * 1 * M /\ Carry(t)[2] <= 2 * 1 * M
        /\ Carry(t)[3] <= 2 * 1 * M /\ Carry(t)[4] <= 2 * 1 * (T - 1)
    BY <2>1, <2>2, <2>3, SizeFacts, SMT
  <2>5. WithinBounds(Carry(t), 1)
    BY <2>1, <2>4, BoundsAre
  <2> QED
    BY <2>1, <2>3, <2>5 DEF Holds
<1>13. a[4] \div T \in Nat /\ Value(a) = Value(Carry(t)) + (a[4] \div T) * Prime
  BY <1>1, <1>10, <1>11, Zenon
<1>14. Carried(Carry(t))
  BY <1>10
<1> QED
  BY <1>7, <1>12, <1>13, <1>14, Zenon
--------------------------------------------------------------------------------
(***************************************************************************)
(* Values compare from the top limb down; P is the largest value below     *)
(* which a register may claim to be normalized.                            *)
(***************************************************************************)
LEMMA Digits ==
  ASSUME NEW b \in Nat \ {0}, NEW r \in 0..b-1, NEW s \in 0..b-1,
         NEW x \in Int, NEW y \in Int
  PROVE  /\ r + b * x < s + b * y <=> x < y \/ (x = y /\ r < s)
         /\ r + b * x = s + b * y <=> x = y /\ r = s
<1>1. ASSUME NEW u \in 0..b-1, NEW v \in 0..b-1, NEW f \in Int, NEW g \in Int, f < g
      PROVE  u + b * f < v + b * g
  <2>1. b * (f + 1) <= b * g /\ b * (f + 1) \in Int /\ b * g \in Int /\ b * f \in Int
    BY <1>1, Monotone
  <2>2. b * (f + 1) = b * f + b
    BY SMT
  <2> QED
    BY <2>1, <2>2, SMT
<1>2. CASE x < y
  <2>1. r + b * x < s + b * y
    BY <1>1, <1>2
  <2>2. b * x \in Int /\ b * y \in Int
    BY SMT
  <2> QED
    BY <1>2, <2>1, <2>2
<1>3. CASE y < x
  <2>1. s + b * y < r + b * x
    BY <1>1, <1>3
  <2>2. b * x \in Int /\ b * y \in Int
    BY SMT
  <2> QED
    BY <1>3, <2>1, <2>2
<1>4. CASE x = y
  <2>1. PICK z \in Int : z = b * x /\ z = b * y
    BY <1>4
  <2> QED
    BY <1>4, <2>1
<1> QED
  BY <1>2, <1>3, <1>4

(* x with the limb r below it. *)
Join(r, x) == r + B * x

Natural(x) == x \in Nat
Limb(r) == r \in 0..B-1

LEMMA JoinOrder ==
  ASSUME Sizes, NEW r, NEW s, NEW x, NEW y,
         Limb(r), Limb(s), Natural(x), Natural(y)
  PROVE  /\ Join(r, x) < Join(s, y) <=> x < y \/ (x = y /\ r < s)
         /\ Join(r, x) = Join(s, y) <=> x = y /\ r = s
<1>0. r \in 0..B-1 /\ s \in 0..B-1 /\ x \in Int /\ y \in Int
  BY DEF Limb, Natural
<1>1. B \in Nat \ {0}
  BY SizeFacts
<1>2. r + B * x < s + B * y <=> x < y \/ (x = y /\ r < s)
  BY <1>0, <1>1, Digits
<1>3. r + B * x = s + B * y <=> x = y /\ r = s
  BY <1>0, <1>1, Digits
<1> QED
  BY <1>2, <1>3, Zenon DEF Join

LEMMA JoinNatural ==
  ASSUME Sizes, NEW r, NEW x, Limb(r), Natural(x)
  PROVE  Natural(Join(r, x))
<1>1. B \in Nat \ {0}
  BY SizeFacts
<1> QED
  BY <1>1, SMT DEF Join, Limb, Natural

(* The limbs of P.                                                          *)
PLimbs == L5(Lowest, M, M, M, T - 1)

LEMMA PLimbsAre ==
  ASSUME Sizes
  PROVE  /\ PLimbs[0] = Lowest /\ PLimbs[1] = M /\ PLimbs[2] = M
         /\ PLimbs[3] = M /\ PLimbs[4] = T - 1
         /\ Carried(PLimbs) /\ Value(PLimbs) = Prime /\ Prime \in Nat
<1>1. /\ PLimbs[0] = Lowest /\ PLimbs[1] = M /\ PLimbs[2] = M
      /\ PLimbs[3] = M /\ PLimbs[4] = T - 1
      /\ PLimbs \in [Limbs -> {Lowest, M, T - 1}]
  <2> DEFINE y == L5(Lowest, M, M, M, T - 1)
  <2>1. /\ y[0] = Lowest /\ y[1] = M /\ y[2] = M /\ y[3] = M /\ y[4] = T - 1
        /\ y \in [Limbs -> {Lowest, M, M, M, T - 1}]
    BY L5Is
  <2>2. PLimbs = y
    BY DEF PLimbs
  <2> HIDE DEF y
  <2> QED
    BY <2>1, <2>2
<1>2. /\ T \in Nat \ {0} /\ C \in Nat \ {0} /\ B \in Nat \ {0} /\ 65535 * C < T
      /\ M = B - 1 /\ Lowest = B - C /\ M \in Nat /\ Lowest \in Nat /\ B = 16 * T
  BY SizeFacts
<1>3. Carried(PLimbs)
  BY <1>1, <1>2 DEF Carried
<1>4. (B - C) + B * ((B - 1) + B * ((B - 1) + B * ((B - 1) + B * (T - 1)))) = Prime
  BY <1>2, SMT DEF Prime
<1>5. Value(PLimbs) = Prime
  BY <1>1, <1>2, <1>4 DEF Value
<1>6. Value(PLimbs) \in Nat
  BY <1>3, ValueOf DEF Carried
<1> QED
  BY <1>1, <1>3, <1>5, <1>6

(* The limbs of a carried register and the values above each of them.       *)
Upper3(a) == Join(a[3], a[4])
Upper2(a) == Join(a[2], Upper3(a))
Upper1(a) == Join(a[1], Upper2(a))

LEMMA Uppers ==
  ASSUME Sizes, NEW a, Carried(a)
  PROVE  /\ Limb(a[0]) /\ Limb(a[1]) /\ Limb(a[2]) /\ Limb(a[3])
         /\ Natural(a[4])
         /\ Natural(Upper3(a)) /\ Natural(Upper2(a)) /\ Natural(Upper1(a))
         /\ Value(a) = Join(a[0], Upper1(a))
<1>b. B \in Nat \ {0}
  BY SizeFacts
<1>a. Limb(a[0]) /\ Limb(a[1]) /\ Limb(a[2]) /\ Limb(a[3]) /\ Natural(a[4])
  BY <1>b DEF Carried, Limbs, Limb, Natural
<1>3. Natural(Upper3(a))
  BY <1>a, JoinNatural DEF Upper3
<1>4. Natural(Upper2(a))
  BY <1>a, <1>3, JoinNatural DEF Upper2
<1>5. Natural(Upper1(a))
  BY <1>a, <1>4, JoinNatural DEF Upper1
<1>6. Value(a) = Join(a[0], Upper1(a))
  BY Zenon DEF Value, Join, Upper1, Upper2, Upper3
<1> QED
  BY <1>a, <1>3, <1>4, <1>5, <1>6

LEMMA Compare ==
  ASSUME Sizes, NEW a, NEW b, Carried(a), Carried(b)
  PROVE  Value(a) < Value(b) <=>
           \/ a[4] < b[4]
           \/ /\ a[4] = b[4]
              /\ \/ a[3] < b[3]
                 \/ /\ a[3] = b[3]
                    /\ \/ a[2] < b[2]
                       \/ /\ a[2] = b[2]
                          /\ a[1] < b[1] \/ (a[1] = b[1] /\ a[0] < b[0])
<1>a. /\ Limb(a[0]) /\ Limb(a[1]) /\ Limb(a[2]) /\ Limb(a[3]) /\ Natural(a[4])
      /\ Natural(Upper3(a)) /\ Natural(Upper2(a)) /\ Natural(Upper1(a))
      /\ Value(a) = Join(a[0], Upper1(a))
  BY Uppers
<1>b. /\ Limb(b[0]) /\ Limb(b[1]) /\ Limb(b[2]) /\ Limb(b[3]) /\ Natural(b[4])
      /\ Natural(Upper3(b)) /\ Natural(Upper2(b)) /\ Natural(Upper1(b))
      /\ Value(b) = Join(b[0], Upper1(b))
  BY Uppers
<1>5. Value(a) < Value(b) <=>
        \/ Upper1(a) < Upper1(b)
        \/ Upper1(a) = Upper1(b) /\ a[0] < b[0]
  BY <1>a, <1>b, JoinOrder
<1>6. /\ Upper1(a) < Upper1(b) <=>
           Upper2(a) < Upper2(b) \/ (Upper2(a) = Upper2(b) /\ a[1] < b[1])
      /\ Upper1(a) = Upper1(b) <=> Upper2(a) = Upper2(b) /\ a[1] = b[1]
  BY <1>a, <1>b, JoinOrder DEF Upper1
<1>7. /\ Upper2(a) < Upper2(b) <=>
           Upper3(a) < Upper3(b) \/ (Upper3(a) = Upper3(b) /\ a[2] < b[2])
      /\ Upper2(a) = Upper2(b) <=> Upper3(a) = Upper3(b) /\ a[2] = b[2]
  BY <1>a, <1>b, JoinOrder DEF Upper2
<1>8. /\ Upper3(a) < Upper3(b) <=>
           a[4] < b[4] \/ (a[4] = b[4] /\ a[3] < b[3])
      /\ Upper3(a) = Upper3(b) <=> a[4] = b[4] /\ a[3] = b[3]
  BY <1>a, <1>b, JoinOrder DEF Upper3
<1> QED
  BY <1>5, <1>6, <1>7, <1>8, Zenon

(* The comparison with P looks at five limbs.                               *)
LEMMA AtLeastPIs ==
  ASSUME Sizes, NEW a, Carried(a), a[4] < T
  PROVE  AtLeastP(a) <=> Value(a) >= Prime
<1>1. /\ T \in Nat \ {0} /\ C \in Nat \ {0} /\ B \in Nat \ {0}
      /\ M = B - 1 /\ Lowest = B - C /\ M \in Nat /\ Lowest \in Nat
  BY SizeFacts
<1>2. /\ a[0] \in Nat /\ a[1] \in Nat /\ a[2] \in Nat /\ a[3] \in Nat /\ a[4] \in Nat
      /\ Value(a) \in Nat
  BY ValueOf DEF Carried
<1>3. /\ a[1] <= M /\ a[2] <= M /\ a[3] <= M /\ a[4] <= T - 1
  BY <1>1, <1>2 DEF Carried
<1>4. Value(a) < Value(PLimbs) <=>
        \/ a[4] < T - 1
        \/ /\ a[4] = T - 1
           /\ \/ a[3] < M
              \/ /\ a[3] = M
                 /\ \/ a[2] < M
                    \/ /\ a[2] = M
                       /\ a[1] < M \/ (a[1] = M /\ a[0] < Lowest)
  BY PLimbsAre, Compare, Zenon
<1>5. Value(PLimbs) = Prime /\ Prime \in Nat
  BY PLimbsAre
<1>6. Value(a) < Prime <=> ~AtLeastP(a)
  BY <1>1, <1>2, <1>3, <1>4, <1>5, SMT DEF AtLeastP
<1> QED
  BY <1>2, <1>5, <1>6

(* The top limb tells how often B^4 goes into the value.                    *)
LEMMA TopLimb ==
  ASSUME Sizes, NEW a, Carried(a)
  PROVE  /\ B * B * B * B \in Nat \ {0}
         /\ \E lo \in 0..(B * B * B * B)-1 : Value(a) = lo + (B * B * B * B) * a[4]
<1>b. /\ B \in Nat \ {0}
      /\ a[0] \in 0..B-1 /\ a[1] \in 0..B-1 /\ a[2] \in 0..B-1 /\ a[3] \in 0..B-1
      /\ a[4] \in Nat
  BY Uppers, SizeFacts DEF Limb, Natural
<1>c. /\ B * B \in Nat \ {0} /\ B * B * B \in Nat \ {0} /\ B * B * B * B \in Nat \ {0}
  BY <1>b, ProductNat
<1> DEFINE l1 == a[0] + B * a[1]
           l2 == l1 + (B * B) * a[2]
           l3 == l2 + (B * B * B) * a[3]
<1>1. l1 \in 0..(B*B)-1
  BY <1>b, TwoDigits
<1> HIDE DEF l1
<1>2. l2 \in 0..(B*B*B)-1
  BY <1>b, <1>c, <1>1, TwoDigits
<1> HIDE DEF l2
<1>3. l3 \in 0..(B*B*B*B)-1
  BY <1>b, <1>c, <1>2, TwoDigits
<1>4. Value(a) = l3 + (B * B * B * B) * a[4]
  BY <1>b, SMT DEF l1, l2, l3, Value
<1> HIDE DEF l3
<1> QED
  BY <1>c, <1>3, <1>4
--------------------------------------------------------------------------------
(***************************************************************************)
(* Normalization.                                                          *)
(***************************************************************************)
LEMMA PrimeFacts ==
  ASSUME Sizes
  PROVE  \E b4 \in Nat : /\ b4 = B * B * B * B /\ B <= b4
                         /\ Prime = T * b4 - C /\ Prime \in Nat \ {0}
                         /\ b4 * T = Prime + C /\ Prime > b4
<1>1. /\ T \in Nat \ {0} /\ C \in Nat \ {0} /\ B \in Nat \ {0} /\ 65535 * C < T /\ B = 16 * T
      /\ T > 65535
  BY SizeFacts
<1>2. /\ B * B \in Nat \ {0} /\ B * B * B \in Nat \ {0} /\ B * B * B * B \in Nat \ {0}
  BY <1>1, ProductNat
<1>3. PICK b3, b4 : b3 = B * B * B /\ b4 = B * B * B * B /\ b4 = B * b3
  <2>1. B * B * B * B = B * (B * B * B)
    BY <1>1, SMT
  <2> QED
    BY <2>1
<1>4. b3 \in Nat \ {0} /\ b4 \in Nat \ {0}
  BY <1>2, <1>3
<1>5. B <= b4
  <2>1. B * 1 <= B * b3
    BY <1>1, <1>4, Monotone
  <2> QED
    BY <1>1, <1>3, <2>1
<1>6. Prime = T * b4 - C
  <2>1. T * B * B * B * B = T * (B * B * B * B)
    BY <1>1, SMT
  <2> QED
    BY <1>3, <2>1 DEF Prime
<1>7. b4 * 2 <= b4 * T /\ b4 * T \in Int /\ T * b4 = b4 * T
  BY <1>1, <1>4, Monotone, SMT
<1>8. Prime \in Nat \ {0} /\ b4 * T = Prime + C /\ Prime > b4
  BY <1>1, <1>4, <1>5, <1>6, <1>7, SMT
<1> QED
  BY <1>3, <1>4, <1>5, <1>6, <1>8

(* The one representation that normalized registers have.                   *)
Canonical(a) == Carried(a) /\ Value(a) < Prime

LEMMA CanonicalIs ==
  ASSUME Sizes, NEW a, Canonical(a)
  PROVE  /\ a[4] < T /\ Holds(a, 1) /\ a = SetB32Mod(Value(a))
         /\ Value(a) \in Nat /\ Value(a) < Prime
<1>1. PICK b4 \in Nat : /\ b4 = B * B * B * B /\ B <= b4
                        /\ Prime = T * b4 - C /\ Prime \in Nat \ {0}
                        /\ b4 * T = Prime + C /\ Prime > b4
  BY PrimeFacts
<1>2. PICK lo \in 0..(B * B * B * B)-1 : Value(a) = lo + (B * B * B * B) * a[4]
  BY TopLimb DEF Canonical
<1>3. lo \in Nat /\ lo < b4 /\ Value(a) = lo + b4 * a[4]
  BY <1>1, <1>2
<1>4. /\ a \in [Limbs -> Nat] /\ a[0] \in Nat /\ a[1] \in Nat /\ a[2] \in Nat
      /\ a[3] \in Nat /\ a[4] \in Nat /\ Value(a) \in Nat
  BY ValueOf DEF Canonical, Carried
<1>5. T \in Nat \ {0} /\ C \in Nat /\ B \in Nat /\ M = B - 1 /\ B > 1
  BY SizeFacts
<1>6. a[4] < T
  <2>1. SUFFICES ASSUME T <= a[4] PROVE FALSE
    BY <1>4, <1>5
  <2>2. b4 * T <= b4 * a[4] /\ b4 * a[4] \in Int
    BY <1>1, <1>4, <1>5, <2>1, Monotone
  <2> QED
    BY <1>1, <1>3, <1>4, <1>5, <2>2 DEF Canonical
<1>7. Holds(a, 1)
  <2>1. /\ a[0] <= 2 * 1 * M /\ a[1] <= 2 * 1 * M /\ a[2] <= 2 * 1 * M
        /\ a[3] <= 2 * 1 * M /\ a[4] <= 2 * 1 * (T - 1)
    BY <1>4, <1>5, <1>6 DEF Canonical, Carried
  <2> QED
    BY <1>4, <2>1, BoundsAre DEF Holds
<1>8. SetB32Mod(Value(a)) = a
  BY SpelledBack DEF Canonical
<1>9. Value(a) < Prime
  BY DEF Canonical
<1> QED
  BY <1>4, <1>6, <1>7, <1>8, <1>9

(* Once normalized, there is nothing to take off. *)
LEMMA WeakKeepsCanonical ==
  ASSUME Sizes, NEW a, Canonical(a)
  PROVE  NormalizeWeak(a) = a
<1>1. a[4] < T /\ Holds(a, 1) /\ Carried(a)
  BY CanonicalIs DEF Canonical
<1>2. /\ Carried(NormalizeWeak(a)) /\ a[4] \div T \in Nat
      /\ Value(a) = Value(NormalizeWeak(a)) + (a[4] \div T) * Prime
  BY <1>1, NormalizeWeakIs
<1>3. a[4] \div T = 0
  <2>1. T \in Nat \ {0} /\ a[4] \in Nat
    BY <1>1, SizeFacts DEF Carried, Limbs
  <2>2. Divides(a[4], T, 0, a[4])
    BY <1>1, <2>1 DEF Divides
  <2> QED
    BY <2>1, <2>2, QuotientIs
<1>4. Value(a) = Value(NormalizeWeak(a))
  <2>1. Prime \in Nat
    BY PLimbsAre
  <2>2. 0 * Prime = 0
    BY <2>1, SMT
  <2>3. Value(NormalizeWeak(a)) \in Nat
    BY <1>2, ValueOf DEF Carried
  <2>4. Value(a) = Value(NormalizeWeak(a)) + 0 * Prime
    BY <1>2, <1>3, Zenon
  <2> QED
    BY <2>2, <2>3, <2>4
<1> QED
  BY <1>1, <1>2, <1>4, OneRepresentation

(* After one reduction one subtraction of P is enough.                      *)
LEMMA BelowTwoP ==
  ASSUME Sizes, NEW t, Carried(t), t[4] <= T + 255
  PROVE  Value(t) < 2 * Prime
<1>1. PICK b4 \in Nat : /\ b4 = B * B * B * B /\ B <= b4
                        /\ Prime = T * b4 - C /\ Prime \in Nat \ {0}
                        /\ b4 * T = Prime + C /\ Prime > b4
  BY PrimeFacts
<1>2. PICK lo \in 0..(B * B * B * B)-1 : Value(t) = lo + (B * B * B * B) * t[4]
  BY TopLimb
<1>3. lo \in Nat /\ lo < b4 /\ Value(t) = lo + b4 * t[4]
  BY <1>1, <1>2
<1>4. t[4] \in Nat
  BY ValueOf DEF Carried
<1>5. /\ T \in Nat \ {0} /\ C \in Nat \ {0} /\ B \in Nat \ {0} /\ 65535 * C < T /\ B = 16 * T
      /\ T > 65535
  BY SizeFacts
<1>6. PICK h : h = t[4]
  OBVIOUS
<1>7. b4 * h <= b4 * (2 * T - 2) /\ b4 * h \in Int
  <2>1. h \in Int /\ 2 * T - 2 \in Int /\ h <= 2 * T - 2
    BY <1>4, <1>5, <1>6
  <2> QED
    BY <1>1, <2>1, Monotone
<1>8. b4 * (2 * T - 2) = 2 * (b4 * T) - 2 * b4
  BY <1>1, <1>5, SMT
<1>9. PICK v : v = b4 * T /\ v = Prime + C
  BY <1>1
<1> QED
  BY <1>1, <1>3, <1>5, <1>6, <1>7, <1>8, <1>9, SMT

(* The same value modulo P, a number of times P further up. *)
Congruent(x, y) == x \in Nat /\ y \in Nat /\ \E k \in Int : x = y + Prime * k

LEMMA CongruentRest ==
  ASSUME Sizes, NEW x, NEW y, Congruent(x, y)
  PROVE  x % Prime = y % Prime
<1>1. Prime \in Nat \ {0}
  BY PrimeFacts
<1>2. PICK k \in Int : x = y + Prime * k
  BY DEF Congruent
<1> QED
  BY <1>1, <1>2, SameRest DEF Congruent

LEMMA NormalizeIs ==
  ASSUME Sizes, NEW a, NEW m, Holds(a, m)
  PROVE  Canonical(Normalize(a)) /\ Congruent(Value(a), Value(Normalize(a)))
<1>0. PICK t : t = NormalizeWeak(a)
  OBVIOUS
<1>1. /\ Carried(t) /\ t[4] <= T + 255 /\ a[4] \div T \in Nat
      /\ Value(a) = Value(t) + (a[4] \div T) * Prime
  BY <1>0, NormalizeWeakIs
<1>2. PICK k \in Nat : Value(a) = Value(t) + k * Prime
  BY <1>1
<1>3. /\ t \in [Limbs -> Nat] /\ t[0] \in Nat /\ t[1] \in Nat /\ t[2] \in Nat
      /\ t[3] \in Nat /\ t[4] \in Nat /\ Value(t) \in Nat
      /\ t[0] < B /\ t[1] < B /\ t[2] < B /\ t[3] < B
  BY <1>1, ValueOf DEF Carried
<1>4. Value(t) < 2 * Prime
  BY <1>1, BelowTwoP
<1>5. /\ T \in Nat \ {0} /\ C \in Nat \ {0} /\ B \in Nat \ {0} /\ 65535 * C < T /\ B = 16 * T
      /\ T > 65535
  BY SizeFacts
<1>6. PICK b4 \in Nat : /\ b4 = B * B * B * B /\ B <= b4
                        /\ Prime = T * b4 - C /\ Prime \in Nat \ {0}
                        /\ b4 * T = Prime + C /\ Prime > b4
  BY PrimeFacts
<1>7. Value(a) \in Nat
  BY ValueOf DEF Holds
<1>8. PICK x : x = IF t[4] >= T \/ AtLeastP(t) THEN 1 ELSE 0
  OBVIOUS
<1>9. PICK u : u = Carry([t EXCEPT ![0] = @ + x * C])
  OBVIOUS
<1>10. Normalize(a) = [u EXCEPT ![4] = @ % T]
  BY <1>0, <1>8, <1>9, Zenon DEF Normalize
<1>11. ASSUME x = 0 PROVE Normalize(a) = t /\ Value(t) < Prime
  <2>1. t[4] < T /\ ~AtLeastP(t)
    BY <1>3, <1>5, <1>8, <1>11
  <2>2. Value(t) < Prime
    BY <1>1, <1>3, <1>6, <2>1, AtLeastPIs
  <2>3. [t EXCEPT ![0] = @ + x * C] = t
    BY <1>3, <1>5, <1>11 DEF Limbs
  <2>4. Small(t[0]) /\ Small(t[1]) /\ Small(t[2]) /\ Small(t[3]) /\ Small(t[4])
    BY <1>3, <1>5, <2>1 DEF Small
  <2>5. Carried(Carry(t)) /\ Value(Carry(t)) = Value(t)
    BY <1>3, <2>4, CarryIs
  <2>6. Carry(t) = t
    BY <1>1, <2>5, OneRepresentation
  <2>7. u = t
    BY <1>9, <2>3, <2>6
  <2>8. t[4] % T = t[4]
    BY <1>3, <1>5, <2>1, Fits
  <2>9. [t EXCEPT ![4] = @ % T] = t
    BY <1>3, <2>8 DEF Limbs
  <2> QED
    BY <1>10, <2>2, <2>7, <2>9
<1>12. ASSUME x = 1
       PROVE  Carried(Normalize(a)) /\ Value(Normalize(a)) = Value(t) - Prime
  <2>1. t[4] >= T \/ AtLeastP(t)
    BY <1>8, <1>12
  <2>2. Value(t) >= Prime
    <3>1. CASE t[4] < T
      BY <1>1, <1>3, <1>5, <2>1, <3>1, AtLeastPIs
    <3>2. CASE T <= t[4]
      <4>1. PICK lo \in 0..(B * B * B * B)-1 : Value(t) = lo + (B * B * B * B) * t[4]
        BY <1>1, TopLimb
      <4>2. lo \in Nat /\ Value(t) = lo + b4 * t[4]
        BY <1>6, <4>1
      <4>3. b4 * T <= b4 * t[4] /\ b4 * t[4] \in Int
        BY <1>3, <1>5, <1>6, <3>2, Monotone
      <4> QED
        BY <1>3, <1>5, <1>6, <4>2, <4>3
    <3> QED
      BY <1>3, <1>5, <3>1, <3>2
  <2>3. PICK y : y = [t EXCEPT ![0] = @ + x * C]
    OBVIOUS
  <2>4. /\ y \in [Limbs -> Nat] /\ y[0] = t[0] + C /\ y[1] = t[1] /\ y[2] = t[2]
        /\ y[3] = t[3] /\ y[4] = t[4]
    BY <1>3, <1>5, <1>12, <2>3 DEF Limbs
  <2>5. Small(y[0]) /\ Small(y[1]) /\ Small(y[2]) /\ Small(y[3]) /\ Small(y[4])
    BY <1>1, <1>3, <1>5, <2>4 DEF Small
  <2>6. Value(y) = Value(t) + C
    BY <1>3, <1>5, <2>4, SMT DEF Value
  <2>7. Carried(u) /\ Value(u) = Value(t) + C /\ u[4] <= t[4] + 256
    BY <1>9, <2>3, <2>4, <2>5, <2>6, CarryIs
  <2>8. PICK lo \in 0..(B * B * B * B)-1 : Value(u) = lo + (B * B * B * B) * u[4]
    BY <2>7, TopLimb
  <2>9. lo \in Nat /\ lo < b4 /\ Value(u) = lo + b4 * u[4]
    BY <1>6, <2>8
  <2>10. /\ u \in [Limbs -> Nat] /\ u[0] \in Nat /\ u[1] \in Nat /\ u[2] \in Nat
         /\ u[3] \in Nat /\ u[4] \in Nat /\ Value(u) \in Nat
    BY <2>7, ValueOf DEF Carried
  <2>11. u[4] >= T
    <3>1. SUFFICES ASSUME u[4] <= T - 1 PROVE FALSE
      BY <1>5, <2>10
    <3>2. b4 * u[4] <= b4 * (T - 1) /\ b4 * u[4] \in Int
      BY <1>5, <1>6, <2>10, <3>1, Monotone
    <3>3. b4 * (T - 1) = b4 * T - b4
      BY <1>5, <1>6, SMT
    <3> QED
      BY <1>3, <1>5, <1>6, <2>2, <2>7, <2>9, <3>2, <3>3, SMT
  <2>12. u[4] < 2 * T
    BY <1>1, <1>3, <1>5, <2>7, <2>10
  <2>13. u[4] % T = u[4] - T
    <3>1. Divides(u[4], T, 1, u[4] - T)
      BY <1>5, <2>10, <2>11, <2>12 DEF Divides
    <3> QED
      BY <2>10, <3>1, QuotientIs
  <2>14. PICK r : r = [u EXCEPT ![4] = @ % T]
    OBVIOUS
  <2>15. /\ r \in [Limbs -> Nat] /\ r[0] = u[0] /\ r[1] = u[1] /\ r[2] = u[2]
         /\ r[3] = u[3] /\ r[4] = u[4] - T
    BY <1>5, <2>10, <2>11, <2>13, <2>14 DEF Limbs
  <2>16. Carried(r)
    BY <2>7, <2>15 DEF Carried
  <2>17. PICK lr \in 0..(B * B * B * B)-1 : Value(r) = lr + (B * B * B * B) * r[4]
    BY <2>16, TopLimb
  <2>18. Value(r) = Value(u) - b4 * T
    <3>1. PICK v0, v1, v2, v3, v4 \in Nat :
            u[0] = v0 /\ u[1] = v1 /\ u[2] = v2 /\ u[3] = v3 /\ u[4] = v4
      BY <2>10
    <3>2. v0 + B * (v1 + B * (v2 + B * (v3 + B * (v4 - T))))
            = (v0 + B * (v1 + B * (v2 + B * (v3 + B * v4)))) - (B * B * B * B) * T
      BY <1>5, SMT
    <3>3. Value(r) = v0 + B * (v1 + B * (v2 + B * (v3 + B * (v4 - T))))
      BY <2>15, <3>1, Zenon DEF Value
    <3>4. Value(u) = v0 + B * (v1 + B * (v2 + B * (v3 + B * v4)))
      BY <3>1, Zenon DEF Value
    <3> QED
      BY <1>6, <3>2, <3>3, <3>4, Zenon
  <2> QED
    BY <1>3, <1>5, <1>6, <1>10, <2>7, <2>10, <2>14, <2>16, <2>18
<1>13. CASE x = 0
  <2>1. Canonical(Normalize(a))
    BY <1>1, <1>11, <1>13 DEF Canonical
  <2>2. Value(a) = Value(t) + Prime * k
    BY <1>2, <1>3, <1>6
  <2> QED
    BY <1>3, <1>7, <1>11, <1>13, <2>1, <2>2 DEF Congruent
<1>14. CASE x = 1
  <2>1. /\ Carried(Normalize(a)) /\ Value(Normalize(a)) = Value(t) - Prime
    BY <1>12, <1>14
  <2>2. Value(Normalize(a)) \in Nat
    BY <2>1, ValueOf DEF Carried
  <2>3. Value(Normalize(a)) < Prime
    BY <1>3, <1>4, <1>6, <2>1, <2>2
  <2>4. Value(a) = Value(Normalize(a)) + Prime * (k + 1)
    BY <1>2, <1>3, <1>6, <2>1, <2>2, SMT
  <2> QED
    BY <1>7, <2>1, <2>2, <2>3, <2>4 DEF Canonical, Congruent
<1> QED
  BY <1>8, <1>13, <1>14

LEMMA WeakCongruent ==
  ASSUME Sizes, NEW a, NEW m, Holds(a, m)
  PROVE  Congruent(Value(a), Value(NormalizeWeak(a)))
<1>1. /\ Carried(NormalizeWeak(a)) /\ a[4] \div T \in Nat
      /\ Value(a) = Value(NormalizeWeak(a)) + (a[4] \div T) * Prime
  BY NormalizeWeakIs
<1>2. Value(a) \in Nat /\ Value(NormalizeWeak(a)) \in Nat
  BY <1>1, ValueOf DEF Carried, Holds
<1>3. PICK k \in Nat : Value(a) = Value(NormalizeWeak(a)) + k * Prime
  BY <1>1
<1>4. Prime \in Nat
  BY PLimbsAre
<1>5. Value(a) = Value(NormalizeWeak(a)) + Prime * k
  BY <1>2, <1>3, <1>4
<1> QED
  BY <1>2, <1>5 DEF Congruent
--------------------------------------------------------------------------------
(***************************************************************************)
(* What may be asked of a register.                                        *)
(***************************************************************************)
Zeros == [i \in Limbs |-> 0]

LEMMA ZerosAre ==
  ASSUME Sizes
  PROVE  Carried(Zeros) /\ Value(Zeros) = 0
<1>1. B \in Nat \ {0}
  BY SizeFacts
<1>2. /\ Zeros \in [Limbs -> Nat] /\ Zeros[0] = 0 /\ Zeros[1] = 0 /\ Zeros[2] = 0
      /\ Zeros[3] = 0 /\ Zeros[4] = 0
  BY DEF Zeros, Limbs
<1>3. 0 + B * (0 + B * (0 + B * (0 + B * 0))) = 0
  BY <1>1, SMT
<1> QED
  BY <1>1, <1>2, <1>3 DEF Carried, Value

(* The raw values 0 and P are all that a multiple of P can look like.       *)
LEMMA ZeroOrP ==
  ASSUME Sizes, NEW t, Carried(t)
  PROVE  /\ (\A i \in Limbs : t[i] = 0) <=> Value(t) = 0
         /\ (/\ t[0] = Lowest /\ t[1] = M /\ t[2] = M /\ t[3] = M /\ t[4] = T - 1)
              <=> Value(t) = Prime
<1>1. t \in [Limbs -> Nat]
  BY DEF Carried
<1>2. ASSUME \A i \in Limbs : t[i] = 0 PROVE Value(t) = 0
  <2>1. t = Zeros
    BY <1>1, <1>2 DEF Zeros
  <2> QED
    BY <2>1, ZerosAre
<1>3. ASSUME Value(t) = 0 PROVE \A i \in Limbs : t[i] = 0
  <2>1. t = Zeros
    BY <1>3, ZerosAre, OneRepresentation
  <2> QED
    BY <2>1 DEF Zeros
<1>4. ASSUME t[0] = Lowest, t[1] = M, t[2] = M, t[3] = M, t[4] = T - 1
      PROVE  Value(t) = Prime
  <2>1. PLimbs \in [Limbs -> Nat]
    BY PLimbsAre DEF Carried
  <2>2. t = PLimbs
    BY <1>1, <1>4, <2>1, PLimbsAre, SameLimbs
  <2> QED
    BY <2>2, PLimbsAre
<1>5. ASSUME Value(t) = Prime
      PROVE  t[0] = Lowest /\ t[1] = M /\ t[2] = M /\ t[3] = M /\ t[4] = T - 1
  <2>1. t = PLimbs
    BY <1>5, PLimbsAre, OneRepresentation
  <2> QED
    BY <2>1, PLimbsAre
<1> QED
  BY <1>2, <1>3, <1>4, <1>5

LEMMA ZeroIs ==
  ASSUME Sizes, NEW a, NEW m, Holds(a, m)
  PROVE  NormalizesToZero(a) <=> Value(a) % Prime = 0
<1>0. PICK t : t = NormalizeWeak(a)
  OBVIOUS
<1>1. Carried(t) /\ t[4] <= T + 255 /\ Congruent(Value(a), Value(t))
  BY <1>0, NormalizeWeakIs, WeakCongruent
<1>2. Value(a) % Prime = Value(t) % Prime
  BY <1>1, CongruentRest
<1>3. PICK v : v = Value(t)
  OBVIOUS
<1>4. v \in Nat /\ v < 2 * Prime /\ Prime \in Nat \ {0}
  BY <1>1, <1>3, BelowTwoP, PrimeFacts DEF Congruent
<1>5. v % Prime = 0 <=> v = 0 \/ v = Prime
  <2>1. CASE v < Prime
    BY <1>4, <2>1, Fits
  <2>2. CASE v >= Prime
    <3>1. Divides(v, Prime, 1, v - Prime)
      BY <1>4, <2>2 DEF Divides
    <3>2. v % Prime = v - Prime
      BY <1>4, <3>1, QuotientIs
    <3> QED
      BY <1>4, <2>2, <3>2
  <2> QED
    BY <1>4, <2>1, <2>2
<1>6. NormalizesToZero(a) <=> v = 0 \/ v = Prime
  BY <1>0, <1>1, <1>3, ZeroOrP, Zenon DEF NormalizesToZero
<1> QED
  BY <1>2, <1>3, <1>5, <1>6, Zenon

LEMMA ZeroVarIs ==
  ASSUME Sizes, NEW a, NEW m, Holds(a, m)
  PROVE  NormalizesToZeroVar(a) <=> NormalizesToZero(a)
<1>0. PICK t : t = NormalizeWeak(a)
  OBVIOUS
<1>1. t[0] = U64(a[0] + (a[4] \div T) * C) % B
  <2>1. PICK y : y = [a EXCEPT ![0] = U64(@ + (a[4] \div T) * C), ![4] = @ % T]
    OBVIOUS
  <2>2. y[0] = U64(a[0] + (a[4] \div T) * C)
    BY <2>1 DEF Holds, Limbs
  <2>3. t = Carry(y)
    BY <1>0, <2>1, Zenon DEF NormalizeWeak
  <2>4. Carry(y)[0] = y[0] % B
    <3>1. \E c1, c2, c3, c4 : Carry(y) = L5(y[0] % B, c1, c2, c3, c4)
      BY DEF Carry
    <3>2. PICK z, c1, c2, c3, c4 : z = y[0] % B /\ Carry(y) = L5(z, c1, c2, c3, c4)
      BY <3>1
    <3> QED
      BY <3>2, L5Is
  <2> QED
    BY <2>2, <2>3, <2>4
<1>2. NormalizesToZero(a) => t[0] \in {0, Lowest}
  BY <1>0 DEF NormalizesToZero, Limbs
<1> QED
  BY <1>1, <1>2, Zenon DEF NormalizesToZeroVar

LEMMA OddIs ==
  ASSUME Sizes, NEW a, Canonical(a)
  PROVE  IsOdd(a) <=> Value(a) % 2 = 1
<1>1. PICK v0, v1, v2, v3, v4 \in Nat :
        a[0] = v0 /\ a[1] = v1 /\ a[2] = v2 /\ a[3] = v3 /\ a[4] = v4
  BY ValueOf DEF Canonical, Carried
<1>2. B \in Nat /\ B = 16 * T /\ T \in Nat
  BY SizeFacts
<1>3. PICK h \in Nat : h = v1 + B * (v2 + B * (v3 + B * v4))
  BY <1>2, SMT
<1>4. Value(a) = v0 + B * h
  BY <1>1, <1>3, Zenon DEF Value
<1>5. v0 + B * h = v0 + 2 * (8 * T * h)
  BY <1>2, SMT
<1>6. 8 * T * h \in Nat
  BY <1>2, SMT
<1>7. Value(a) \in Nat
  BY CanonicalIs
<1>8. Value(a) % 2 = v0 % 2
  BY <1>4, <1>5, <1>6, <1>7, SameRest
<1> QED
  BY <1>1, <1>8, Zenon DEF IsOdd

LEMMA CmpIs ==
  ASSUME Sizes, NEW a, NEW b, Canonical(a), Canonical(b)
  PROVE  CmpVar(a, b) = 1 <=> Value(a) > Value(b)
<1>1. /\ a \in [Limbs -> Nat] /\ b \in [Limbs -> Nat] /\ Carried(a) /\ Carried(b)
      /\ Value(a) \in Nat /\ Value(b) \in Nat
  BY CanonicalIs DEF Canonical, Carried
<1> DEFINE diff == {i \in Limbs : a[i] # b[i]}
           top  == CHOOSE i \in diff : \A j \in diff : j <= i
<1>2. CmpVar(a, b) = IF diff = {} THEN 0 ELSE IF a[top] > b[top] THEN 1 ELSE -1
  BY DEF CmpVar
<1>3. ASSUME diff = {} PROVE a = b
  BY <1>1, <1>3
<1>4. ASSUME diff # {}
      PROVE  \E i \in diff : \A j \in diff : j <= i
  <2>1. diff \subseteq {0, 1, 2, 3, 4}
    BY DEF Limbs
  <2>2. CASE 4 \in diff
    BY <2>1, <2>2
  <2>3. CASE 4 \notin diff /\ 3 \in diff
    BY <2>1, <2>3
  <2>4. CASE 4 \notin diff /\ 3 \notin diff /\ 2 \in diff
    BY <2>1, <2>4
  <2>5. CASE 4 \notin diff /\ 3 \notin diff /\ 2 \notin diff /\ 1 \in diff
    BY <2>1, <2>5
  <2>6. CASE 4 \notin diff /\ 3 \notin diff /\ 2 \notin diff /\ 1 \notin diff
    BY <1>4, <2>1, <2>6
  <2> QED
    BY <2>2, <2>3, <2>4, <2>5, <2>6
<1>5. ASSUME diff # {}
      PROVE  /\ top \in Limbs /\ a[top] # b[top]
             /\ \A j \in Limbs : j > top => a[j] = b[j]
  <2>1. top \in diff /\ \A j \in diff : j <= top
    BY <1>4, <1>5
  <2> HIDE DEF top
  <2> QED
    BY <2>1 DEF Limbs
<1>6. Value(b) < Value(a) <=>
           \/ b[4] < a[4]
           \/ /\ b[4] = a[4]
              /\ \/ b[3] < a[3]
                 \/ /\ b[3] = a[3]
                    /\ \/ b[2] < a[2]
                       \/ /\ b[2] = a[2]
                          /\ b[1] < a[1] \/ (b[1] = a[1] /\ b[0] < a[0])
  BY <1>1, Compare
<1>7. CASE diff = {}
  BY <1>1, <1>2, <1>3, <1>7
<1>8. CASE diff # {}
  <2> HIDE DEF top, diff
  <2>1. PICK k : k = top
    OBVIOUS
  <2>2. k \in Limbs /\ a[k] # b[k] /\ \A j \in Limbs : j > k => a[j] = b[j]
    BY <1>5, <1>8, <2>1
  <2>3. CmpVar(a, b) = 1 <=> a[k] > b[k]
    BY <1>2, <1>8, <2>1
  <2>4. Value(b) < Value(a) <=> b[k] < a[k]
    <3>1. /\ a[0] \in Nat /\ a[1] \in Nat /\ a[2] \in Nat /\ a[3] \in Nat /\ a[4] \in Nat
          /\ b[0] \in Nat /\ b[1] \in Nat /\ b[2] \in Nat /\ b[3] \in Nat /\ b[4] \in Nat
      BY <1>1 DEF Limbs
    <3>2. CASE k = 4
      BY <1>6, <2>2, <3>1, <3>2
    <3>3. CASE k = 3
      <4>1. a[4] = b[4]
        BY <2>2, <3>3 DEF Limbs
      <4> QED
        BY <1>6, <2>2, <3>1, <3>3, <4>1
    <3>4. CASE k = 2
      <4>1. a[4] = b[4] /\ a[3] = b[3]
        BY <2>2, <3>4 DEF Limbs
      <4> QED
        BY <1>6, <2>2, <3>1, <3>4, <4>1
    <3>5. CASE k = 1
      <4>1. a[4] = b[4] /\ a[3] = b[3] /\ a[2] = b[2]
        BY <2>2, <3>5 DEF Limbs
      <4> QED
        BY <1>6, <2>2, <3>1, <3>5, <4>1
    <3>6. CASE k = 0
      <4>1. a[4] = b[4] /\ a[3] = b[3] /\ a[2] = b[2] /\ a[1] = b[1]
        BY <2>2, <3>6 DEF Limbs
      <4> QED
        BY <1>6, <2>2, <3>1, <3>6, <4>1
    <3> QED
      BY <2>2, <3>2, <3>3, <3>4, <3>5, <3>6 DEF Limbs
  <2>5. a[k] \in Nat /\ b[k] \in Nat
    BY <1>1, <2>2
  <2> QED
    BY <1>1, <2>3, <2>4, <2>5
<1> QED
  BY <1>7, <1>8
--------------------------------------------------------------------------------
(***************************************************************************)
(* The operations that work limb by limb: what becomes of the value, and   *)
(* of the bounds. Lowest, M, M, M and T - 1 are the limbs of P.            *)
(***************************************************************************)
LEMMA PrimeIs ==
  ASSUME Sizes
  PROVE  Prime = Lowest + B * (M + B * (M + B * (M + B * (T - 1))))
BY PLimbsAre, Zenon DEF Value

(* A limb within the bounds of a magnitude. *)
AtMost(x, m)    == x \in Nat /\ m \in Nat /\ m <= 32 /\ x <= 2 * m * M
AtMostTop(x, m) == x \in Nat /\ m \in Nat /\ m <= 32 /\ x <= 2 * m * (T - 1)

Five(a0, a1, a2, a3, a4) == a0 + B * (a1 + B * (a2 + B * (a3 + B * a4)))

LEMMA HeldNumbers ==
  ASSUME Sizes, NEW a, NEW m, Holds(a, m)
  PROVE  /\ AtMost(a[0], m) /\ AtMost(a[1], m) /\ AtMost(a[2], m) /\ AtMost(a[3], m)
         /\ AtMostTop(a[4], m)
         /\ Value(a) = Five(a[0], a[1], a[2], a[3], a[4])
<1>1. a[0] \in Nat /\ a[1] \in Nat /\ a[2] \in Nat /\ a[3] \in Nat /\ a[4] \in Nat
  BY ValueOf DEF Holds
<1>2. /\ a[0] <= 2 * m * M /\ a[1] <= 2 * m * M /\ a[2] <= 2 * m * M
      /\ a[3] <= 2 * m * M /\ a[4] <= 2 * m * (T - 1)
  BY BoundsAre DEF Holds
<1>3. m \in Nat /\ m <= 32
  BY DEF Holds
<1>4. Value(a) = Five(a[0], a[1], a[2], a[3], a[4])
  BY Zenon DEF Value, Five
<1> QED
  BY <1>1, <1>2, <1>3, <1>4, Zenon DEF AtMost, AtMostTop

LEMMA NumbersHeld ==
  ASSUME Sizes, NEW r, NEW m, r \in [Limbs -> Nat],
         AtMost(r[0], m), AtMost(r[1], m), AtMost(r[2], m), AtMost(r[3], m),
         AtMostTop(r[4], m)
  PROVE  Holds(r, m)
<1>1. m \in Nat /\ m <= 32
  BY DEF AtMost
<1>2. /\ r[0] <= 2 * m * M /\ r[1] <= 2 * m * M /\ r[2] <= 2 * m * M
      /\ r[3] <= 2 * m * M /\ r[4] <= 2 * m * (T - 1)
  BY Zenon DEF AtMost, AtMostTop
<1> QED
  BY <1>1, <1>2, BoundsAre DEF Holds

(* Limbs given one by one. *)
LEMMA MadeOf ==
  ASSUME Sizes, NEW z0, NEW z1, NEW z2, NEW z3, NEW z4, NEW m,
         AtMost(z0, m), AtMost(z1, m), AtMost(z2, m), AtMost(z3, m), AtMostTop(z4, m)
  PROVE  /\ Holds(L5(z0, z1, z2, z3, z4), m)
         /\ Value(L5(z0, z1, z2, z3, z4)) = Five(z0, z1, z2, z3, z4)
<1> DEFINE y == L5(z0, z1, z2, z3, z4)
<1>1. /\ y[0] = z0 /\ y[1] = z1 /\ y[2] = z2 /\ y[3] = z3 /\ y[4] = z4
      /\ y \in [Limbs -> {z0, z1, z2, z3, z4}]
  BY L5Is
<1> HIDE DEF y
<1>2. y \in [Limbs -> Nat]
  <2>1. z0 \in Nat /\ z1 \in Nat /\ z2 \in Nat /\ z3 \in Nat /\ z4 \in Nat
    BY DEF AtMost, AtMostTop
  <2> QED
    BY <1>1, <2>1
<1>3. Holds(y, m)
  BY <1>1, <1>2, NumbersHeld, Zenon
<1>4. Value(y) = Five(z0, z1, z2, z3, z4)
  BY <1>1, Zenon DEF Value, Five
<1> QED
  BY <1>3, <1>4 DEF y

(* Limbs within a bound do not overflow their words. *)
LEMMA U64Small ==
  ASSUME Sizes, NEW x, Small(x)
  PROVE  U64(x) = x
<1>1. x \in Nat /\ x < Word /\ Word \in Nat
  BY SizeFacts, SMT DEF Small
<1> QED
  BY <1>1, Fits DEF U64

LEMMA AtMostSmall ==
  ASSUME Sizes, NEW x, NEW m, AtMost(x, m) \/ AtMostTop(x, m)
  PROVE  U64(x) = x /\ Small(x)
<1>1. M \in Nat /\ T \in Nat \ {0} /\ M = B - 1 /\ B = 16 * T /\ B \in Nat /\ T - 1 \in Nat
  BY SizeFacts
<1>m. m \in Nat /\ m <= 32 /\ x \in Nat
  BY DEF AtMost, AtMostTop
<1>2. M * m <= M * 32 /\ (T - 1) * m <= (T - 1) * 32
  BY <1>1, <1>m, Monotone
<1>3. 2 * m * M <= 64 * M /\ 2 * m * (T - 1) <= 64 * (T - 1)
  BY <1>1, <1>m, <1>2, SMT
<1>4. PICK u, v \in Int : u = 2 * m * M /\ v = 2 * m * (T - 1)
  BY <1>1, <1>m, SMT
<1>5. x <= u \/ x <= v
  BY <1>4 DEF AtMost, AtMostTop
<1>6. x <= 64 * M \/ x <= 64 * (T - 1)
  BY <1>1, <1>m, <1>3, <1>4, <1>5
<1>7. Small(x)
  BY <1>1, <1>m, <1>6, SMT DEF Small
<1> QED
  BY <1>7, U64Small

(* A register of greater magnitude would do. *)
LEMMA HoldsMore ==
  ASSUME Sizes, NEW a, NEW m, Holds(a, m), NEW k, k \in Nat, m <= k, k <= 32
  PROVE  Holds(a, k)
<1>1. M \in Nat /\ T - 1 \in Nat
  BY SizeFacts
<1>m. m \in Nat
  BY DEF Holds
<1>2. M * m <= M * k /\ (T - 1) * m <= (T - 1) * k
  BY <1>1, <1>m, Monotone
<1>3. 2 * m * M <= 2 * k * M /\ 2 * m * (T - 1) <= 2 * k * (T - 1)
  BY <1>1, <1>m, <1>2, SMT
<1>4. ASSUME NEW x, AtMost(x, m) PROVE AtMost(x, k)
  <2>1. PICK u, v \in Int : u = 2 * m * M /\ v = 2 * k * M /\ u <= v
    BY <1>1, <1>m, <1>3, SMT
  <2>2. x <= v /\ x \in Nat
    BY <1>4, <2>1 DEF AtMost
  <2> QED
    BY <2>1, <2>2, Zenon DEF AtMost
<1>5. ASSUME NEW x, AtMostTop(x, m) PROVE AtMostTop(x, k)
  <2>1. PICK u, v \in Int : u = 2 * m * (T - 1) /\ v = 2 * k * (T - 1) /\ u <= v
    BY <1>1, <1>m, <1>3, SMT
  <2>2. x <= v /\ x \in Nat
    BY <1>5, <2>1 DEF AtMostTop
  <2> QED
    BY <2>1, <2>2, Zenon DEF AtMostTop
<1>7. a \in [Limbs -> Nat]
  BY DEF Holds
<1> QED
  BY <1>4, <1>5, <1>7, HeldNumbers, NumbersHeld

(* z is x plus y, is w times x. *)
Plus(x, y, z)   == x \in Int /\ y \in Int /\ z \in Int /\ z = x + y
Scaled(w, x, z) == w \in Int /\ x \in Int /\ z \in Int /\ z = w * x

LEMMA FiveInt ==
  ASSUME Sizes, NEW a0 \in Int, NEW a1 \in Int, NEW a2 \in Int, NEW a3 \in Int, NEW a4 \in Int
  PROVE  Five(a0, a1, a2, a3, a4) \in Int
<1>1. B \in Nat
  BY SizeFacts
<1> QED
  BY <1>1, SMT DEF Five

LEMMA FiveSum ==
  ASSUME Sizes, NEW a0, NEW a1, NEW a2, NEW a3, NEW a4,
         NEW b0, NEW b1, NEW b2, NEW b3, NEW b4,
         NEW c0, NEW c1, NEW c2, NEW c3, NEW c4,
         Plus(a0, b0, c0), Plus(a1, b1, c1), Plus(a2, b2, c2), Plus(a3, b3, c3),
         Plus(a4, b4, c4)
  PROVE  Plus(Five(a0, a1, a2, a3, a4), Five(b0, b1, b2, b3, b4),
              Five(c0, c1, c2, c3, c4))
<1>1. B \in Nat
  BY SizeFacts
<1>2. /\ a0 \in Int /\ a1 \in Int /\ a2 \in Int /\ a3 \in Int /\ a4 \in Int
      /\ b0 \in Int /\ b1 \in Int /\ b2 \in Int /\ b3 \in Int /\ b4 \in Int
      /\ c0 = a0 + b0 /\ c1 = a1 + b1 /\ c2 = a2 + b2 /\ c3 = a3 + b3 /\ c4 = a4 + b4
  BY DEF Plus
<1>3. Five(a0 + b0, a1 + b1, a2 + b2, a3 + b3, a4 + b4)
        = Five(a0, a1, a2, a3, a4) + Five(b0, b1, b2, b3, b4)
  BY <1>1, <1>2, SMT DEF Five
<1>4. Five(a0, a1, a2, a3, a4) \in Int /\ Five(b0, b1, b2, b3, b4) \in Int
  BY <1>2, FiveInt
<1>5. Five(c0, c1, c2, c3, c4) = Five(a0, a1, a2, a3, a4) + Five(b0, b1, b2, b3, b4)
  BY <1>2, <1>3, Zenon
<1> QED
  BY <1>4, <1>5 DEF Plus

LEMMA FiveScaled ==
  ASSUME Sizes, NEW w, NEW a0, NEW a1, NEW a2, NEW a3, NEW a4,
         NEW c0, NEW c1, NEW c2, NEW c3, NEW c4,
         Scaled(w, a0, c0), Scaled(w, a1, c1), Scaled(w, a2, c2), Scaled(w, a3, c3),
         Scaled(w, a4, c4)
  PROVE  Scaled(w, Five(a0, a1, a2, a3, a4), Five(c0, c1, c2, c3, c4))
<1>1. B \in Nat
  BY SizeFacts
<1>2. /\ w \in Int
      /\ a0 \in Int /\ a1 \in Int /\ a2 \in Int /\ a3 \in Int /\ a4 \in Int
      /\ c0 = w * a0 /\ c1 = w * a1 /\ c2 = w * a2 /\ c3 = w * a3 /\ c4 = w * a4
  BY DEF Scaled
<1>3. Five(w * a0, w * a1, w * a2, w * a3, w * a4) = w * Five(a0, a1, a2, a3, a4)
  BY <1>1, <1>2, SMT DEF Five
<1>4. Five(a0, a1, a2, a3, a4) \in Int
  BY <1>2, FiveInt
<1>5. Five(c0, c1, c2, c3, c4) = w * Five(a0, a1, a2, a3, a4)
  BY <1>2, <1>3, Zenon
<1> QED
  BY <1>2, <1>4, <1>5 DEF Scaled

(* Subtracting from so many times P that no limb is below its bound.        *)
LEMMA NegateIs ==
  ASSUME Sizes, NEW a, NEW k, k \in 0..31, Holds(a, k)
  PROVE  /\ Holds(Negate(a, k), k + 1)
         /\ Plus(Value(Negate(a, k)), Value(a), 2 * (k + 1) * Prime)
<1>1. /\ AtMost(a[0], k) /\ AtMost(a[1], k) /\ AtMost(a[2], k) /\ AtMost(a[3], k)
      /\ AtMostTop(a[4], k)
      /\ Value(a) = Five(a[0], a[1], a[2], a[3], a[4])
  BY HeldNumbers
<1>a. PICK a0, a1, a2, a3, a4 \in Nat :
        a[0] = a0 /\ a[1] = a1 /\ a[2] = a2 /\ a[3] = a3 /\ a[4] = a4
  BY <1>1 DEF AtMost, AtMostTop
<1>2. /\ M \in Nat /\ T \in Nat \ {0} /\ M = B - 1 /\ B = 16 * T /\ B \in Nat
      /\ Lowest = B - C /\ Lowest \in Nat /\ C \in Nat \ {0} /\ 65535 * C < T
  BY SizeFacts
<1>w. PICK w \in Nat : w = 2 * (k + 1) /\ w >= 2 /\ w <= 64 /\ 2 * k = w - 2
  OBVIOUS
<1>3. PICK l, p, q, f, g \in Int :
        /\ l = w * Lowest /\ p = w * M /\ q = w * (T - 1)
        /\ f = p - 2 * M /\ g = q - 2 * (T - 1)
  BY <1>2, SMT
<1>4. 2 * k * M = f /\ 2 * k * (T - 1) = g
  BY <1>2, <1>3, <1>w, SMT
<1>b. a0 <= f /\ a1 <= f /\ a2 <= f /\ a3 <= f /\ a4 <= g
  BY <1>1, <1>a, <1>4 DEF AtMost, AtMostTop
<1>5. f <= l /\ l <= p
  <2>1. C * w <= C * 64 /\ C * 2 <= C * w /\ C * w \in Int
    BY <1>2, <1>w, Monotone
  <2>2. PICK y, z \in Int : y = w * B /\ z = C * w
    BY <1>2, <1>w, SMT
  <2>3. l = y - z /\ p = y - w
    BY <1>2, <1>3, <2>2, SMT
  <2>4. z >= w
    BY <1>2, <1>w, <2>2, SMT
  <2> QED
    BY <1>2, <1>3, <1>w, <2>1, <2>2, <2>3, <2>4
<1>6. PICK z0, z1, z2, z3, z4 \in Nat :
        z0 = l - a0 /\ z1 = p - a1 /\ z2 = p - a2 /\ z3 = p - a3 /\ z4 = q - a4
  BY <1>b, <1>2, <1>3, <1>5
<1>7. z0 <= p /\ z1 <= p /\ z2 <= p /\ z3 <= p /\ z4 <= q
  BY <1>3, <1>5, <1>6
<1>8. /\ AtMost(z0, k + 1) /\ AtMost(z1, k + 1) /\ AtMost(z2, k + 1) /\ AtMost(z3, k + 1)
      /\ AtMostTop(z4, k + 1)
  <2>1. 2 * (k + 1) * M = p /\ 2 * (k + 1) * (T - 1) = q
    BY <1>3, <1>w
  <2>2. k + 1 \in Nat /\ k + 1 <= 32
    OBVIOUS
  <2> QED
    BY <1>7, <2>1, <2>2 DEF AtMost, AtMostTop
<1>9. Negate(a, k) = L5(z0, z1, z2, z3, z4)
  <2>1. U64(z0) = z0 /\ U64(z1) = z1 /\ U64(z2) = z2 /\ U64(z3) = z3 /\ U64(z4) = z4
    BY <1>8, AtMostSmall
  <2>2. /\ 2 * (k + 1) * Lowest - a[0] = z0 /\ 2 * (k + 1) * M - a[1] = z1
        /\ 2 * (k + 1) * M - a[2] = z2 /\ 2 * (k + 1) * M - a[3] = z3
        /\ 2 * (k + 1) * (T - 1) - a[4] = z4
    BY <1>a, <1>w, <1>3, <1>6
  <2> QED
    BY <2>1, <2>2, Zenon DEF Negate
<1>10. /\ Holds(L5(z0, z1, z2, z3, z4), k + 1)
       /\ Value(L5(z0, z1, z2, z3, z4)) = Five(z0, z1, z2, z3, z4)
  BY <1>8, MadeOf
<1>11. Plus(Five(z0, z1, z2, z3, z4), Value(a), 2 * (k + 1) * Prime)
  <2>1. Plus(Five(z0, z1, z2, z3, z4), Five(a0, a1, a2, a3, a4), Five(l, p, p, p, q))
    <3>1. /\ Plus(z0, a0, l) /\ Plus(z1, a1, p) /\ Plus(z2, a2, p) /\ Plus(z3, a3, p)
          /\ Plus(z4, a4, q)
      BY <1>6 DEF Plus
    <3> QED
      BY <3>1, FiveSum
  <2>2. Scaled(w, Five(Lowest, M, M, M, T - 1), Five(l, p, p, p, q))
    <3>1. Scaled(w, Lowest, l) /\ Scaled(w, M, p) /\ Scaled(w, T - 1, q)
      BY <1>2, <1>3 DEF Scaled
    <3> QED
      BY <3>1, FiveScaled
  <2>3. Five(Lowest, M, M, M, T - 1) = Prime
    BY PrimeIs, Zenon DEF Five
  <2>4. Five(l, p, p, p, q) = 2 * (k + 1) * Prime
    BY <1>w, <2>2, <2>3, Zenon DEF Scaled
  <2> QED
    BY <1>1, <1>a, <2>1, <2>4, Zenon
<1> QED
  BY <1>9, <1>10, <1>11, Zenon

(* Both limbs within their bounds: the sum is within the sum of the bounds. *)
LEMMA AtMostSum ==
  ASSUME Sizes, NEW x, NEW y, NEW m, NEW k, m + k <= 32
  PROVE  /\ AtMost(x, m) /\ AtMost(y, k) => AtMost(x + y, m + k) /\ Plus(x, y, x + y)
         /\ AtMostTop(x, m) /\ AtMostTop(y, k)
              => AtMostTop(x + y, m + k) /\ Plus(x, y, x + y)
<1>1. M \in Nat /\ T - 1 \in Nat
  BY SizeFacts
<1>2. ASSUME AtMost(x, m), AtMost(y, k)
      PROVE  AtMost(x + y, m + k) /\ Plus(x, y, x + y)
  <2>1. /\ x \in Nat /\ y \in Nat /\ m \in Nat /\ k \in Nat
        /\ x <= 2 * m * M /\ y <= 2 * k * M
    BY <1>2 DEF AtMost
  <2>2. 2 * m * M + 2 * k * M = 2 * (m + k) * M
    BY <1>1, <2>1, SMT
  <2>3. PICK u, v \in Int : u = 2 * m * M /\ v = 2 * k * M
    BY <1>1, <2>1, SMT
  <2>4. x + y <= u + v /\ x + y \in Nat
    BY <2>1, <2>3
  <2>5. m + k \in Nat
    BY <2>1
  <2>6. x + y <= 2 * (m + k) * M
    BY <2>2, <2>3, <2>4, Zenon
  <2> QED
    BY <2>1, <2>4, <2>5, <2>6 DEF AtMost, Plus
<1>3. ASSUME AtMostTop(x, m), AtMostTop(y, k)
      PROVE  AtMostTop(x + y, m + k) /\ Plus(x, y, x + y)
  <2>1. /\ x \in Nat /\ y \in Nat /\ m \in Nat /\ k \in Nat
        /\ x <= 2 * m * (T - 1) /\ y <= 2 * k * (T - 1)
    BY <1>3 DEF AtMostTop
  <2>2. 2 * m * (T - 1) + 2 * k * (T - 1) = 2 * (m + k) * (T - 1)
    BY <1>1, <2>1, SMT
  <2>3. PICK u, v \in Int : u = 2 * m * (T - 1) /\ v = 2 * k * (T - 1)
    BY <1>1, <2>1, SMT
  <2>4. x + y <= u + v /\ x + y \in Nat
    BY <2>1, <2>3
  <2>5. m + k \in Nat
    BY <2>1
  <2>6. x + y <= 2 * (m + k) * (T - 1)
    BY <2>2, <2>3, <2>4, Zenon
  <2> QED
    BY <2>1, <2>4, <2>5, <2>6 DEF AtMostTop, Plus
<1> QED
  BY <1>2, <1>3

LEMMA AddIs ==
  ASSUME Sizes, NEW a, NEW b, NEW m, NEW k, Holds(a, m), Holds(b, k), m + k <= 32
  PROVE  /\ Holds(Add(a, b), m + k)
         /\ Plus(Value(a), Value(b), Value(Add(a, b)))
<1>1. /\ AtMost(a[0], m) /\ AtMost(a[1], m) /\ AtMost(a[2], m) /\ AtMost(a[3], m)
      /\ AtMostTop(a[4], m)
      /\ Value(a) = Five(a[0], a[1], a[2], a[3], a[4])
  BY HeldNumbers
<1>2. /\ AtMost(b[0], k) /\ AtMost(b[1], k) /\ AtMost(b[2], k) /\ AtMost(b[3], k)
      /\ AtMostTop(b[4], k)
      /\ Value(b) = Five(b[0], b[1], b[2], b[3], b[4])
  BY HeldNumbers
<1>3. PICK r : r = Add(a, b)
  OBVIOUS
<1>4. PICK s0, s1, s2, s3, s4 :
        s0 = a[0] + b[0] /\ s1 = a[1] + b[1] /\ s2 = a[2] + b[2] /\ s3 = a[3] + b[3]
        /\ s4 = a[4] + b[4]
  OBVIOUS
<1>5. /\ AtMost(s0, m + k) /\ AtMost(s1, m + k) /\ AtMost(s2, m + k) /\ AtMost(s3, m + k)
      /\ AtMostTop(s4, m + k)
      /\ Plus(a[0], b[0], s0) /\ Plus(a[1], b[1], s1) /\ Plus(a[2], b[2], s2)
      /\ Plus(a[3], b[3], s3) /\ Plus(a[4], b[4], s4)
  BY <1>1, <1>2, <1>4, AtMostSum
<1>6. U64(s0) = s0 /\ U64(s1) = s1 /\ U64(s2) = s2 /\ U64(s3) = s3 /\ U64(s4) = s4
  BY <1>5, AtMostSmall
<1>7. /\ r[0] = s0 /\ r[1] = s1 /\ r[2] = s2 /\ r[3] = s3 /\ r[4] = s4
      /\ r = [i \in Limbs |-> r[i]]
  BY <1>3, <1>4, <1>6 DEF Add, Limbs
<1>8. r \in [Limbs -> Nat]
  <2>1. s0 \in Nat /\ s1 \in Nat /\ s2 \in Nat /\ s3 \in Nat /\ s4 \in Nat
    BY <1>5 DEF AtMost, AtMostTop
  <2>2. \A i \in Limbs : r[i] \in Nat
    BY <1>7, <2>1 DEF Limbs
  <2> QED
    BY <1>7, <2>2
<1>9. Holds(r, m + k)
  BY <1>5, <1>7, <1>8, NumbersHeld
<1>10. Plus(Five(a[0], a[1], a[2], a[3], a[4]), Five(b[0], b[1], b[2], b[3], b[4]),
            Five(s0, s1, s2, s3, s4))
  BY <1>5, FiveSum
<1>11. Value(r) = Five(s0, s1, s2, s3, s4)
  BY <1>7, Zenon DEF Value, Five
<1> QED
  BY <1>1, <1>2, <1>3, <1>9, <1>10, <1>11, Zenon

LEMMA AtMostScaled ==
  ASSUME Sizes, NEW x, NEW m, NEW i, i \in Nat, m * i <= 32
  PROVE  /\ AtMost(x, m) => AtMost(x * i, m * i) /\ Scaled(i, x, x * i)
         /\ AtMostTop(x, m) => AtMostTop(x * i, m * i) /\ Scaled(i, x, x * i)
<1>1. M \in Nat /\ T - 1 \in Nat
  BY SizeFacts
<1>2. ASSUME AtMost(x, m)
      PROVE  AtMost(x * i, m * i) /\ Scaled(i, x, x * i)
  <2>1. x \in Nat /\ m \in Nat /\ x <= 2 * m * M /\ 2 * m * M \in Nat
    BY <1>1, <1>2, SMT DEF AtMost
  <2>2. i * x <= i * (2 * m * M)
    BY <2>1, Monotone
  <2>3. i * (2 * m * M) = 2 * (m * i) * M /\ x * i = i * x
    BY <1>1, <2>1, SMT
  <2>4. m * i \in Nat /\ x * i \in Nat
    BY <2>1, SMT
  <2>5. x * i <= 2 * (m * i) * M
    BY <2>2, <2>3, Zenon
  <2> QED
    BY <2>1, <2>3, <2>4, <2>5 DEF AtMost, Scaled
<1>3. ASSUME AtMostTop(x, m)
      PROVE  AtMostTop(x * i, m * i) /\ Scaled(i, x, x * i)
  <2>1. x \in Nat /\ m \in Nat /\ x <= 2 * m * (T - 1) /\ 2 * m * (T - 1) \in Nat
    BY <1>1, <1>3, SMT DEF AtMostTop
  <2>2. i * x <= i * (2 * m * (T - 1))
    BY <2>1, Monotone
  <2>3. i * (2 * m * (T - 1)) = 2 * (m * i) * (T - 1) /\ x * i = i * x
    BY <1>1, <2>1, SMT
  <2>4. m * i \in Nat /\ x * i \in Nat
    BY <2>1, SMT
  <2>5. x * i <= 2 * (m * i) * (T - 1)
    BY <2>2, <2>3, Zenon
  <2> QED
    BY <2>1, <2>3, <2>4, <2>5 DEF AtMostTop, Scaled
<1> QED
  BY <1>2, <1>3

LEMMA MulIntIs ==
  ASSUME Sizes, NEW a, NEW m, NEW i, i \in Nat, Holds(a, m), i * m <= 32
  PROVE  /\ Holds(MulInt(a, i), i * m)
         /\ Scaled(i, Value(a), Value(MulInt(a, i)))
<1>1. /\ AtMost(a[0], m) /\ AtMost(a[1], m) /\ AtMost(a[2], m) /\ AtMost(a[3], m)
      /\ AtMostTop(a[4], m)
      /\ Value(a) = Five(a[0], a[1], a[2], a[3], a[4])
  BY HeldNumbers
<1>2. i * m = m * i /\ m * i <= 32
  BY SMT DEF Holds
<1>3. PICK r : r = MulInt(a, i)
  OBVIOUS
<1>4. PICK s0, s1, s2, s3, s4 :
        s0 = a[0] * i /\ s1 = a[1] * i /\ s2 = a[2] * i /\ s3 = a[3] * i /\ s4 = a[4] * i
  OBVIOUS
<1>5. /\ AtMost(s0, m * i) /\ AtMost(s1, m * i) /\ AtMost(s2, m * i) /\ AtMost(s3, m * i)
      /\ AtMostTop(s4, m * i)
      /\ Scaled(i, a[0], s0) /\ Scaled(i, a[1], s1) /\ Scaled(i, a[2], s2)
      /\ Scaled(i, a[3], s3) /\ Scaled(i, a[4], s4)
  BY <1>1, <1>2, <1>4, AtMostScaled
<1>6. U64(s0) = s0 /\ U64(s1) = s1 /\ U64(s2) = s2 /\ U64(s3) = s3 /\ U64(s4) = s4
  BY <1>5, AtMostSmall
<1>7. /\ r[0] = s0 /\ r[1] = s1 /\ r[2] = s2 /\ r[3] = s3 /\ r[4] = s4
      /\ r = [j \in Limbs |-> r[j]]
  BY <1>3, <1>4, <1>6 DEF MulInt, Limbs
<1>8. r \in [Limbs -> Nat]
  <2>1. s0 \in Nat /\ s1 \in Nat /\ s2 \in Nat /\ s3 \in Nat /\ s4 \in Nat
    BY <1>5 DEF AtMost, AtMostTop
  <2>2. \A j \in Limbs : r[j] \in Nat
    BY <1>7, <2>1 DEF Limbs
  <2> QED
    BY <1>7, <2>2
<1>9. Holds(r, m * i)
  BY <1>5, <1>7, <1>8, NumbersHeld
<1>10. Scaled(i, Five(a[0], a[1], a[2], a[3], a[4]), Five(s0, s1, s2, s3, s4))
  BY <1>5, FiveScaled
<1>11. Value(r) = Five(s0, s1, s2, s3, s4)
  BY <1>7, Zenon DEF Value, Five
<1> QED
  BY <1>1, <1>2, <1>3, <1>9, <1>10, <1>11, Zenon

LEMMA AddendIs == MaxAddend \in Nat /\ MaxAddend <= 65535 /\ Register!MaxAddend = MaxAddend
BY SMT DEF MaxAddend, Register!MaxAddend

LEMMA AddIntIs ==
  ASSUME Sizes, NEW a, NEW m, NEW i, i \in 0..MaxAddend, Holds(a, m), m < 32
  PROVE  /\ Holds(AddInt(a, i), m + 1)
         /\ Plus(Value(a), i, Value(AddInt(a, i)))
<1>1. /\ AtMost(a[0], m) /\ AtMost(a[1], m) /\ AtMost(a[2], m) /\ AtMost(a[3], m)
      /\ AtMostTop(a[4], m)
      /\ Value(a) = Five(a[0], a[1], a[2], a[3], a[4])
  BY HeldNumbers
<1>m. m \in Nat /\ m + 1 <= 32 /\ m <= m + 1 /\ m + 1 \in Nat
  BY DEF Holds
<1>2. AtMost(i, 1)
  BY SizeFacts, AddendIs DEF AtMost
<1>3. PICK s0 : s0 = a[0] + i
  OBVIOUS
<1>4. AtMost(s0, m + 1) /\ Plus(a[0], i, s0)
  BY <1>1, <1>2, <1>3, <1>m, AtMostSum
<1>5. U64(s0) = s0
  BY <1>4, AtMostSmall
<1>6. PICK r : r = AddInt(a, i)
  OBVIOUS
<1>7. a \in [Limbs -> Nat] /\ s0 \in Nat
  BY <1>4 DEF Holds, AtMost
<1>8. /\ r[0] = s0 /\ r[1] = a[1] /\ r[2] = a[2] /\ r[3] = a[3] /\ r[4] = a[4]
      /\ r \in [Limbs -> Nat]
  BY <1>3, <1>5, <1>6, <1>7 DEF AddInt, Limbs
<1>9. Holds(a, m + 1)
  BY <1>m, HoldsMore
<1>10. /\ AtMost(a[1], m + 1) /\ AtMost(a[2], m + 1) /\ AtMost(a[3], m + 1)
       /\ AtMostTop(a[4], m + 1)
  BY <1>9, HeldNumbers
<1>11. Holds(r, m + 1)
  BY <1>4, <1>8, <1>10, NumbersHeld
<1>12. PICK h : h = a[1] + B * (a[2] + B * (a[3] + B * a[4]))
  OBVIOUS
<1>13. Value(a) = a[0] + B * h /\ Value(r) = s0 + B * h
  BY <1>8, <1>12, Zenon DEF Value
<1>14. B * h \in Int
  <2>1. a[1] \in Int /\ a[2] \in Int /\ a[3] \in Int /\ a[4] \in Int /\ B \in Int
    BY <1>7, SizeFacts DEF Limbs
  <2> QED
    BY <1>12, <2>1, SMT
<1> QED
  BY <1>4, <1>6, <1>11, <1>13, <1>14, SMT DEF Plus

(* A limb of a, with that of P added if a is odd, is shifted down, and the  *)
(* bit that leaves the next limb comes in at the top.                       *)
Shifted(x, m, odd, l, t, g, e, f, z) ==
  /\ m <= 31 /\ odd \in {0, 1} /\ f \in {0, 1}
  /\ t = x + odd * l /\ Divides(t, 2, g, e) /\ z = g + f * (B \div 2)

LowPart(l)    == l \in Nat /\ l <= M
TopPart(l, f) == l = T - 1 /\ f = 0

LEMMA HalfLimb ==
  ASSUME Sizes, NEW x, NEW m, NEW odd, NEW l, NEW t, NEW g, NEW e, NEW f, NEW z,
         Shifted(x, m, odd, l, t, g, e, f, z)
  PROVE  /\ AtMost(x, m) /\ LowPart(l)
              => /\ AtMost(z, (m \div 2) + 1) /\ U64(t) = t
                 /\ z \in Int /\ 2 * z = t - e + f * B
         /\ AtMostTop(x, m) /\ TopPart(l, f)
              => /\ AtMostTop(z, (m \div 2) + 1) /\ U64(t) = t
                 /\ z \in Int /\ 2 * z = t - e
<1>0. /\ m <= 31 /\ odd \in {0, 1} /\ f \in {0, 1}
      /\ t = x + odd * l /\ Divides(t, 2, g, e) /\ z = g + f * (B \div 2)
  BY DEF Shifted
<1>1. /\ M \in Nat /\ T \in Nat /\ M = B - 1 /\ B = 16 * T /\ B \in Nat /\ T - 1 \in Nat
      /\ Word = 4096 * B /\ Word \in Nat /\ T > 65535
  BY SizeFacts
<1>2. B \div 2 = 8 * T
  BY <1>1
<1>3. g \in Int /\ e \in {0, 1} /\ t = 2 * g + e
  BY <1>0 DEF Divides
<1>4. ASSUME AtMost(x, m), l \in Nat, l <= M
      PROVE  /\ AtMost(z, (m \div 2) + 1) /\ U64(t) = t
             /\ z \in Int /\ 2 * z = t - e + f * B
  <2>1. x \in Nat /\ m \in Nat /\ x <= 2 * m * M
    BY <1>4 DEF AtMost
  <2>2. odd * l \in Nat /\ odd * l <= M
    BY <1>0, <1>1, <1>4
  <2>3. PICK u \in Nat : u = m * M
    BY <1>1, <2>1, SMT
  <2>4. 2 * m * M = 2 * u
    BY <1>1, <2>1, <2>3, SMT
  <2>o. PICK o \in Nat : o = odd * l
    BY <2>2
  <2>5. t \in Nat /\ t <= 2 * u + M
    BY <1>0, <1>1, <2>1, <2>2, <2>4, <2>o
  <2>6. M * m <= M * 31 /\ u = M * m
    BY <1>0, <1>1, <2>1, <2>3, Monotone
  <2>7. U64(t) = t
    <3>1. t < Word
      BY <1>1, <2>5, <2>6
    <3> QED
      BY <1>1, <2>5, <3>1, Fits DEF U64
  <2>8. z \in Int /\ 2 * z = t - e + f * B
    <3>1. CASE f = 0
      BY <1>0, <1>1, <1>2, <1>3, <3>1
    <3>2. CASE f = 1
      BY <1>0, <1>1, <1>2, <1>3, <3>2
    <3> QED
      BY <1>0, <3>1, <3>2
  <2>9. z \in Nat /\ z <= u + M
    <3>1. g \in Nat
      BY <1>3, <2>5
    <3>2. 2 * z <= 2 * u + M + B
      BY <1>0, <1>1, <1>3, <2>5, <2>8
    <3> QED
      BY <1>0, <1>1, <1>2, <2>8, <3>1, <3>2
  <2>10. PICK k \in Nat : k = (m \div 2) + 1 /\ k <= 16 /\ m + 1 <= 2 * k
    BY <1>0, <2>1
  <2>11. M * (m + 1) <= M * (2 * k)
    BY <1>1, <2>1, <2>10, Monotone
  <2>12. M * (m + 1) = u + M /\ M * (2 * k) = 2 * k * M /\ 2 * k * M \in Int
    BY <1>1, <2>1, <2>3, <2>10, SMT
  <2>13. PICK w \in Int : w = 2 * k * M
    BY <2>12
  <2>14. z <= w
    BY <1>1, <2>9, <2>11, <2>12, <2>13
  <2> QED
    BY <2>7, <2>8, <2>9, <2>10, <2>13, <2>14 DEF AtMost
<1>5. ASSUME AtMostTop(x, m), l = T - 1, f = 0
      PROVE  /\ AtMostTop(z, (m \div 2) + 1) /\ U64(t) = t
             /\ z \in Int /\ 2 * z = t - e
  <2>1. x \in Nat /\ m \in Nat /\ x <= 2 * m * (T - 1)
    BY <1>5 DEF AtMostTop
  <2>2. odd * l \in Nat /\ odd * l <= T - 1
    BY <1>0, <1>1, <1>5
  <2>t. PICK q \in Nat : q = T - 1
    BY <1>1
  <2>3. PICK u \in Nat : u = m * q
    BY <2>t, <2>1, SMT
  <2>4. 2 * m * (T - 1) = 2 * u
    BY <2>t, <2>1, <2>3, SMT
  <2>o. PICK o \in Nat : o = odd * l
    BY <2>2
  <2>5. t \in Nat /\ t <= 2 * u + q
    BY <1>0, <2>1, <2>2, <2>4, <2>o, <2>t
  <2>6. q * m <= q * 31 /\ u = q * m
    BY <1>0, <2>t, <2>1, <2>3, Monotone
  <2>7. U64(t) = t
    <3>1. t < Word
      BY <1>1, <2>5, <2>6, <2>t
    <3> QED
      BY <1>1, <2>5, <3>1, Fits DEF U64
  <2>8. z \in Int /\ 2 * z = t - e
    BY <1>0, <1>1, <1>2, <1>3, <1>5
  <2>9. z \in Nat /\ z <= u + q
    <3>1. g \in Nat
      BY <1>3, <2>5
    <3>2. 2 * z <= 2 * u + q
      BY <1>3, <2>5, <2>8
    <3> QED
      BY <1>0, <1>1, <1>2, <1>5, <2>8, <3>1, <3>2, <2>t
  <2>10. PICK k \in Nat : k = (m \div 2) + 1 /\ k <= 16 /\ m + 1 <= 2 * k
    BY <1>0, <2>1
  <2>11. q * (m + 1) <= q * (2 * k)
    BY <2>t, <2>1, <2>10, Monotone
  <2>12. q * (m + 1) = u + q /\ q * (2 * k) = 2 * k * (T - 1) /\ 2 * k * (T - 1) \in Int
    BY <2>t, <2>1, <2>3, <2>10, SMT
  <2>13. PICK w \in Int : w = 2 * k * (T - 1)
    BY <2>12
  <2>14. z <= w
    BY <2>t, <2>9, <2>11, <2>12, <2>13
  <2> QED
    BY <2>7, <2>8, <2>9, <2>10, <2>13, <2>14 DEF AtMostTop
<1> QED
  BY <1>4, <1>5 DEF LowPart, TopPart

(* Twice what the shifted limbs stand for: each has lost its last bit and   *)
(* gained that of the next.                                                 *)
Twice(t, e, f, y) == t \in Int /\ e \in Int /\ f \in Int /\ y = t - e + f * B

LEMMA ShiftedDown ==
  ASSUME Sizes, NEW t0, NEW t1, NEW t2, NEW t3, NEW t4,
         NEW e0, NEW e1, NEW e2, NEW e3, NEW e4, NEW y0, NEW y1, NEW y2, NEW y3, NEW y4,
         Twice(t0, e0, e1, y0), Twice(t1, e1, e2, y1), Twice(t2, e2, e3, y2),
         Twice(t3, e3, e4, y3), Twice(t4, e4, 0, y4)
  PROVE  Five(y0, y1, y2, y3, y4) = Five(t0, t1, t2, t3, t4) - e0
<1>0. /\ t0 \in Int /\ t1 \in Int /\ t2 \in Int /\ t3 \in Int /\ t4 \in Int
      /\ e0 \in Int /\ e1 \in Int /\ e2 \in Int /\ e3 \in Int /\ e4 \in Int
      /\ y0 = t0 - e0 + e1 * B /\ y1 = t1 - e1 + e2 * B /\ y2 = t2 - e2 + e3 * B
      /\ y3 = t3 - e3 + e4 * B /\ y4 = t4 - e4 + 0 * B
  BY DEF Twice
<1>b. B \in Nat
  BY SizeFacts
<1>s. \A t, e, h \in Int, f \in Int : (t - e + f * B) + B * (h - f) = (t + B * h) - e
  BY <1>b, SMT
<1>i. \A t, h \in Int : t + B * h \in Int
  BY <1>b, SMT
<1>z. y4 = t4 - e4
  BY <1>b, <1>0
<1>1. PICK h3 \in Int : h3 = t3 + B * t4
  BY <1>0, <1>i
<1>2. PICK h2 \in Int : h2 = t2 + B * h3
  BY <1>0, <1>i
<1>3. PICK h1 \in Int : h1 = t1 + B * h2
  BY <1>0, <1>i
<1>4. PICK h0 \in Int : h0 = t0 + B * h1
  BY <1>0, <1>i
<1>5. (t3 - e3 + e4 * B) + B * (t4 - e4) = h3 - e3
  BY <1>0, <1>s, <1>1
<1>6. (t2 - e2 + e3 * B) + B * (h3 - e3) = h2 - e2
  BY <1>0, <1>s, <1>2
<1>7. (t1 - e1 + e2 * B) + B * (h2 - e2) = h1 - e1
  BY <1>0, <1>s, <1>3
<1>8. (t0 - e0 + e1 * B) + B * (h1 - e1) = h0 - e0
  BY <1>0, <1>s, <1>4
<1> QED
  BY <1>0, <1>z, <1>1, <1>2, <1>3, <1>4, <1>5, <1>6, <1>7, <1>8, Zenon DEF Five

LEMMA HalfIs ==
  ASSUME Sizes, NEW a, NEW m, Holds(a, m), m <= 31
  PROVE  /\ Holds(Half(a), (m \div 2) + 1)
         /\ 2 * Value(Half(a)) = Value(a) + (a[0] % 2) * Prime
<1>1. /\ AtMost(a[0], m) /\ AtMost(a[1], m) /\ AtMost(a[2], m) /\ AtMost(a[3], m)
      /\ AtMostTop(a[4], m)
      /\ Value(a) = Five(a[0], a[1], a[2], a[3], a[4])
  BY HeldNumbers
<1>2. /\ M \in Nat /\ T \in Nat \ {0} /\ M = B - 1 /\ B = 16 * T /\ B \in Nat /\ T - 1 \in Nat
      /\ Lowest = B - C /\ Lowest \in Nat /\ C \in Nat \ {0} /\ Lowest <= M /\ M <= M
  BY SizeFacts
<1>a. PICK a0, a1, a2, a3, a4 \in Nat :
        a[0] = a0 /\ a[1] = a1 /\ a[2] = a2 /\ a[3] = a3 /\ a[4] = a4
  BY <1>1 DEF AtMost, AtMostTop
<1>o. PICK odd \in {0, 1} : odd = a[0] % 2 /\ odd = a0 % 2
  BY <1>a
<1>3. PICK l, p, q \in Nat : l = odd * Lowest /\ p = odd * M /\ q = odd * (T - 1)
  BY <1>2
<1>4. PICK t0, t1, t2, t3, t4 \in Nat :
        t0 = a0 + l /\ t1 = a1 + p /\ t2 = a2 + p /\ t3 = a3 + p /\ t4 = a4 + q
  OBVIOUS
<1>d. /\ Divides(t0, 2, t0 \div 2, t0 % 2) /\ Divides(t1, 2, t1 \div 2, t1 % 2)
      /\ Divides(t2, 2, t2 \div 2, t2 % 2) /\ Divides(t3, 2, t3 \div 2, t3 % 2)
      /\ Divides(t4, 2, t4 \div 2, t4 % 2)
      /\ 0 \in {0, 1} /\ t1 % 2 \in {0, 1} /\ t2 % 2 \in {0, 1} /\ t3 % 2 \in {0, 1}
      /\ t4 % 2 \in {0, 1}
  <2>1. \A t \in Nat : Divides(t, 2, t \div 2, t % 2) /\ t % 2 \in {0, 1}
    BY SMT DEF Divides
  <2> QED
    BY <2>1
<1>5. PICK z0, z1, z2, z3, z4 :
        /\ z0 = (t0 \div 2) + (t1 % 2) * (B \div 2)
        /\ z1 = (t1 \div 2) + (t2 % 2) * (B \div 2)
        /\ z2 = (t2 \div 2) + (t3 % 2) * (B \div 2)
        /\ z3 = (t3 \div 2) + (t4 % 2) * (B \div 2)
        /\ z4 = (t4 \div 2) + 0 * (B \div 2)
  OBVIOUS
<1>t. /\ t0 = a[0] + odd * Lowest /\ t1 = a[1] + odd * M /\ t2 = a[2] + odd * M
      /\ t3 = a[3] + odd * M /\ t4 = a[4] + odd * (T - 1)
  BY <1>a, <1>3, <1>4, Zenon
<1>s. /\ Shifted(a[0], m, odd, Lowest, t0, t0 \div 2, t0 % 2, t1 % 2, z0)
      /\ Shifted(a[1], m, odd, M, t1, t1 \div 2, t1 % 2, t2 % 2, z1)
      /\ Shifted(a[2], m, odd, M, t2, t2 \div 2, t2 % 2, t3 % 2, z2)
      /\ Shifted(a[3], m, odd, M, t3, t3 \div 2, t3 % 2, t4 % 2, z3)
      /\ Shifted(a[4], m, odd, T - 1, t4, t4 \div 2, t4 % 2, 0, z4)
  BY <1>5, <1>d, <1>o, <1>t, Zenon DEF Shifted
<1>p. LowPart(Lowest) /\ LowPart(M) /\ TopPart(T - 1, 0)
  BY <1>2 DEF LowPart, TopPart
<1>6. /\ AtMost(z0, (m \div 2) + 1) /\ U64(t0) = t0 /\ z0 \in Int
      /\ 2 * z0 = t0 - (t0 % 2) + (t1 % 2) * B
  <2>1. /\ AtMost(a[0], m) /\ LowPart(Lowest)
        /\ Shifted(a[0], m, odd, Lowest, t0, t0 \div 2, t0 % 2, t1 % 2, z0)
    BY <1>1, <1>p, <1>s
  <2> QED
    BY <2>1, HalfLimb
<1>7. /\ AtMost(z1, (m \div 2) + 1) /\ U64(t1) = t1 /\ z1 \in Int
      /\ 2 * z1 = t1 - (t1 % 2) + (t2 % 2) * B
  <2>1. /\ AtMost(a[1], m) /\ LowPart(M)
        /\ Shifted(a[1], m, odd, M, t1, t1 \div 2, t1 % 2, t2 % 2, z1)
    BY <1>1, <1>p, <1>s
  <2> QED
    BY <2>1, HalfLimb
<1>8. /\ AtMost(z2, (m \div 2) + 1) /\ U64(t2) = t2 /\ z2 \in Int
      /\ 2 * z2 = t2 - (t2 % 2) + (t3 % 2) * B
  <2>1. /\ AtMost(a[2], m) /\ LowPart(M)
        /\ Shifted(a[2], m, odd, M, t2, t2 \div 2, t2 % 2, t3 % 2, z2)
    BY <1>1, <1>p, <1>s
  <2> QED
    BY <2>1, HalfLimb
<1>9. /\ AtMost(z3, (m \div 2) + 1) /\ U64(t3) = t3 /\ z3 \in Int
      /\ 2 * z3 = t3 - (t3 % 2) + (t4 % 2) * B
  <2>1. /\ AtMost(a[3], m) /\ LowPart(M)
        /\ Shifted(a[3], m, odd, M, t3, t3 \div 2, t3 % 2, t4 % 2, z3)
    BY <1>1, <1>p, <1>s
  <2> QED
    BY <2>1, HalfLimb
<1>10. /\ AtMostTop(z4, (m \div 2) + 1) /\ U64(t4) = t4 /\ z4 \in Int
       /\ 2 * z4 = t4 - (t4 % 2)
  <2>1. PICK l4, f4 : l4 = T - 1 /\ f4 = 0
    OBVIOUS
  <2>2. /\ AtMostTop(a[4], m) /\ TopPart(l4, f4)
        /\ Shifted(a[4], m, odd, l4, t4, t4 \div 2, t4 % 2, f4, z4)
    BY <1>1, <1>p, <1>s, <2>1, Zenon
  <2> QED
    <3>1. AtMostTop(z4, (m \div 2) + 1)
      BY <2>2, HalfLimb
    <3>2. U64(t4) = t4
      BY <2>2, HalfLimb
    <3>3. z4 \in Int
      BY <2>2, HalfLimb
    <3>4. 2 * z4 = t4 - (t4 % 2)
      BY <2>2, HalfLimb
    <3> QED
      BY <3>1, <3>2, <3>3, <3>4
<1>11. Half(a) = L5(z0, z1, z2, z3, z4)
  <2>1. PICK t : t = L5(t0, t1, t2, t3, t4)
    OBVIOUS
  <2>2. t[0] = t0 /\ t[1] = t1 /\ t[2] = t2 /\ t[3] = t3 /\ t[4] = t4
    BY <2>1, L5Is
  <2>3. t = L5(U64(a[0] + odd * Lowest), U64(a[1] + odd * M), U64(a[2] + odd * M),
               U64(a[3] + odd * M), U64(a[4] + odd * (T - 1)))
    BY <1>6, <1>7, <1>8, <1>9, <1>10, <1>t, <2>1, Zenon
  <2>4. Half(a) = L5((t[0] \div 2) + (t[0 + 1] % 2) * (B \div 2),
                     (t[1] \div 2) + (t[1 + 1] % 2) * (B \div 2),
                     (t[2] \div 2) + (t[2 + 1] % 2) * (B \div 2),
                     (t[3] \div 2) + (t[3 + 1] % 2) * (B \div 2), t[4] \div 2)
    BY <1>o, <2>3, Zenon DEF Half
  <2>5. 0 + 1 = 1 /\ 1 + 1 = 2 /\ 2 + 1 = 3 /\ 3 + 1 = 4 /\ z4 = t4 \div 2
    BY <1>2, <1>5
  <2> QED
    BY <1>5, <2>2, <2>4, <2>5, Zenon
<1>12. /\ Holds(Half(a), (m \div 2) + 1)
       /\ Value(Half(a)) = Five(z0, z1, z2, z3, z4)
  BY <1>6, <1>7, <1>8, <1>9, <1>10, <1>11, MadeOf
<1>13. t0 % 2 = 0
  <2>1. C % 2 = 1
    BY DEF Sizes
  <2>2. PICK c \in Nat : C = 2 * c + 1
    BY <1>2, <2>1
  <2>3. CASE odd = 0
    BY <1>2, <1>o, <1>3, <1>4, <2>3
  <2>4. CASE odd = 1
    <3>1. PICK h \in Nat : a0 = 2 * h + 1
      BY <1>o, <2>4
    <3>2. t0 = 2 * (h + 8 * T - c)
      BY <1>2, <1>3, <1>4, <2>2, <2>4, <3>1
    <3> QED
      BY <1>2, <3>2
  <2> QED
    BY <2>3, <2>4
<1>14. Plus(Value(a), odd * Prime, Five(t0, t1, t2, t3, t4))
  <2>1. /\ Plus(a0, l, t0) /\ Plus(a1, p, t1) /\ Plus(a2, p, t2) /\ Plus(a3, p, t3)
        /\ Plus(a4, q, t4)
    BY <1>4 DEF Plus
  <2>2. Plus(Five(a0, a1, a2, a3, a4), Five(l, p, p, p, q), Five(t0, t1, t2, t3, t4))
    BY <2>1, FiveSum
  <2>3. Scaled(odd, Lowest, l) /\ Scaled(odd, M, p) /\ Scaled(odd, T - 1, q)
    BY <1>2, <1>3 DEF Scaled
  <2>4. Scaled(odd, Five(Lowest, M, M, M, T - 1), Five(l, p, p, p, q))
    BY <2>3, FiveScaled
  <2>5. Five(Lowest, M, M, M, T - 1) = Prime
    BY PrimeIs, Zenon DEF Five
  <2>6. Five(l, p, p, p, q) = odd * Prime
    BY <2>4, <2>5, Zenon DEF Scaled
  <2> QED
    BY <1>1, <1>a, <2>2, <2>6, Zenon
<1>15. 2 * Five(z0, z1, z2, z3, z4) = Five(t0, t1, t2, t3, t4)
  <2>1. PICK e0, e1, e2, e3, e4 \in Int :
          e0 = t0 % 2 /\ e1 = t1 % 2 /\ e2 = t2 % 2 /\ e3 = t3 % 2 /\ e4 = t4 % 2
    OBVIOUS
  <2>2. PICK y0, y1, y2, y3, y4 :
          /\ y0 = t0 - e0 + e1 * B /\ y1 = t1 - e1 + e2 * B /\ y2 = t2 - e2 + e3 * B
          /\ y3 = t3 - e3 + e4 * B /\ y4 = t4 - e4
    OBVIOUS
  <2>t. /\ t0 \in Int /\ t1 \in Int /\ t2 \in Int /\ t3 \in Int /\ t4 \in Int
        /\ t4 - e4 = t4 - e4 + 0 * B /\ 0 \in Int
    BY <1>2
  <2>3. /\ Scaled(2, z0, y0) /\ Scaled(2, z1, y1) /\ Scaled(2, z2, y2) /\ Scaled(2, z3, y3)
        /\ Scaled(2, z4, y4)
    <3>1. y0 \in Int /\ y1 \in Int /\ y2 \in Int /\ y3 \in Int /\ y4 \in Int
      BY <1>2, <2>2, SMT
    <3>2. y0 = 2 * z0 /\ y1 = 2 * z1 /\ y2 = 2 * z2 /\ y3 = 2 * z3 /\ y4 = 2 * z4
      BY <1>6, <1>7, <1>8, <1>9, <1>10, <2>1, <2>2, Zenon
    <3> QED
      BY <1>6, <1>7, <1>8, <1>9, <1>10, <3>1, <3>2 DEF Scaled
  <2>4. Scaled(2, Five(z0, z1, z2, z3, z4), Five(y0, y1, y2, y3, y4))
    BY <2>3, FiveScaled
  <2>5. /\ Twice(t0, e0, e1, y0) /\ Twice(t1, e1, e2, y1) /\ Twice(t2, e2, e3, y2)
        /\ Twice(t3, e3, e4, y3) /\ Twice(t4, e4, 0, y4)
    BY <2>1, <2>2, <2>t, Zenon DEF Twice
  <2>6. Five(y0, y1, y2, y3, y4) = Five(t0, t1, t2, t3, t4) - e0
    BY <2>5, ShiftedDown
  <2>7. Five(t0, t1, t2, t3, t4) \in Int
    BY FiveInt
  <2> QED
    BY <1>13, <2>1, <2>4, <2>6, <2>7 DEF Scaled
<1> QED
  BY <1>o, <1>12, <1>14, <1>15, Zenon DEF Plus
--------------------------------------------------------------------------------
(***************************************************************************)
(* The product.  Its two accumulators and what goes into them: a column, a  *)
(* carry of the column before, and what has been folded back from above.    *)
(***************************************************************************)
Acc(x)     == x \in Nat /\ x <= 1290 * (B * B)
Col(x)     == x \in Nat /\ x <= 1280 * (B * B)
Folded(x)  == x \in Nat /\ x <= B * B
CarryIn(x) == x \in Nat /\ x <= 1290 * B

LEMMA SquareFacts ==
  ASSUME Sizes
  PROVE  /\ B * B \in Nat /\ 65536 * B <= B * B
         /\ Word * Word = 4096 * (4096 * (B * B))
<1>1. B \in Nat /\ B >= 65536 /\ Word = 4096 * B
  BY SizeFacts
<1>2. B * 65536 <= B * B /\ B * B \in Int
  BY <1>1, Monotone
<1>3. Word * Word = 4096 * (4096 * (B * B))
  BY <1>1, SMT
<1> QED
  BY <1>1, <1>2, <1>3, SMT

LEMMA AccFits ==
  ASSUME Sizes, NEW x, Acc(x)
  PROVE  U128(x) = x
<1>1. PICK w, q \in Nat : w = Word * Word /\ q = B * B /\ 65536 * B <= q /\ w = 4096 * (4096 * q)
  BY SquareFacts, SMT
<1>2. B \in Nat \ {0}
  BY SizeFacts
<1>3. x \in Nat /\ x < w
  BY <1>1, <1>2 DEF Acc
<1>4. x % w = x
  BY <1>1, <1>3, Fits
<1>5. w = Word * Word
  BY <1>1
<1> QED
  BY <1>4, <1>5 DEF U128

LEMMA AccCarry ==
  ASSUME Sizes, NEW x, Acc(x)
  PROVE  /\ Divides(x, B, x \div B, x % B) /\ CarryIn(x \div B) /\ x % B \in Nat /\ x % B < B
<1>1. B \in Nat \ {0} /\ B >= 65536
  BY SizeFacts
<1>2. x \in Nat /\ x <= 1290 * (B * B)
  BY DEF Acc
<1>3. Divides(x, B, x \div B, x % B)
  <2>1. x \in Nat /\ B \in Nat \ {0}
    BY <1>1, <1>2
  <2> QED
    BY <2>1, Division
<1>4. PICK k \in Nat : k = 1290 * B
  BY <1>1
<1>5. B * (k + 1) = 1290 * (B * B) + B
  BY <1>1, <1>4, SMT
<1>6. x < B * (k + 1)
  <2>1. PICK q \in Nat : q = B * B
    BY <1>1, SMT
  <2> QED
    BY <1>1, <1>2, <1>5, <2>1
<1>7. x \div B \in Nat /\ x \div B <= k
  BY <1>1, <1>2, <1>3, <1>4, <1>6, QuotientBound
<1>8. x % B \in Nat /\ x % B < B
  BY <1>1, <1>2
<1> QED
  BY <1>3, <1>4, <1>7, <1>8 DEF CarryIn

LEMMA AccSum ==
  ASSUME Sizes, NEW q, NEW p, NEW y
  PROVE  /\ Col(p) => Acc(p)
         /\ Col(p) /\ Folded(y) => Acc(p + y)
         /\ CarryIn(q) /\ Col(p) => Acc(q + p)
         /\ CarryIn(q) /\ Col(p) /\ Folded(y) => Acc(q + p + y)
<1>1. PICK s, k \in Nat : s = B * B /\ k = B /\ 65536 * k <= s
  BY SquareFacts, SizeFacts
<1>2. /\ CarryIn(q) => q \in Nat /\ q <= 1290 * k
      /\ Col(p) => p \in Nat /\ p <= 1280 * s
      /\ Folded(y) => y \in Nat /\ y <= s
  BY <1>1 DEF CarryIn, Col, Folded
<1>3. \A z : Acc(z) <=> z \in Nat /\ z <= 1290 * s
  BY <1>1 DEF Acc
<1>4. Col(p) => Acc(p)
  BY <1>1, <1>2, <1>3
<1>5. Col(p) /\ Folded(y) => Acc(p + y)
  BY <1>1, <1>2, <1>3
<1>6. CarryIn(q) /\ Col(p) => Acc(q + p)
  BY <1>1, <1>2, <1>3
<1>7. CarryIn(q) /\ Col(p) /\ Folded(y) => Acc(q + p + y)
  BY <1>1, <1>2, <1>3
<1> QED
  BY <1>4, <1>5, <1>6, <1>7

(* The high and the low word of an accumulator, times R and R * X.          *)
LEMMA Words ==
  ASSUME Sizes, NEW x, Acc(x)
  PROVE  /\ Divides(x, Word, x \div Word, x % Word)
         /\ x \div Word \in Nat /\ x % Word \in Nat /\ U64(x \div Word) = x \div Word
         /\ Folded(R * (x % Word))
         /\ R * X * (x \div Word) \in Nat
         /\ 3 * (R * X * (x \div Word)) <= T * B
<1>1. /\ T \in Nat /\ C \in Nat /\ B \in Nat \ {0} /\ Word \in Nat \ {0} /\ B = 16 * T
      /\ Word = 4096 * B /\ 65535 * C < T /\ R = 16 * C /\ X = 4096 /\ T > 65535
  BY SizeFacts
<1>2. x \in Nat /\ x <= 1290 * (B * B)
  BY DEF Acc
<1>3. /\ Divides(x, Word, x \div Word, x % Word) /\ x \div Word \in Nat
      /\ x % Word \in 0..Word-1 /\ x = Word * (x \div Word) + (x % Word)
  <2>1. x \in Nat /\ Word \in Nat \ {0}
    BY <1>1, <1>2
  <2> QED
    BY <2>1, Division, DivMod
<1>4. PICK h, l \in Nat : h = x \div Word /\ l = x % Word /\ l < Word /\ x = Word * h + l
  <2>1. x % Word \in Nat /\ x % Word < Word
    BY <1>1, <1>3
  <2> QED
    BY <1>3, <2>1
<1>5. 4096 * h <= 1290 * B
  <2>1. ASSUME 4096 * h >= 1290 * B + 1 PROVE FALSE
    <3>1. PICK u, v \in Int : u = 4096 * h /\ v = 1290 * B + 1 /\ v <= u
      BY <1>1, <2>1
    <3>2. B * v <= B * u
      BY <1>1, <3>1, Monotone
    <3>3. B * v = 1290 * (B * B) + B /\ B * u = Word * h
      BY <1>1, <3>1, SMT
    <3>4. PICK s, y, bv, bu \in Int : s = B * B /\ y = Word * h /\ bv = B * v /\ bu = B * u
      BY <1>1, <3>1, SMT
    <3>5. x <= 1290 * s
      BY <1>2, <3>4
    <3>6. x = y + l
      BY <1>4, <3>4
    <3>7. bv <= bu
      BY <3>2, <3>4
    <3>8. bv = 1290 * s + B
      BY <3>3, <3>4
    <3>9. bu = y
      BY <3>3, <3>4
    <3> QED
      BY <1>1, <1>4, <3>5, <3>6, <3>7, <3>8, <3>9
  <2> QED
    BY <1>1, <2>1
<1>6. U64(h) = h
  <2>1. h < Word
    BY <1>1, <1>5
  <2> QED
    BY <1>1, <2>1, Fits DEF U64
<1>7. Folded(R * l)
  <2>1. C * l <= C * (4096 * B)
    BY <1>1, <1>4, Monotone
  <2>2. B * (65536 * C) <= B * B
    BY <1>1, Monotone
  <2>3. B * (65536 * C) = 16 * (C * (4096 * B)) /\ R * l = 16 * (C * l)
    BY <1>1, SMT
  <2>4. PICK u, v, s \in Int : u = C * l /\ v = C * (4096 * B) /\ s = B * B
    BY <1>1, SMT
  <2>5. R * l = 16 * u /\ u <= v /\ 16 * v <= s
    BY <2>1, <2>2, <2>3, <2>4
  <2>6. u \in Nat
    BY <1>1, <2>4, SMT
  <2> QED
    BY <2>4, <2>5, <2>6 DEF Folded
<1>8. R * X * h \in Nat /\ 3 * (R * X * h) <= T * B
  <2>1. C * (4096 * h) <= C * (1290 * B)
    BY <1>1, <1>5, Monotone
  <2>2. B * (61920 * C) <= B * T
    BY <1>1, Monotone
  <2>3. B * (61920 * C) = 48 * (C * (1290 * B)) /\ R * X * h = 16 * (C * (4096 * h))
        /\ B * T = T * B
    BY <1>1, SMT
  <2>4. PICK u, v, s \in Int : u = C * (4096 * h) /\ v = C * (1290 * B) /\ s = T * B
    BY <1>1, SMT
  <2>5. R * X * h = 16 * u /\ u <= v /\ 48 * v <= s
    BY <2>1, <2>2, <2>3, <2>4
  <2>6. u \in Nat
    BY <1>1, <2>4, SMT
  <2> QED
    BY <2>4, <2>5, <2>6
<1>9. x % Word \in Nat
  BY <1>4
<1> QED
  BY <1>3, <1>4, <1>6, <1>7, <1>8, <1>9, Zenon

LEMMA FoldOne ==
  ASSUME Sizes, NEW r, r \in Nat, r < B
  PROVE  Folded(r * R)
<1>1. /\ C \in Nat /\ B \in Nat /\ R = 16 * C /\ 16 * C <= B
  BY SizeFacts
<1>2. B * r <= B * B /\ r * (16 * C) \in Nat
  <2>1. r <= B
    BY <1>1
  <2> QED
    BY <1>1, <2>1, Monotone, SMT
<1>3. r * (16 * C) <= r * B
  BY <1>1, Monotone
<1>4. r * B = B * r
  BY <1>1, SMT
<1>5. PICK u, v, s \in Int : u = r * (16 * C) /\ v = r * B /\ s = B * B
  BY <1>1, SMT
<1>6. u <= s /\ u \in Nat
  BY <1>2, <1>3, <1>4, <1>5
<1> QED
  BY <1>1, <1>5, <1>6, Zenon DEF Folded

(* The limb whose top four bits belong below.                               *)
LEMMA FoldTop ==
  ASSUME Sizes, NEW r, NEW t, r \in Nat, r < B, t \in Nat, t < B
  PROVE  /\ U64(r * (B \div T) + (t \div T)) = 16 * r + (t \div T)
         /\ Folded((16 * r + (t \div T)) * C)
         /\ Divides(t, T, t \div T, t % T) /\ t \div T \in Nat /\ t % T \in Nat /\ t % T < T
<1>1. /\ T \in Nat \ {0} /\ C \in Nat /\ B \in Nat /\ B = 16 * T /\ Word = 4096 * B /\ Word \in Nat
      /\ 32 * C <= B
  BY SizeFacts
<1>2. /\ Divides(t, T, t \div T, t % T) /\ t \div T \in Nat /\ t % T \in 0..T-1
  BY <1>1, Division, DivMod
<1>3. t \div T <= 15
  BY <1>1, QuotientAtMost
<1>4. B \div T = 16
  <2>1. Divides(B, T, 16, 0)
    BY <1>1 DEF Divides
  <2> QED
    BY <1>1, <2>1, QuotientIs
<1>5. PICK u \in Nat : u = 16 * r + (t \div T) /\ u <= 32 * B /\ u < Word
  BY <1>1, <1>2, <1>3
<1>6. U64(u) = u
  BY <1>1, <1>5, Fits DEF U64
<1>7. r * (B \div T) + (t \div T) = u
  BY <1>4, <1>5
<1>8. Folded(u * C)
  <2>1. C * u <= C * (32 * B)
    BY <1>1, <1>5, Monotone
  <2>2. B * (32 * C) <= B * B
    BY <1>1, Monotone
  <2>3. B * (32 * C) = C * (32 * B) /\ u * C = C * u
    BY <1>1, SMT
  <2>4. PICK x, y, s \in Int : x = u * C /\ y = C * (32 * B) /\ s = B * B /\ x \in Nat
    BY <1>1, SMT
  <2>5. x <= s
    BY <2>1, <2>2, <2>3, <2>4
  <2> QED
    BY <2>4, <2>5, Zenon DEF Folded
<1>9. t % T \in Nat /\ t % T < T
  BY <1>1, <1>2
<1> QED
  BY <1>2, <1>5, <1>6, <1>7, <1>8, <1>9, Zenon

LEMMA FoldWord ==
  ASSUME Sizes, NEW x, Acc(x)
  PROVE  Folded(R * X * (x \div Word))
<1>1. T \in Nat /\ B \in Nat /\ T <= B
  BY SizeFacts
<1>2. B * T <= B * B /\ T * B = B * T
  BY <1>1, Monotone, SMT
<1>3. R * X * (x \div Word) \in Nat /\ 3 * (R * X * (x \div Word)) <= T * B
  BY Words
<1>4. PICK y, s, v : y = R * X * (x \div Word) /\ s = B * B /\ v = T * B
  OBVIOUS
<1>5. y \in Nat /\ s \in Int /\ v \in Int /\ 3 * y <= v /\ v <= s
  BY <1>1, <1>2, <1>3, <1>4
<1>6. y <= s
  BY <1>5
<1> QED
  BY <1>4, <1>5, <1>6, Zenon DEF Folded

(* The last accumulator leaves the top limb below 2 * T.                    *)
LEMMA LastFits ==
  ASSUME Sizes, NEW q, NEW y, NEW t, CarryIn(q), y \in Nat, 3 * y <= T * B, t \in Nat, t < B
  PROVE  Acc(q + y + t) /\ (q + y + t) \div B <= T - 1
<1>1. T \in Nat \ {0} /\ B \in Nat \ {0} /\ B = 16 * T /\ T > 65535
  BY SizeFacts
<1>2. PICK s, v \in Nat : s = B * B /\ v = T * B /\ 65536 * B <= s /\ 65536 * B <= v /\ v <= s
  <2>1. B * T <= B * B /\ B * 65536 <= B * T /\ B * 65536 <= B * B
    BY <1>1, Monotone
  <2>2. T * B = B * T /\ B * 65536 = 65536 * B /\ T * B \in Nat /\ B * B \in Nat
    BY <1>1, SMT
  <2> QED
    BY <2>1, <2>2
<1>3. PICK k \in Nat : k = 1290 * B /\ q \in Nat /\ q <= k
  BY <1>1 DEF CarryIn
<1>4. PICK x \in Nat : x = q + y + t /\ x < v /\ x <= 1290 * s
  BY <1>1, <1>2, <1>3
<1>5. Acc(x)
  <2>1. s = B * B /\ x <= 1290 * s
    BY <1>2, <1>4
  <2>2. x <= 1290 * (B * B)
    BY <2>1, SMT
  <2> QED
    BY <2>2 DEF Acc
<1>6. x \div B <= T - 1
  <2>1. v = B * ((T - 1) + 1)
    BY <1>1, <1>2, SMT
  <2>2. T - 1 \in Nat
    BY <1>1
  <2>3. PICK k1 \in Nat : k1 = T - 1
    BY <2>2
  <2>4. x < B * (k1 + 1)
    BY <1>4, <2>1, <2>3
  <2> QED
    BY <1>1, <2>3, <2>4, QuotientAtMost
<1> QED
  BY <1>4, <1>5, <1>6, SMT

--------------------------------------------------------------------------------
(* What an accumulator keeps of a column and what it passes on: with f      *)
(* already counted elsewhere, it is r here and e further up.                *)
PassesOn(p, e, r, f) == p \in Int /\ e \in Int /\ r \in Int /\ f \in Int /\ p + f = B * e + r

LEMMA PassedOn ==
  ASSUME Sizes, NEW p, NEW e, NEW r, NEW f, NEW u, NEW v,
         PassesOn(p, e, r, f), Plus(u, e, v)
  PROVE  Plus(Join(p, u), f, Join(r, v))
<1>1. B \in Nat
  BY SizeFacts
<1>2. /\ p \in Int /\ e \in Int /\ r \in Int /\ f \in Int /\ u \in Int /\ v \in Int
      /\ p = B * e + r - f /\ v = u + e
  BY <1>1, SMT DEF PassesOn, Plus
<1>3. r + B * (u + e) = ((B * e + r - f) + B * u) + f
  BY <1>1, <1>2, SMT
<1>4. p + B * u \in Int /\ r + B * v \in Int
  BY <1>1, <1>2, SMT
<1> QED
  BY <1>2, <1>3, <1>4, Zenon DEF Plus, Join

LEMMA PutAside ==
  ASSUME NEW u, NEW e, NEW g, NEW v, e \in Int, g \in Int, Plus(u, e + g, v)
  PROVE  Plus(u, e, v - g)
BY SMT DEF Plus

(* All nine columns are the five limbs of the result and so many times P:   *)
(* p are the columns; e and q what the accumulators pass on upwards, g what *)
(* is folded back.                                                          *)
LEMMA FoldedBack ==
  ASSUME Sizes, NEW p0, NEW p1, NEW p2, NEW p3, NEW p4, NEW p5, NEW p6, NEW p7, NEW p8,
         NEW e3, NEW e4, NEW e5, NEW e6, NEW d7, NEW q0, NEW q1, NEW q2, NEW q3,
         NEW r0, NEW r1, NEW r2, NEW r3, NEW t3, NEW t4, NEW r5, NEW r6,
         NEW g0, NEW g1, NEW g2, NEW g3, NEW g4, NEW g5,
         p8 \in Int, g2 \in Int, g1 \in Int, g3 \in Int, g4 \in Int, g5 \in Int,
         PassesOn(p7, 0, d7, e6), PassesOn(p6, e6, r6, e5), PassesOn(p5, e5, r5, e4),
         PassesOn(p4, e4, t4, e3 + g4), PassesOn(p3, e3, t3, g3),
         PassesOn(t3, q3, r3, q2 + g5), PassesOn(p2, q2, r2, q1 + g2),
         PassesOn(p1, q1, r1, q0 + g1), PassesOn(p0, q0, r0, g0)
  PROVE  LET v4 == Join(t4, Join(r5, Join(r6, Join(d7, p8)))) - g4
             v3 == Join(r3, v4 + q3) - g5 - g3
             v1 == Join(r1, Join(r2, v3) - g2) - g1
         IN  Plus(Join(p0, Join(p1, Join(p2, Join(p3, Join(p4, Join(p5, Join(p6,
                    Join(p7, p8)))))))), g0, Join(r0, v1))
<1> DEFINE v4 == Join(t4, Join(r5, Join(r6, Join(d7, p8)))) - g4
           v3 == Join(r3, v4 + q3) - g5 - g3
           v1 == Join(r1, Join(r2, v3) - g2) - g1
<1>0. /\ e3 \in Int /\ q0 \in Int /\ q1 \in Int /\ q2 \in Int /\ q3 \in Int /\ 0 \in Int
  BY DEF PassesOn
<1>8. Plus(p8, 0, p8)
  BY DEF Plus
<1>7. PICK u7, w7 : u7 = Join(p7, p8) /\ w7 = Join(d7, p8) /\ Plus(u7, e6, w7)
  BY <1>8, PassedOn
<1>6. PICK u6, w6 : u6 = Join(p6, u7) /\ w6 = Join(r6, w7) /\ Plus(u6, e5, w6)
  BY <1>7, PassedOn
<1>5. PICK u5, w5 : u5 = Join(p5, u6) /\ w5 = Join(r5, w6) /\ Plus(u5, e4, w5)
  BY <1>6, PassedOn
<1>4. PICK u4, w4 : u4 = Join(p4, u5) /\ w4 = Join(t4, w5) - g4 /\ Plus(u4, e3, w4)
  <2>1. Plus(Join(p4, u5), e3 + g4, Join(t4, w5))
    BY <1>5, PassedOn
  <2>2. Plus(Join(p4, u5), e3, Join(t4, w5) - g4)
    BY <1>0, <2>1, PutAside
  <2> QED
    BY <2>2
<1>3. PICK u3, y3 : u3 = Join(p3, u4) /\ y3 = Join(t3, w4) /\ Plus(u3, g3, y3)
  BY <1>4, PassedOn
<1>a. PICK z3 : z3 = Join(r3, w4 + q3) /\ Plus(y3, q2 + g5, z3)
  <2>1. Plus(w4, q3, w4 + q3)
    BY <1>0, <1>4, SMT DEF Plus
  <2>2. Plus(Join(t3, w4), q2 + g5, Join(r3, w4 + q3))
    BY <2>1, PassedOn
  <2> QED
    BY <1>3, <2>2
<1>b. PICK w3 : w3 = z3 - g5 - g3 /\ Plus(u3, q2, w3)
  BY <1>0, <1>3, <1>a, SMT DEF Plus
<1>2. PICK u2, w2 : u2 = Join(p2, u3) /\ w2 = Join(r2, w3) - g2 /\ Plus(u2, q1, w2)
  <2>1. Plus(Join(p2, u3), q1 + g2, Join(r2, w3))
    BY <1>b, PassedOn
  <2>2. Plus(Join(p2, u3), q1, Join(r2, w3) - g2)
    BY <1>0, <2>1, PutAside
  <2> QED
    BY <2>2
<1>1. PICK u1, w1 : u1 = Join(p1, u2) /\ w1 = Join(r1, w2) - g1 /\ Plus(u1, q0, w1)
  <2>1. Plus(Join(p1, u2), q0 + g1, Join(r1, w2))
    BY <1>2, PassedOn
  <2>2. Plus(Join(p1, u2), q0, Join(r1, w2) - g1)
    BY <1>0, <2>1, PutAside
  <2> QED
    BY <2>2
<1>c. Plus(Join(p0, u1), g0, Join(r0, w1))
  BY <1>1, PassedOn
<1>d. w4 = v4
  BY <1>4, <1>5, <1>6, <1>7, Zenon
<1> HIDE DEF v4
<1>e. w3 = v3
  BY <1>a, <1>b, <1>d, Zenon
<1> HIDE DEF v3
<1>f. w1 = v1
  BY <1>1, <1>2, <1>e, Zenon
<1> HIDE DEF v1
<1>g. Plus(Join(p0, Join(p1, Join(p2, Join(p3, Join(p4, Join(p5, Join(p6, Join(p7, p8)))))))),
           g0, Join(r0, v1))
  BY <1>1, <1>2, <1>3, <1>4, <1>5, <1>6, <1>7, <1>c, <1>f, Zenon
<1> QED
  BY <1>g, Zenon DEF v1, v3, v4

LEMMA Passing ==
  ASSUME Sizes, NEW d, NEW e, NEW r, NEW p, NEW f,
         p \in Int, f \in Int, Divides(d, B, e, r), Plus(p, f, d)
  PROVE  PassesOn(p, e, r, f)
BY DEF Divides, Plus, PassesOn

(* Limbs that mul and sqr accept, and their products.                       *)
Factor(x) == x \in Nat /\ x <= 16 * B
Term(x)   == x \in Nat /\ x <= 256 * (B * B)

LEMMA FactorsAre ==
  ASSUME Sizes, NEW a, NEW m, Holds(a, m), m <= 8
  PROVE  Factor(a[0]) /\ Factor(a[1]) /\ Factor(a[2]) /\ Factor(a[3]) /\ Factor(a[4])
<1>1. M \in Nat /\ T \in Nat \ {0} /\ M = B - 1 /\ B = 16 * T /\ B \in Nat
  BY SizeFacts
<1>m. m \in Nat
  BY DEF Holds
<1>2. M * m <= M * 8 /\ (T - 1) * m <= (T - 1) * 8
  BY <1>1, <1>m, Monotone
<1>3. PICK u, v \in Int : u = 2 * m * M /\ v = 2 * m * (T - 1) /\ u <= 16 * B /\ v <= 16 * B
  <2>1. 2 * m * M = 2 * (M * m) /\ 2 * m * (T - 1) = 2 * ((T - 1) * m)
        /\ M * m \in Int /\ (T - 1) * m \in Int
    BY <1>1, <1>m, SMT
  <2>2. PICK x, y \in Int : x = M * m /\ y = (T - 1) * m
    BY <2>1
  <2> QED
    BY <1>1, <1>2, <2>1, <2>2
<1>4. \A x : AtMost(x, m) => Factor(x)
  <2>1. \A x : AtMost(x, m) => x \in Nat /\ x <= u
    BY <1>3 DEF AtMost
  <2> QED
    BY <1>1, <1>3, <2>1 DEF Factor
<1>5. \A x : AtMostTop(x, m) => Factor(x)
  <2>1. \A x : AtMostTop(x, m) => x \in Nat /\ x <= v
    BY <1>3 DEF AtMostTop
  <2> QED
    BY <1>1, <1>3, <2>1 DEF Factor
<1> QED
  BY <1>4, <1>5, HeldNumbers

LEMMA FactorsTerm ==
  ASSUME Sizes, NEW x, NEW y, Factor(x), Factor(y)
  PROVE  Term(x * y)
<1>1. B \in Nat /\ x \in Nat /\ y \in Nat /\ x <= 16 * B /\ y <= 16 * B
  BY SizeFacts DEF Factor
<1>2. x * y <= x * (16 * B) /\ (16 * B) * x <= (16 * B) * (16 * B) /\ x * y \in Int
  BY <1>1, Monotone
<1>3. (16 * B) * x = x * (16 * B) /\ (16 * B) * (16 * B) = 256 * (B * B) /\ x * y \in Nat
  BY <1>1, SMT
<1>4. PICK u, v, s \in Int : u = x * y /\ v = x * (16 * B) /\ s = 256 * (B * B)
  BY <1>1, SMT
<1>5. u <= s /\ u \in Nat
  BY <1>2, <1>3, <1>4
<1> QED
  BY <1>4, <1>5, Zenon DEF Term

LEMMA FiveTerms ==
  ASSUME Sizes, NEW v, NEW w, NEW x, NEW y, NEW z, Term(v), Term(w), Term(x), Term(y), Term(z)
  PROVE  Col(v + w + x + y + z)
<1>1. PICK s \in Nat : s = B * B
  BY SquareFacts
<1>2. /\ v \in Nat /\ w \in Nat /\ x \in Nat /\ y \in Nat /\ z \in Nat
      /\ v <= 256 * s /\ w <= 256 * s /\ x <= 256 * s /\ y <= 256 * s /\ z <= 256 * s
  BY <1>1 DEF Term
<1>3. v + w + x + y + z \in Nat /\ v + w + x + y + z <= 1280 * s
  BY <1>2
<1> QED
  BY <1>1, <1>3 DEF Col

LEMMA ColumnsAre ==
  ASSUME NEW a, NEW b
  PROVE  /\ Column(a, b, 0) = a[0] * b[0] + 0 + 0 + 0 + 0
         /\ Column(a, b, 1) = a[0] * b[1] + a[1] * b[0] + 0 + 0 + 0
         /\ Column(a, b, 2) = a[0] * b[2] + a[1] * b[1] + a[2] * b[0] + 0 + 0
         /\ Column(a, b, 3) = a[0] * b[3] + a[1] * b[2] + a[2] * b[1] + a[3] * b[0] + 0
         /\ Column(a, b, 4)
              = a[0] * b[4] + a[1] * b[3] + a[2] * b[2] + a[3] * b[1] + a[4] * b[0]
         /\ Column(a, b, 5) = 0 + a[1] * b[4] + a[2] * b[3] + a[3] * b[2] + a[4] * b[1]
         /\ Column(a, b, 6) = 0 + 0 + a[2] * b[4] + a[3] * b[3] + a[4] * b[2]
         /\ Column(a, b, 7) = 0 + 0 + 0 + a[3] * b[4] + a[4] * b[3]
         /\ Column(a, b, 8) = 0 + 0 + 0 + 0 + a[4] * b[4]
<1> DEFINE term(k, i) == IF k - i \in Limbs THEN a[i] * b[k - i] ELSE 0
<1>1. \A k : Column(a, b, k) = term(k, 0) + term(k, 1) + term(k, 2) + term(k, 3) + term(k, 4)
  BY DEF Column
<1>2. \A k, i, j \in Int : k - i = j /\ j \in Limbs => term(k, i) = a[i] * b[j]
  OBVIOUS
<1>3. \A k, i \in Int : k - i < 0 \/ k - i > 4 => term(k, i) = 0
  BY DEF Limbs
<1> HIDE DEF term
<1>0. term(0, 0) = a[0] * b[0] /\ term(0, 1) = 0 /\ term(0, 2) = 0 /\ term(0, 3) = 0
      /\ term(0, 4) = 0
  BY <1>2, <1>3 DEF Limbs
<1>4. /\ term(1, 0) = a[0] * b[1] /\ term(1, 1) = a[1] * b[0] /\ term(1, 2) = 0
      /\ term(1, 3) = 0 /\ term(1, 4) = 0
  BY <1>2, <1>3 DEF Limbs
<1>5. /\ term(2, 0) = a[0] * b[2] /\ term(2, 1) = a[1] * b[1] /\ term(2, 2) = a[2] * b[0]
      /\ term(2, 3) = 0 /\ term(2, 4) = 0
  BY <1>2, <1>3 DEF Limbs
<1>6. /\ term(3, 0) = a[0] * b[3] /\ term(3, 1) = a[1] * b[2] /\ term(3, 2) = a[2] * b[1]
      /\ term(3, 3) = a[3] * b[0] /\ term(3, 4) = 0
  BY <1>2, <1>3 DEF Limbs
<1>7. /\ term(4, 0) = a[0] * b[4] /\ term(4, 1) = a[1] * b[3] /\ term(4, 2) = a[2] * b[2]
      /\ term(4, 3) = a[3] * b[1] /\ term(4, 4) = a[4] * b[0]
  BY <1>2, <1>3 DEF Limbs
<1>8. /\ term(5, 0) = 0 /\ term(5, 1) = a[1] * b[4] /\ term(5, 2) = a[2] * b[3]
      /\ term(5, 3) = a[3] * b[2] /\ term(5, 4) = a[4] * b[1]
  BY <1>2, <1>3 DEF Limbs
<1>9. /\ term(6, 0) = 0 /\ term(6, 1) = 0 /\ term(6, 2) = a[2] * b[4]
      /\ term(6, 3) = a[3] * b[3] /\ term(6, 4) = a[4] * b[2]
  BY <1>2, <1>3 DEF Limbs
<1>10. /\ term(7, 0) = 0 /\ term(7, 1) = 0 /\ term(7, 2) = 0
       /\ term(7, 3) = a[3] * b[4] /\ term(7, 4) = a[4] * b[3]
  BY <1>2, <1>3 DEF Limbs
<1>11. /\ term(8, 0) = 0 /\ term(8, 1) = 0 /\ term(8, 2) = 0 /\ term(8, 3) = 0
       /\ term(8, 4) = a[4] * b[4]
  BY <1>2, <1>3 DEF Limbs
<1> QED
  BY <1>0, <1>1, <1>4, <1>5, <1>6, <1>7, <1>8, <1>9, <1>10, <1>11, Zenon

Columns(a, b) ==
  Join(Column(a, b, 0), Join(Column(a, b, 1), Join(Column(a, b, 2), Join(Column(a, b, 3),
    Join(Column(a, b, 4), Join(Column(a, b, 5), Join(Column(a, b, 6), Join(Column(a, b, 7),
      Column(a, b, 8)))))))))

(* The columns are those of the product, and fit.                           *)
LEMMA ColumnsProduct ==
  ASSUME Sizes, NEW a, NEW b, NEW m, NEW k, Holds(a, m), Holds(b, k), m <= 8, k <= 8
  PROVE  /\ Col(Column(a, b, 0)) /\ Col(Column(a, b, 1)) /\ Col(Column(a, b, 2))
         /\ Col(Column(a, b, 3)) /\ Col(Column(a, b, 4)) /\ Col(Column(a, b, 5))
         /\ Col(Column(a, b, 6)) /\ Col(Column(a, b, 7)) /\ Col(Column(a, b, 8))
         /\ Columns(a, b) = Value(a) * Value(b)
<1>1. /\ Factor(a[0]) /\ Factor(a[1]) /\ Factor(a[2]) /\ Factor(a[3]) /\ Factor(a[4])
      /\ Factor(b[0]) /\ Factor(b[1]) /\ Factor(b[2]) /\ Factor(b[3]) /\ Factor(b[4])
  BY FactorsAre
<1>2. Term(0)
  <2>1. PICK s \in Nat : s = B * B
    BY SquareFacts
  <2> QED
    BY <2>1 DEF Term
<1>c. /\ Column(a, b, 0) = a[0] * b[0] + 0 + 0 + 0 + 0
      /\ Column(a, b, 1) = a[0] * b[1] + a[1] * b[0] + 0 + 0 + 0
      /\ Column(a, b, 2) = a[0] * b[2] + a[1] * b[1] + a[2] * b[0] + 0 + 0
      /\ Column(a, b, 3) = a[0] * b[3] + a[1] * b[2] + a[2] * b[1] + a[3] * b[0] + 0
      /\ Column(a, b, 4)
           = a[0] * b[4] + a[1] * b[3] + a[2] * b[2] + a[3] * b[1] + a[4] * b[0]
      /\ Column(a, b, 5) = 0 + a[1] * b[4] + a[2] * b[3] + a[3] * b[2] + a[4] * b[1]
      /\ Column(a, b, 6) = 0 + 0 + a[2] * b[4] + a[3] * b[3] + a[4] * b[2]
      /\ Column(a, b, 7) = 0 + 0 + 0 + a[3] * b[4] + a[4] * b[3]
      /\ Column(a, b, 8) = 0 + 0 + 0 + 0 + a[4] * b[4]
  BY ColumnsAre
<1>3. \A v, w, x, y, z :
        Term(v) /\ Term(w) /\ Term(x) /\ Term(y) /\ Term(z) => Col(v + w + x + y + z)
  BY FiveTerms
<1>4. \A x, y : Factor(x) /\ Factor(y) => Term(x * y)
  BY FactorsTerm
<1>5. /\ Col(Column(a, b, 0)) /\ Col(Column(a, b, 1)) /\ Col(Column(a, b, 2))
      /\ Col(Column(a, b, 3)) /\ Col(Column(a, b, 4)) /\ Col(Column(a, b, 5))
      /\ Col(Column(a, b, 6)) /\ Col(Column(a, b, 7)) /\ Col(Column(a, b, 8))
  <2>0. Col(Column(a, b, 0))
    BY <1>1, <1>2, <1>3, <1>4, <1>c, Zenon
  <2>1. Col(Column(a, b, 1))
    BY <1>1, <1>2, <1>3, <1>4, <1>c, Zenon
  <2>2. Col(Column(a, b, 2))
    BY <1>1, <1>2, <1>3, <1>4, <1>c, Zenon
  <2>3. Col(Column(a, b, 3))
    BY <1>1, <1>2, <1>3, <1>4, <1>c, Zenon
  <2>4. Col(Column(a, b, 4))
    BY <1>1, <1>2, <1>3, <1>4, <1>c, Zenon
  <2>5. Col(Column(a, b, 5))
    BY <1>1, <1>2, <1>3, <1>4, <1>c, Zenon
  <2>6. Col(Column(a, b, 6))
    BY <1>1, <1>2, <1>3, <1>4, <1>c, Zenon
  <2>7. Col(Column(a, b, 7))
    BY <1>1, <1>2, <1>3, <1>4, <1>c, Zenon
  <2>8. Col(Column(a, b, 8))
    BY <1>1, <1>2, <1>3, <1>4, <1>c, Zenon
  <2> QED
    BY <2>0, <2>1, <2>2, <2>3, <2>4, <2>5, <2>6, <2>7, <2>8
<1>6. PICK x0, x1, x2, x3, x4, y0, y1, y2, y3, y4 \in Nat :
        /\ a[0] = x0 /\ a[1] = x1 /\ a[2] = x2 /\ a[3] = x3 /\ a[4] = x4
        /\ b[0] = y0 /\ b[1] = y1 /\ b[2] = y2 /\ b[3] = y3 /\ b[4] = y4
  BY <1>1 DEF Factor
<1>b. B \in Nat
  BY SizeFacts
<1>7. (x0 + B * (x1 + B * (x2 + B * (x3 + B * x4))))
        * (y0 + B * (y1 + B * (y2 + B * (y3 + B * y4))))
      = (x0 * y0 + 0 + 0 + 0 + 0) + B * ((x0 * y1 + x1 * y0 + 0 + 0 + 0)
        + B * ((x0 * y2 + x1 * y1 + x2 * y0 + 0 + 0)
        + B * ((x0 * y3 + x1 * y2 + x2 * y1 + x3 * y0 + 0)
        + B * ((x0 * y4 + x1 * y3 + x2 * y2 + x3 * y1 + x4 * y0)
        + B * ((0 + x1 * y4 + x2 * y3 + x3 * y2 + x4 * y1)
        + B * ((0 + 0 + x2 * y4 + x3 * y3 + x4 * y2)
        + B * ((0 + 0 + 0 + x3 * y4 + x4 * y3) + B * (0 + 0 + 0 + 0 + x4 * y4))))))))
  BY <1>b, SMT
<1>8. /\ Value(a) = x0 + B * (x1 + B * (x2 + B * (x3 + B * x4)))
      /\ Value(b) = y0 + B * (y1 + B * (y2 + B * (y3 + B * y4)))
  BY <1>6, Zenon DEF Value
<1>9. Columns(a, b) =
        (x0 * y0 + 0 + 0 + 0 + 0) + B * ((x0 * y1 + x1 * y0 + 0 + 0 + 0)
        + B * ((x0 * y2 + x1 * y1 + x2 * y0 + 0 + 0)
        + B * ((x0 * y3 + x1 * y2 + x2 * y1 + x3 * y0 + 0)
        + B * ((x0 * y4 + x1 * y3 + x2 * y2 + x3 * y1 + x4 * y0)
        + B * ((0 + x1 * y4 + x2 * y3 + x3 * y2 + x4 * y1)
        + B * ((0 + 0 + x2 * y4 + x3 * y3 + x4 * y2)
        + B * ((0 + 0 + 0 + x3 * y4 + x4 * y3) + B * (0 + 0 + 0 + 0 + x4 * y4))))))))
  BY <1>6, <1>c, Zenon DEF Columns, Join
<1> QED
  BY <1>5, <1>7, <1>8, <1>9, Zenon

LEMMA MulInnerIs ==
  ASSUME Sizes, NEW a, NEW b, NEW m, NEW k, Holds(a, m), Holds(b, k), m <= 8, k <= 8
  PROVE  /\ Holds(MulInner(a, b), 1)
         /\ Congruent(Value(a) * Value(b), Value(MulInner(a, b)))
<1> DEFINE
      D8 == U128(Column(a, b, 8))
      D3 == U128(Column(a, b, 3) + R * (D8 % Word))
      T3 == D3 % B
      D4 == U128((D3 \div B) + Column(a, b, 4) + R * X * U64(D8 \div Word))
      T4 == D4 % B
      D5 == U128((D4 \div B) + Column(a, b, 5))
      U0 == U64((D5 % B) * (B \div T) + (T4 \div T))
      C0 == U128(Column(a, b, 0) + U0 * C)
      D6 == U128((D5 \div B) + Column(a, b, 6))
      C1 == U128((C0 \div B) + Column(a, b, 1) + (D6 % B) * R)
      D7 == U128((D6 \div B) + Column(a, b, 7))
      C2 == U128((C1 \div B) + Column(a, b, 2) + R * (D7 % Word))
      C3 == U128((C2 \div B) + R * X * U64(D7 \div Word) + T3)
      Top == U64(U64(C3 \div B) + (T4 % T))
<1>def. MulInner(a, b) = L5(C0 % B, C1 % B, C2 % B, C3 % B, Top)
  BY Zenon DEF MulInner
<1>col. PICK p0, p1, p2, p3, p4, p5, p6, p7, p8 :
          /\ p0 = Column(a, b, 0) /\ p1 = Column(a, b, 1) /\ p2 = Column(a, b, 2)
          /\ p3 = Column(a, b, 3) /\ p4 = Column(a, b, 4) /\ p5 = Column(a, b, 5)
          /\ p6 = Column(a, b, 6) /\ p7 = Column(a, b, 7) /\ p8 = Column(a, b, 8)
  OBVIOUS
<1>p. /\ Col(p0) /\ Col(p1) /\ Col(p2) /\ Col(p3) /\ Col(p4) /\ Col(p5) /\ Col(p6)
      /\ Col(p7) /\ Col(p8)
      /\ Join(p0, Join(p1, Join(p2, Join(p3, Join(p4, Join(p5, Join(p6, Join(p7, p8))))))))
           = Value(a) * Value(b)
  <2>1. /\ Col(Column(a, b, 0)) /\ Col(Column(a, b, 1)) /\ Col(Column(a, b, 2))
        /\ Col(Column(a, b, 3)) /\ Col(Column(a, b, 4)) /\ Col(Column(a, b, 5))
        /\ Col(Column(a, b, 6)) /\ Col(Column(a, b, 7)) /\ Col(Column(a, b, 8))
        /\ Columns(a, b) = Value(a) * Value(b)
    BY ColumnsProduct
  <2> QED
    BY <1>col, <2>1, Zenon DEF Columns
<1>8. D8 = p8 /\ Acc(p8)
  BY <1>col, <1>p, AccSum, AccFits
<1> HIDE DEF D8
<1>w8. /\ Divides(p8, Word, p8 \div Word, p8 % Word)
       /\ U64(p8 \div Word) = p8 \div Word
       /\ Folded(R * (p8 % Word)) /\ Folded(R * X * (p8 \div Word))
  BY <1>8, Words, FoldWord
<1>3. PICK d3 : d3 = p3 + R * (p8 % Word)
  OBVIOUS
<1>3a. D3 = d3 /\ Acc(d3)
  <2>1. Acc(d3)
    BY <1>p, <1>w8, <1>3, AccSum
  <2> QED
    BY <1>col, <1>8, <1>3, <2>1, AccFits, Zenon
<1> HIDE DEF D3
<1>3b. /\ Divides(d3, B, d3 \div B, d3 % B) /\ CarryIn(d3 \div B) /\ d3 % B \in Nat /\ d3 % B < B
       /\ T3 = d3 % B
  BY <1>3a, AccCarry
<1> HIDE DEF T3
<1>4. PICK d4 : d4 = (d3 \div B) + p4 + R * X * (p8 \div Word)
  OBVIOUS
<1>4a. D4 = d4 /\ Acc(d4)
  <2>1. Acc(d4)
    BY <1>p, <1>w8, <1>3b, <1>4, AccSum
  <2> QED
    BY <1>col, <1>8, <1>w8, <1>3a, <1>4, <2>1, AccFits, Zenon
<1> HIDE DEF D4
<1>4b. /\ Divides(d4, B, d4 \div B, d4 % B) /\ CarryIn(d4 \div B) /\ d4 % B \in Nat /\ d4 % B < B
       /\ T4 = d4 % B
  BY <1>4a, AccCarry
<1> HIDE DEF T4
<1>5. PICK d5 : d5 = (d4 \div B) + p5
  OBVIOUS
<1>5a. D5 = d5 /\ Acc(d5)
  <2>1. Acc(d5)
    BY <1>p, <1>4b, <1>5, AccSum
  <2> QED
    BY <1>col, <1>4a, <1>5, <2>1, AccFits, Zenon
<1> HIDE DEF D5
<1>5b. /\ Divides(d5, B, d5 \div B, d5 % B) /\ CarryIn(d5 \div B) /\ d5 % B \in Nat /\ d5 % B < B
  BY <1>5a, AccCarry
<1>t. PICK r5, t4 : r5 = d5 % B /\ t4 = d4 % B
  OBVIOUS
<1>u. /\ U64(r5 * (B \div T) + (t4 \div T)) = 16 * r5 + (t4 \div T)
      /\ Folded((16 * r5 + (t4 \div T)) * C)
      /\ Divides(t4, T, t4 \div T, t4 % T) /\ t4 \div T \in Nat /\ t4 % T \in Nat /\ t4 % T < T
  <2>1. r5 \in Nat /\ r5 < B /\ t4 \in Nat /\ t4 < B
    BY <1>4b, <1>5b, <1>t
  <2> QED
    BY <2>1, FoldTop
<1>ua. PICK u0 : u0 = 16 * r5 + (t4 \div T) /\ U0 = u0 /\ Folded(u0 * C)
  <2>1. U0 = 16 * r5 + (t4 \div T)
    BY <1>4b, <1>5a, <1>t, <1>u, Zenon
  <2> QED
    BY <1>u, <2>1, Zenon
<1> HIDE DEF U0
<1>c0. PICK c0 : c0 = p0 + u0 * C
  OBVIOUS
<1>c0a. C0 = c0 /\ Acc(c0)
  <2>1. Acc(c0)
    BY <1>p, <1>ua, <1>c0, AccSum
  <2> QED
    BY <1>col, <1>ua, <1>c0, <2>1, AccFits, Zenon
<1> HIDE DEF C0
<1>c0b. /\ Divides(c0, B, c0 \div B, c0 % B) /\ CarryIn(c0 \div B) /\ c0 % B \in Nat /\ c0 % B < B
  BY <1>c0a, AccCarry
<1>6. PICK d6 : d6 = (d5 \div B) + p6
  OBVIOUS
<1>6a. D6 = d6 /\ Acc(d6)
  <2>1. Acc(d6)
    BY <1>p, <1>5b, <1>6, AccSum
  <2> QED
    BY <1>col, <1>5a, <1>6, <2>1, AccFits, Zenon
<1> HIDE DEF D6
<1>6b. /\ Divides(d6, B, d6 \div B, d6 % B) /\ CarryIn(d6 \div B) /\ d6 % B \in Nat /\ d6 % B < B
       /\ Folded((d6 % B) * R)
  BY <1>6a, AccCarry, FoldOne
<1>c1. PICK c1 : c1 = (c0 \div B) + p1 + (d6 % B) * R
  OBVIOUS
<1>c1a. C1 = c1 /\ Acc(c1)
  <2>1. Acc(c1)
    BY <1>p, <1>c0b, <1>6b, <1>c1, AccSum
  <2> QED
    BY <1>col, <1>c0a, <1>6a, <1>c1, <2>1, AccFits, Zenon
<1> HIDE DEF C1
<1>c1b. /\ Divides(c1, B, c1 \div B, c1 % B) /\ CarryIn(c1 \div B) /\ c1 % B \in Nat /\ c1 % B < B
  BY <1>c1a, AccCarry
<1>7. PICK d7 : d7 = (d6 \div B) + p7
  OBVIOUS
<1>7a. D7 = d7 /\ Acc(d7)
  <2>1. Acc(d7)
    BY <1>p, <1>6b, <1>7, AccSum
  <2> QED
    BY <1>col, <1>6a, <1>7, <2>1, AccFits, Zenon
<1> HIDE DEF D7
<1>w7. /\ Divides(d7, Word, d7 \div Word, d7 % Word)
       /\ U64(d7 \div Word) = d7 \div Word
       /\ Folded(R * (d7 % Word))
       /\ R * X * (d7 \div Word) \in Nat /\ 3 * (R * X * (d7 \div Word)) <= T * B
  BY <1>7a, Words
<1>c2. PICK c2 : c2 = (c1 \div B) + p2 + R * (d7 % Word)
  OBVIOUS
<1>c2a. C2 = c2 /\ Acc(c2)
  <2>1. Acc(c2)
    BY <1>p, <1>c1b, <1>w7, <1>c2, AccSum
  <2> QED
    BY <1>col, <1>c1a, <1>7a, <1>c2, <2>1, AccFits, Zenon
<1> HIDE DEF C2
<1>c2b. /\ Divides(c2, B, c2 \div B, c2 % B) /\ CarryIn(c2 \div B) /\ c2 % B \in Nat /\ c2 % B < B
  BY <1>c2a, AccCarry
<1>c3. PICK c3 : c3 = (c2 \div B) + R * X * (d7 \div Word) + (d3 % B)
  OBVIOUS
<1>c3a. C3 = c3 /\ Acc(c3) /\ c3 \div B <= T - 1
  <2>1. PICK q, y, t : q = c2 \div B /\ y = R * X * (d7 \div Word) /\ t = d3 % B
    OBVIOUS
  <2>2. CarryIn(q) /\ y \in Nat /\ 3 * y <= T * B /\ t \in Nat /\ t < B
    BY <1>c2b, <1>w7, <1>3b, <2>1
  <2>3. Acc(q + y + t) /\ (q + y + t) \div B <= T - 1
    BY <2>2, LastFits
  <2>4. Acc(c3) /\ c3 \div B <= T - 1
    BY <1>c3, <2>1, <2>3, Zenon
  <2> QED
    BY <1>c2a, <1>7a, <1>w7, <1>3b, <1>c3, <2>4, AccFits, Zenon
<1> HIDE DEF C3
<1>c3b. /\ Divides(c3, B, c3 \div B, c3 % B) /\ CarryIn(c3 \div B) /\ c3 % B \in Nat /\ c3 % B < B
  BY <1>c3a, AccCarry
<1>top. PICK z4 : z4 = (c3 \div B) + (t4 % T) /\ Top = z4 /\ z4 \in Nat /\ z4 <= 2 * (T - 1)
  <2>1. T \in Nat \ {0} /\ B = 16 * T /\ Word = 4096 * B /\ Word \in Nat
    BY SizeFacts
  <2>2. PICK q, t \in Nat : q = c3 \div B /\ t = t4 % T /\ q <= T - 1 /\ t < T
    BY <1>c3a, <1>c3b, <1>u DEF CarryIn
  <2>3. q < Word /\ q + t < Word /\ q + t \in Nat /\ q + t <= 2 * (T - 1)
    BY <2>1, <2>2
  <2>4. U64(q) = q /\ U64(q + t) = q + t
    BY <2>1, <2>2, <2>3, Fits DEF U64
  <2>5. Top = q + t
    BY <1>c3a, <1>4b, <1>t, <2>2, <2>4, Zenon
  <2> QED
    BY <2>2, <2>3, <2>5, Zenon
<1> HIDE DEF Top
<1>int. /\ Acc(d7) /\ p8 \in Int
        /\ (d3 \div B) \in Int /\ (d4 \div B) \in Int /\ (d5 \div B) \in Int
        /\ (d6 \div B) \in Int /\ (c0 \div B) \in Int /\ (c1 \div B) \in Int
        /\ (c2 \div B) \in Int /\ (c3 \div B) \in Int
  BY <1>p, <1>3b, <1>4b, <1>5b, <1>6b, <1>7a, <1>c0b, <1>c1b, <1>c2b, <1>c3b DEF CarryIn, Col
<1>g. PICK g0, g1, g2, g3, g4, g5 \in Nat :
        /\ g0 = u0 * C /\ g1 = (d6 % B) * R /\ g2 = R * (d7 % Word) /\ g3 = R * (p8 % Word)
        /\ g4 = R * X * (p8 \div Word) /\ g5 = R * X * (d7 \div Word)
  BY <1>ua, <1>6b, <1>w7, <1>w8 DEF Folded
<1>ci. /\ p0 \in Int /\ p1 \in Int /\ p2 \in Int /\ p3 \in Int /\ p4 \in Int /\ p5 \in Int
       /\ p6 \in Int /\ p7 \in Int /\ d3 % B \in Int /\ d7 \in Int
  BY <1>p, <1>3b, <1>int DEF Col, Acc
<1>on7. PassesOn(p7, 0, d7, d6 \div B)
  <2>1. PICK e \in Int : e = d6 \div B /\ d7 = e + p7
    BY <1>int, <1>7
  <2>2. B \in Int
    BY SizeFacts
  <2>3. PassesOn(p7, 0, d7, e)
    BY <1>ci, <2>1, <2>2 DEF PassesOn
  <2> QED
    BY <2>1, <2>3, Zenon
<1>on6. PassesOn(p6, d6 \div B, d6 % B, d5 \div B)
  <2>1. Plus(p6, d5 \div B, d6)
    BY <1>int, <1>ci, <1>6 DEF Plus
  <2> QED
    BY <1>int, <1>ci, <1>6b, <2>1, Passing
<1>on5. PassesOn(p5, d5 \div B, r5, d4 \div B)
  <2>1. Plus(p5, d4 \div B, d5)
    BY <1>int, <1>ci, <1>5 DEF Plus
  <2> QED
    BY <1>int, <1>ci, <1>5b, <1>t, <2>1, Passing
<1>on4. PassesOn(p4, d4 \div B, t4, (d3 \div B) + g4)
  <2>1. PICK f, e \in Int : e = d3 \div B /\ f = e + g4 /\ d4 = e + p4 + g4
    BY <1>int, <1>g, <1>4
  <2>2. Plus(p4, f, d4)
    BY <1>ci, <2>1 DEF Plus
  <2>3. PassesOn(p4, d4 \div B, t4, f)
    BY <1>ci, <1>4b, <1>t, <2>1, <2>2, Passing
  <2> QED
    BY <2>1, <2>3, Zenon
<1>on3. PassesOn(p3, d3 \div B, d3 % B, g3)
  <2>1. Plus(p3, g3, d3)
    BY <1>ci, <1>g, <1>3 DEF Plus
  <2>2. g3 \in Int
    BY <1>g
  <2> QED
    BY <1>ci, <1>3b, <2>1, <2>2, Passing
<1>ont. PassesOn(d3 % B, c3 \div B, c3 % B, (c2 \div B) + g5)
  <2>1. PICK f, e, x \in Int : e = c2 \div B /\ f = e + g5 /\ x = d3 % B /\ c3 = e + g5 + x
    BY <1>int, <1>ci, <1>g, <1>c3
  <2>2. Plus(x, f, c3)
    BY <2>1 DEF Plus
  <2>3. PassesOn(x, c3 \div B, c3 % B, f)
    BY <1>c3b, <2>1, <2>2, Passing
  <2> QED
    BY <2>1, <2>3, Zenon
<1>on2. PassesOn(p2, c2 \div B, c2 % B, (c1 \div B) + g2)
  <2>1. PICK f, e \in Int : e = c1 \div B /\ f = e + g2 /\ c2 = e + p2 + g2
    BY <1>int, <1>g, <1>c2
  <2>2. Plus(p2, f, c2)
    BY <1>ci, <2>1 DEF Plus
  <2>3. PassesOn(p2, c2 \div B, c2 % B, f)
    BY <1>ci, <1>c2b, <2>1, <2>2, Passing
  <2> QED
    BY <2>1, <2>3, Zenon
<1>on1. PassesOn(p1, c1 \div B, c1 % B, (c0 \div B) + g1)
  <2>1. PICK f, e \in Int : e = c0 \div B /\ f = e + g1 /\ c1 = e + p1 + g1
    BY <1>int, <1>g, <1>c1
  <2>2. Plus(p1, f, c1)
    BY <1>ci, <2>1 DEF Plus
  <2>3. PassesOn(p1, c1 \div B, c1 % B, f)
    BY <1>ci, <1>c1b, <2>1, <2>2, Passing
  <2> QED
    BY <2>1, <2>3, Zenon
<1>on0. PassesOn(p0, c0 \div B, c0 % B, g0)
  <2>1. Plus(p0, g0, c0)
    BY <1>ci, <1>g, <1>c0 DEF Plus
  <2>2. g0 \in Int
    BY <1>g
  <2> QED
    BY <1>ci, <1>c0b, <2>1, <2>2, Passing
<1>num. PICK z0, z1, z2, z3, q3, s4, y4, x5, x6, h7, l7, h8, l8 \in Nat :
          /\ z0 = c0 % B /\ z1 = c1 % B /\ z2 = c2 % B /\ z3 = c3 % B
          /\ q3 = c3 \div B /\ s4 = t4 \div T /\ y4 = t4 % T /\ x5 = r5 /\ x6 = d6 % B
          /\ h7 = d7 \div Word /\ l7 = d7 % Word /\ h8 = p8 \div Word /\ l8 = p8 % Word
  <2>1. /\ d7 \div Word \in Nat /\ d7 % Word \in Nat
        /\ p8 \div Word \in Nat /\ p8 % Word \in Nat
    BY <1>7a, <1>8, Words
  <2>2. c3 \div B \in Nat /\ r5 \in Nat /\ t4 \div T \in Nat /\ t4 % T \in Nat
    BY <1>c3b, <1>5b, <1>t, <1>u DEF CarryIn
  <2> QED
    BY <1>c0b, <1>c1b, <1>c2b, <1>c3b, <1>6b, <2>1, <2>2
<1>sum. LET v4 == Join(t4, Join(r5, Join(x6, Join(d7, p8)))) - g4
            v3 == Join(z3, v4 + q3) - g5 - g3
            v1 == Join(z1, Join(z2, v3) - g2) - g1
        IN  Plus(Value(a) * Value(b), g0, Join(z0, v1))
  <2>1. /\ p8 \in Int /\ g2 \in Int /\ g1 \in Int /\ g3 \in Int /\ g4 \in Int /\ g5 \in Int
    BY <1>int, <1>g
  <2>2. LET v4 == Join(t4, Join(r5, Join(d6 % B, Join(d7, p8)))) - g4
            v3 == Join(c3 % B, v4 + (c3 \div B)) - g5 - g3
            v1 == Join(c1 % B, Join(c2 % B, v3) - g2) - g1
        IN  Plus(Join(p0, Join(p1, Join(p2, Join(p3, Join(p4, Join(p5, Join(p6,
                   Join(p7, p8)))))))), g0, Join(c0 % B, v1))
    BY <1>on0, <1>on1, <1>on2, <1>on3, <1>on4, <1>on5, <1>on6, <1>on7, <1>ont, <2>1,
       FoldedBack
  <2> QED
    BY <1>p, <1>num, <2>2, Zenon
<1>size. PICK t, c, w \in Nat :
           /\ t = T /\ c = C /\ w = B /\ w = 16 * t /\ R = 16 * c /\ X = 4096 /\ Word = 4096 * w
           /\ Prime = t * w * w * w * w - c
  BY SizeFacts DEF Prime
<1>parts. t4 = t * s4 + y4 /\ d7 = 4096 * w * h7 + l7 /\ p8 = 4096 * w * h8 + l8
  <2>1. t4 = T * (t4 \div T) + (t4 % T)
    BY <1>u DEF Divides
  <2>2. d7 = Word * (d7 \div Word) + (d7 % Word)
    BY <1>w7 DEF Divides
  <2>3. p8 = Word * (p8 \div Word) + (p8 % Word)
    BY <1>w8 DEF Divides
  <2>4. t4 = t * s4 + y4
    BY <1>num, <1>size, <2>1
  <2>5. d7 = Word * h7 + l7 /\ p8 = Word * h8 + l8
    BY <1>num, <2>2, <2>3, Zenon
  <2>6. Word = 4096 * w
    BY <1>size
  <2> QED
    BY <2>4, <2>5, <2>6, Zenon
<1>gs. /\ g0 = (16 * x5 + s4) * c /\ g1 = x6 * (16 * c) /\ g2 = 16 * c * l7 /\ g3 = 16 * c * l8
       /\ g4 = 16 * c * 4096 * h8 /\ g5 = 16 * c * 4096 * h7
  <2>0. R = 16 * c /\ X = 4096 /\ C = c /\ u0 = 16 * x5 + s4
    BY <1>num, <1>size, <1>ua
  <2>1. g0 = (16 * x5 + s4) * c
    BY <1>g, <2>0
  <2>2. g1 = x6 * (16 * c)
    BY <1>g, <1>num, <2>0
  <2>3. g2 = 16 * c * l7 /\ g3 = 16 * c * l8
    BY <1>g, <1>num, <2>0, Zenon
  <2>4. g4 = 16 * c * 4096 * h8 /\ g5 = 16 * c * 4096 * h7
    <3>1. R * X * h8 = 16 * c * 4096 * h8 /\ R * X * h7 = 16 * c * 4096 * h7
      BY <2>0, SMT
    <3>2. g4 = R * X * h8 /\ g5 = R * X * h7
      BY <1>g, <1>num, Zenon
    <3> QED
      BY <3>1, <3>2
  <2> QED
    BY <2>1, <2>2, <2>3, <2>4
<1>poly. (z0 + w * (z1 + w * (z2 + w * (z3 + w * ((t * s4 + y4
              + w * (x5 + w * (x6 + w * (4096 * w * h7 + l7 + w * (4096 * w * h8 + l8))))
              - 16 * c * 4096 * h8) + q3) - 16 * c * 4096 * h7 - 16 * c * l8)
              - 16 * c * l7) - x6 * (16 * c))) - (16 * x5 + s4) * c
         = z0 + w * (z1 + w * (z2 + w * (z3 + w * (q3 + y4))))
           + (t * w * w * w * w - c)
             * (s4 + 16 * (x5 + w * (x6 + w * (4096 * w * h7 + l7
                                                  + w * (4096 * w * h8 + l8)))))
  <2>1. w = 16 * t
    BY <1>size
  <2> QED
    BY <2>1, SMT
<1>K. PICK K \in Int : K = s4 + 16 * (x5 + w * (x6 + w * (4096 * w * h7 + l7
                                                  + w * (4096 * w * h8 + l8))))
  BY SMT
<1>res. /\ Holds(MulInner(a, b), 1)
        /\ Value(MulInner(a, b)) = z0 + w * (z1 + w * (z2 + w * (z3 + w * (q3 + y4))))
  <2>1. MulInner(a, b) = L5(z0, z1, z2, z3, z4)
    BY <1>def, <1>c0a, <1>c1a, <1>c2a, <1>c3a, <1>num, <1>top, Zenon
  <2>2. \A z \in Nat : z < B => AtMost(z, 1)
    <3>1. M \in Nat /\ M = B - 1 /\ B \in Nat
      BY SizeFacts
    <3> QED
      BY <3>1 DEF AtMost
  <2>3. AtMost(z0, 1) /\ AtMost(z1, 1) /\ AtMost(z2, 1) /\ AtMost(z3, 1)
    BY <1>c0b, <1>c1b, <1>c2b, <1>c3b, <1>num, <2>2
  <2>4. AtMostTop(z4, 1)
    <3>1. T - 1 \in Nat
      BY SizeFacts
    <3> QED
      BY <1>top, <3>1 DEF AtMostTop
  <2>5. Holds(MulInner(a, b), 1) /\ Value(MulInner(a, b)) = Five(z0, z1, z2, z3, z4)
    BY <2>1, <2>3, <2>4, MadeOf, Zenon
  <2>6. z4 = q3 + y4
    BY <1>top, <1>num
  <2> QED
    BY <1>size, <2>5, <2>6, Zenon DEF Five
<1>v1. Plus(Value(a) * Value(b), (16 * x5 + s4) * c,
            z0 + w * (z1 + w * (z2 + w * (z3 + w * ((t * s4 + y4
              + w * (x5 + w * (x6 + w * (4096 * w * h7 + l7 + w * (4096 * w * h8 + l8))))
              - 16 * c * 4096 * h8) + q3) - 16 * c * 4096 * h7 - 16 * c * l8)
              - 16 * c * l7) - x6 * (16 * c)))
  <2>1. r5 = x5 /\ \A x, y : Join(x, y) = x + w * y
    BY <1>num, <1>size DEF Join
  <2>2. PICK top : top = Join(r5, Join(x6, Join(d7, p8)))
    OBVIOUS
  <2>3. top = x5 + w * (x6 + w * (4096 * w * h7 + l7 + w * (4096 * w * h8 + l8)))
    BY <1>parts, <2>1, <2>2
  <2>i. top \in Int /\ t4 \in Int
    <3>1. top \in Int
      BY <2>3, SMT
    <3>2. t4 \in Int
      BY <1>parts, SMT
    <3> QED
      BY <3>1, <3>2
  <2>4. PICK v4 : v4 = Join(t4, top) - g4
    OBVIOUS
  <2>5. v4 = t * s4 + y4 + w * top - 16 * c * 4096 * h8
    <3>1. v4 = (t4 + w * top) - g4
      BY <2>1, <2>4
    <3>2. t4 = t * s4 + y4 /\ g4 = 16 * c * 4096 * h8
      BY <1>parts, <1>gs
    <3> QED
      BY <2>i, <3>1, <3>2
  <2>j. v4 \in Int
    BY <2>5, <2>i, SMT
  <2>6. PICK v3 : v3 = Join(z3, v4 + q3) - g5 - g3
    OBVIOUS
  <2>7. v3 = z3 + w * (v4 + q3) - 16 * c * 4096 * h7 - 16 * c * l8
    <3>1. v3 = (z3 + w * (v4 + q3)) - g5 - g3
      BY <2>1, <2>6
    <3>2. g5 = 16 * c * 4096 * h7 /\ g3 = 16 * c * l8
      BY <1>gs
    <3> QED
      BY <2>j, <3>1, <3>2
  <2>top. v3 \in Int
    BY <2>7, <2>j, SMT
  <2>8. PICK v1 : v1 = Join(z1, Join(z2, v3) - g2) - g1
    OBVIOUS
  <2>9. v1 = z1 + w * (z2 + w * v3 - 16 * c * l7) - x6 * (16 * c)
    <3>1. Join(z2, v3) = z2 + w * v3
      BY <2>1
    <3>2. v1 = Join(z1, (z2 + w * v3) - g2) - g1
      BY <2>8, <3>1
    <3>3. v1 = (z1 + w * ((z2 + w * v3) - g2)) - g1
      BY <2>1, <3>2
    <3>4. g1 = x6 * (16 * c) /\ g2 = 16 * c * l7
      BY <1>gs
    <3> QED
      BY <2>top, <3>3, <3>4
  <2>10. Plus(Value(a) * Value(b), g0, Join(z0, v1))
    BY <1>sum, <2>2, <2>4, <2>6, <2>8, Zenon
  <2>11. Plus(Value(a) * Value(b), (16 * x5 + s4) * c, z0 + w * v1)
    BY <1>gs, <2>1, <2>10
  <2> QED
    BY <2>3, <2>5, <2>7, <2>9, <2>11
<1>prod. Value(a) * Value(b) = Value(MulInner(a, b)) + Prime * K
  <2>1. PICK x, g, y \in Int :
          /\ x = Value(a) * Value(b) /\ g = (16 * x5 + s4) * c
          /\ y = z0 + w * (z1 + w * (z2 + w * (z3 + w * ((t * s4 + y4
                   + w * (x5 + w * (x6 + w * (4096 * w * h7 + l7 + w * (4096 * w * h8 + l8))))
                   - 16 * c * 4096 * h8) + q3) - 16 * c * 4096 * h7 - 16 * c * l8)
                   - 16 * c * l7) - x6 * (16 * c))
          /\ x + g = y
    BY <1>v1 DEF Plus
  <2>2. x = y - g
    BY <2>1
  <2>3. x = z0 + w * (z1 + w * (z2 + w * (z3 + w * (q3 + y4))))
              + (t * w * w * w * w - c) * K
    BY <1>poly, <1>K, <2>1, <2>2
  <2> QED
    BY <1>res, <1>size, <2>1, <2>3
<1>nat. Value(a) * Value(b) \in Nat /\ Value(MulInner(a, b)) \in Nat
  <2>1. Value(a) \in Nat /\ Value(b) \in Nat /\ Value(MulInner(a, b)) \in Nat
    BY <1>res, ValueOf DEF Holds
  <2> QED
    BY <2>1, SMT
<1> QED
  BY <1>prod, <1>nat, <1>res DEF Congruent

(* Both products do the same with their columns.                            *)
Reduced(p0, p1, p2, p3, p4, p5, p6, p7, p8) ==
  LET c8 == U128(p8)
      d3 == U128(p3 + R * (c8 % Word))
      d4 == U128((d3 \div B) + p4 + R * X * U64(c8 \div Word))
      d5 == U128((d4 \div B) + p5)
      u0 == U64((d5 % B) * (B \div T) + ((d4 % B) \div T))
      c0 == U128(p0 + u0 * C)
      d6 == U128((d5 \div B) + p6)
      c1 == U128((c0 \div B) + p1 + (d6 % B) * R)
      d7 == U128((d6 \div B) + p7)
      c2 == U128((c1 \div B) + p2 + R * (d7 % Word))
      c3 == U128((c2 \div B) + R * X * U64(d7 \div Word) + (d3 % B))
  IN L5(c0 % B, c1 % B, c2 % B, c3 % B, U64(U64(c3 \div B) + ((d4 % B) % T)))

(* The columns of a square: each mixed term once, doubled.                  *)
LEMMA SqrColumnsAre ==
  ASSUME Sizes, NEW a, NEW m, Holds(a, m), m <= 8
  PROVE  /\ SqrColumn(a, 0) = Column(a, a, 0) /\ SqrColumn(a, 1) = Column(a, a, 1)
         /\ SqrColumn(a, 2) = Column(a, a, 2) /\ SqrColumn(a, 3) = Column(a, a, 3)
         /\ SqrColumn(a, 4) = Column(a, a, 4) /\ SqrColumn(a, 5) = Column(a, a, 5)
         /\ SqrColumn(a, 6) = Column(a, a, 6) /\ SqrColumn(a, 7) = Column(a, a, 7)
         /\ SqrColumn(a, 8) = Column(a, a, 8)
<1> DEFINE term(k, i) == IF k - i \in Limbs
                         THEN CASE i < k - i -> U64(2 * a[i]) * a[k - i]
                                [] i = k - i -> a[i] * a[i]
                                [] OTHER -> 0
                         ELSE 0
<1>1. \A k : SqrColumn(a, k)
               = term(k, 0) + term(k, 1) + term(k, 2) + term(k, 3) + term(k, 4)
  BY DEF SqrColumn
<1>2. \A k, i, j \in Int : k - i = j /\ j \in Limbs /\ i < j => term(k, i) = U64(2 * a[i]) * a[j]
  OBVIOUS
<1>3. \A k, i \in Int : k - i = i /\ i \in Limbs => term(k, i) = a[i] * a[i]
  OBVIOUS
<1>4. \A k, i \in Int : k - i < i \/ k - i > 4 => term(k, i) = 0
  BY DEF Limbs
<1> HIDE DEF term
<1>5. Factor(a[0]) /\ Factor(a[1]) /\ Factor(a[2]) /\ Factor(a[3]) /\ Factor(a[4])
  BY FactorsAre
<1>6. \A x : Factor(x) => U64(2 * x) = 2 * x
  <2>1. B \in Nat \ {0} /\ Word = 4096 * B /\ Word \in Nat
    BY SizeFacts
  <2>2. ASSUME NEW x, Factor(x) PROVE U64(2 * x) = 2 * x
    <3>1. 2 * x \in Nat /\ 2 * x < Word
      BY <2>1, <2>2 DEF Factor
    <3> QED
      BY <2>1, <3>1, Fits DEF U64
  <2> QED
    BY <2>2
<1>7. PICK x0, x1, x2, x3, x4 \in Nat :
        a[0] = x0 /\ a[1] = x1 /\ a[2] = x2 /\ a[3] = x3 /\ a[4] = x4
  BY <1>5 DEF Factor
<1>8. /\ U64(2 * a[0]) = 2 * x0 /\ U64(2 * a[1]) = 2 * x1
      /\ U64(2 * a[2]) = 2 * x2 /\ U64(2 * a[3]) = 2 * x3
  BY <1>5, <1>6, <1>7
<1>c. /\ Column(a, a, 0) = x0 * x0
      /\ Column(a, a, 1) = 2 * x0 * x1
      /\ Column(a, a, 2) = 2 * x0 * x2 + x1 * x1
      /\ Column(a, a, 3) = 2 * x0 * x3 + 2 * x1 * x2
      /\ Column(a, a, 4) = 2 * x0 * x4 + 2 * x1 * x3 + x2 * x2
      /\ Column(a, a, 5) = 2 * x1 * x4 + 2 * x2 * x3
      /\ Column(a, a, 6) = 2 * x2 * x4 + x3 * x3
      /\ Column(a, a, 7) = 2 * x3 * x4
      /\ Column(a, a, 8) = x4 * x4
  <2>1. /\ Column(a, a, 0) = x0 * x0 + 0 + 0 + 0 + 0
        /\ Column(a, a, 1) = x0 * x1 + x1 * x0 + 0 + 0 + 0
        /\ Column(a, a, 2) = x0 * x2 + x1 * x1 + x2 * x0 + 0 + 0
        /\ Column(a, a, 3) = x0 * x3 + x1 * x2 + x2 * x1 + x3 * x0 + 0
        /\ Column(a, a, 4) = x0 * x4 + x1 * x3 + x2 * x2 + x3 * x1 + x4 * x0
        /\ Column(a, a, 5) = 0 + x1 * x4 + x2 * x3 + x3 * x2 + x4 * x1
        /\ Column(a, a, 6) = 0 + 0 + x2 * x4 + x3 * x3 + x4 * x2
        /\ Column(a, a, 7) = 0 + 0 + 0 + x3 * x4 + x4 * x3
        /\ Column(a, a, 8) = 0 + 0 + 0 + 0 + x4 * x4
    BY <1>7, ColumnsAre, SMT
  <2> QED
    BY <2>1, SMT
<1>t0. /\ term(0, 0) = x0 * x0 /\ term(0, 1) = 0 /\ term(0, 2) = 0 /\ term(0, 3) = 0
       /\ term(0, 4) = 0
  BY <1>3, <1>4, <1>7 DEF Limbs
<1>t1. /\ term(1, 0) = 2 * x0 * x1 /\ term(1, 1) = 0 /\ term(1, 2) = 0 /\ term(1, 3) = 0
       /\ term(1, 4) = 0
  BY <1>2, <1>4, <1>7, <1>8 DEF Limbs
<1>t2. /\ term(2, 0) = 2 * x0 * x2 /\ term(2, 1) = x1 * x1 /\ term(2, 2) = 0
       /\ term(2, 3) = 0 /\ term(2, 4) = 0
  BY <1>2, <1>3, <1>4, <1>7, <1>8 DEF Limbs
<1>t3. /\ term(3, 0) = 2 * x0 * x3 /\ term(3, 1) = 2 * x1 * x2 /\ term(3, 2) = 0
       /\ term(3, 3) = 0 /\ term(3, 4) = 0
  BY <1>2, <1>4, <1>7, <1>8 DEF Limbs
<1>t4. /\ term(4, 0) = 2 * x0 * x4 /\ term(4, 1) = 2 * x1 * x3 /\ term(4, 2) = x2 * x2
       /\ term(4, 3) = 0 /\ term(4, 4) = 0
  BY <1>2, <1>3, <1>4, <1>7, <1>8 DEF Limbs
<1>t5. /\ term(5, 0) = 0 /\ term(5, 1) = 2 * x1 * x4 /\ term(5, 2) = 2 * x2 * x3
       /\ term(5, 3) = 0 /\ term(5, 4) = 0
  BY <1>2, <1>4, <1>7, <1>8 DEF Limbs
<1>t6. /\ term(6, 0) = 0 /\ term(6, 1) = 0 /\ term(6, 2) = 2 * x2 * x4
       /\ term(6, 3) = x3 * x3 /\ term(6, 4) = 0
  BY <1>2, <1>3, <1>4, <1>7, <1>8 DEF Limbs
<1>t7. /\ term(7, 0) = 0 /\ term(7, 1) = 0 /\ term(7, 2) = 0
       /\ term(7, 3) = 2 * x3 * x4 /\ term(7, 4) = 0
  BY <1>2, <1>4, <1>7, <1>8 DEF Limbs
<1>t8. /\ term(8, 0) = 0 /\ term(8, 1) = 0 /\ term(8, 2) = 0 /\ term(8, 3) = 0
       /\ term(8, 4) = x4 * x4
  BY <1>3, <1>4, <1>7 DEF Limbs
<1>20. SqrColumn(a, 0) = Column(a, a, 0) /\ SqrColumn(a, 1) = Column(a, a, 1)
  BY <1>1, <1>c, <1>t0, <1>t1
<1>21. SqrColumn(a, 2) = Column(a, a, 2) /\ SqrColumn(a, 3) = Column(a, a, 3)
  BY <1>1, <1>c, <1>t2, <1>t3
<1>22. SqrColumn(a, 4) = Column(a, a, 4) /\ SqrColumn(a, 5) = Column(a, a, 5)
  BY <1>1, <1>c, <1>t4, <1>t5
<1>23. SqrColumn(a, 6) = Column(a, a, 6) /\ SqrColumn(a, 7) = Column(a, a, 7)
  BY <1>1, <1>c, <1>t6, <1>t7
<1>24. SqrColumn(a, 8) = Column(a, a, 8)
  BY <1>1, <1>c, <1>t8
<1> QED
  BY <1>20, <1>21, <1>22, <1>23, <1>24

LEMMA SqrInnerIs ==
  ASSUME Sizes, NEW a, NEW m, Holds(a, m), m <= 8
  PROVE  SqrInner(a) = MulInner(a, a)
<1>1. MulInner(a, a) = Reduced(Column(a, a, 0), Column(a, a, 1), Column(a, a, 2),
                               Column(a, a, 3), Column(a, a, 4), Column(a, a, 5),
                               Column(a, a, 6), Column(a, a, 7), Column(a, a, 8))
  BY Zenon DEF MulInner, Reduced
<1>2. SqrInner(a) = Reduced(SqrColumn(a, 0), SqrColumn(a, 1), SqrColumn(a, 2),
                            SqrColumn(a, 3), SqrColumn(a, 4), SqrColumn(a, 5),
                            SqrColumn(a, 6), SqrColumn(a, 7), SqrColumn(a, 8))
  BY Zenon DEF SqrInner, Reduced
<1> QED
  BY <1>1, <1>2, SqrColumnsAre, Zenon
--------------------------------------------------------------------------------
(***************************************************************************)
(* The register.  While normalized says so, the limbs are the canonical     *)
(* ones: the invariant is that, and the bounds.                             *)
(***************************************************************************)
FieldInv ==
  /\ Holds(n, magnitude)
  /\ normalized \in BOOLEAN
  /\ normalized => Canonical(n) /\ magnitude <= 1

(* What verify accepts is within the invariant.                             *)
LEMMA VerifiedIs ==
  ASSUME Sizes, NEW s, Verified(s)
  PROVE  /\ Holds(s.n, s.m) /\ s.norm \in BOOLEAN
         /\ s.norm => Canonical(s.n) /\ s.m <= 1
<1>1. MaxMagnitude = 32
  BY DEF Sizes
<1>2. /\ s.n \in [Limbs -> Nat] /\ s.m \in 0..32 /\ s.norm \in BOOLEAN
      /\ WithinBounds(s.n, s.m)
      /\ s.norm =>
           /\ s.m <= 1
           /\ \A i \in Limbs : s.n[i] <= IF i = 4 THEN T - 1 ELSE M
           /\ ~AtLeastP(s.n)
  BY <1>1 DEF Verified
<1>3. Holds(s.n, s.m)
  BY <1>2 DEF Holds
<1>4. ASSUME s.norm PROVE Canonical(s.n)
  <2>1. PICK a : a = s.n
    OBVIOUS
  <2>2. /\ a \in [Limbs -> Nat] /\ ~AtLeastP(a)
        /\ a[0] <= M /\ a[1] <= M /\ a[2] <= M /\ a[3] <= M /\ a[4] <= T - 1
    BY <1>2, <1>4, <2>1 DEF Limbs
  <2>3. /\ B \in Nat /\ M = B - 1 /\ M \in Nat /\ T \in Nat
    BY SizeFacts
  <2>4. a[0] \in Nat /\ a[1] \in Nat /\ a[2] \in Nat /\ a[3] \in Nat /\ a[4] \in Nat
    BY <2>2, ValueOf
  <2>5. Carried(a) /\ a[4] < T
    BY <2>2, <2>3, <2>4 DEF Carried
  <2>6. ~(Value(a) >= Prime)
    BY <2>2, <2>5, AtLeastPIs
  <2>7. Value(a) \in Nat /\ Prime \in Nat
    BY <2>2, ValueOf, PLimbsAre
  <2> QED
    BY <2>1, <2>5, <2>6, <2>7 DEF Canonical
<1> QED
  BY <1>2, <1>3, <1>4

LEMMA CmovIs ==
  ASSUME Sizes, NEW r, NEW a, NEW m, NEW k, NEW flag, Holds(r, m), Holds(a, k)
  PROVE  Holds(Cmov(r, a, flag), IF k > m THEN k ELSE m)
<1>1. m \in Nat /\ m <= 32 /\ k \in Nat /\ k <= 32
  BY DEF Holds
<1>2. PICK h : h = IF k > m THEN k ELSE m
  OBVIOUS
<1>3. h \in Nat /\ m <= h /\ k <= h /\ h <= 32
  BY <1>1, <1>2
<1>4. Holds(r, h) /\ Holds(a, h)
  BY <1>3, HoldsMore
<1> QED
  BY <1>2, <1>4 DEF Cmov

LEMMA InitFieldInv ==
  ASSUME Sizes, RegisterAssumption, Init
  PROVE  FieldInv
<1>1. PICK s \in Start : n = s.n /\ magnitude = s.m /\ normalized = s.norm
  BY DEF Init
<1>2. Verified(s)
  BY DEF RegisterAssumption
<1> QED
  BY <1>1, <1>2, VerifiedIs, Zenon DEF FieldInv

(* An operation that leaves limbs within some magnitude and does not say    *)
(* that they are normalized.                                                *)
LEMMA BecomesHeld ==
  ASSUME NEW limbs, NEW m, Becomes(limbs, m, FALSE), Holds(limbs, m)
  PROVE  FieldInv'
<1>1. n' = limbs /\ magnitude' = m /\ normalized' = FALSE
  BY DEF Becomes
<1>2. Holds(n, magnitude)'
  BY <1>1 DEF Holds, WithinBounds, Bound, Limbs, M
<1> QED
  BY <1>1, <1>2 DEF FieldInv

(* The same for one that says whether they are.                             *)
LEMMA BecomesRegister ==
  ASSUME NEW limbs, NEW m, NEW norm \in BOOLEAN,
         n' = limbs, magnitude' = m, normalized' = norm,
         Holds(limbs, m), norm => Canonical(limbs) /\ m <= 1
  PROVE  FieldInv'
<1>1. Holds(n, magnitude)'
  BY DEF Holds, WithinBounds, Bound, Limbs, M
<1>2. ASSUME normalized' PROVE Canonical(n)'
  <2>1. Canonical(limbs)
    BY <1>2
  <2> QED
    BY <2>1 DEF Canonical, Carried, Value, Prime, Limbs
<1> QED
  BY <1>1, <1>2 DEF FieldInv

LEMMA NextFieldInv ==
  ASSUME Sizes, RegisterAssumption, FieldInv, [Next]_vars
  PROVE  FieldInv'
<1>0. /\ Holds(n, magnitude) /\ normalized \in BOOLEAN
      /\ normalized => Canonical(n) /\ magnitude <= 1
      /\ magnitude \in Nat /\ magnitude <= 32
  BY DEF FieldInv, Holds
<1>s. MaxMagnitude = 32 /\ MulMagnitude = 8
  BY DEF Sizes
<1>b. \A b \in Operands : /\ Holds(b.n, b.m) /\ b.m \in Nat /\ b.norm \in BOOLEAN
                          /\ b.norm => Canonical(b.n) /\ b.m <= 1
  <2>1. ASSUME NEW b \in Operands
        PROVE  /\ Holds(b.n, b.m) /\ b.norm \in BOOLEAN
               /\ b.norm => Canonical(b.n) /\ b.m <= 1
    <3>1. Verified(b)
      BY DEF RegisterAssumption
    <3> QED
      BY <3>1, VerifiedIs
  <2> QED
    BY <2>1 DEF Holds
<1>f. Factors \subseteq 0..32
  BY <1>s DEF RegisterAssumption
<1>1. CASE DoNormalizeWeak
  <2>1. n' = NormalizeWeak(n) /\ magnitude' = 1 /\ normalized' = normalized
    BY <1>1 DEF DoNormalizeWeak, Becomes
  <2>2. Holds(NormalizeWeak(n), 1)
    BY <1>0, NormalizeWeakIs
  <2>3. ASSUME normalized PROVE Canonical(NormalizeWeak(n))
    <3>1. Canonical(n)
      BY <1>0, <2>3
    <3>2. NormalizeWeak(n) = n
      BY <3>1, WeakKeepsCanonical
    <3> QED
      BY <3>1, <3>2
  <2> QED
    BY <1>0, <2>1, <2>2, <2>3, BecomesRegister
<1>2. CASE DoNormalize
  <2>1. n' = Normalize(n) /\ magnitude' = 1 /\ normalized' = TRUE
    BY <1>2 DEF DoNormalize, Becomes
  <2>2. Canonical(Normalize(n))
    BY <1>0, NormalizeIs
  <2>3. Holds(Normalize(n), 1)
    BY <2>2, CanonicalIs
  <2>4. PICK norm \in BOOLEAN : norm = TRUE
    OBVIOUS
  <2>5. normalized' = norm
    BY <2>1, <2>4
  <2>6. norm => Canonical(Normalize(n)) /\ 1 <= 1
    BY <2>2
  <2> QED
    BY <2>1, <2>3, <2>5, <2>6, BecomesRegister
<1>3. ASSUME NEW m \in 0..MaxMagnitude-1, DoNegate(m) PROVE FieldInv'
  <2>s. MaxMagnitude - 1 = 31
    BY <1>s
  <2>a. m \in 0..31
    BY <2>s
  <2>1. magnitude <= m
    BY <1>3, Zenon DEF DoNegate
  <2>b. Becomes(Negate(n, m), m + 1, FALSE)
    BY <1>3, Zenon DEF DoNegate
  <2>2. Holds(n, m)
    BY <1>0, <2>a, <2>1, HoldsMore
  <2>3. Holds(Negate(n, m), m + 1)
    BY <2>a, <2>2, NegateIs
  <2> QED
    BY <2>b, <2>3, BecomesHeld
<1>4. ASSUME NEW i \in Factors, DoMulInt(i) PROVE FieldInv'
  <2>a. i \in 0..32
    BY <1>f
  <2>b. i * magnitude <= MaxMagnitude
    BY <1>4, Zenon DEF DoMulInt
  <2>c. Becomes(MulInt(n, i), i * magnitude, FALSE)
    BY <1>4, Zenon DEF DoMulInt
  <2>1. i \in Nat /\ i * magnitude <= 32
    BY <1>s, <2>a, <2>b
  <2>2. Holds(MulInt(n, i), i * magnitude)
    BY <1>0, <2>1, MulIntIs
  <2> QED
    BY <2>c, <2>2, BecomesHeld
<1>5. ASSUME NEW i \in Addends, DoAddInt(i) PROVE FieldInv'
  <2>1. i \in 0..MaxAddend /\ magnitude < 32 /\ Becomes(AddInt(n, i), magnitude + 1, FALSE)
    BY <1>s, <1>5 DEF DoAddInt, RegisterAssumption
  <2>2. Holds(AddInt(n, i), magnitude + 1)
    BY <1>0, <2>1, AddIntIs
  <2> QED
    BY <2>1, <2>2, BecomesHeld
<1>6. ASSUME NEW b \in Operands, DoAdd(b) PROVE FieldInv'
  <2>1. magnitude + b.m <= 32 /\ Becomes(Add(n, b.n), magnitude + b.m, FALSE)
    BY <1>s, <1>6 DEF DoAdd
  <2>2. Holds(Add(n, b.n), magnitude + b.m)
    BY <1>0, <1>b, <2>1, AddIs
  <2> QED
    BY <2>1, <2>2, BecomesHeld
<1>7. ASSUME NEW b \in Operands, DoMul(b) PROVE FieldInv'
  <2>1. magnitude <= 8 /\ b.m <= 8 /\ Becomes(MulInner(n, b.n), 1, FALSE)
    BY <1>s, <1>7 DEF DoMul
  <2>2. Holds(MulInner(n, b.n), 1)
    BY <1>0, <1>b, <2>1, MulInnerIs
  <2> QED
    BY <2>1, <2>2, BecomesHeld
<1>8. CASE DoSqr
  <2>1. magnitude <= 8 /\ Becomes(SqrInner(n), 1, FALSE)
    BY <1>s, <1>8 DEF DoSqr
  <2>2. Holds(SqrInner(n), 1)
    BY <1>0, <2>1, MulInnerIs, SqrInnerIs
  <2> QED
    BY <2>1, <2>2, BecomesHeld
<1>9. CASE DoHalf
  <2>a. magnitude < MaxMagnitude
    BY <1>9, Zenon DEF DoHalf
  <2>b. Becomes(Half(n), (magnitude \div 2) + 1, FALSE)
    BY <1>9, Zenon DEF DoHalf
  <2>1. magnitude <= 31
    BY <1>0, <1>s, <2>a
  <2>2. Holds(Half(n), (magnitude \div 2) + 1)
    BY <1>0, <2>1, HalfIs
  <2> QED
    BY <2>b, <2>2, BecomesHeld
<1>10. ASSUME NEW b \in Operands, NEW flag \in BOOLEAN, DoCmov(b, flag) PROVE FieldInv'
  <2>1. /\ n' = Cmov(n, b.n, flag)
        /\ magnitude' = IF b.m > magnitude THEN b.m ELSE magnitude
        /\ normalized' = (normalized /\ b.norm)
    BY <1>10 DEF DoCmov, Becomes
  <2>2. Holds(Cmov(n, b.n, flag), IF b.m > magnitude THEN b.m ELSE magnitude)
    BY <1>0, <1>b, CmovIs
  <2>3. ASSUME normalized, b.norm
        PROVE  Canonical(Cmov(n, b.n, flag)) /\ magnitude' <= 1
    <3>1. Canonical(n) /\ Canonical(b.n) /\ magnitude <= 1 /\ b.m <= 1
      BY <1>0, <1>b, <2>3
    <3>2. Canonical(Cmov(n, b.n, flag))
      BY <3>1 DEF Cmov
    <3> QED
      BY <2>1, <3>1, <3>2
  <2> QED
    BY <1>0, <1>b, <2>1, <2>2, <2>3, BecomesRegister
<1>11. CASE UNCHANGED vars
  BY <1>0, <1>11 DEF FieldInv, vars, Holds, WithinBounds, Bound, Canonical, Carried, Value,
                     Prime, Limbs, M
<1> QED
  BY <1>1, <1>2, <1>3, <1>4, <1>5, <1>6, <1>7, <1>8, <1>9, <1>10, <1>11 DEF Next

(***************************************************************************)
(* The invariant says enough.                                              *)
(***************************************************************************)
LEMMA InvBounds ==
  ASSUME Sizes, FieldInv
  PROVE  LimbsInBounds
<1>0. Holds(n, magnitude) /\ (normalized => Canonical(n))
  BY DEF FieldInv
<1>1. /\ Small(n[0]) /\ Small(n[1]) /\ Small(n[2]) /\ Small(n[3]) /\ Small(n[4])
  BY <1>0, HeldLimbs
<1>2. ASSUME NEW x, Small(x) PROVE x \in 0..Word-1
  BY <1>2, SizeFacts DEF Small
<1>3. /\ n[0] \in 0..Word-1 /\ n[1] \in 0..Word-1 /\ n[2] \in 0..Word-1
      /\ n[3] \in 0..Word-1 /\ n[4] \in 0..Word-1
  BY <1>1, <1>2
<1>4. n \in [Limbs -> Nat]
  BY <1>0 DEF Holds
<1>5. n \in [Limbs -> 0..Word-1]
  BY <1>3, <1>4 DEF Limbs
<1>6. WithinBounds(n, magnitude)
  BY <1>0 DEF Holds
<1>7. ASSUME normalized PROVE Value(n) < Prime /\ n = SetB32Mod(Value(n))
  BY <1>0, <1>7, CanonicalIs
<1> QED
  BY <1>5, <1>6, <1>7 DEF LimbsInBounds

LEMMA InvAnswers ==
  ASSUME Sizes, RegisterAssumption, FieldInv
  PROVE  AnswersAgree
<1>0. Holds(n, magnitude) /\ (normalized => Canonical(n))
  BY DEF FieldInv
<1>1. NormalizesToZero(n) <=> Value(n) % Prime = 0
  BY <1>0, ZeroIs
<1>2. NormalizesToZeroVar(n) <=> Value(n) % Prime = 0
  BY <1>0, <1>1, ZeroVarIs
<1>3. ASSUME normalized PROVE IsOdd(n) <=> Value(n) % 2 = 1
  BY <1>0, <1>3, OddIs
<1>4. ASSUME normalized, NEW b \in Operands, b.norm
      PROVE  CmpVar(n, b.n) = 1 <=> Value(n) > Value(b.n)
  <2>1. Verified(b)
    BY DEF RegisterAssumption
  <2>2. Canonical(b.n)
    BY <1>4, <2>1, VerifiedIs
  <2>3. Canonical(n)
    BY <1>0, <1>4
  <2> QED
    BY <2>2, <2>3, CmpIs
<1>5. ASSUME n[4] < T, \A i \in 0..3 : n[i] < B
      PROVE  /\ SetB32Limit(Value(n)).accepted <=> Value(n) < Prime
             /\ SetB32Mod(Value(n)) = n
  <2>1. n \in [Limbs -> Nat]
    BY <1>0 DEF Holds
  <2>2. n[0] < B /\ n[1] < B /\ n[2] < B /\ n[3] < B
    BY <1>5
  <2>3. Carried(n)
    BY <2>1, <2>2 DEF Carried
  <2>4. SetB32Mod(Value(n)) = n
    BY <2>3, SpelledBack
  <2>5. SetB32Limit(Value(n)).accepted <=> ~AtLeastP(n)
    BY <2>4 DEF SetB32Limit
  <2>6. AtLeastP(n) <=> Value(n) >= Prime
    BY <1>5, <2>3, AtLeastPIs
  <2>7. Value(n) \in Nat /\ Prime \in Nat
    BY <2>1, ValueOf, PLimbsAre
  <2>8. Value(n) < Prime <=> ~(Value(n) >= Prime)
    BY <2>7
  <2> QED
    BY <2>4, <2>5, <2>6, <2>8
<1> QED
  BY <1>1, <1>2, <1>3, <1>4, <1>5 DEF AnswersAgree

(* Whatever operations a register goes through, its limbs stay within what  *)
(* its magnitude allows, and one that claims to be normalized is canonical. *)
THEOREM FieldInvariant ==
  ASSUME Sizes, RegisterAssumption
  PROVE  Spec => []FieldInv
<1>1. Init => FieldInv
  BY InitFieldInv
<1>2. FieldInv /\ [Next]_vars => FieldInv'
  BY NextFieldInv
<1> QED
  BY <1>1, <1>2, PTL DEF Spec

(* No sum, product or carry of field_5x52_impl.h and of the 128-bit         *)
(* multiplication exceeds its word, whatever straight line of operations    *)
(* the checks of field_impl.h allow; and what claims to be normalized is    *)
(* the one canonical representation.                                        *)
THEOREM BoundsHold ==
  ASSUME Sizes, RegisterAssumption
  PROVE  Spec => []LimbsInBounds
<1>1. FieldInv => LimbsInBounds
  BY InvBounds
<1> QED
  BY <1>1, FieldInvariant, PTL

(* The tests for zero (the fast one, too), for oddness, the comparison and  *)
(* the reader's limit answer what the value of the limbs says.              *)
THEOREM AnswersHold ==
  ASSUME Sizes, RegisterAssumption
  PROVE  Spec => []AnswersAgree
<1>1. FieldInv => AnswersAgree
  BY InvAnswers
<1> QED
  BY <1>1, FieldInvariant, PTL

(* Both: the invariant that the run of the arithmetic checks on small limbs. *)
THEOREM LimbsAlwaysHold ==
  ASSUME Sizes, RegisterAssumption
  PROVE  Spec => []LimbsHold
<1>1. FieldInv => LimbsHold
  BY InvBounds, InvAnswers DEF LimbsHold
<1> QED
  BY <1>1, FieldInvariant, PTL

(***************************************************************************)
(* The refinement.  The field's product, digit by digit where it must be,  *)
(* is the product modulo P: a recursive function has one solution.         *)
(***************************************************************************)
(* What the digits of y from the top one on have contributed.               *)
DigitStep(f, p, x) ==
  f = [d \in 0..p-1 |-> IF d = 0 THEN 0 ELSE (8 * f[d \div 8] + (d % 8) * x) % p]

LEMMA OneDigit ==
  ASSUME NEW p \in Nat \ {0}, NEW x \in Nat, NEW d \in Nat
  PROVE  (8 * (((d \div 8) * x) % p) + (d % 8) * x) % p = (d * x) % p
<1>1. PICK q \in Nat, r \in 0..7 : q = d \div 8 /\ r = d % 8 /\ d = 8 * q + r
  BY SMT
<1>2. q * x \in Nat /\ r * x \in Nat /\ d * x \in Nat
  BY <1>1, SMT
<1>3. PICK u \in Nat : u = q * x
  BY <1>2
<1>4. u \div p \in Nat /\ Divides(u, p, u \div p, u % p)
  BY Division
<1>5. PICK k \in Nat, s \in Nat : s = u % p /\ u = p * k + s
  BY <1>4 DEF Divides
<1>6. PICK v \in Nat, w \in Nat : v = r * x /\ w = d * x
  BY <1>2
<1>7. w = 8 * u + v
  BY <1>1, <1>3, <1>6, SMT
<1>8. 8 * s + v \in Nat /\ 8 * k \in Int
  OBVIOUS
<1>9. w = (8 * s + v) + p * (8 * k)
  BY <1>5, <1>7, SMT
<1>10. w % p = (8 * s + v) % p
  BY <1>8, <1>9, SameRest
<1> QED
  BY <1>1, <1>3, <1>5, <1>6, <1>10

LEMMA DigitsExist ==
  ASSUME NEW p \in Nat \ {0}, NEW x \in Nat
  PROVE  DigitStep([d \in 0..p-1 |-> (d * x) % p], p, x)
<1> DEFINE g == [d \in 0..p-1 |-> (d * x) % p]
           h == [d \in 0..p-1 |-> IF d = 0 THEN 0 ELSE (8 * g[d \div 8] + (d % 8) * x) % p]
<1>1. ASSUME NEW d \in 0..p-1 PROVE g[d] = h[d]
  <2>1. g[d] = (d * x) % p
    OBVIOUS
  <2>2. h[d] = IF d = 0 THEN 0 ELSE (8 * g[d \div 8] + (d % 8) * x) % p
    OBVIOUS
  <2>3. d \in Nat /\ d \div 8 \in 0..p-1
    BY SMT
  <2>4. g[d \div 8] = ((d \div 8) * x) % p
    BY <2>3
  <2>5. (8 * (((d \div 8) * x) % p) + (d % 8) * x) % p = (d * x) % p
    BY <2>3, OneDigit
  <2>6. d = 0 => (d * x) % p = 0
    BY SMT
  <2> HIDE DEF g, h
  <2> QED
    BY <2>1, <2>2, <2>4, <2>5, <2>6
<1>2. g \in [0..p-1 -> {(d * x) % p : d \in 0..p-1}]
  OBVIOUS
<1>3. DOMAIN g = 0..p-1 /\ DOMAIN h = 0..p-1 /\ g = [d \in DOMAIN g |-> g[d]] /\ h = [d \in DOMAIN h |-> h[d]]
  OBVIOUS
<1> HIDE DEF g, h
<1>4. g = h
  BY <1>1, <1>3
<1> QED
  BY <1>4 DEF g, h, DigitStep

LEMMA DigitsUnique ==
  ASSUME NEW p \in Nat \ {0}, NEW x \in Nat, NEW f, DigitStep(f, p, x),
         NEW d \in 0..p-1
  PROVE  f[d] = (d * x) % p
<1> DEFINE Wrong == {e \in 0..p-1 : f[e] # (e * x) % p}
<1>1. \A e \in 0..p-1 : f[e] = IF e = 0 THEN 0 ELSE (8 * f[e \div 8] + (e % 8) * x) % p
  BY Zenon DEF DigitStep
<1>2. ASSUME Wrong # {} PROVE FALSE
  <2>1. Wrong \subseteq Nat
    OBVIOUS
  <2> HIDE DEF Wrong
  <2>2. PICK e \in Wrong : \A c \in Wrong : ~(<<c, e>> \in OpToRel(<, Nat))
    BY <1>2, <2>1, NatLessThanWellFounded, WFMin, Zenon
  <2>3. e \in 0..p-1 /\ f[e] # (e * x) % p
    BY DEF Wrong
  <2>4. e # 0
    <3>1. f[0] = 0 /\ (0 * x) % p = 0
      BY <1>1, SMT
    <3> QED
      BY <2>3, <3>1
  <2>5. e \in Nat /\ e \div 8 \in 0..p-1 /\ e \div 8 \in Nat /\ e \div 8 < e
    BY <2>3, <2>4, SMT
  <2>6. <<e \div 8, e>> \in OpToRel(<, Nat)
    BY <2>5 DEF OpToRel
  <2>7. e \div 8 \notin Wrong
    BY <2>2, <2>6
  <2>8. f[e \div 8] = ((e \div 8) * x) % p
    BY <2>5, <2>7 DEF Wrong
  <2>9. f[e] = (8 * f[e \div 8] + (e % 8) * x) % p
    BY <1>1, <2>3, <2>4
  <2>10. (8 * (((e \div 8) * x) % p) + (e % 8) * x) % p = (e * x) % p
    BY <2>5, OneDigit
  <2> QED
    BY <2>3, <2>8, <2>9, <2>10
<1> QED
  BY <1>2

LEMMA ByDigits ==
  ASSUME Prime \in Nat \ {0}, NEW x \in Nat, NEW y \in 0..Prime-1
  PROVE  Register!TimesByDigits(x, y) = (y * x) % Prime
<1> DEFINE f == CHOOSE f : DigitStep(f, Prime, x)
<1>1. Register!TimesByDigits(x, y) = f[y]
  BY DEF Register!TimesByDigits, DigitStep
<1>2. DigitStep(f, Prime, x)
  BY DigitsExist
<1> HIDE DEF f
<1> QED
  BY <1>1, <1>2, DigitsUnique

(***************************************************************************)
(* What the limbs' values are modulo P.                                    *)
(***************************************************************************)
Rest(x, v) == x \in Nat /\ v = x % Prime

LEMMA RestIs ==
  ASSUME Sizes, NEW x, NEW v, Rest(x, v)
  PROVE  /\ Prime \in Nat \ {0} /\ v \in Nat /\ v < Prime
         /\ \E k \in Nat : x = v + Prime * k
<1>1. Prime \in Nat \ {0}
  BY PrimeFacts
<1>2. x \in Nat /\ v = x % Prime
  BY DEF Rest
<1>3. x \div Prime \in Nat /\ Divides(x, Prime, x \div Prime, x % Prime)
  BY <1>1, <1>2, Division
<1>4. v \in Nat /\ v < Prime /\ x = v + Prime * (x \div Prime)
  BY <1>2, <1>3 DEF Divides
<1> QED
  BY <1>1, <1>3, <1>4

LEMMA RestQuotient ==
  ASSUME Sizes, NEW x, NEW v, Rest(x, v)
  PROVE  \E k \in Nat : x = v + Prime * k
BY RestIs

LEMMA RestSum ==
  ASSUME Sizes, NEW x, NEW v, NEW y, NEW w, NEW z, Rest(x, v), Rest(y, w), Plus(x, y, z)
  PROVE  z % Prime = (v + w) % Prime
<1>1. PICK p \in Nat \ {0} : p = Prime
  BY RestIs
<1>2. v \in Nat /\ w \in Nat /\ x \in Nat /\ y \in Nat /\ z = x + y
  BY RestIs DEF Rest, Plus
<1>3. PICK k \in Nat : x = v + p * k
  <2>1. \E k \in Nat : x = v + Prime * k
    BY RestQuotient
  <2> QED
    BY <1>1, <2>1
<1>4. PICK j \in Nat : y = w + p * j
  <2>1. \E j \in Nat : y = w + Prime * j
    BY RestQuotient
  <2> QED
    BY <1>1, <2>1
<1>5. PICK v1 \in Nat, w1 \in Nat, z1 \in Nat : v1 = v /\ w1 = w /\ z1 = z
  BY <1>2
<1>6. z1 = (v1 + w1) + p * (k + j)
  BY <1>2, <1>3, <1>4, <1>5, SMT
<1>8. v1 + w1 \in Nat /\ k + j \in Int
  OBVIOUS
<1>7. z1 % p = (v1 + w1) % p
  BY <1>6, <1>8, SameRest
<1> QED
  BY <1>1, <1>5, <1>7

LEMMA RestAddInt ==
  ASSUME Sizes, NEW x, NEW v, NEW i, i \in Nat, NEW z, Rest(x, v), Plus(x, i, z)
  PROVE  z % Prime = (v + i) % Prime
<1>1. PICK p \in Nat \ {0} : p = Prime
  BY RestIs
<1>2. v \in Nat /\ x \in Nat /\ z = x + i
  BY RestIs DEF Rest, Plus
<1>3. PICK k \in Nat : x = v + p * k
  <2>1. \E k \in Nat : x = v + Prime * k
    BY RestQuotient
  <2> QED
    BY <1>1, <2>1
<1>5. PICK v1 \in Nat, w1 \in Nat, z1 \in Nat : v1 = v /\ w1 = i /\ z1 = z
  BY <1>2
<1>6. z1 = (v1 + w1) + p * k
  BY <1>2, <1>3, <1>5, SMT
<1>8. v1 + w1 \in Nat /\ k \in Int
  OBVIOUS
<1>7. z1 % p = (v1 + w1) % p
  BY <1>6, <1>8, SameRest
<1> QED
  BY <1>1, <1>5, <1>7

LEMMA RestScaled ==
  ASSUME Sizes, NEW x, NEW v, NEW i, i \in Nat, NEW z, Rest(x, v), Scaled(i, x, z)
  PROVE  z % Prime = (v * i) % Prime
<1>1. PICK p \in Nat \ {0} : p = Prime
  BY RestIs
<1>2. v \in Nat /\ x \in Nat /\ z = i * x
  BY RestIs DEF Rest, Scaled
<1>3. PICK k \in Nat : x = v + p * k
  <2>1. \E k \in Nat : x = v + Prime * k
    BY RestQuotient
  <2> QED
    BY <1>1, <2>1
<1>4. PICK v1 \in Nat, i1 \in Nat, z1 \in Nat : v1 = v /\ i1 = i /\ z1 = z
  BY <1>2
<1>5. v1 * i1 \in Nat /\ i1 * k \in Nat
  OBVIOUS
<1>6. z1 = i1 * (v1 + p * k)
  BY <1>2, <1>3, <1>4
<1>7. z1 = v1 * i1 + p * (i1 * k)
  BY <1>6, SMT
<1>8. z1 % p = (v1 * i1) % p
  BY <1>5, <1>7, SameRest
<1> QED
  BY <1>1, <1>4, <1>8

LEMMA RestNegate ==
  ASSUME Sizes, NEW x, NEW v, NEW k, k \in Nat, NEW z, z \in Nat, Rest(x, v),
         Plus(z, x, 2 * (k + 1) * Prime)
  PROVE  z % Prime = (Prime - v) % Prime
<1>1. PICK p \in Nat \ {0} : p = Prime
  BY RestIs
<1>2. v \in Nat /\ v < p /\ x \in Nat /\ z + x = 2 * (k + 1) * p
  BY <1>1, RestIs DEF Rest, Plus
<1>3. PICK j \in Nat : x = v + p * j
  <2>1. \E j \in Nat : x = v + Prime * j
    BY RestQuotient
  <2> QED
    BY <1>1, <2>1
<1>4. PICK v1 \in Nat, z1 \in Nat, k1 \in Nat : v1 = v /\ z1 = z /\ k1 = k
  BY <1>2
<1>5. p - v1 \in Nat
  BY <1>2, <1>4
<1>6. z1 + (v1 + p * j) = 2 * (k1 + 1) * p
  BY <1>2, <1>3, <1>4
<1>7. z1 = (p - v1) + p * (2 * k1 + 1 - j)
  BY <1>6, SMT
<1>8. 2 * k1 + 1 - j \in Int
  OBVIOUS
<1>9. z1 % p = (p - v1) % p
  BY <1>5, <1>7, <1>8, SameRest
<1> QED
  BY <1>1, <1>4, <1>9

LEMMA RestProduct ==
  ASSUME Sizes, NEW x, NEW v, NEW y, NEW w, NEW z, Rest(x, v), Rest(y, w),
         Congruent(x * y, z)
  PROVE  z % Prime = (w * v) % Prime
<1>1. PICK p \in Nat \ {0} : p = Prime
  BY RestIs
<1>2. v \in Nat /\ w \in Nat /\ x \in Nat /\ y \in Nat
  BY RestIs DEF Rest
<1>3. PICK k \in Nat : x = v + p * k
  <2>1. \E k \in Nat : x = v + Prime * k
    BY RestQuotient
  <2> QED
    BY <1>1, <2>1
<1>4. PICK j \in Nat : y = w + p * j
  <2>1. \E j \in Nat : y = w + Prime * j
    BY RestQuotient
  <2> QED
    BY <1>1, <2>1
<1>5. (x * y) % p = z % p
  BY <1>1, CongruentRest
<1>6. PICK v1 \in Nat, w1 \in Nat : v1 = v /\ w1 = w
  BY <1>2
<1>7. PICK u \in Nat : u = x * y
  BY <1>2
<1>8. u = (v1 + p * k) * (w1 + p * j)
  BY <1>3, <1>4, <1>6, <1>7
<1>9. u = w1 * v1 + p * (v1 * j + k * w1 + p * (k * j))
  BY <1>8, SMT
<1>10. w1 * v1 \in Nat /\ v1 * j + k * w1 + p * (k * j) \in Int
  OBVIOUS
<1>11. u % p = (w1 * v1) % p
  BY <1>9, <1>10, SameRest
<1> QED
  BY <1>1, <1>5, <1>6, <1>7, <1>11

LEMMA PrimeOdd ==
  ASSUME Sizes
  PROVE  \E q \in Nat : Prime = 2 * q + 1
<1>1. PICK t \in Nat, c \in Nat : t = T /\ c = C \div 2 /\ C = 2 * c + 1
  BY DEF Sizes
<1>2. B = 2 * (8 * t) /\ B \in Nat /\ M \in Nat
  BY <1>1, SizeFacts
<1>3. PICK b4 \in Nat : b4 = B * B * B * B /\ Prime = T * b4 - C /\ Prime \in Nat
  BY PrimeFacts
<1>4. PICK y \in Nat : y = (8 * t) * B * B * B
  BY <1>2
<1>5. b4 = 2 * y
  BY <1>2, <1>3, <1>4, SMT
<1>6. PICK p \in Nat : p = Prime
  BY <1>3
<1>7. p = t * (2 * y) - (2 * c + 1)
  BY <1>1, <1>3, <1>5, <1>6
<1>8. p = 2 * (t * y - c - 1) + 1 /\ t * y - c - 1 \in Int
  BY <1>7, SMT
<1>9. t * y - c - 1 \in Nat
  BY <1>8
<1> QED
  BY <1>6, <1>8, <1>9

(* An odd multiple is even only if the factor is. *)
EvenProduct(q, e, d) == q \in Int /\ e \in Int /\ d \in Int /\ 2 * d = (2 * q + 1) * e

LEMMA EvenFactor ==
  ASSUME NEW q, NEW e, NEW d, EvenProduct(q, e, d)
  PROVE  \E s \in Int : e = 2 * s
<1>1. e = 2 * (d - q * e) /\ d - q * e \in Int
  BY SMT DEF EvenProduct
<1> QED
  BY <1>1

LEMMA RestHalf ==
  ASSUME Sizes, NEW x, NEW v, NEW h, NEW o, Rest(x, v), h \in Nat, o \in {0, 1},
         2 * h = x + o * Prime
  PROVE  h % Prime = (IF v % 2 = 0 THEN v \div 2 ELSE (v + Prime) \div 2) % Prime
<1>1. PICK p \in Nat \ {0} : p = Prime
  BY RestIs
<1>2. PICK q \in Nat : p = 2 * q + 1
  <2>1. \E q \in Nat : Prime = 2 * q + 1
    BY PrimeOdd
  <2> QED
    BY <1>1, <2>1
<1>3. PICK k \in Nat : x = v + p * k
  <2>1. \E k \in Nat : x = v + Prime * k
    BY RestQuotient
  <2> QED
    BY <1>1, <2>1
<1>4. v \in Nat /\ x \in Nat
  BY RestIs DEF Rest
<1>5. PICK v1 \in Nat, h1 \in Nat, o1 \in Nat : v1 = v /\ h1 = h /\ o1 = o
  BY <1>4
<1>6. 2 * h1 = (v1 + p * k) + o1 * p
  BY <1>1, <1>3, <1>5
<1>7. CASE v1 % 2 = 0
  <2>1. PICK u \in Nat : v1 = 2 * u /\ v1 \div 2 = u
    BY <1>7, SMT
  <2>2. PICK e \in Int : e = k + o1
    OBVIOUS
  <2>3. 2 * (h1 - u) = p * e
    BY <1>6, <2>1, <2>2, SMT
  <2>4. 2 * (h1 - u) = (2 * q + 1) * e /\ h1 - u \in Int
    BY <1>2, <2>3
  <2>a. EvenProduct(q, e, h1 - u)
    BY <2>4 DEF EvenProduct
  <2>5. PICK s \in Int : e = 2 * s
    BY <2>a, EvenFactor
  <2>6. h1 = u + p * s
    BY <2>3, <2>5, SMT
  <2>7. h1 % p = u % p
    BY <2>6, SameRest
  <2> QED
    BY <1>1, <1>5, <1>7, <2>1, <2>7
<1>8. CASE v1 % 2 # 0
  <2>1. PICK u \in Nat : v1 = 2 * u + 1
    BY <1>8, SMT
  <2>2. PICK e \in Int : e = k + o1 - 1
    OBVIOUS
  <2>3. PICK w \in Nat : w = u + q + 1
    OBVIOUS
  <2>w. v1 + p = 2 * w /\ (v1 + p) \div 2 = w
    BY <1>2, <2>1, <2>3, SMT
  <2>4. 2 * (h1 - w) = p * e
    BY <1>6, <2>2, <2>w, SMT
  <2>5. 2 * (h1 - w) = (2 * q + 1) * e /\ h1 - w \in Int
    BY <1>2, <2>4
  <2>a. EvenProduct(q, e, h1 - w)
    BY <2>5 DEF EvenProduct
  <2>6. PICK s \in Int : e = 2 * s
    BY <2>a, EvenFactor
  <2>7. h1 = w + p * s
    BY <2>4, <2>6, SMT
  <2>8. h1 % p = w % p
    BY <2>7, SameRest
  <2> QED
    BY <1>1, <1>5, <1>8, <2>w, <2>8
<1> QED
  BY <1>7, <1>8

(***************************************************************************)
(* Each operation does to the element what FieldElement says.              *)
(***************************************************************************)
Elem(a, m, norm) == [v |-> Value(a) % Prime, m |-> m, norm |-> norm, ok |-> TRUE]

(* One that does not say that it is normalized.                             *)
Loose(a, m) == Elem(a, m, FALSE)

Good(a, m, norm) == Holds(a, m) /\ norm \in BOOLEAN /\ (norm => m <= 1)

LEMMA GoodFacts ==
  ASSUME Sizes, NEW a, NEW m, NEW norm, Good(a, m, norm)
  PROVE  /\ Register!Verified(Elem(a, m, norm))
         /\ Elem(a, m, norm).v = Value(a) % Prime
         /\ Elem(a, m, norm).m = m /\ Elem(a, m, norm).norm = norm
         /\ Rest(Value(a), Value(a) % Prime)
         /\ m \in Nat /\ m <= 32 /\ norm \in BOOLEAN
         /\ MaxMagnitude = 32 /\ MulMagnitude = 8
<1>1. MaxMagnitude = 32 /\ MulMagnitude = 8
  BY DEF Sizes
<1>2. a \in [Limbs -> Nat] /\ m \in Nat /\ m <= 32 /\ norm \in BOOLEAN /\ (norm => m <= 1)
  BY DEF Good, Holds
<1>3. Value(a) \in Nat
  BY <1>2, ValueOf
<1>4. /\ Elem(a, m, norm).v = Value(a) % Prime
      /\ Elem(a, m, norm).m = m /\ Elem(a, m, norm).norm = norm
      /\ Elem(a, m, norm).ok
  BY DEF Elem
<1>5. Register!Verified(Elem(a, m, norm))
  BY <1>1, <1>2, <1>4 DEF Register!Verified
<1>6. Rest(Value(a), Value(a) % Prime)
  BY <1>3 DEF Rest
<1> QED
  BY <1>1, <1>2, <1>4, <1>5, <1>6

LEMMA ElementIs ==
  ASSUME Sizes, NEW v, NEW a, NEW m, NEW checks, m \in Nat, m <= 32, checks = TRUE,
         Value(a) % Prime = v % Prime
  PROVE  Register!Element(v, m, checks) = Elem(a, m, FALSE)
<1>1. m <= MaxMagnitude
  BY DEF Sizes
<1>2. (checks /\ m <= MaxMagnitude) = TRUE
  BY <1>1
<1> QED
  BY <1>2 DEF Register!Element, Elem

LEMMA NegateElem ==
  ASSUME Sizes, NEW a, NEW m, NEW norm, Good(a, m, norm), NEW k, k \in 0..31, m <= k
  PROVE  Register!Negate(Elem(a, m, norm), k) = Elem(Negate(a, k), k + 1, FALSE)
<1>1. Holds(a, k)
  BY HoldsMore DEF Good, Holds
<1>2. Plus(Value(Negate(a, k)), Value(a), 2 * (k + 1) * Prime) /\ Holds(Negate(a, k), k + 1)
  BY <1>1, NegateIs
<1>3. Value(Negate(a, k)) \in Nat
  BY <1>2, ValueOf DEF Holds
<1>a. Rest(Value(a), Value(a) % Prime) /\ Elem(a, m, norm).v = Value(a) % Prime
  BY GoodFacts
<1>b. k \in Nat
  OBVIOUS
<1>c. Value(Negate(a, k)) % Prime = (Prime - (Value(a) % Prime)) % Prime
  BY <1>2, <1>3, <1>a, <1>b, RestNegate, Zenon
<1>4. Value(Negate(a, k)) % Prime = (Prime - Elem(a, m, norm).v) % Prime
  BY <1>a, <1>c
<1>5. (Register!Verified(Elem(a, m, norm)) /\ k < MaxMagnitude /\ Elem(a, m, norm).m <= k) = TRUE
  BY GoodFacts
<1>6. k + 1 \in Nat /\ k + 1 <= 32
  OBVIOUS
<1> QED
  BY <1>4, <1>5, <1>6, ElementIs DEF Register!Negate

LEMMA MulIntElem ==
  ASSUME Sizes, NEW a, NEW m, NEW norm, Good(a, m, norm), NEW i, i \in 0..32, i * m <= 32
  PROVE  Register!MulInt(Elem(a, m, norm), i) = Elem(MulInt(a, i), i * m, FALSE)
<1>1. Scaled(i, Value(a), Value(MulInt(a, i)))
  BY MulIntIs DEF Good
<1>2. Value(MulInt(a, i)) % Prime = (Elem(a, m, norm).v * i) % Prime
  BY <1>1, GoodFacts, RestScaled
<1>3. (Register!Verified(Elem(a, m, norm)) /\ i <= 32) = TRUE
  BY GoodFacts
<1>4. m \in Nat /\ Elem(a, m, norm).m = m
  BY GoodFacts
<1>5. Elem(a, m, norm).m * i = i * m /\ i * m \in Nat
  BY <1>4
<1>6. Register!Element(Elem(a, m, norm).v * i, i * m,
                       Register!Verified(Elem(a, m, norm)) /\ i <= 32)
        = Elem(MulInt(a, i), i * m, FALSE)
  BY <1>2, <1>3, <1>5, ElementIs
<1> QED
  BY <1>5, <1>6 DEF Register!MulInt

LEMMA AddIntElem ==
  ASSUME Sizes, NEW a, NEW m, NEW norm, Good(a, m, norm), NEW i, i \in 0..MaxAddend, m < 32
  PROVE  Register!AddInt(Elem(a, m, norm), i) = Elem(AddInt(a, i), m + 1, FALSE)
<1>1. Plus(Value(a), i, Value(AddInt(a, i)))
  BY AddIntIs DEF Good
<1>2. Value(AddInt(a, i)) % Prime = (Elem(a, m, norm).v + i) % Prime
  BY <1>1, GoodFacts, RestAddInt
<1>3. (Register!Verified(Elem(a, m, norm)) /\ i <= Register!MaxAddend) = TRUE
  BY GoodFacts, AddendIs
<1>4. Elem(a, m, norm).m = m /\ m + 1 \in Nat /\ m + 1 <= 32
  BY GoodFacts
<1> QED
  BY <1>2, <1>3, <1>4, ElementIs DEF Register!AddInt

LEMMA AddElem ==
  ASSUME Sizes, NEW a, NEW m, NEW norm, Good(a, m, norm),
         NEW b, NEW k, NEW other, Good(b, k, other), m + k <= 32
  PROVE  Register!Add(Elem(a, m, norm), Elem(b, k, other)) = Loose(Add(a, b), m + k)
<1>1. Plus(Value(a), Value(b), Value(Add(a, b)))
  BY AddIs DEF Good
<1>2. Value(Add(a, b)) % Prime = (Elem(a, m, norm).v + Elem(b, k, other).v) % Prime
  BY <1>1, GoodFacts, RestSum
<1>3. (Register!Verified(Elem(a, m, norm)) /\ Register!Verified(Elem(b, k, other))) = TRUE
  BY GoodFacts
<1>4. Elem(a, m, norm).m = m /\ Elem(b, k, other).m = k /\ m + k \in Nat
  BY GoodFacts
<1> QED
  BY <1>2, <1>3, <1>4, ElementIs DEF Register!Add, Loose

(* The product that FieldElement writes, whichever way it computes it.      *)
LEMMA TimesIs ==
  ASSUME Sizes, NEW x, NEW v, NEW y, NEW w, Rest(x, v), Rest(y, w)
  PROVE  Register!Times(v, w) = (w * v) % Prime
<1>1. Prime \in Nat \ {0} /\ v \in Nat /\ w \in Nat /\ w < Prime
  BY RestIs
<1>2. PICK p \in Nat \ {0} : p = Prime
  BY <1>1
<1>3. w \in 0..Prime-1
  BY <1>1, <1>2
<1>4. Register!TimesByDigits(v, w) = (w * v) % Prime
  BY <1>1, <1>3, ByDigits
<1>5. v * w = w * v
  BY <1>1
<1> QED
  BY <1>4, <1>5 DEF Register!Times

LEMMA ProductRest ==
  ASSUME Sizes, NEW a, NEW m, NEW b, NEW k, Holds(a, m), Holds(b, k), m <= 8, k <= 8,
         NEW v, NEW w, Rest(Value(a), v), Rest(Value(b), w)
  PROVE  Value(MulInner(a, b)) % Prime = Register!Times(v, w) % Prime
<1>1. Congruent(Value(a) * Value(b), Value(MulInner(a, b)))
  BY MulInnerIs
<1>2. Value(MulInner(a, b)) % Prime = (w * v) % Prime
  BY <1>1, RestProduct
<1>3. Register!Times(v, w) = (w * v) % Prime
  BY TimesIs
<1>4. PICK p \in Nat \ {0}, v1 \in Nat, w1 \in Nat : p = Prime /\ v1 = v /\ w1 = w
  BY RestIs
<1>5. PICK u \in Nat : u = w1 * v1
  OBVIOUS
<1>6. u % p \in Nat /\ u % p < p
  BY DivMod
<1>7. (u % p) % p = u % p
  BY <1>6, Fits
<1> QED
  BY <1>2, <1>3, <1>4, <1>5, <1>7

LEMMA MulElem ==
  ASSUME Sizes, NEW a, NEW m, NEW norm, Good(a, m, norm),
         NEW b, NEW k, NEW other, Good(b, k, other), m <= 8, k <= 8
  PROVE  Register!Mul(Elem(a, m, norm), Elem(b, k, other)) = Loose(MulInner(a, b), 1)
<1> DEFINE x == Elem(a, m, norm)
           y == Elem(b, k, other)
<1>1. Holds(a, m) /\ Holds(b, k)
  BY DEF Good
<1>2. Rest(Value(a), x.v) /\ Rest(Value(b), y.v)
  BY GoodFacts
<1>3. (Register!Verified(x) /\ Register!Verified(y) /\ x.m <= MulMagnitude /\ y.m <= MulMagnitude)
        = TRUE
  BY GoodFacts
<1>4. 1 \in Nat /\ 1 <= 32
  OBVIOUS
<1> HIDE DEF x, y
<1>5. Value(MulInner(a, b)) % Prime = Register!Times(x.v, y.v) % Prime
  BY <1>1, <1>2, ProductRest
<1>6. Register!Element(Register!Times(x.v, y.v), 1,
        Register!Verified(x) /\ Register!Verified(y) /\ x.m <= MulMagnitude
          /\ y.m <= MulMagnitude) = Elem(MulInner(a, b), 1, FALSE)
  BY <1>3, <1>4, <1>5, ElementIs, Zenon
<1>7. Register!Mul(x, y) = Elem(MulInner(a, b), 1, FALSE)
  BY <1>6 DEF Register!Mul
<1> QED
  BY <1>7 DEF x, y, Loose

LEMMA SqrElem ==
  ASSUME Sizes, NEW a, NEW m, NEW norm, Good(a, m, norm), m <= 8
  PROVE  Register!Sqr(Elem(a, m, norm)) = Elem(SqrInner(a), 1, FALSE)
<1> DEFINE x == Elem(a, m, norm)
<1>1. Holds(a, m)
  BY DEF Good
<1>2. Rest(Value(a), x.v)
  BY GoodFacts
<1>3. (Register!Verified(x) /\ x.m <= MulMagnitude) = TRUE
  BY GoodFacts
<1>4. 1 \in Nat /\ 1 <= 32
  OBVIOUS
<1> HIDE DEF x
<1>5. Value(MulInner(a, a)) % Prime = Register!Times(x.v, x.v) % Prime
  BY <1>1, <1>2, ProductRest
<1>6. SqrInner(a) = MulInner(a, a)
  BY <1>1, SqrInnerIs
<1>7. Value(SqrInner(a)) % Prime = Register!Times(x.v, x.v) % Prime
  BY <1>5, <1>6
<1>8. Register!Element(Register!Times(x.v, x.v), 1,
        Register!Verified(x) /\ x.m <= MulMagnitude) = Elem(SqrInner(a), 1, FALSE)
  BY <1>3, <1>4, <1>7, ElementIs, Zenon
<1>9. Register!Sqr(x) = Elem(SqrInner(a), 1, FALSE)
  BY <1>8 DEF Register!Sqr
<1> QED
  BY <1>9 DEF x

LEMMA HalfElem ==
  ASSUME Sizes, NEW a, NEW m, NEW norm, Good(a, m, norm), m <= 31
  PROVE  Register!Half(Elem(a, m, norm)) = Elem(Half(a), (m \div 2) + 1, FALSE)
<1> DEFINE x == Elem(a, m, norm)
<1>1. Holds(a, m)
  BY DEF Good
<1>2. Rest(Value(a), x.v)
  BY GoodFacts
<1>3. (Register!Verified(x) /\ x.m < MaxMagnitude) = TRUE
  BY GoodFacts
<1>4. x.m = m /\ m \in Nat
  BY GoodFacts
<1>5. (m \div 2) + 1 \in Nat /\ (m \div 2) + 1 <= 32
  BY <1>4
<1>6. Holds(Half(a), (m \div 2) + 1) /\ 2 * Value(Half(a)) = Value(a) + (a[0] % 2) * Prime
  BY <1>1, HalfIs
<1>7. Value(Half(a)) \in Nat
  BY <1>6, ValueOf DEF Holds
<1>8. a[0] % 2 \in {0, 1}
  <2>1. a[0] \in Nat
    BY <1>1, ValueOf DEF Holds
  <2> QED
    BY <2>1
<1> HIDE DEF x
<1>9. PICK h, o : h = Value(Half(a)) /\ o = a[0] % 2
  OBVIOUS
<1>10. h \in Nat /\ o \in {0, 1} /\ 2 * h = Value(a) + o * Prime
  BY <1>6, <1>7, <1>8, <1>9
<1>11. h % Prime = (IF x.v % 2 = 0 THEN x.v \div 2 ELSE (x.v + Prime) \div 2) % Prime
  BY <1>2, <1>10, RestHalf, Zenon
<1>12. Value(Half(a)) % Prime
         = (IF x.v % 2 = 0 THEN x.v \div 2 ELSE (x.v + Prime) \div 2) % Prime
  BY <1>9, <1>11
<1>13. Register!Element(IF x.v % 2 = 0 THEN x.v \div 2 ELSE (x.v + Prime) \div 2,
         (m \div 2) + 1, Register!Verified(x) /\ x.m < MaxMagnitude)
         = Elem(Half(a), (m \div 2) + 1, FALSE)
  BY <1>3, <1>5, <1>12, ElementIs, Zenon
<1>14. Register!Half(x) = Elem(Half(a), (m \div 2) + 1, FALSE)
  BY <1>4, <1>13 DEF Register!Half
<1> QED
  BY <1>14 DEF x

LEMMA RecordIs ==
  ASSUME NEW v, NEW m, NEW norm, NEW ok,
         NEW e \in [v : {v}, m : {m}, norm : {norm}, ok : {ok}]
  PROVE  e = [v |-> v, m |-> m, norm |-> norm, ok |-> ok]
OBVIOUS

LEMMA NormalizeElem ==
  ASSUME Sizes, NEW a, NEW m, NEW norm, Good(a, m, norm)
  PROVE  /\ Register!NormalizeWeak(Elem(a, m, norm)) = Elem(NormalizeWeak(a), 1, norm)
         /\ Register!Normalize(Elem(a, m, norm)) = Elem(Normalize(a), 1, TRUE)
<1>1. Holds(a, m)
  BY DEF Good
<1>2. Register!Verified(Elem(a, m, norm)) = TRUE
  BY GoodFacts DEF Register!Verified
<1>3. Value(a) % Prime = Value(NormalizeWeak(a)) % Prime
  BY <1>1, WeakCongruent, CongruentRest
<1>4. Value(a) % Prime = Value(Normalize(a)) % Prime
  BY <1>1, NormalizeIs, CongruentRest
<1> DEFINE x == Elem(a, m, norm)
<1>a. PICK u : u = Value(a) % Prime
  OBVIOUS
<1>b. u = Value(NormalizeWeak(a)) % Prime /\ u = Value(Normalize(a)) % Prime
  BY <1>3, <1>4, <1>a
<1>c. x = [v |-> u, m |-> m, norm |-> norm, ok |-> TRUE]
  BY <1>a DEF Elem
<1>d. /\ Elem(NormalizeWeak(a), 1, norm) = [v |-> u, m |-> 1, norm |-> norm, ok |-> TRUE]
      /\ Elem(Normalize(a), 1, TRUE) = [v |-> u, m |-> 1, norm |-> TRUE, ok |-> TRUE]
  BY <1>b DEF Elem
<1> HIDE DEF x
<1>5. /\ [x EXCEPT !.m = 1, !.ok = TRUE] = Elem(NormalizeWeak(a), 1, norm)
      /\ [x EXCEPT !.m = 1, !.norm = TRUE, !.ok = TRUE] = Elem(Normalize(a), 1, TRUE)
  <2>1. [x EXCEPT !.m = 1, !.ok = TRUE] \in [v : {u}, m : {1}, norm : {norm}, ok : {TRUE}]
    BY <1>c
  <2>2. [x EXCEPT !.m = 1, !.norm = TRUE, !.ok = TRUE]
          \in [v : {u}, m : {1}, norm : {TRUE}, ok : {TRUE}]
    BY <1>c
  <2>3. [x EXCEPT !.m = 1, !.ok = TRUE] = [v |-> u, m |-> 1, norm |-> norm, ok |-> TRUE]
    BY <2>1, RecordIs, ZenonT(60)
  <2>4. [x EXCEPT !.m = 1, !.norm = TRUE, !.ok = TRUE]
          = [v |-> u, m |-> 1, norm |-> TRUE, ok |-> TRUE]
    BY <2>2, RecordIs
  <2> QED
    BY <1>d, <2>3, <2>4
<1>6. Register!Verified(x) = TRUE
  BY <1>2 DEF x
<1>7. /\ Register!NormalizeWeak(x) = Elem(NormalizeWeak(a), 1, norm)
      /\ Register!Normalize(x) = Elem(Normalize(a), 1, TRUE)
  BY <1>5, <1>6 DEF Register!NormalizeWeak, Register!Normalize
<1> QED
  BY <1>7 DEF x

LEMMA CmovElem ==
  ASSUME Sizes, NEW a, NEW m, NEW norm, Good(a, m, norm),
         NEW b, NEW k, NEW other, Good(b, k, other), NEW flag \in BOOLEAN
  PROVE  Register!Cmov(Elem(a, m, norm), Elem(b, k, other), flag)
           = Elem(Cmov(a, b, flag), IF k > m THEN k ELSE m, norm /\ other)
<1> DEFINE x == Elem(a, m, norm)
           y == Elem(b, k, other)
<1>1. (Register!Verified(x) /\ Register!Verified(y)) = TRUE
  BY GoodFacts
<1>2. /\ x.v = Value(a) % Prime /\ x.m = m /\ x.norm = norm
      /\ y.v = Value(b) % Prime /\ y.m = k /\ y.norm = other
  BY GoodFacts
<1> HIDE DEF x, y
<1>4. Value(Cmov(a, b, flag)) % Prime = IF flag THEN y.v ELSE x.v
  BY <1>2 DEF Cmov
<1>5. Register!Cmov(x, y, flag) = Elem(Cmov(a, b, flag), IF k > m THEN k ELSE m, norm /\ other)
  BY <1>1, <1>2, <1>4 DEF Register!Cmov, Elem
<1> QED
  BY <1>5 DEF x, y

LEMMA SetIs ==
  ASSUME NEW e, NEW limbs, NEW m, NEW norm,
         n' = limbs, magnitude' = m, normalized' = norm, e = Elem(limbs, m, norm)
  PROVE  Register!Set(e)
<1>1. e.ok
  BY DEF Elem
<1>2. [v |-> Value(n) % Prime, m |-> magnitude, norm |-> normalized, ok |-> TRUE]' = e
  BY DEF Elem, Value, Prime
<1> QED
  BY <1>1, <1>2 DEF Register!Set

(* The abstract register's steps, for the element that the limbs hold.      *)
LEMMA RegisterSteps ==
  ASSUME NEW fe, fe = Elem(n, magnitude, normalized)
  PROVE  /\ Register!Set(Register!NormalizeWeak(fe)) => Register!Next
         /\ Register!Set(Register!Normalize(fe)) => Register!Next
         /\ \A m \in 0..MaxMagnitude-1 : Register!Set(Register!Negate(fe, m)) => Register!Next
         /\ \A i \in Factors : Register!Set(Register!MulInt(fe, i)) => Register!Next
         /\ \A i \in Addends : Register!Set(Register!AddInt(fe, i)) => Register!Next
         /\ Register!Set(Register!Sqr(fe)) => Register!Next
         /\ Register!Set(Register!Half(fe)) => Register!Next
<1>1. fe = [v |-> Value(n) % Prime, m |-> magnitude, norm |-> normalized, ok |-> TRUE]
  BY DEF Elem
<1> QED
  BY <1>1 DEF Register!Next

LEMMA RegisterOperandSteps ==
  ASSUME NEW fe, fe = Elem(n, magnitude, normalized), NEW b \in Operands,
         NEW e, e = Elem(b.n, b.m, b.norm)
  PROVE  /\ Register!Set(Register!Add(fe, e)) => Register!Next
         /\ Register!Set(Register!Mul(fe, e)) => Register!Next
         /\ \A flag \in BOOLEAN : Register!Set(Register!Cmov(fe, e, flag)) => Register!Next
<1>1. fe = [v |-> Value(n) % Prime, m |-> magnitude, norm |-> normalized, ok |-> TRUE]
  BY DEF Elem
<1>2. e \in {[v |-> Value(o.n) % Prime, m |-> o.m, norm |-> o.norm, ok |-> TRUE] : o \in Operands}
  BY DEF Elem
<1> QED
  BY <1>1, <1>2 DEF Register!Next

LEMMA OperandGood ==
  ASSUME Sizes, RegisterAssumption, NEW b \in Operands
  PROVE  Good(b.n, b.m, b.norm)
<1>1. Verified(b)
  BY DEF RegisterAssumption
<1> QED
  BY <1>1, VerifiedIs DEF Good

LEMMA StepElement ==
  ASSUME Sizes, RegisterAssumption, FieldInv, [Next]_vars
  PROVE  \/ Register!Next
         \/ UNCHANGED [v |-> Value(n) % Prime, m |-> magnitude, norm |-> normalized, ok |-> TRUE]
<1>0. Good(n, magnitude, normalized)
  BY DEF FieldInv, Good
<1>s. MaxMagnitude = 32 /\ MulMagnitude = 8
  BY DEF Sizes
<1>m. magnitude \in Nat /\ magnitude <= 32
  BY <1>0 DEF Good, Holds
<1>b. \A b \in Operands : Good(b.n, b.m, b.norm) /\ b.m \in Nat
  BY OperandGood DEF Good, Holds
<1>f. Factors \subseteq 0..32
  BY <1>s DEF RegisterAssumption
<1>e. PICK fe : fe = Elem(n, magnitude, normalized)
  OBVIOUS
<1>1. CASE DoNormalizeWeak
  <2>1. n' = NormalizeWeak(n) /\ magnitude' = 1 /\ normalized' = normalized
    BY <1>1 DEF DoNormalizeWeak, Becomes
  <2>2. Register!NormalizeWeak(fe) = Elem(NormalizeWeak(n), 1, normalized)
    BY <1>0, <1>e, NormalizeElem
  <2>3. Register!Set(Register!NormalizeWeak(fe))
    BY <2>1, <2>2, SetIs
  <2> QED
    BY <1>e, <2>3, RegisterSteps
<1>2. CASE DoNormalize
  <2>1. n' = Normalize(n) /\ magnitude' = 1 /\ normalized' = TRUE
    BY <1>2 DEF DoNormalize, Becomes
  <2>2. Register!Normalize(fe) = Elem(Normalize(n), 1, TRUE)
    BY <1>0, <1>e, NormalizeElem
  <2>3. Register!Set(Register!Normalize(fe))
    BY <2>1, <2>2, SetIs, Zenon
  <2> QED
    BY <1>e, <2>3, RegisterSteps
<1>3. ASSUME NEW k \in 0..MaxMagnitude-1, DoNegate(k) PROVE Register!Next
  <2>a. MaxMagnitude - 1 = 31
    BY <1>s
  <2>b. k \in 0..31
    BY <2>a
  <2>c. magnitude <= k
    BY <1>3, Zenon DEF DoNegate
  <2>1. n' = Negate(n, k) /\ magnitude' = k + 1 /\ normalized' = FALSE
    BY <1>3, Zenon DEF DoNegate, Becomes
  <2>2. Register!Negate(fe, k) = Elem(Negate(n, k), k + 1, FALSE)
    BY <1>0, <1>e, <2>b, <2>c, NegateElem
  <2>3. Register!Set(Register!Negate(fe, k))
    BY <2>1, <2>2, SetIs, Zenon
  <2> QED
    BY <1>e, <2>3, RegisterSteps
<1>4. ASSUME NEW i \in Factors, DoMulInt(i) PROVE Register!Next
  <2>a. i \in 0..32
    BY <1>f
  <2>b. i * magnitude <= MaxMagnitude
    BY <1>4, Zenon DEF DoMulInt
  <2>c. i * magnitude <= 32
    BY <1>s, <2>b
  <2>1. n' = MulInt(n, i) /\ magnitude' = i * magnitude /\ normalized' = FALSE
    BY <1>4, Zenon DEF DoMulInt, Becomes
  <2>2. Register!MulInt(fe, i) = Elem(MulInt(n, i), i * magnitude, FALSE)
    BY <1>0, <1>e, <2>a, <2>c, MulIntElem
  <2>3. Register!Set(Register!MulInt(fe, i))
    BY <2>1, <2>2, SetIs, Zenon
  <2> QED
    BY <1>e, <2>3, RegisterSteps
<1>5. ASSUME NEW i \in Addends, DoAddInt(i) PROVE Register!Next
  <2>a. i \in 0..MaxAddend
    BY DEF RegisterAssumption
  <2>b. magnitude < MaxMagnitude
    BY <1>5, Zenon DEF DoAddInt
  <2>c. magnitude < 32
    BY <1>s, <2>b
  <2>1. n' = AddInt(n, i) /\ magnitude' = magnitude + 1 /\ normalized' = FALSE
    BY <1>5, Zenon DEF DoAddInt, Becomes
  <2>2. Register!AddInt(fe, i) = Elem(AddInt(n, i), magnitude + 1, FALSE)
    BY <1>0, <1>e, <2>a, <2>c, AddIntElem
  <2>3. Register!Set(Register!AddInt(fe, i))
    BY <2>1, <2>2, SetIs, Zenon
  <2> QED
    BY <1>e, <2>3, RegisterSteps
<1>6. ASSUME NEW b \in Operands, DoAdd(b) PROVE Register!Next
  <2>e. PICK e : e = Elem(b.n, b.m, b.norm)
    OBVIOUS
  <2>b. magnitude + b.m <= MaxMagnitude
    BY <1>6, Zenon DEF DoAdd
  <2>c. magnitude + b.m <= 32
    BY <1>s, <2>b
  <2>1. n' = Add(n, b.n) /\ magnitude' = magnitude + b.m /\ normalized' = FALSE
    BY <1>6, Zenon DEF DoAdd, Becomes
  <2>2. Register!Add(fe, e) = Elem(Add(n, b.n), magnitude + b.m, FALSE)
    <3>1. PICK l, k, other : l = b.n /\ k = b.m /\ other = b.norm
      OBVIOUS
    <3>2. Good(l, k, other) /\ magnitude + k <= 32
      BY <1>b, <2>c, <3>1
    <3>3. Register!Add(Elem(n, magnitude, normalized), Elem(l, k, other)) = Loose(Add(n, l), magnitude + k)
      BY <1>0, <3>2, AddElem
    <3> QED
      BY <1>e, <2>e, <3>1, <3>3 DEF Loose
  <2>3. Register!Set(Register!Add(fe, e))
    BY <2>1, <2>2, SetIs, Zenon
  <2> QED
    BY <1>e, <2>e, <2>3, RegisterOperandSteps
<1>7. ASSUME NEW b \in Operands, DoMul(b) PROVE Register!Next
  <2>e. PICK e : e = Elem(b.n, b.m, b.norm)
    OBVIOUS
  <2>1. /\ magnitude <= 8 /\ b.m <= 8
        /\ n' = MulInner(n, b.n) /\ magnitude' = 1 /\ normalized' = FALSE
    BY <1>s, <1>7 DEF DoMul, Becomes
  <2>2. Register!Mul(fe, e) = Elem(MulInner(n, b.n), 1, FALSE)
    <3>1. PICK l, k, other : l = b.n /\ k = b.m /\ other = b.norm
      OBVIOUS
    <3>2. Good(l, k, other) /\ magnitude <= 8 /\ k <= 8
      BY <1>b, <2>1, <3>1
    <3>3. Register!Mul(Elem(n, magnitude, normalized), Elem(l, k, other)) = Loose(MulInner(n, l), 1)
      BY <1>0, <3>2, MulElem
    <3> QED
      BY <1>e, <2>e, <3>1, <3>3 DEF Loose
  <2>3. Register!Set(Register!Mul(fe, e))
    BY <2>1, <2>2, SetIs, Zenon
  <2> QED
    BY <1>e, <2>e, <2>3, RegisterOperandSteps
<1>8. CASE DoSqr
  <2>1. magnitude <= 8 /\ n' = SqrInner(n) /\ magnitude' = 1 /\ normalized' = FALSE
    BY <1>s, <1>8 DEF DoSqr, Becomes
  <2>2. Register!Sqr(fe) = Elem(SqrInner(n), 1, FALSE)
    BY <1>0, <1>e, <2>1, SqrElem
  <2>3. Register!Set(Register!Sqr(fe))
    BY <2>1, <2>2, SetIs, Zenon
  <2> QED
    BY <1>e, <2>3, RegisterSteps
<1>9. CASE DoHalf
  <2>b. magnitude < MaxMagnitude
    BY <1>9, Zenon DEF DoHalf
  <2>c. magnitude <= 31
    BY <1>m, <1>s, <2>b
  <2>1. n' = Half(n) /\ magnitude' = (magnitude \div 2) + 1 /\ normalized' = FALSE
    BY <1>9, Zenon DEF DoHalf, Becomes
  <2>2. Register!Half(fe) = Elem(Half(n), (magnitude \div 2) + 1, FALSE)
    BY <1>0, <1>e, <2>c, HalfElem
  <2>3. Register!Set(Register!Half(fe))
    BY <2>1, <2>2, SetIs, Zenon
  <2> QED
    BY <1>e, <2>3, RegisterSteps
<1>10. ASSUME NEW b \in Operands, NEW flag \in BOOLEAN, DoCmov(b, flag) PROVE Register!Next
  <2>e. PICK e : e = Elem(b.n, b.m, b.norm)
    OBVIOUS
  <2>1. /\ n' = Cmov(n, b.n, flag)
        /\ magnitude' = IF b.m > magnitude THEN b.m ELSE magnitude
        /\ normalized' = (normalized /\ b.norm)
    BY <1>10, Zenon DEF DoCmov, Becomes
  <2>2. Register!Cmov(fe, e, flag)
          = Elem(Cmov(n, b.n, flag), IF b.m > magnitude THEN b.m ELSE magnitude,
                 normalized /\ b.norm)
    BY <1>0, <1>b, <1>e, <2>e, CmovElem
  <2>3. Register!Set(Register!Cmov(fe, e, flag))
    BY <2>1, <2>2, SetIs, Zenon
  <2> QED
    BY <1>e, <2>e, <2>3, RegisterOperandSteps
<1>11. CASE UNCHANGED vars
  BY <1>11 DEF vars, Value, Prime
<1> QED
  BY <1>1, <1>2, <1>3, <1>4, <1>5, <1>6, <1>7, <1>8, <1>9, <1>10, <1>11 DEF Next

LEMMA InitElement ==
  ASSUME Init
  PROVE  Register!Init
<1>1. PICK s \in Start : n = s.n /\ magnitude = s.m /\ normalized = s.norm
  BY DEF Init
<1> QED
  BY <1>1 DEF Register!Init

(* The limbs implement the register of field elements: whatever straight    *)
(* line of operations field_impl.h's checks allow, and whatever the         *)
(* representations on the way, the register holds the element that the      *)
(* arithmetic modulo P gives, with every check along the way passed.        *)
THEOREM LimbsHoldElement ==
  ASSUME Sizes, RegisterAssumption
  PROVE  Spec => HoldsElement
<1>1. Init => Register!Init
  BY InitElement
<1>2. FieldInv /\ [Next]_vars
        => [Register!Next]_[v |-> Value(n) % Prime, m |-> magnitude, norm |-> normalized,
                            ok |-> TRUE]
  BY StepElement
<1> QED
  BY <1>1, <1>2, FieldInvariant, PTL DEF Spec, HoldsElement, Register!Spec
================================================================================
