----------------------------- MODULE Field5x52 -----------------------------
(***************************************************************************)
(* The representation of field elements on 64-bit machines                 *)
(* (field_5x52_impl.h, field_5x52_int128_impl.h): five limbs with room to  *)
(* spare, so that carries can wait.  A register goes through any straight  *)
(* line of operations, as in the group formulas; FieldRegister says what   *)
(* the register should hold.                                               *)
(*                                                                         *)
(* Sizes are parameters: B is 2^52, T 2^48, C 0x1000003D1, Word 2^64.      *)
(***************************************************************************)
EXTENDS Integers, Sequences

CONSTANTS
  B,             \* the base of the lower limbs
  T,             \* the base of the top limb
  C,             \* T * B^4 modulo P
  Word,          \* what a machine word holds
  MaxMagnitude, MulMagnitude,
  Start,         \* registers to start from
  Operands,      \* second operands: [n, m, norm]
  Factors,       \* small factors of mul_int
  Addends,       \* and addends of add_int
  MaxSteps       \* bound: operations in a straight line

VARIABLES
  n,             \* the limbs
  magnitude, normalized,
  steps

vars == <<n, magnitude, normalized, steps>>

Prime == T * B * B * B * B - C
M == B - 1                   \* 0xFFFFFFFFFFFFF
Lowest == B - C             \* the lowest limb of P, 0xFFFFEFFFFFC2F
R == C * (B \div T)          \* 0x1000003D10
X == Word \div B             \* 2^12
Limbs == 0..4

(* What is assumed of the sizes. *)
LimbAssumption ==
  /\ B \in Nat /\ T \in Nat /\ C \in Nat /\ Word \in Nat
  /\ B % T = 0 /\ Word % B = 0 /\ C % 2 = 1 /\ C > 0 /\ C < B
  /\ T % 2 = 0 /\ R * X < Word
  /\ MaxMagnitude \in Nat /\ MulMagnitude \in 1..MaxMagnitude
  /\ 2 * MaxMagnitude + 1 < T
  /\ MaxSteps \in Nat

Value(a) == a[0] + B * (a[1] + B * (a[2] + B * (a[3] + B * a[4])))

U64(x)  == x % Word
U128(x) == x % (Word * Word)

L5(a0, a1, a2, a3, a4) ==
  [i \in Limbs |-> CASE i = 0 -> a0 [] i = 1 -> a1 [] i = 2 -> a2
                     [] i = 3 -> a3 [] i = 4 -> a4]

(* secp256k1_fe_impl_verify and _get_bounds: what a magnitude means.        *)
Bound(i, m) == 2 * m * (IF i = 4 THEN T - 1 ELSE M)

WithinBounds(a, m) == \A i \in Limbs : a[i] <= Bound(i, m)

AtLeastP(a) ==
  /\ a[4] = T - 1
  /\ a[3] = M /\ a[2] = M /\ a[1] = M
  /\ a[0] >= Lowest

----------------------------------------------------------------------------
(* secp256k1_fe_verify: what a register [n, m, norm] is, whoever made it.   *)
(* One of magnitude 0 is zero.                                              *)
Verified(s) ==
  /\ s.n \in [Limbs -> Nat] /\ s.m \in 0..MaxMagnitude /\ s.norm \in BOOLEAN
  /\ WithinBounds(s.n, s.m)
  /\ s.norm =>
       /\ s.m <= 1
       /\ \A i \in Limbs : s.n[i] <= IF i = 4 THEN T - 1 ELSE M
       /\ ~AtLeastP(s.n)

MaxAddend == 32767    \* 0x7FFF

(* What is assumed of the registers and numbers that come from outside.     *)
RegisterAssumption ==
  /\ \A s \in Start \cup Operands : Verified(s)
  /\ Factors \subseteq 0..MaxMagnitude
  /\ Addends \subseteq 0..MaxAddend

(* Carries from each of the lower limbs to the next. *)
Carry(t) ==
  LET t1 == U64(t[1] + (t[0] \div B))
      t2 == U64(t[2] + (t1 \div B))
      t3 == U64(t[3] + (t2 \div B))
  IN L5(t[0] % B, t1 % B, t2 % B, t3 % B, U64(t[4] + (t3 \div B)))

(* What exceeds the top limb comes back at the bottom, times C.             *)
NormalizeWeak(a) ==
  Carry([a EXCEPT ![0] = U64(@ + (a[4] \div T) * C), ![4] = @ % T])

(* Mutation: no final subtraction of P. *)
NormalizeOnce(a) == NormalizeWeak(a)

Normalize(a) ==
  LET t == NormalizeWeak(a)
      x == IF t[4] >= T \/ AtLeastP(t) THEN 1 ELSE 0
      u == Carry([t EXCEPT ![0] = @ + x * C])
  IN [u EXCEPT ![4] = @ % T]

(* The raw values 0 and P are all that a value of zero can look like.       *)
NormalizesToZero(a) ==
  LET t == NormalizeWeak(a)
  IN \/ \A i \in Limbs : t[i] = 0
     \/ t[0] = Lowest /\ t[1] = M /\ t[2] = M /\ t[3] = M /\ t[4] = T - 1

(* The same with a fast way out on the lowest limb. *)
NormalizesToZeroVar(a) ==
  LET t0 == U64(a[0] + (a[4] \div T) * C) % B
  IN t0 \in {0, Lowest} /\ NormalizesToZero(a)

IsOdd(a) == a[0] % 2 = 1

(* 32 bytes as the number they spell; the limit refuses P and above.        *)
SetB32Mod(x) ==
  L5(x % B, (x \div B) % B, (x \div (B * B)) % B, (x \div (B * B * B)) % B,
     x \div (B * B * B * B))

SetB32Limit(x) == [n |-> SetB32Mod(x), accepted |-> ~AtLeastP(SetB32Mod(x))]

SetInt(i) == L5(i, 0, 0, 0, 0)

(* Subtracts from a multiple of P no limb of which is below that of a.      *)
Negate(a, m) ==
  L5(U64(2 * (m + 1) * Lowest - a[0]), U64(2 * (m + 1) * M - a[1]),
     U64(2 * (m + 1) * M - a[2]), U64(2 * (m + 1) * M - a[3]),
     U64(2 * (m + 1) * (T - 1) - a[4]))

MulInt(a, i) == [k \in Limbs |-> U64(a[k] * i)]

AddInt(a, i) == [a EXCEPT ![0] = U64(@ + i)]

Add(a, b) == [k \in Limbs |-> U64(a[k] + b[k])]

Cmov(r, a, flag) == IF flag THEN a ELSE r

(* Mutation: odd values are shifted as they are. *)
HalfOfEven(a) ==
  LET Down(i) == (a[i] \div 2) + (a[i + 1] % 2) * (B \div 2)
  IN L5(Down(0), Down(1), Down(2), Down(3), a[4] \div 2)

(* Adds P if the value is odd, and shifts everything by one bit.            *)
Half(a) ==
  LET odd == a[0] % 2
      t == L5(U64(a[0] + odd * Lowest), U64(a[1] + odd * M),
              U64(a[2] + odd * M),
              U64(a[3] + odd * M), U64(a[4] + odd * (T - 1)))
      Down(i) == (t[i] \div 2) + (t[i + 1] % 2) * (B \div 2)
  IN L5(Down(0), Down(1), Down(2), Down(3), t[4] \div 2)

(* -1, 0 or 1, from the top limb down. *)
CmpVar(a, b) ==
  LET diff == {i \in Limbs : a[i] # b[i]}
      top  == CHOOSE i \in diff : \A j \in diff : j <= i
  IN IF diff = {} THEN 0 ELSE IF a[top] > b[top] THEN 1 ELSE -1
----------------------------------------------------------------------------
(* The sum of the products a[i] * b[k - i]: column k of the product.        *)
Column(a, b, k) ==
  LET term(i) == IF k - i \in Limbs THEN a[i] * b[k - i] ELSE 0
  IN term(0) + term(1) + term(2) + term(3) + term(4)

(* secp256k1_fe_mul_inner: two accumulators of two words go over the        *)
(* columns, c from the bottom and d from the middle; what d drops comes     *)
(* back times R, five limbs lower.                                          *)
MulInner(a, b) ==
  LET p(k) == Column(a, b, k)
      (* columns 3 and 8, then 4 *)
      c8 == U128(p(8))
      d3 == U128(p(3) + R * (c8 % Word))
      t3 == d3 % B
      d4 == U128((d3 \div B) + p(4) + R * X * U64(c8 \div Word))
      t4 == d4 % B
      (* column 5: its top bits and those of t4 go below *)
      d5 == U128((d4 \div B) + p(5))
      u0 == U64((d5 % B) * (B \div T) + (t4 \div T))
      c0 == U128(p(0) + u0 * C)
      (* columns 6 and 1 *)
      d6 == U128((d5 \div B) + p(6))
      c1 == U128((c0 \div B) + p(1) + (d6 % B) * R)
      (* columns 7 and 2 *)
      d7 == U128((d6 \div B) + p(7))
      c2 == U128((c1 \div B) + p(2) + R * (d7 % Word))
      (* the rest *)
      c3 == U128((c2 \div B) + R * X * U64(d7 \div Word) + t3)
  IN L5(c0 % B, c1 % B, c2 % B, c3 % B, U64(U64(c3 \div B) + (t4 % T)))

(* secp256k1_fe_sqr_inner: the same columns, each mixed term once, doubled, *)
(* with words that must hold the doubled limbs.                             *)
SqrColumn(a, k) ==
  LET term(i) == IF k - i \in Limbs
                 THEN CASE i < k - i -> U64(2 * a[i]) * a[k - i]
                        [] i = k - i -> a[i] * a[i]
                        [] OTHER -> 0
                 ELSE 0
  IN term(0) + term(1) + term(2) + term(3) + term(4)

SqrInner(a) ==
  LET p(k) == SqrColumn(a, k)
      c8 == U128(p(8))
      d3 == U128(p(3) + R * (c8 % Word))
      d4 == U128((d3 \div B) + p(4) + R * X * U64(c8 \div Word))
      d5 == U128((d4 \div B) + p(5))
      u0 == U64((d5 % B) * (B \div T) + ((d4 % B) \div T))
      c0 == U128(p(0) + u0 * C)
      d6 == U128((d5 \div B) + p(6))
      c1 == U128((c0 \div B) + p(1) + (d6 % B) * R)
      d7 == U128((d6 \div B) + p(7))
      c2 == U128((c1 \div B) + p(2) + R * (d7 % Word))
      c3 == U128((c2 \div B) + R * X * U64(d7 \div Word) + (d3 % B))
  IN L5(c0 % B, c1 % B, c2 % B, c3 % B,
        U64(U64(c3 \div B) + ((d4 % B) % T)))
----------------------------------------------------------------------------
(***************************************************************************)
(* The register.  The guards are the checks of field_impl.h, which its     *)
(* callers have to meet; the group code is shown to meet them by itself.   *)
(***************************************************************************)
Init ==
  /\ \E s \in Start : n = s.n /\ magnitude = s.m /\ normalized = s.norm
  /\ steps = 0

Becomes(limbs, m, norm) ==
  /\ steps < MaxSteps
  /\ steps' = steps + 1
  /\ n' = limbs
  /\ magnitude' = m
  /\ normalized' = norm

DoNormalizeWeak == Becomes(NormalizeWeak(n), 1, normalized)
DoNormalize     == Becomes(Normalize(n), 1, TRUE)

DoNegate(m) ==
  /\ magnitude <= m
  /\ Becomes(Negate(n, m), m + 1, FALSE)

DoMulInt(i) ==
  /\ i * magnitude <= MaxMagnitude
  /\ Becomes(MulInt(n, i), i * magnitude, FALSE)

DoAddInt(i) ==
  /\ magnitude < MaxMagnitude
  /\ Becomes(AddInt(n, i), magnitude + 1, FALSE)

DoAdd(b) ==
  /\ magnitude + b.m <= MaxMagnitude
  /\ Becomes(Add(n, b.n), magnitude + b.m, FALSE)

DoMul(b) ==
  /\ magnitude <= MulMagnitude /\ b.m <= MulMagnitude
  /\ Becomes(MulInner(n, b.n), 1, FALSE)

DoSqr ==
  /\ magnitude <= MulMagnitude
  /\ Becomes(SqrInner(n), 1, FALSE)

DoHalf ==
  /\ magnitude < MaxMagnitude
  /\ Becomes(Half(n), (magnitude \div 2) + 1, FALSE)

DoCmov(b, flag) ==
  Becomes(Cmov(n, b.n, flag), IF b.m > magnitude THEN b.m ELSE magnitude,
          normalized /\ b.norm)

Next ==
  \/ DoNormalizeWeak
  \/ DoNormalize
  \/ \E m \in 0..MaxMagnitude-1 : DoNegate(m)
  \/ \E i \in Factors : DoMulInt(i)
  \/ \E i \in Addends : DoAddInt(i)
  \/ \E b \in Operands : DoAdd(b) \/ DoMul(b)
  \/ DoSqr
  \/ DoHalf
  \/ \E b \in Operands, flag \in BOOLEAN : DoCmov(b, flag)

Spec == Init /\ [][Next]_vars
----------------------------------------------------------------------------
(* No limb exceeds what the register's magnitude allows, so none overflows; *)
(* and a register that claims to be normalized holds the one canonical      *)
(* representation (the bounds analyses in the comments of the source).      *)
LimbsInBounds ==
  /\ n \in [Limbs -> 0..Word-1]
  /\ WithinBounds(n, magnitude)
  /\ normalized => Value(n) < Prime /\ n = SetB32Mod(Value(n))

(* What may be asked of a register has the answer its value gives: whether  *)
(* it is zero, fast way out or not, whether it is odd, how it compares, and *)
(* whether 32 bytes spell an element.                                       *)
AnswersAgree ==
  /\ NormalizesToZero(n) <=> Value(n) % Prime = 0
  /\ NormalizesToZeroVar(n) <=> Value(n) % Prime = 0
  /\ normalized => (IsOdd(n) <=> Value(n) % 2 = 1)
  /\ normalized => \A b \in Operands : b.norm =>
       (CmpVar(n, b.n) = 1 <=> Value(n) > Value(b.n))
  /\ n[4] < T /\ (\A i \in 0..3 : n[i] < B) =>
       /\ SetB32Limit(Value(n)).accepted <=> Value(n) < Prime
       /\ SetB32Mod(Value(n)) = n

(* Both. *)
LimbsHold == LimbsInBounds /\ AnswersAgree

(* The limbs do what is promised of field elements: FieldRegister.          *)
Register ==
  INSTANCE FieldRegister
    WITH P <- Prime,
         fe <- [v |-> Value(n) % Prime, m |-> magnitude, norm |-> normalized,
                ok |-> TRUE],
         Start <- {[v |-> Value(s.n) % Prime, m |-> s.m, norm |-> s.norm,
                    ok |-> TRUE] : s \in Start},
         Operands <- {[v |-> Value(b.n) % Prime, m |-> b.m, norm |-> b.norm,
                       ok |-> TRUE] : b \in Operands}

HoldsElement == Register!Spec
============================================================================
