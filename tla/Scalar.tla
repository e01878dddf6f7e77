------------------------------- MODULE Scalar -------------------------------
(***************************************************************************)
(* Scalars: integers modulo the order N of the group, as the               *)
(* multiplication algorithms of libsecp256k1 use them (scalar_impl.h,      *)
(* scalar_4x64_impl.h).                                                    *)
(***************************************************************************)
EXTENDS Integers

CONSTANTS
  N,                     \* the order
  ScalarBits,            \* 256: the bits of a scalar
  HalfBits,              \* 128
  Lambda,                \* a cube root of one modulo N
  MinusB1, MinusB2,      \* the lattice of the small scalars ...
  G1, G2, SplitShift     \* ... and the estimates of the division by N

ASSUME ScalarAssumption ==
  /\ N \in Nat /\ N % 2 = 1 /\ N < 2^ScalarBits
  (* small negative scalars have the top bit set, small positive ones not   *)
  /\ HalfBits < ScalarBits - 1 /\ N - 2^HalfBits >= 2^(ScalarBits - 1)
  /\ (Lambda * Lambda + Lambda + 1) % N = 0
  /\ {MinusB1, MinusB2, G1, G2} \subseteq 0..N-1

Scalars == 0..N-1

SAdd(a, b)  == (a + b) % N
SNegate(a)  == (N - a) % N
SMul(a, b)  == (a * b) % N
SHalf(a)    == IF a % 2 = 0 THEN a \div 2 ELSE (a + N) \div 2
IsHigh(a)   == a > N \div 2
SInverse(a) == IF a = 0 THEN 0 ELSE CHOOSE i \in Scalars : (i * a) % N = 1

(* A number of ScalarBits bits as a scalar. *)
SetBytes(x) == [s |-> x % N, overflow |-> x >= N]

(* secp256k1_scalar_set_b32_seckey *)
SetSeckey(x) ==
  [s |-> x % N, valid |-> ~SetBytes(x).overflow /\ SetBytes(x).s # 0]

GetBits(a, offset, count) == (a \div 2^offset) % 2^count

Split128(k) == [low |-> k % 2^HalfBits, high |-> k \div 2^HalfBits]

(* a * b / 2^shift, rounded to the nearest. *)
MulShift(a, b, shift) ==
  ((a * b) \div 2^shift) + (((a * b) \div 2^(shift - 1)) % 2)

(* k = r1 + r2 * Lambda, with both of about half the bits, or the negation  *)
(* of such.                                                                 *)
SplitLambda(k) ==
  LET c1 == SMul(MulShift(k, G1, SplitShift), MinusB1)
      c2 == SMul(MulShift(k, G2, SplitShift), MinusB2)
      r2 == SAdd(c1, c2)
  IN [r1 |-> SAdd(SNegate(SMul(r2, Lambda)), k), r2 |-> r2]

IsSmall(a) == a < 2^HalfBits \/ SNegate(a) < 2^HalfBits
=============================================================================
