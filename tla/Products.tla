------------------------------ MODULE Products ------------------------------
(***************************************************************************)
(* A point that is multiplied again and again, each time by one of the     *)
(* algorithms: the one in variable time, the one in constant time, the one *)
(* that only knows x coordinates, and those for many points at once.       *)
(***************************************************************************)
EXTENDS EcmultConst

CONSTANT Factors         \* scalars to multiply by

VARIABLES
  product,               \* the point, in affine coordinates
  logarithm              \* history: how often the generator it should be

productVars == <<product, logarithm>>

ProductInit ==
  /\ product = Generator
  /\ logarithm = 1

Becomes(ge, k) ==
  /\ product' = ge
  /\ logarithm' = k

(* secp256k1_ecmult, with a term of the generator. *)
MultiplyVar(k, g) ==
  Becomes(SetGejVar(Multiply(GejSetGe(product), k, g)),
          SAdd(SMul(logarithm, k), g))

(* secp256k1_ecmult_const *)
MultiplyInConstantTime(k) ==
  Becomes(SetGejVar(MultiplyConst(product, k)), SMul(logarithm, k))

(* secp256k1_ecmult_const_xonly, and of the two points with that x the one  *)
(* with an even y.  The x is given as a fraction or as it is; a product of  *)
(* zero is excluded (the comment in ecmult_const.h: "q is not zero").       *)
MultiplyX(k, d) ==
  LET den    == Canonical(d)
      x      == IF d = 1 THEN MultiplyXonly(product.x, <<>>, k, FALSE)
                ELSE MultiplyXonly(Mul(product.x, den), <<den>>, k, TRUE)
      Even(ge) == ge.y.v % 2 = 0
      lifted == SetXoVar(x.x, FALSE).ge
      log    == SMul(logarithm, k)
  IN /\ ~product.inf /\ k # 0
     /\ Becomes([lifted EXCEPT !.x = Normalize(@), !.y = Normalize(@)],
                IF Multiples[log][2] % 2 = 0 THEN log ELSE SNegate(log))

(* secp256k1_ecmult_pippenger_wnaf, of the point and the generator. *)
MultiplyBuckets(k, g, window) ==
  Becomes(SetGejVar(Pippenger(window,
            EndoSplit(k, product) \o EndoSplit(g, Generator))),
          SAdd(SMul(logarithm, k), g))

ProductNext ==
  \/ \E k, g \in Factors : MultiplyVar(k, g)
  \/ \E k \in Factors : MultiplyInConstantTime(k)
  \/ \E k \in Factors, d \in {1, 2} : MultiplyX(k, d)
  \/ \E k, g \in Factors, window \in 1..2 : MultiplyBuckets(k, g, window)

ProductSpec == ProductInit /\ [][ProductNext]_productVars
----------------------------------------------------------------------------
(* A scalar splits into two halves that fit the loops over half the bits.   *)
HalvesAreSmall ==
  LET split == SplitLambda(logarithm)
  IN /\ SAdd(split.r1, SMul(Lambda, split.r2)) = logarithm
     /\ IsSmall(split.r1) /\ IsSmall(split.r2)

(* However it came about, the product is the multiple it should be, of      *)
(* magnitudes that the next operation takes; and the halves into which the  *)
(* algorithms split a scalar add up to it and fit their loops.              *)
ProductIsRight ==
  /\ PointOf(product) = Multiples[logarithm]
  /\ GeVerified(product)
  /\ HalvesAreSmall
=============================================================================
