----------------------------- MODULE EcmultGen ------------------------------
(***************************************************************************)
(* Multiplication of the generator by secret scalars (ecmult_gen_impl.h):  *)
(* a comb over a precomputed table, of a scalar blinded by the context.    *)
(***************************************************************************)
EXTENDS Ecmult

CONSTANTS CombBlocks, CombTeeth, CombSpacing

CombBits   == CombBlocks * CombTeeth * CombSpacing
CombPoints == 2^(CombTeeth - 1)

ASSUME CombAssumption == CombBits >= ScalarBits

(* Half of a point: the bits of 1/2 from i on times it. *)
RECURSIVE HalfFrom(_, _)
HalfFrom(gen, i) ==
  LET Take(u) ==
        IF GetBits(SHalf(1), i, 1) = 1 THEN GejAddGeVar(u, gen).r ELSE u
  IN IF i = ScalarBits THEN GejInfinity
     ELSE Take(GejDoubleVar(HalfFrom(gen, i + 1)).r)

RECURSIVE SumTo(_, _)
SumTo(powers, tooth) ==
  IF tooth = 0 THEN GejInfinity
  ELSE GejAddVar(SumTo(powers, tooth - 1), powers[tooth]).r

(* All sums of plus or minus the powers, those with the top one negative.   *)
RECURSIVE EntriesTo(_, _)
EntriesTo(powers, tooth) ==
  LET Twice(half, d) ==
        half \o [i \in 1..Len(half) |-> GejAddVar(half[i], d).r]
  IN IF tooth = 0 THEN <<GejNeg(SumTo(powers, CombTeeth))>>
     ELSE Twice(EntriesTo(powers, tooth - 1), Doubled(powers[tooth], 1))

(* secp256k1_ecmult_gen_compute_table: for every block, the sums of its     *)
(* powers 2^(i * CombSpacing) of half the generator.                        *)
ComputeGenTable(gen) ==
  LET Powers(block) ==
        [t \in 1..CombTeeth |->
           Doubled(HalfFrom(gen, 0), (block * CombTeeth + t - 1) * CombSpacing)]
  IN StoredAll(SetAllGejVar(FlattenSeq(
       [b \in 1..CombBlocks |-> EntriesTo(Powers(b - 1), CombTeeth - 1)])))

(* secp256k1_ecmult_gen_prec_table, block after block *)
GenTable == ComputeGenTable(Generator)

(* (2^CombBits - 1) / 2 *)
ScalarDiff ==
  LET upTo[i \in 0..CombBits-1] ==
        IF i = 0 THEN 1 ELSE SAdd(upTo[i - 1], upTo[i - 1])
  IN SAdd(upTo[CombBits - 1], SNegate(SHalf(1)))

(* The table entry for the bits of d that belong to this block and offset,  *)
(* negated where the top one is set.                                        *)
CombLookup(d, block, off) ==
  LET Bit(tooth) == GetBits(d, (block * CombTeeth + tooth) * CombSpacing + off, 1)
      bits[tooth \in 0..CombTeeth] ==
        IF tooth = 0 THEN 0 ELSE bits[tooth - 1] + Bit(tooth - 1) * 2^(tooth - 1)
      Signed(add, negative) ==
        [add EXCEPT !.y = Cmov(@, Negate(@, 1), negative)]
      Entry(index) == GenTable[block * CombPoints + index + 1]
      Of(all) == Signed(Entry(IF all >= CombPoints
                              THEN 2 * CombPoints - 1 - all ELSE all),
                        all >= CombPoints)
  IN Of(bits[CombTeeth])

(* One addition per block, between two doublings; the first is no addition. *)
Combed(ctx, d, r, block, off) ==
  LET With(entry) ==
        IF block = 0 /\ off = CombSpacing - 1
        THEN Rescale(GejSetGe(entry), ctx.projBlind)
        ELSE GejAddGe(r, entry).r
  IN With(CombLookup(d, block, off))

RECURSIVE CombFrom(_, _, _, _)
CombFrom(ctx, d, block, off) ==
  IF off = CombSpacing THEN GejInfinity
  ELSE IF block = -1
  THEN IF off = CombSpacing - 1 THEN GejInfinity
       ELSE GejDouble(CombFrom(ctx, d, CombBlocks - 1, off + 1))
  ELSE Combed(ctx, d, CombFrom(ctx, d, block - 1, off), block, off)

(* secp256k1_ecmult_gen *)
MultiplyGen(ctx, gn) ==
  GejAddGe(CombFrom(ctx, SAdd(ctx.scalarOffset, gn), CombBlocks - 1, 0),
           ctx.geOffset).r

(* secp256k1_ecmult_gen_blind with no seed ... *)
Unblinded ==
  [scalarOffset |-> SAdd(1, ScalarDiff), geOffset |-> GeNeg(Generator),
   projBlind |-> One]

(* ... and with one, of which the random generator made f and b: neither is *)
(* used as zero.                                                            *)
Blind(ctx, f, b) ==
  LET proj == Cmov(Element(f, 1, TRUE), One, f % P = 0)
      s    == IF SetBytes(b).s = 0 THEN 1 ELSE SetBytes(b).s
  IN [scalarOffset |-> SAdd(SNegate(s), ScalarDiff),
      geOffset |-> SetGej(MultiplyGen([ctx EXCEPT !.projBlind = proj], s)),
      projBlind |-> proj]
=============================================================================
