----------------------------- MODULE EcmultMulti -----------------------------
(***************************************************************************)
(* Sums of many products (secp256k1_ecmult_multi_var): the work is cut     *)
(* into batches that fit the scratch space, each batch allocates what it   *)
(* needs and gives it back, and a callback delivers the terms and may      *)
(* refuse to.                                                              *)
(***************************************************************************)
EXTENDS Ecmult

CONSTANTS
  Terms,                 \* what the callback delivers: [s, p]
  ScratchSizes,          \* max_size; 0 for no scratch space at all
  InUse,                 \* what is allocated in it before the call
  GScalars,              \* inp_g_sc
  Alignment,
  SizeOf,                \* sizes of the types, by name
  PippengerThreshold,    \* ECMULT_PIPPENGER_THRESHOLD
  MaxBucketWindow,       \* PIPPENGER_MAX_BUCKET_WINDOW
  MaxBatch,              \* ECMULT_MAX_POINTS_PER_BATCH
  SizeMax                \* SIZE_MAX

VARIABLES
  scratch,               \* [max, alloc]
  call,                  \* inp_g_sc and n
  plan,                  \* the algorithm, and the points of a batch
  batchNo,               \* number of batches done
  remaining,             \* n in the loop
  total,                 \* r
  busy, checkpoint,      \* a batch has its memory; what was allocated before
  returned,              \* "no", or what the call returned
  refused                \* history: an allocation failed

multiVars == <<scratch, call, plan, batchNo, remaining, total, busy, checkpoint,
               returned, refused>>

CeilDiv(a, b) == 1 + ((a - 1) \div b)
RoundToAlign(size) == CeilDiv(size, Alignment) * Alignment

(* Mutation: what alignment takes is not counted. *)
MaxAllocationUnaligned(objects) == scratch.max - scratch.alloc

(* secp256k1_scratch_max_allocation *)
MaxAllocation(objects) ==
  LET free == scratch.max - scratch.alloc
      lost == objects * (Alignment - 1)
  IN IF free <= lost THEN 0 ELSE free - lost

(* secp256k1_scratch_alloc of one size after the other: what is allocated   *)
(* then, or -1 if one of them did not fit.                                  *)
AllocAll(sizes) ==
  LET upTo[i \in 0..Len(sizes)] ==
        IF i = 0 THEN scratch.alloc
        ELSE IF upTo[i - 1] = -1 THEN -1
        ELSE IF RoundToAlign(sizes[i]) > scratch.max - upTo[i - 1] THEN -1
        ELSE upTo[i - 1] + RoundToAlign(sizes[i])
  IN upTo[Len(sizes)]
----------------------------------------------------------------------------
(* Windows and the number of points they are best for. *)
WindowLimits == <<1, 4, 20, 57, 136, 235, 1260, 1260, 4420, 7880, 16050>>

BucketWindow(n) ==
  LET fit == {w \in 1..11 : n <= WindowLimits[w]}
  IN IF fit = {} THEN MaxBucketWindow ELSE Least(fit)

BucketWindowInv(w) == IF w = MaxBucketWindow THEN SizeMax ELSE WindowLimits[w]

(* What one entry takes, and what there is beside the entries. *)
EntrySize(w) ==
  SizeOf.ge + SizeOf.scalar + SizeOf.pippengerPoint
    + (WnafSize(w + 1) + 1) * SizeOf.int

(* secp256k1_pippenger_max_points: windows are tried as long as each can    *)
(* hold all the points it is best for.                                      *)
PippengerMaxPoints ==
  LET space == MaxAllocation(6)
      Overhead(w) == SizeOf.gej * 2^w + 2 * EntrySize(w) + SizeOf.pippenger
      Fitting(w) ==
        Least({(space - Overhead(w)) \div (2 * EntrySize(w)),
               BucketWindowInv(w)})
      Fits(w) == Overhead(w) <= space
      Full(w) == Fits(w) /\ Fitting(w) = BucketWindowInv(w)
      tried == {w \in 1..MaxBucketWindow : Fits(w) /\ \A v \in 1..w-1 : Full(v)}
  IN Greatest({0} \cup {Fitting(w) : w \in tried})

StraussEntry ==
  SizeOf.gej + SizeOf.scalar + SizeOf.straussPoint
    + (SizeOf.ge + SizeOf.fe) * TableSize(WindowA)

StraussMaxPoints == MaxAllocation(5) \div StraussEntry

(* secp256k1_ecmult_multi_batch_size_helper, for n > 0: the points of a     *)
(* batch, evened out, or zero.                                              *)
BatchSize(max, n) ==
  IF max = 0 THEN 0
  ELSE CeilDiv(n, CeilDiv(n, Least({max, MaxBatch})))

(* What a batch allocates. *)
PippengerSizes(n) ==
  LET w == BucketWindow(n)
      entries == 2 * n + 2
  IN <<entries * SizeOf.ge, entries * SizeOf.scalar, SizeOf.pippenger,
       entries * SizeOf.pippengerPoint,
       entries * WnafSize(w + 1) * SizeOf.int, SizeOf.gej * 2^w>>

StraussSizes(n) ==
  LET table == n * TableSize(WindowA)
  IN <<n * SizeOf.gej, n * SizeOf.scalar, table * SizeOf.fe,
       table * SizeOf.ge, n * SizeOf.straussPoint>>
----------------------------------------------------------------------------
MultiInit ==
  /\ scratch \in [max : ScratchSizes, alloc : InUse]
  /\ scratch.alloc <= scratch.max
  /\ call \in [g : GScalars, n : 0..Len(Terms)]
  /\ plan = [f |-> "none", size |-> 0]
  /\ batchNo = 0 /\ remaining = call.n
  /\ total = GejInfinity
  /\ busy = FALSE /\ checkpoint = scratch.alloc
  /\ returned = "no" /\ refused = FALSE

Returns(value, r) ==
  /\ returned' = value
  /\ total' = r

(* Everything before the batches. *)
StartMulti ==
  LET pippenger == BatchSize(PippengerMaxPoints, call.n)
      strauss   == BatchSize(StraussMaxPoints, call.n)
  IN /\ plan.f = "none" /\ returned = "no"
     /\ IF call.n = 0
        THEN /\ Returns("1", IF call.g = NoScalar THEN GejInfinity
                             ELSE Multiply(GejInfinity, 0, call.g))
             /\ UNCHANGED plan
        ELSE /\ plan' =
                  IF scratch.max = 0 \/ pippenger = 0
                  THEN [f |-> "simple", size |-> call.n]
                  ELSE IF pippenger >= PippengerThreshold
                  THEN [f |-> "pippenger", size |-> pippenger]
                  ELSE IF strauss = 0 THEN [f |-> "simple", size |-> call.n]
                  ELSE [f |-> "strauss", size |-> strauss]
             /\ UNCHANGED <<returned, total>>
     /\ UNCHANGED <<scratch, call, batchNo, remaining, busy, checkpoint,
                    refused>>

Term(i) == Terms[plan.size * batchNo + i]
(* Mutation: every batch adds the generator's term. *)
GAlways(b) == call.g

G(b)    == IF b = 0 THEN call.g ELSE NoScalar

(* secp256k1_ecmult_pippenger_batch and _strauss_batch, on count terms.     *)
BatchOf(count) ==
  LET g == G(batchNo)
      own == [i \in 1..count |-> Term(i)]
  IN IF plan.f = "pippenger"
     THEN Pippenger(BucketWindow(count),
            (IF g = NoScalar THEN <<>> ELSE EndoSplit(g, Generator))
              \o FlattenSeq([i \in 1..count |-> EndoSplit(own[i].s, own[i].p)]))
     ELSE Strauss([i \in 1..count |-> GejSetGe(own[i].p)],
                  [i \in 1..count |-> own[i].s], g)

BatchSizes(count) ==
  IF plan.f = "pippenger" THEN PippengerSizes(count) ELSE StraussSizes(count)

Count == Least({remaining, plan.size})
IsBatched == plan.f \in {"pippenger", "strauss"} /\ returned = "no"

(* A batch takes its memory; if some of it is missing, what was taken goes  *)
(* back and the call fails.                                                 *)
AllocateBatch ==
  LET taken == AllocAll(BatchSizes(Count))
  IN /\ IsBatched /\ ~busy
     /\ IF taken = -1
        THEN /\ refused' = TRUE
             /\ returned' = "0"
             /\ UNCHANGED <<scratch, busy>>
        ELSE /\ scratch' = [scratch EXCEPT !.alloc = taken]
             /\ busy' = TRUE
             /\ UNCHANGED <<refused, returned>>
     /\ checkpoint' = scratch.alloc
     /\ UNCHANGED <<call, plan, batchNo, remaining, total>>

(* The callback delivers all terms of the batch, and the sum grows, or it   *)
(* refuses one; the memory goes back either way.                            *)
ReleaseBatch ==
  /\ scratch' = [scratch EXCEPT !.alloc = checkpoint]
  /\ busy' = FALSE
  /\ UNCHANGED <<checkpoint, call, plan, refused>>

FinishBatch ==
  /\ busy
  /\ remaining' = remaining - Count
  /\ batchNo' = batchNo + 1
  /\ Returns(IF remaining' = 0 THEN "1" ELSE "no",
             GejAddVar(total, BatchOf(Count)).r)
  /\ ReleaseBatch

RefuseTerm ==
  /\ busy
  /\ Returns("0", total)
  /\ UNCHANGED <<remaining, batchNo>>
  /\ ReleaseBatch

(* secp256k1_ecmult_multi_simple_var, which needs no scratch space; the     *)
(* callback refuses the term after the first few, or none.                  *)
DoSimple(delivered) ==
  LET upTo[i \in 0..call.n] ==
        IF i = 0 THEN Multiply(GejInfinity, 0, call.g)
        ELSE GejAddVar(upTo[i - 1],
               Multiply(GejSetGe(Terms[i].p), Terms[i].s, NoScalar)).r
  IN /\ plan.f = "simple" /\ returned = "no"
     /\ Returns(IF delivered = call.n THEN "1" ELSE "0", upTo[delivered])
     /\ UNCHANGED <<scratch, busy, checkpoint, call, plan, batchNo, remaining,
                    refused>>

MultiNext ==
  \/ StartMulti
  \/ AllocateBatch \/ FinishBatch \/ RefuseTerm
  \/ \E delivered \in 0..call.n : DoSimple(delivered)

MultiSpec == MultiInit /\ [][MultiNext]_multiVars
----------------------------------------------------------------------------
(* The memory of a batch was planned for: no allocation fails, the smaller  *)
(* last batch included (the comment on pippenger_max_points: "The function  *)
(* ensures that fewer points may also be used").  And nothing stays         *)
(* allocated in the caller's scratch space, however the call ends.          *)
MemoryIsPlanned ==
  /\ ~refused
  /\ ~busy => scratch.alloc = checkpoint /\ scratch.alloc \in InUse

(* The call that returns 1 has added every term once, and the generator's,  *)
(* however the work was cut, within the memory that was planned.            *)
SumIsRight ==
  /\ MemoryIsPlanned
  /\ returned = "1" =>
       LET all[i \in 0..call.n] ==
             IF i = 0
             THEN IF call.g = NoScalar THEN NoPoint
                  ELSE Multiples[call.g]
             ELSE Plus(all[i - 1], MultipleOf(Terms[i].s, PointOf(Terms[i].p)))
       IN PointOfGej(total) = all[call.n]
=============================================================================
