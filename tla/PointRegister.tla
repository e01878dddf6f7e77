--------------------------- MODULE PointRegister ---------------------------
(***************************************************************************)
(* A Jacobian accumulator that goes through any sequence of the group      *)
(* operations, as in the multiplication algorithms, with the point that it *)
(* should stand for beside it.                                             *)
(***************************************************************************)
EXTENDS Group

CONSTANTS
  GeOperands,            \* second operands in affine coordinates ...
  GejOperands,           \* ... and in Jacobian ones
  Scales,                \* scaling factors
  MaxOperations          \* bound: operations in a row

VARIABLES
  acc,                   \* the accumulator
  point,                 \* history: the point it should stand for
  checks,                \* every check so far passed
  operations             \* how many there were

pointVars == <<acc, point, checks, operations>>

PointInit ==
  /\ \E b \in GejOperands : acc = b /\ point = PointOfGej(b)
  /\ checks = TRUE
  /\ operations = 0

(* The accumulator takes a result, which should stand for pt.               *)
Takes(res, pt) ==
  /\ operations < MaxOperations
  /\ operations' = operations + 1
  /\ acc' = res.r
  /\ checks' = (checks /\ res.ok)
  /\ point' = pt

Keeps(r, pt) == Takes(Result(r, One, TRUE), pt)

DoDouble == Takes(GejDoubleVar(acc), Plus(point, point))

DoAdd(b) == Takes(GejAddVar(acc, b), Plus(point, PointOfGej(b)))

DoAddGe(b) == Takes(GejAddGeVar(acc, b), Plus(point, PointOf(b)))

(* b without its z coordinate, and the inverse of that. *)
DoAddZinv(b) ==
  LET bzinv == Canonical(IF b.inf THEN 1 ELSE InverseOf[b.z.v])
  IN Takes(GejAddZinvVar(acc, [x |-> b.x, y |-> b.y, inf |-> b.inf], bzinv),
           Plus(point, PointOfGej(b)))

DoAddGeConst(b) ==
  /\ ~b.inf
  /\ Takes(GejAddGe(acc, b), Plus(point, PointOf(b)))

DoNeg == Keeps(GejNeg(acc), Minus(point))

DoRescale(s) == Keeps(Rescale(acc, Canonical(s)), point)

(* To affine coordinates and back. *)
DoNormalize == Keeps(GejSetGe(SetGejVar(acc)), point)

DoCmov(b, flag) ==
  Keeps(GejCmov(acc, b, flag), IF flag THEN PointOfGej(b) ELSE point)

PointNext ==
  \/ DoDouble
  \/ \E b \in GejOperands : DoAdd(b) \/ DoAddZinv(b)
  \/ \E b \in GeOperands : DoAddGe(b) \/ DoAddGeConst(b)
  \/ DoNeg
  \/ \E s \in Scales : DoRescale(s)
  \/ DoNormalize
  \/ \E b \in GejOperands, flag \in BOOLEAN : DoCmov(b, flag)

PointSpec == PointInit /\ [][PointNext]_pointVars
----------------------------------------------------------------------------
(* Whatever the operations and their order, the accumulator stands for the  *)
(* point that the group law gives, doublings, inverses and infinity         *)
(* included; affine coordinates, a comparison with a point, and a point     *)
(* recovered from its x and the parity of its y agree with it. And no       *)
(* operation is ever handed an element of a magnitude that it does not      *)
(* take: the checks that a build without VERIFY leaves out would have       *)
(* passed.                                                                  *)
StandsForPoint ==
  /\ checks
  /\ ~acc.inf => acc.z.v # 0
  /\ PointOfGej(acc) = point
  /\ PointOf(SetGej(acc)) = point /\ PointOf(SetGejVar(acc)) = point
  /\ \A b \in GeOperands : GejEqGeVar(acc, b) <=> PointOf(b) = point
  /\ \A b \in GejOperands : GejEqVar(acc, b) <=> PointOfGej(b) = point
  /\ point # NoPoint =>
       LET a == SetGej(acc)
           lifted == SetXoVar(a.x, IsOdd(Normalize(a.y)))
       IN /\ IsValidVar(a)
          /\ EqXVar(a.x, acc)
          /\ lifted.found /\ lifted.ok /\ PointOf(lifted.ge) = point
          /\ PointOf(MulLambda(a)) \in OnCurve
============================================================================
