--------------------------- MODULE FieldRegister ---------------------------
(***************************************************************************)
(* Abstract: a register of the field.  An operation whose checks pass      *)
(* leaves the element that FieldElement says, whatever the representation. *)
(***************************************************************************)
EXTENDS FieldElement

CONSTANTS Start, Operands, Factors, Addends

VARIABLE fe

Init == fe \in Start

(* The operation's result, if the code lets it happen. *)
Set(a) == a.ok /\ fe' = a

Next ==
  \/ Set(NormalizeWeak(fe))
  \/ Set(Normalize(fe))
  \/ \E m \in 0..MaxMagnitude-1 : Set(Negate(fe, m))
  \/ \E i \in Factors : Set(MulInt(fe, i))
  \/ \E i \in Addends : Set(AddInt(fe, i))
  \/ \E b \in Operands : Set(Add(fe, b)) \/ Set(Mul(fe, b))
  \/ Set(Sqr(fe))
  \/ Set(Half(fe))
  \/ \E b \in Operands, flag \in BOOLEAN : Set(Cmov(fe, b, flag))

Spec == Init /\ [][Next]_fe
============================================================================
