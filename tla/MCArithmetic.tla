---------------------------- MODULE MCArithmetic ----------------------------
(***************************************************************************)
(* The arithmetic of libsecp256k1 for TLC, on small words, fields and      *)
(* curves.  The machines have no state in common; `subject` says which one *)
(* takes its steps, the others stay where they started.                    *)
(***************************************************************************)
EXTENDS PointRegister, Products, EcmultMulti

VARIABLES
  subject,
  limbs, bound, canonical, steps      \* of Field5x52

----------------------------------------------------------------------------
(* A field of limbs below 44, the top one below 22. *)
LimbsOf(s) == [i \in 0..4 |-> s[i + 1]]

(* The largest limbs that a magnitude allows. *)
Top(m) == [n |-> [i \in 0..4 |-> 2 * m * (IF i = 4 THEN 21 ELSE 43)],
           m |-> m, norm |-> FALSE]

PRegister == [n |-> LimbsOf(<<43, 43, 43, 43, 21>>), m |-> 1, norm |-> FALSE]
LimbStart ==
  {Top(1), Top(4), PRegister,
   [PRegister EXCEPT !.n[0] = 42, !.norm = TRUE],
   [n |-> LimbsOf(<<0, 0, 0, 0, 0>>), m |-> 0, norm |-> TRUE],
   [n |-> LimbsOf(<<7, 3, 0, 9, 6>>), m |-> 1, norm |-> TRUE]}
LimbOperands ==
  {Top(1), Top(3),
   [n |-> LimbsOf(<<13, 1, 0, 15, 21>>), m |-> 1, norm |-> TRUE]}

Field ==
  INSTANCE Field5x52
    WITH B <- 44, T <- 22, C <- 1, Word <- 352, MaxMagnitude <- 4,
         MulMagnitude <- 1, Start <- LimbStart, Operands <- LimbOperands,
         Factors <- {2, 3}, Addends <- {2, 3}, MaxSteps <- 3,
         n <- limbs, magnitude <- bound, normalized <- canonical

ASSUME LimbsAssumption == Field!LimbAssumption /\ Field!RegisterAssumption

limbVars == <<limbs, bound, canonical, steps>>
----------------------------------------------------------------------------
(* The curve y^2 = x^3 + 5 over the integers modulo 103, whose 97 points    *)
(* are the multiples of one.                                                *)
MCGenerator == SetXY(Canonical(2), Canonical(42))

Coordinate(v, m) == [v |-> v % P, m |-> m, norm |-> FALSE, ok |-> TRUE]

(* The generator, its double and its negation, and the points with the same *)
(* and with the opposite y: the latter is where addition in constant time   *)
(* needs its other slope.                                                   *)
SomePoints ==
  {Multiples[k] : k \in {1, 2, N - 1, Lambda, N - Lambda}}

MCGes ==
  {Infinity}
  \cup {[x |-> Coordinate(pt[1], m[1]), y |-> Coordinate(pt[2], m[2]),
         inf |-> FALSE] : pt \in SomePoints, m \in {<<1, 1>>, <<4, 3>>}}

MCGejs ==
  {GejInfinity}
  \cup {[x |-> Coordinate(pt[1] * s * s, 4),
         y |-> Coordinate(pt[2] * s * s * s, 4),
         z |-> Coordinate(s, 1), inf |-> FALSE] :
          pt \in SomePoints, s \in {1, 5}}

MCTerms ==
  LET A == SetXY(Canonical(3), Canonical(54))
  IN <<[s |-> 7, p |-> A], [s |-> 90, p |-> MCGenerator], [s |-> 0, p |-> A],
       [s |-> 50, p |-> GeNeg(A)], [s |-> 96, p |-> A],
       [s |-> 7, p |-> GeNeg(A)]>>
MCSizeOf ==
  [ge |-> 3, scalar |-> 2, gej |-> 5, fe |-> 1, int |-> 1, pippenger |-> 2,
   pippengerPoint |-> 2, straussPoint |-> 12]
MCScratchSizes == {0} \cup {10 * i : i \in 2..28}
MCGScalars == {NoScalar, 0, 11}
----------------------------------------------------------------------------
LimbInit ==
  IF subject = "limbs" THEN Field!Init
  ELSE /\ limbs = [i \in 0..4 |-> 0] /\ bound = 0 /\ canonical = TRUE
       /\ steps = 0

(* For the machines that are not looked at one initial state is enough.     *)
Init ==
  /\ subject \in {"limbs", "points", "products", "multi"}
  /\ LimbInit
  /\ PointInit
  /\ subject # "points" => acc = GejInfinity
  /\ ProductInit
  /\ MultiInit
  /\ subject # "multi" =>
       /\ scratch = [max |-> 0, alloc |-> 0]
       /\ call = [g |-> NoScalar, n |-> 0]

Next ==
  \/ /\ subject = "limbs" /\ Field!Next
     /\ UNCHANGED <<subject, pointVars, productVars, multiVars>>
  \/ /\ subject = "points" /\ PointNext
     /\ UNCHANGED <<subject, limbVars, productVars, multiVars>>
  \/ /\ subject = "products" /\ ProductNext
     /\ UNCHANGED <<subject, limbVars, pointVars, multiVars>>
  \/ /\ subject = "multi" /\ MultiNext
     /\ UNCHANGED <<subject, limbVars, pointVars, productVars>>
----------------------------------------------------------------------------
(* The limbs of a field element stay within the bounds of its magnitude,    *)
(* and the answers they give are those of its value.                        *)
LimbsHold == Field!LimbsHold

(* The limbs hold the element that the arithmetic of the field gives.       *)
HoldsElement == Field!HoldsElement
=============================================================================
