------------------------------- MODULE MCKeys -------------------------------
(***************************************************************************)
(* Keys and signatures for TLC, on the curve y^2 = x^3 + 5 over the        *)
(* integers modulo 103, which has 97 points.  `subject` says which of the  *)
(* two machines takes its steps.                                           *)
(***************************************************************************)
EXTENDS KeySides, EventSignature

VARIABLE subject

MCGenerator == SetXY(Canonical(2), Canonical(42))

(* Any function of its arguments would do as a hash. *)
MCChallenge(r, x, m)   == (7 * r + 3 * x + 11 * m) % 128
MCNonce(sk, x, m, aux) == (sk + 5 * m + 31 * aux) % 128
MCNonceEcdsa(sk, m, c) == (3 * sk + 5 * m + 2 * c) % 128
MCHash(x, content)     == (x + 50 * content) % 128

(* One seed gives each of the values that are not used as they are. *)
MCSeeds == {[f |-> 0, b |-> 3], [f |-> 5, b |-> 0]}

(* An r that is no x, an r and an s beyond what is allowed, and a signature *)
(* whose point has an odd y.                                                *)
MCForgeries ==
  {[r |-> 101, s |-> 5], [r |-> 103, s |-> 1], [r |-> 2, s |-> 98],
   [r |-> 3, s |-> 7]}
----------------------------------------------------------------------------
Init ==
  /\ subject \in {"sides", "event"}
  /\ SideInit
  /\ subject # "sides" => secretKey = 10
  /\ EventInit

Next ==
  \/ subject = "sides" /\ SideNext /\ UNCHANGED <<subject, eventVars>>
  \/ subject = "event" /\ EventNext /\ UNCHANGED <<subject, sideVars>>
=============================================================================
