------------------------------- MODULE MCSubMany -------------------------------
(* Instances of SubMany for TLC. *)
EXTENDS SubMany

CONSTANTS r1, r2, e1

TwoRelays == {r1, r2}
OneEvent == {e1}
BothReasons == {"auth-required", "other"}

\* Nobody resubscribes.
Once == [r \in Relay |-> 1]
===============================================================================
