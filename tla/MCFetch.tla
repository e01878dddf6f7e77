-------------------------------- MODULE MCFetch --------------------------------
(* Instances of Fetch for TLC. *)
EXTENDS Fetch

CONSTANTS r1, r2, e1, e2

TwoRelays == {r1, r2}
TwoEvents == {e1, e2}

\* e2 is newer than e1.
Timestamps == [e \in Event |-> IF e = e1 THEN 1 ELSE 2]

\* Both relays have e1, r1 also has e2.
HasOf == [r \in Relay |-> IF r = r1 THEN {e1, e2} ELSE {e1}]

\* r1 asks for AUTH and may be subscribed to twice; r2 refuses.
ReasonsOf == [r \in Relay |-> IF r = r1 THEN {"auth-required"} ELSE {"other"}]
SubsOf == [r \in Relay |-> IF r = r1 THEN 2 ELSE 1]

ReplaceableOnly == {"FetchManyReplaceable"}
===============================================================================
