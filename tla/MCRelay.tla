-------------------------------- MODULE MCRelay --------------------------------
(* Instances of Relay for TLC. *)
EXTENDS Relay

CONSTANTS p1, a1, c1, i1, i2, k1

Nobody == {}
OnePublisher == {p1}
OneAuther == {a1}
OneCounter == {c1}
Ids == {i1, i2}
OneChallenge == {k1}

\* Every call sends an event of its own.
DistinctIds == [c \in Publisher \cup Auther |-> IF c = p1 THEN i1 ELSE i2]
===============================================================================
