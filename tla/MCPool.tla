-------------------------------- MODULE MCPool ---------------------------------
(* Instances of Pool for TLC. *)
EXTENDS Pool

CONSTANTS t1, t2, t3, t4, u1, u2, u3

Tasks == {t1, t2, t3, t4}
Urls == {u1, u2, u3}

\* Two entries for one relay, and one each for two others.
TaskUrls == [t \in Task |-> CASE t \in {t1, t2} -> u1 [] t = t3 -> u2 [] t = t4 -> u3]

\* Two of the urls fall on the same mutex.
Locks == [u \in Url |-> IF u = u3 THEN 2 ELSE 1]
===============================================================================
