------------------------------- MODULE MCWallet -------------------------------
(* An instance of Wallet for TLC: one call to Send, and a token that came    *)
(* from the relays for it to spend.                                         *)
EXTENDS Wallet, TLC

CONSTANT s1

OneSend == {s1}
Amounts == s1 :> 1
Worths == <<1, 2>>
Replaces == <<None, 1>>
OneStart == {[calls |-> {s1}, tokens |-> {1, 2}]}
===============================================================================
