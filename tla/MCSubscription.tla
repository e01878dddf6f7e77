---------------------------- MODULE MCSubscription ----------------------------
(* Instances of Subscription for TLC. *)
EXTENDS Subscription

CONSTANTS e1, e2

TwoEvents == {e1, e2}

\* The context ends no earlier than Fire has marked the subscription live.
AfterLive == {"writing", "fired", "failed"}
===============================================================================
