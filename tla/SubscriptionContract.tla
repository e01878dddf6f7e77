------------------------- MODULE SubscriptionContract -------------------------
(***************************************************************************)
(* What a Subscription promises the consumer of its channels, as the       *)
(* comments of the struct state it (subscription.go:21-34, 49-51): events  *)
(* come out of Events, EndOfStoredEvents speaks only when the stored ones  *)
(* are out, events are lost only when the subscription is over, and Events *)
(* is closed when it is over and never used again.                         *)
(***************************************************************************)
CONSTANT Event

VARIABLES
  pending,  \* events accepted and not yet handed over
  handed,   \* events the consumer received
  stored,   \* events accepted before the relay's EOSE
  eose,     \* "none", then "due" when the relay said EOSE, then "told"
  over,     \* the subscription is cancelled or CLOSED
  ended     \* Events is closed

contractVars == <<pending, handed, stored, eose, over, ended>>

Init ==
  /\ pending = {}
  /\ handed = {}
  /\ stored = {}
  /\ eose = "none"
  /\ over = FALSE
  /\ ended = FALSE

Accept(e) ==
  /\ e \notin pending \cup handed
  /\ pending' = pending \cup {e}
  /\ stored' = IF eose = "none" THEN stored \cup {e} ELSE stored
  /\ UNCHANGED <<handed, eose, over, ended>>

HandOver(e) ==
  /\ ~ended
  /\ e \in pending
  /\ pending' = pending \ {e}
  /\ handed' = handed \cup {e}
  /\ UNCHANGED <<stored, eose, over, ended>>

Lose(e) ==
  /\ over
  /\ e \in pending
  /\ pending' = pending \ {e}
  /\ UNCHANGED <<handed, stored, eose, over, ended>>

HearEose ==
  /\ eose = "none"
  /\ eose' = "due"
  /\ UNCHANGED <<pending, handed, stored, over, ended>>

TellEose ==
  /\ eose = "due"
  /\ stored \cap pending = {}
  /\ eose' = "told"
  /\ UNCHANGED <<pending, handed, stored, over, ended>>

GetOver ==
  /\ ~over
  /\ over' = TRUE
  /\ UNCHANGED <<pending, handed, stored, eose, ended>>

End ==
  /\ over
  /\ ~ended
  /\ ended' = TRUE
  /\ UNCHANGED <<pending, handed, stored, eose, over>>

Next ==
  \/ \E e \in Event : Accept(e) \/ HandOver(e) \/ Lose(e)
  \/ HearEose \/ TellEose \/ GetOver \/ End

Spec == Init /\ [][Next]_contractVars

(* A subscription that is over ends: its consumers' range loops return.     *)
FairSpec == Spec /\ WF_contractVars(End)
===============================================================================
