------------------------------ MODULE Fetch_proofs ------------------------------
(***************************************************************************)
(* That FetchMany emits an event once, for any number of relays, events and *)
(* subscriptions, although what passed the duplicate check waits in one     *)
(* goroutine and is sent by another; and that neither of the two calls      *)
(* misses a stored event, but with the subscription that had let it pass.   *)
(***************************************************************************)
EXTENDS Fetch, TLAPS

Places == {"ensure", "subscribe", "listen", "hand", "auth", "done"}
SubState ==
  [state : {"none", "open", "over"}, reason : {"none", "auth-required", "other"},
   arrived : SUBSET Event, sent : SUBSET Event, eose : BOOLEAN]

FetchTypes ==
  /\ pc \in [Relay -> Places]
  /\ sub \in [Relay -> SubState]
  /\ holding \in [Relay -> Event \cup {None}]
  /\ emitted \in [Event -> Nat]
  /\ \A r \in Relay : pc[r] = "hand" => holding[r] \in Event

(* The subscription of r, or its goroutine, has e.                          *)
Carries(r, e) == e \in sub[r].arrived \/ holding[r] = e

(* An event is unseen, or in one place of one relay, or out, or lost.       *)
OnePlace ==
  \A e \in Event :
    /\ call # "FetchMany" \/ e \notin seen => emitted[e] = 0
    /\ call = "FetchMany" =>
         /\ emitted[e] <= 1
         /\ \A r \in Relay : Carries(r, e) => e \in seen /\ emitted[e] = 0
         /\ \A r, s \in Relay : Carries(r, e) /\ Carries(s, e) => r = s
         /\ \A r \in Relay : ~(e \in sub[r].arrived /\ holding[r] = e)

FetchInv == FetchTypes /\ OnePlace

LEMMA FetchInit == ASSUME FetchAssumption PROVE Init => FetchInv
<1> SUFFICES ASSUME Init PROVE FetchInv
  OBVIOUS
<1>1. FetchTypes
  BY DEF Init, FetchTypes, NoSub, SubState, Places
<1>2. OnePlace
  BY DEF FetchAssumption, Init, OnePlace, Carries, NoSub
<1> QED
  BY <1>1, <1>2 DEF FetchInv

(* Steps that at most lose what a relay carries.                            *)
Loses ==
  /\ \A r \in Relay : /\ sub'[r].arrived \subseteq sub[r].arrived
                      /\ holding'[r] \in {holding[r], None}
  /\ UNCHANGED <<call, seen, emitted>>

LEMMA LosesKeeps ==
  ASSUME FetchAssumption, FetchInv, Loses, FetchTypes'
  PROVE  FetchInv'
<1>1. \A r \in Relay, e \in Event :
        /\ e \in sub'[r].arrived => e \in sub[r].arrived
        /\ holding'[r] = e => holding[r] = e
  BY DEF FetchAssumption, Loses
<1>2. UNCHANGED <<call, seen, emitted>>
  BY DEF Loses
<1>3. OnePlace'
  BY <1>1, <1>2 DEF FetchInv, OnePlace, Carries
<1> QED
  BY <1>3 DEF FetchInv

(* Where a goroutine goes without an event.                                 *)
Moves(r) ==
  \E to \in Places \ {"hand"} : pc' = [pc EXCEPT ![r] = to]

LEMMA SilentLoses ==
  ASSUME FetchInv, NEW r \in Relay,
         \/ EnsureRelay(r) \/ Subscribe(r) \/ SubscribeFails(r)
         \/ HandOverGivesUp(r) \/ TakeEose(r) \/ TakeReason(r) \/ Auth(r)
         \/ EventsClosed(r) \/ ListenGivesUp(r)
  PROVE  Loses /\ FetchTypes'
<1> USE DEF Goto, Ends, Places, Moves
<1>0. NoSub \in SubState /\ NoSub.arrived = {}
  BY DEF NoSub, SubState
<1>1. CASE EnsureRelay(r) \/ SubscribeFails(r) \/ TakeEose(r) \/ TakeReason(r)
  <2>1. Moves(r)
    BY <1>1 DEF EnsureRelay, SubscribeFails, TakeEose, TakeReason
  <2>2. UNCHANGED <<sub, holding, call, seen, emitted>>
    BY <1>1 DEF EnsureRelay, SubscribeFails, TakeEose, TakeReason, seenVars, outVars
  <2> QED
    BY <2>1, <2>2 DEF Loses, FetchInv, FetchTypes
<1>2. CASE EventsClosed(r) \/ ListenGivesUp(r)
  <2>1. Moves(r)
    BY <1>2 DEF EventsClosed, ListenGivesUp
  <2>2. UNCHANGED <<sub, holding, call, seen, emitted>>
    BY <1>2 DEF EventsClosed, ListenGivesUp, seenVars, outVars
  <2> QED
    BY <2>1, <2>2 DEF Loses, FetchInv, FetchTypes
<1>3. CASE Subscribe(r)
  <2> DEFINE new == [NoSub EXCEPT !.state = "open"]
  <2>1. new \in SubState /\ new.arrived = {}
    BY DEF NoSub, SubState
  <2>2. Moves(r) /\ sub' = [sub EXCEPT ![r] = new]
    BY <1>3 DEF Subscribe
  <2>3. UNCHANGED <<holding, call, seen, emitted>>
    BY <1>3 DEF Subscribe, seenVars, outVars
  <2> QED
    BY <2>1, <2>2, <2>3 DEF Loses, FetchInv, FetchTypes
<1>4. CASE HandOverGivesUp(r)
  <2>1. Moves(r) /\ holding' = [holding EXCEPT ![r] = None]
    BY <1>4 DEF HandOverGivesUp
  <2>2. UNCHANGED <<sub, call, seen, emitted>>
    BY <1>4 DEF HandOverGivesUp, seenVars, outVars
  <2> QED
    BY <2>1, <2>2 DEF Loses, FetchInv, FetchTypes
<1>5. CASE Auth(r)
  <2>1. Moves(r) /\ (sub' = [sub EXCEPT ![r] = NoSub] \/ sub' = sub)
    BY <1>5 DEF Auth
  <2>2. UNCHANGED <<holding, call, seen, emitted>>
    BY <1>5 DEF Auth, seenVars, outVars
  <2> QED
    BY <1>0, <2>1, <2>2 DEF Loses, FetchInv, FetchTypes
<1> QED
  BY <1>1, <1>2, <1>3, <1>4, <1>5

LEMMA RelayLoses ==
  ASSUME FetchAssumption, FetchInv, NEW r \in Relay,
         EndOfStored(r) \/ ClosedByRelay(r) \/ SubscriptionEnds(r)
  PROVE  Loses /\ FetchTypes'
<1>t. sub \in [Relay -> SubState] /\ sub[r] \in SubState
  BY DEF FetchInv, FetchTypes
<1>1. \E new \in SubState : /\ sub' = [sub EXCEPT ![r] = new]
                            /\ new.arrived \subseteq sub[r].arrived
  <2>1. CASE EndOfStored(r)
    <3> DEFINE new == [sub[r] EXCEPT !.eose = TRUE]
    <3>1. new \in SubState /\ new.arrived = sub[r].arrived
      BY <1>t DEF SubState
    <3>2. sub' = [sub EXCEPT ![r] = new]
      BY <2>1 DEF EndOfStored
    <3> QED
      BY <3>1, <3>2
  <2>2. CASE ClosedByRelay(r)
    <3>1. PICK reason \in Reasons[r] :
             sub' = [sub EXCEPT ![r] = [sub[r] EXCEPT !.reason = reason]]
      BY <2>2 DEF ClosedByRelay
    <3> DEFINE new == [sub[r] EXCEPT !.reason = reason]
    <3>2. new \in SubState /\ new.arrived = sub[r].arrived
      BY <1>t, <3>1 DEF FetchAssumption, SubState
    <3> QED
      BY <3>1, <3>2
  <2>3. CASE SubscriptionEnds(r)
    <3> DEFINE new == [sub[r] EXCEPT !.state = "over", !.arrived = {}, !.sent = {}]
    <3>1. new \in SubState /\ new.arrived = {}
      BY <1>t DEF SubState
    <3>2. sub' = [sub EXCEPT ![r] = new]
      BY <2>3 DEF SubscriptionEnds
    <3> QED
      BY <3>1, <3>2
  <2> QED
    BY <2>1, <2>2, <2>3
<1>2. UNCHANGED <<pc, holding, call, seen, emitted>>
  BY DEF EndOfStored, ClosedByRelay, SubscriptionEnds, seenVars, outVars
<1> QED
  BY <1>t, <1>1, <1>2 DEF Loses, FetchInv, FetchTypes

(* The check and the note that an event was seen are one step.              *)
LEMMA ArriveKeeps ==
  ASSUME FetchAssumption, FetchInv, NEW r \in Relay, NEW e \in Event, Arrive(r, e)
  PROVE  FetchInv'
<1> DEFINE kept == IF Fresh(e) THEN sub[r].arrived \cup {e} ELSE sub[r].arrived
           more == [sub[r] EXCEPT !.sent = @ \cup {e}, !.arrived = kept]
<1>t. sub \in [Relay -> SubState] /\ sub[r] \in SubState
  BY DEF FetchInv, FetchTypes
<1>m. more \in SubState /\ more.arrived = kept
  BY <1>t DEF SubState
<1>s. sub' = [sub EXCEPT ![r] = more]
  BY <1>t DEF Arrive, SubState
<1>1. /\ UNCHANGED <<pc, holding, call, emitted>>
      /\ seen' = IF call = "FetchMany" THEN seen \cup {e} ELSE seen
  BY DEF Arrive, outVars
<1>2. FetchTypes'
  BY <1>t, <1>1, <1>m, <1>s DEF FetchInv, FetchTypes
<1>3. ASSUME call = "FetchMany", NEW f \in Event, NEW s \in Relay
      PROVE  /\ f \in sub'[s].arrived =>
                  f \in sub[s].arrived \/ (s = r /\ f = e /\ e \notin seen)
             /\ holding'[s] = holding[s]
  BY <1>t, <1>1, <1>3, <1>m, <1>s DEF Fresh
<1>4. OnePlace'
  <2>1. CASE call = "FetchMany"
    BY <1>1, <1>3, <2>1 DEF FetchInv, OnePlace, Carries
  <2>2. CASE call # "FetchMany"
    BY <1>1, <2>2 DEF FetchInv, OnePlace
  <2> QED
    BY <2>1, <2>2
<1> QED
  BY <1>2, <1>4 DEF FetchInv

LEMMA TakeKeeps ==
  ASSUME FetchInv, NEW r \in Relay, NEW e \in Event, TakeEvent(r, e)
  PROVE  FetchInv'
<1> DEFINE less == [sub[r] EXCEPT !.arrived = @ \ {e}]
<1>t. sub \in [Relay -> SubState] /\ sub[r] \in SubState
  BY DEF FetchInv, FetchTypes
<1>m. less \in SubState /\ less.arrived = sub[r].arrived \ {e}
  BY <1>t DEF SubState
<1>s. sub' = [sub EXCEPT ![r] = less] /\ holding' = [holding EXCEPT ![r] = e]
  BY <1>t DEF TakeEvent, SubState
<1>1. e \in sub[r].arrived /\ UNCHANGED <<call, seen, emitted>>
  BY DEF TakeEvent, seenVars, outVars
<1>2. \A s \in Relay :
        /\ sub'[s].arrived = IF s = r THEN sub[s].arrived \ {e} ELSE sub[s].arrived
        /\ holding'[s] = IF s = r THEN e ELSE holding[s]
  BY <1>t, <1>m, <1>s DEF FetchInv, FetchTypes
<1>3. FetchTypes'
  <2>1. pc' = [pc EXCEPT ![r] = "hand"]
    BY DEF TakeEvent, Goto
  <2>2. pc' \in [Relay -> Places]
    BY <2>1 DEF FetchInv, FetchTypes, Places
  <2>3. sub' \in [Relay -> SubState]
    BY <1>t, <1>m, <1>s
  <2>4. holding' \in [Relay -> Event \cup {None}]
    BY <1>s DEF FetchInv, FetchTypes
  <2>5. \A s \in Relay : pc'[s] = "hand" => holding'[s] \in Event
    BY <1>2, <2>1 DEF FetchInv, FetchTypes
  <2> QED
    BY <1>1, <2>2, <2>3, <2>4, <2>5 DEF FetchInv, FetchTypes
<1>4. ASSUME NEW f \in Event, NEW s \in Relay, call = "FetchMany",
             f \in sub'[s].arrived \/ holding'[s] = f
      PROVE  /\ Carries(s, f)
             /\ ~(f \in sub'[s].arrived /\ holding'[s] = f)
  <2>1. CASE s = r
    BY <1>1, <1>2, <1>4, <2>1 DEF Carries
  <2>2. CASE s # r
    <3>1. sub'[s].arrived = sub[s].arrived /\ holding'[s] = holding[s]
      BY <1>2, <2>2
    <3> QED
      BY <1>4, <3>1 DEF FetchInv, OnePlace, Carries
  <2> QED
    BY <2>1, <2>2
<1>5. OnePlace'
  BY <1>1, <1>4 DEF FetchInv, OnePlace, Carries
<1> QED
  BY <1>3, <1>5 DEF FetchInv

LEMMA HandOverKeeps ==
  ASSUME FetchAssumption, FetchInv, NEW r \in Relay, HandOver(r)
  PROVE  FetchInv'
<1>1. holding[r] \in Event /\ holding[r] # None
  BY DEF FetchAssumption, HandOver, Goto, FetchInv, FetchTypes
<1>2. /\ pc' = [pc EXCEPT ![r] = "listen"]
      /\ holding' = [holding EXCEPT ![r] = None]
      /\ UNCHANGED <<sub, call, seen>>
  BY DEF HandOver, Goto, seenVars
<1>3. \A e \in Event : emitted'[e] = IF call = "FetchMany" /\ e = holding[r]
                                     THEN emitted[e] + 1 ELSE emitted[e]
  BY DEF HandOver, FetchInv, FetchTypes
<1>4. \A s \in Relay, e \in Event :
        holding'[s] = e => holding[s] = e /\ s # r
  BY <1>2 DEF FetchAssumption, FetchInv, FetchTypes
<1>5. FetchTypes'
  <2>1. emitted' \in [Event -> Nat]
    BY <1>1 DEF HandOver, FetchInv, FetchTypes
  <2>2. pc' \in [Relay -> Places] /\ holding' \in [Relay -> Event \cup {None}]
    BY <1>2 DEF FetchInv, FetchTypes, Places
  <2>3. \A s \in Relay : pc'[s] = "hand" => holding'[s] \in Event
    BY <1>2 DEF FetchInv, FetchTypes
  <2> QED
    BY <1>2, <2>1, <2>2, <2>3 DEF FetchInv, FetchTypes
<1>6. \A e \in Event : emitted[e] \in Nat
  BY DEF FetchInv, FetchTypes
<1>7. CASE call # "FetchMany"
  <2>1. OnePlace'
    BY <1>2, <1>3, <1>7 DEF FetchInv, OnePlace
  <2> QED
    BY <1>5, <2>1 DEF FetchInv
<1>8. CASE call = "FetchMany"
  <2>1. ASSUME NEW e \in Event
        PROVE  /\ e \notin seen => emitted'[e] = 0
               /\ emitted'[e] <= 1
               /\ \A s \in Relay : e \in sub[s].arrived \/ holding'[s] = e =>
                                     e \in seen /\ emitted'[e] = 0
    <3>1. CASE e = holding[r]
      <4>1. Carries(r, e)
        BY <3>1 DEF Carries
      <4>2. e \in seen /\ emitted[e] = 0
        BY <1>8, <4>1 DEF FetchInv, OnePlace
      <4>3. \A s \in Relay : ~(e \in sub[s].arrived \/ holding'[s] = e)
        BY <1>4, <1>8, <3>1, <4>1 DEF FetchInv, OnePlace, Carries
      <4> QED
        BY <1>3, <1>8, <3>1, <4>2, <4>3
    <3>2. CASE e # holding[r]
      BY <1>3, <1>4, <1>8, <3>2 DEF FetchInv, OnePlace, Carries
    <3> QED
      BY <3>1, <3>2
  <2>2. OnePlace'
    BY <1>2, <1>4, <1>8, <2>1 DEF FetchInv, OnePlace, Carries
  <2> QED
    BY <1>5, <2>2 DEF FetchInv
<1> QED
  BY <1>7, <1>8

LEMMA FetchNext ==
  ASSUME FetchAssumption, FetchInv, [Next]_vars
  PROVE  FetchInv'
<1>1. ASSUME NEW r \in Relay, GoroutineStep(r) PROVE FetchInv'
  <2>1. CASE \E e \in Event : TakeEvent(r, e)
    BY <2>1, TakeKeeps
  <2>2. CASE HandOver(r)
    BY <2>2, HandOverKeeps
  <2>3. CASE ~HandOver(r) /\ ~\E e \in Event : TakeEvent(r, e)
    <3>1. Loses /\ FetchTypes'
      BY <1>1, <2>3, SilentLoses DEF GoroutineStep
    <3> QED
      BY <3>1, LosesKeeps
  <2> QED
    BY <2>1, <2>2, <2>3
<1>2. ASSUME NEW r \in Relay, HandOver(r) PROVE FetchInv'
  BY <1>2, HandOverKeeps
<1>3. ASSUME NEW r \in Relay,
             EndOfStored(r) \/ ClosedByRelay(r) \/ SubscriptionEnds(r)
      PROVE  FetchInv'
  BY <1>3, RelayLoses, LosesKeeps
<1>4. ASSUME NEW r \in Relay, NEW e \in Event, Arrive(r, e) PROVE FetchInv'
  BY <1>4, ArriveKeeps
<1>5. CASE Finish \/ CancelContext \/ UNCHANGED vars
  <2>1. UNCHANGED <<pc, sub, holding, call, seen, emitted>>
    BY <1>5 DEF Finish, CancelContext, vars, seenVars, outVars
  <2> QED
    BY <2>1 DEF FetchInv, FetchTypes, OnePlace, Carries
<1> QED
  BY <1>1, <1>2, <1>3, <1>4, <1>5 DEF Next
--------------------------------------------------------------------------------
(* However many relays send an event, and whichever goroutine is slow, an   *)
(* event goes into the channel of FetchMany once (pool.go:614).             *)
THEOREM FetchEmitsOnce ==
  ASSUME FetchAssumption
  PROVE  Spec => []EmittedOnce
<1>1. Init => FetchInv
  BY FetchInit
<1>2. FetchInv /\ [Next]_vars => FetchInv'
  BY FetchNext
<1>3. FetchInv => EmittedOnce
  BY DEF FetchInv, OnePlace, FetchTypes, EmittedOnce
<1> QED
  BY <1>1, <1>2, <1>3, PTL DEF Spec
--------------------------------------------------------------------------------
(***************************************************************************)
(* That a fetch misses nothing: for any number of relays, events and       *)
(* resubscriptions, a stored event is handed over, or it went down with    *)
(* the one subscription that had let it pass the duplicate check.          *)
(*                                                                         *)
(* The argument follows an event by passedBy, to the subscription that     *)
(* holds it on behalf of all others: as long as that one is the current    *)
(* subscription of its relay, the event arrived there, is in the hands of  *)
(* the goroutine, or is out; and an EOSE comes after what has arrived.     *)
(***************************************************************************)

(* The types of what EmittedOnce does not depend on.                        *)
MoreTypes ==
  /\ opened \in [Relay -> Nat]
  /\ endedBy \in [Relay -> {"none", "eose", "lost"}]
  /\ seen \in SUBSET Event /\ latest \in Nat
  /\ results \in Event \cup {None}
  /\ stored \in [Relay -> SUBSET Event]
  /\ passedBy \in [Event -> (Relay \X Nat) \cup {None}]
  /\ call \in Calls /\ ctxDone \in BOOLEAN /\ finished \in BOOLEAN
  /\ hasAuthed \in [Relay -> BOOLEAN]
  /\ \A r \in Relay : pc[r] # "hand" => holding[r] = None

(* A goroutine that returned says why, after an EOSE only if there was one. *)
EndsFit ==
  /\ \A r \in Relay : /\ endedBy[r] = "none" <=> pc[r] # "done"
                      /\ endedBy[r] = "eose" => sub[r].eose
  /\ finished => \A r \in Relay : pc[r] = "done"

(* The duplicate check remembers what it let pass, and what was stored.     *)
Remembered ==
  /\ \A e \in Event :
       /\ passedBy[e] # None => ~Fresh(e) /\ passedBy[e][2] <= opened[passedBy[e][1]]
       /\ call = "FetchMany" /\ ~Fresh(e) => passedBy[e] # None
       /\ \A r \in Relay : e \in stored[r] => ~Fresh(e)
  /\ call # "FetchMany" /\ latest > 0 => \E e \in Event : passedBy[e] # None

(* The current subscription of s let e pass.                                *)
Current(s, e) == passedBy[e] = <<s, opened[s]>>

Out(e) == IF call = "FetchMany" THEN emitted[e] >= 1 ELSE results # None

(* Nothing of s is lost so far.                                             *)
Intact(s) == endedBy[s] # "lost" /\ (sub[s].state = "open" \/ sub[s].eose)

OnItsWay ==
  \A s \in Relay, e \in Event : Current(s, e) =>
    /\ sub[s].state = "open" => e \in sub[s].sent
    /\ e \in stored[s] =>
         /\ Intact(s) => Out(e) \/ Carries(s, e)
         /\ sub[s].eose => e \notin sub[s].arrived

MissInv == MoreTypes /\ EndsFit /\ Remembered /\ OnItsWay

LEMMA MissInit == ASSUME FetchAssumption PROVE Init => MissInv
<1> SUFFICES ASSUME Init PROVE MissInv
  OBVIOUS
<1>1. MoreTypes
  BY DEF Init, MoreTypes
<1>2. EndsFit
  BY DEF Init, EndsFit
<1>3. Remembered
  BY DEF Init, Remembered, Fresh
<1>4. OnItsWay
  BY DEF FetchAssumption, Init, OnItsWay, Current
<1> QED
  BY <1>1, <1>2, <1>3, <1>4 DEF MissInv

(* The steps that leave alone what the duplicate check remembers.           *)
Quiet(r) ==
  \/ EnsureRelay(r) \/ SubscribeFails(r) \/ HandOver(r) \/ HandOverGivesUp(r)
  \/ TakeEose(r) \/ TakeReason(r) \/ Auth(r) \/ EventsClosed(r)
  \/ ListenGivesUp(r) \/ EndOfStored(r) \/ ClosedByRelay(r)
  \/ SubscriptionEnds(r) \/ \E e \in Event : TakeEvent(r, e)

LEMMA StepKinds ==
  ASSUME [Next]_vars
  PROVE  \/ \E r \in Relay : Quiet(r) \/ Subscribe(r)
         \/ \E r \in Relay, e \in Event : Arrive(r, e)
         \/ Finish \/ CancelContext \/ UNCHANGED vars
BY DEF Next, GoroutineStep, Quiet

LEMMA QuietTypes ==
  ASSUME FetchAssumption, FetchInv, MoreTypes, EndsFit, NEW r \in Relay, Quiet(r)
  PROVE  /\ MoreTypes' /\ EndsFit'
         /\ UNCHANGED <<call, seen, latest, passedBy, stored, opened>>
<1> USE DEF FetchInv, FetchTypes, MoreTypes, EndsFit, Goto, Ends, seenVars, outVars
<1>1. CASE EnsureRelay(r) \/ SubscribeFails(r)
  BY <1>1 DEF EnsureRelay, SubscribeFails
<1>2. CASE HandOver(r)
  BY <1>2 DEF HandOver
<1>3. CASE HandOverGivesUp(r)
  BY <1>3 DEF HandOverGivesUp
<1>4. CASE TakeEose(r)
  BY <1>4 DEF TakeEose
<1>5. CASE TakeReason(r)
  BY <1>5 DEF TakeReason
<1>6. CASE Auth(r)
  BY <1>6 DEF Auth
<1>7. CASE EventsClosed(r) \/ ListenGivesUp(r)
  BY <1>7 DEF EventsClosed, ListenGivesUp
<1>8. CASE EndOfStored(r) \/ ClosedByRelay(r) \/ SubscriptionEnds(r)
  <2>1. UNCHANGED <<call, ctxDone, pc, opened, hasAuthed, holding, endedBy,
                    seen, latest, passedBy, results, finished, stored>>
    BY <1>8 DEF EndOfStored, ClosedByRelay, SubscriptionEnds
  <2>2. \A s \in Relay : sub[s].eose => sub'[s].eose
    <3>1. CASE EndOfStored(r)
      BY <3>1 DEF EndOfStored, SubState
    <3>2. CASE ClosedByRelay(r)
      BY <3>2 DEF ClosedByRelay, SubState
    <3>3. CASE SubscriptionEnds(r)
      BY <3>3 DEF SubscriptionEnds, SubState
    <3> QED
      BY <1>8, <3>1, <3>2, <3>3
  <2> QED
    BY <2>1, <2>2
<1>9. CASE \E e \in Event : TakeEvent(r, e)
  BY <1>9 DEF TakeEvent, SubState
<1> QED
  BY <1>1, <1>2, <1>3, <1>4, <1>5, <1>6, <1>7, <1>8, <1>9 DEF Quiet

(* What a step that is quiet does to a subscription and its goroutine.      *)
Follows(s) ==
  /\ sub'[s].state = "open" =>
       sub[s].state = "open" /\ sub'[s].sent = sub[s].sent
  /\ Intact(s)' => Intact(s)
  /\ sub'[s].eose =>
       \/ sub'[s].arrived = {}
       \/ sub[s].eose /\ sub'[s].arrived \subseteq sub[s].arrived
  /\ Intact(s)' => \A e \in Event :
       /\ Out(e) => Out(e)'
       /\ holding[s] = e => holding'[s] = e \/ Out(e)'
       /\ e \in sub[s].arrived =>
            e \in sub'[s].arrived \/ holding'[s] = e \/ sub[s].eose

LEMMA QuietFollows ==
  ASSUME FetchAssumption, FetchInv, MoreTypes, EndsFit, MoreTypes',
         NEW r \in Relay, Quiet(r), NEW s \in Relay
  PROVE  Follows(s)
<1> USE DEF FetchInv, FetchTypes, MoreTypes, EndsFit, Goto, Ends, seenVars, outVars
<1>1. \A e \in Event : Out(e) => Out(e)'
  <2>1. CASE HandOver(r)
    BY <2>1 DEF HandOver, Out, FetchAssumption
  <2>2. CASE ~HandOver(r)
    <3>1. UNCHANGED <<call, emitted, results>>
      BY <2>2 DEF Quiet, EnsureRelay, SubscribeFails, HandOverGivesUp, TakeEose,
            TakeReason, Auth, EventsClosed, ListenGivesUp, EndOfStored,
            ClosedByRelay, SubscriptionEnds, TakeEvent
    <3> QED
      BY <3>1 DEF Out
  <2> QED
    BY <2>1, <2>2
<1>2. CASE /\ sub'[s] = sub[s] /\ holding'[s] = holding[s]
           /\ endedBy'[s] \in {endedBy[s], "lost"}
             \/ (endedBy[s] = "none" /\ endedBy'[s] = "eose")
  BY <1>1, <1>2 DEF Follows, Intact
<1>3. CASE EnsureRelay(r) \/ SubscribeFails(r) \/ EventsClosed(r) \/ ListenGivesUp(r)
  BY <1>2, <1>3 DEF EnsureRelay, SubscribeFails, EventsClosed, ListenGivesUp
<1>4. CASE TakeEose(r) \/ TakeReason(r)
  BY <1>2, <1>4 DEF TakeEose, TakeReason
<1>5. CASE HandOver(r)
  <2>1. CASE s = r
    BY <1>1, <1>5, <2>1 DEF HandOver, Follows, Intact, Out, FetchAssumption
  <2>2. CASE s # r
    BY <1>2, <1>5, <2>2 DEF HandOver
  <2> QED
    BY <2>1, <2>2
<1>6. CASE HandOverGivesUp(r)
  <2>1. CASE s = r
    BY <1>1, <1>6, <2>1 DEF HandOverGivesUp, Follows, Intact
  <2>2. CASE s # r
    BY <1>2, <1>6, <2>2 DEF HandOverGivesUp
  <2> QED
    BY <2>1, <2>2
<1>7. CASE Auth(r)
  <2>1. CASE s = r /\ sub'[s] = NoSub
    BY <1>7, <2>1 DEF Follows, Intact, NoSub
  <2>2. CASE s # r \/ sub' = sub
    BY <1>2, <1>7, <2>2 DEF Auth
  <2> QED
    BY <1>7, <2>1, <2>2 DEF Auth
<1>8. CASE EndOfStored(r) \/ ClosedByRelay(r) \/ SubscriptionEnds(r)
  <2>1. CASE s = r
    BY <1>1, <1>8, <2>1 DEF EndOfStored, ClosedByRelay, SubscriptionEnds,
          Follows, Intact, SubState
  <2>2. CASE s # r
    BY <1>2, <1>8, <2>2 DEF EndOfStored, ClosedByRelay, SubscriptionEnds
  <2> QED
    BY <2>1, <2>2
<1>9. CASE \E e \in Event : TakeEvent(r, e)
  <2>1. CASE s = r
    BY <1>1, <1>9, <2>1 DEF TakeEvent, Follows, Intact, SubState, FetchAssumption
  <2>2. CASE s # r
    BY <1>2, <1>9, <2>2 DEF TakeEvent
  <2> QED
    BY <2>1, <2>2
<1> QED
  BY <1>3, <1>4, <1>5, <1>6, <1>7, <1>8, <1>9 DEF Quiet

LEMMA QuietKeeps ==
  ASSUME FetchAssumption, FetchInv, MissInv, NEW r \in Relay, Quiet(r)
  PROVE  MissInv'
<1>1. /\ MoreTypes' /\ EndsFit'
      /\ UNCHANGED <<call, seen, latest, passedBy, stored, opened>>
  BY QuietTypes DEF MissInv
<1>2. Remembered'
  BY <1>1 DEF MissInv, Remembered, Fresh
<1>3. ASSUME NEW s \in Relay, NEW e \in Event, Current(s, e)'
      PROVE  /\ sub'[s].state = "open" => e \in sub'[s].sent
             /\ e \in stored'[s] =>
                  /\ Intact(s)' => Out(e)' \/ Carries(s, e)'
                  /\ sub'[s].eose => e \notin sub'[s].arrived
  <2>1. Follows(s)
    BY <1>1, QuietFollows DEF MissInv
  <2>2. Current(s, e) /\ stored'[s] = stored[s]
    BY <1>1, <1>3 DEF Current
  <2>3. sub'[s].state = "open" => e \in sub'[s].sent
    BY <2>1, <2>2 DEF MissInv, OnItsWay, Follows
  <2>4. ASSUME e \in stored[s], Intact(s)'
        PROVE  Out(e)' \/ Carries(s, e)'
    <3>1. Out(e) \/ Carries(s, e)
      BY <2>1, <2>2, <2>4 DEF MissInv, OnItsWay, Follows
    <3>2. sub[s].eose => e \notin sub[s].arrived
      BY <2>2, <2>4 DEF MissInv, OnItsWay
    <3> QED
      BY <2>1, <2>4, <3>1, <3>2 DEF Follows, Carries
  <2>5. ASSUME e \in stored[s], sub'[s].eose
        PROVE  e \notin sub'[s].arrived
    BY <2>1, <2>2, <2>5 DEF MissInv, OnItsWay, Follows
  <2> QED
    BY <2>2, <2>3, <2>4, <2>5
<1>4. OnItsWay'
  BY <1>3 DEF OnItsWay
<1> QED
  BY <1>1, <1>2, <1>4 DEF MissInv

(* A new subscription: what the old one let pass is no longer followed.     *)
LEMMA SubscribeKeeps ==
  ASSUME FetchAssumption, FetchInv, MissInv, NEW r \in Relay, Subscribe(r)
  PROVE  MissInv'
<1> USE DEF Subscribe, Goto, seenVars, outVars
<1>1. MoreTypes' /\ EndsFit'
  BY DEF FetchInv, FetchTypes, MissInv, MoreTypes, EndsFit
<1>2. Remembered'
  BY DEF MissInv, MoreTypes, Remembered, Fresh
<1>3. ASSUME NEW s \in Relay, NEW e \in Event, Current(s, e)'
      PROVE  s # r /\ Current(s, e)
  <2>1. passedBy[e] = <<s, opened'[s]>> /\ passedBy[e] \in (Relay \X Nat) \cup {None}
    BY <1>3 DEF Current, MissInv, MoreTypes
  <2>2. opened'[s] \in Nat
    BY <1>1 DEF MoreTypes
  <2>3. passedBy[e] # None
    BY <2>1, <2>2 DEF FetchAssumption
  <2>4. opened'[s] <= opened[s]
    BY <2>1, <2>3 DEF MissInv, Remembered
  <2>5. opened'[s] = IF s = r THEN opened[s] + 1 ELSE opened[s]
    BY DEF MissInv, MoreTypes
  <2>6. opened[s] \in Nat
    BY DEF MissInv, MoreTypes
  <2> QED
    BY <2>1, <2>4, <2>5, <2>6 DEF Current
<1>4. \A s \in Relay \ {r} : /\ sub'[s] = sub[s] /\ stored'[s] = stored[s]
                             /\ holding'[s] = holding[s]
                             /\ endedBy'[s] = endedBy[s]
  BY DEF FetchInv, FetchTypes, MissInv, MoreTypes
<1>5. OnItsWay'
  BY <1>3, <1>4 DEF MissInv, OnItsWay, Intact, Out, Carries
<1> QED
  BY <1>1, <1>2, <1>5 DEF MissInv

(* An event that is let pass is with the subscription that passedBy names;  *)
(* one that is stored but not let pass had been passed by another.          *)
LEMMA ArriveFollows ==
  ASSUME FetchAssumption, FetchInv, MissInv, NEW r \in Relay, NEW e \in Event,
         Arrive(r, e)
  PROVE  MissInv'
<1> USE DEF Arrive, outVars
<1> DEFINE more == [sub[r] EXCEPT
             !.sent = @ \cup {e},
             !.arrived = IF Fresh(e) THEN @ \cup {e} ELSE @]
<1>t. sub \in [Relay -> SubState] /\ sub[r] \in SubState
  BY DEF FetchInv, FetchTypes
<1>s. sub' = [sub EXCEPT ![r] = more]
  BY <1>t DEF SubState
<1>m. /\ more.state = sub[r].state /\ more.eose = sub[r].eose
      /\ more.sent = sub[r].sent \cup {e}
      /\ more.arrived = IF Fresh(e) THEN sub[r].arrived \cup {e} ELSE sub[r].arrived
  BY <1>t DEF SubState
<1>u. UNCHANGED <<call, ctxDone, pc, opened, hasAuthed, holding, endedBy,
                  emitted, results, finished>>
  OBVIOUS
<1>o. /\ <<r, opened[r]>> \in Relay \X Nat /\ <<r, opened[r]>> # None
      /\ CreatedAt \in [Event -> Nat \ {0}] /\ opened[r] \in Nat
  BY DEF MissInv, MoreTypes, FetchAssumption
<1>p. /\ passedBy'[e] = IF Fresh(e) THEN <<r, opened[r]>> ELSE passedBy[e]
      /\ \A f \in Event \ {e} : passedBy'[f] = passedBy[f]
  BY DEF MissInv, MoreTypes
<1>d. \A s \in Relay : stored'[s] = IF s = r /\ ~sub[r].eose
                                    THEN stored[s] \cup {e} ELSE stored[s]
  BY DEF MissInv, MoreTypes
<1>1. MoreTypes'
  <2>1. seen' \in SUBSET Event /\ latest' \in Nat
    BY <1>o, ZenonT(60) DEF MissInv, MoreTypes
  <2>2. stored' \in [Relay -> SUBSET Event]
    BY DEF MissInv, MoreTypes
  <2>3. passedBy' \in [Event -> (Relay \X Nat) \cup {None}]
    BY <1>o DEF MissInv, MoreTypes
  <2> QED
    BY <1>u, <2>1, <2>2, <2>3 DEF MissInv, MoreTypes
<1>2. EndsFit'
  BY <1>t, <1>s, <1>m, <1>u DEF MissInv, EndsFit
<1>f. /\ ~Fresh(e)'
      /\ \A f \in Event \ {e} : call = "FetchMany" => (Fresh(f)' <=> Fresh(f))
      /\ \A f \in Event : ~Fresh(f) => ~Fresh(f)'
  <2>1. CASE call = "FetchMany"
    BY <1>u, <2>1 DEF Fresh
  <2>2. CASE call # "FetchMany"
    <3>1. latest \in Nat /\ latest' = IF CreatedAt[e] > latest
                                      THEN CreatedAt[e] ELSE latest
      BY <2>2 DEF MissInv, MoreTypes
    <3>2. \A f \in Event : CreatedAt[f] \in Nat
      BY <1>o
    <3>3. latest' >= latest /\ latest' >= CreatedAt[e] /\ latest' \in Nat
      BY <3>1, <3>2
    <3> QED
      BY <1>u, <2>2, <3>1, <3>2, <3>3 DEF Fresh
  <2> QED
    BY <2>1, <2>2
<1>3. Remembered'
  <2>1. ASSUME NEW f \in Event, passedBy'[f] # None
        PROVE  ~Fresh(f)' /\ passedBy'[f][2] <= opened[passedBy'[f][1]]
    <3>1. CASE f = e /\ Fresh(e)
      BY <1>f, <1>o, <1>p, <3>1
    <3>2. CASE ~(f = e /\ Fresh(e))
      BY <1>f, <1>p, <2>1, <3>2 DEF MissInv, Remembered
    <3> QED
      BY <3>1, <3>2
  <2>2. ASSUME NEW f \in Event, call = "FetchMany", ~Fresh(f)'
        PROVE  passedBy'[f] # None
    <3>1. CASE f = e /\ Fresh(e)
      BY <1>o, <1>p, <3>1
    <3>2. CASE ~(f = e /\ Fresh(e))
      BY <1>f, <1>p, <2>2, <3>2 DEF MissInv, Remembered
    <3> QED
      BY <3>1, <3>2
  <2>3. ASSUME NEW f \in Event, NEW s \in Relay, f \in stored'[s]
        PROVE  ~Fresh(f)'
    <3>1. f = e \/ f \in stored[s]
      BY <1>d, <2>3
    <3> QED
      BY <1>f, <3>1 DEF MissInv, Remembered
  <2>4. ASSUME call # "FetchMany", latest' > 0
        PROVE  \E f \in Event : passedBy'[f] # None
    <3>1. CASE Fresh(e)
      BY <1>o, <1>p, <3>1
    <3>2. CASE ~Fresh(e)
      <4>1. latest' = latest /\ passedBy'[e] = passedBy[e]
        BY <1>p, <2>4, <3>2 DEF Fresh
      <4> QED
        BY <1>p, <2>4, <4>1 DEF MissInv, Remembered
    <3> QED
      BY <3>1, <3>2
  <2> QED
    BY <1>u, <2>1, <2>2, <2>3, <2>4 DEF Remembered
<1>4. ASSUME NEW s \in Relay, NEW f \in Event, Current(s, f)'
      PROVE  /\ sub'[s].state = "open" => f \in sub'[s].sent
             /\ f \in stored'[s] =>
                  /\ Intact(s)' => Out(f)' \/ Carries(s, f)'
                  /\ sub'[s].eose => f \notin sub'[s].arrived
  <2>s. /\ sub'[s].state = sub[s].state /\ sub'[s].eose = sub[s].eose
        /\ sub'[s].sent = IF s = r THEN sub[s].sent \cup {e} ELSE sub[s].sent
        /\ sub'[s].arrived = IF s = r /\ Fresh(e) THEN sub[s].arrived \cup {e}
                                                  ELSE sub[s].arrived
        /\ (Intact(s)' <=> Intact(s)) /\ (Out(f)' <=> Out(f))
    BY <1>t, <1>s, <1>m, <1>u DEF Intact, Out
  <2>1. CASE f = e /\ Fresh(e)
    <3>1. s = r
      BY <1>4, <1>p, <1>u, <2>1 DEF Current
    <3>2. e \notin stored[r]
      BY <2>1 DEF MissInv, Remembered
    <3>3. e \in sub'[r].sent /\ e \in sub'[r].arrived
      BY <1>t, <1>s, <1>m, <2>1
    <3>4. CASE sub[r].eose
      BY <1>d, <2>1, <3>1, <3>2, <3>3, <3>4
    <3>5. CASE ~sub[r].eose
      BY <2>s, <2>1, <3>1, <3>3, <3>5 DEF Carries
    <3> QED
      BY <3>4, <3>5
  <2>2. CASE ~(f = e /\ Fresh(e))
    <3>1. Current(s, f)
      BY <1>4, <1>p, <1>u, <2>2 DEF Current
    <3>2. sub[s].state = "open" => f \in sub[s].sent
      BY <3>1 DEF MissInv, OnItsWay
    <3>3. f \in stored'[s] => f \in stored[s]
      BY <1>d, <3>2
    <3>4. Carries(s, f) => Carries(s, f)'
      BY <1>u, <2>s DEF Carries
    <3>5. f \in sub'[s].arrived => f \in sub[s].arrived
      BY <2>s, <2>2
    <3> QED
      BY <2>s, <3>1, <3>2, <3>3, <3>4, <3>5 DEF MissInv, OnItsWay
  <2> QED
    BY <2>1, <2>2
<1>5. OnItsWay'
  BY <1>4 DEF OnItsWay
<1> QED
  BY <1>1, <1>2, <1>3, <1>5 DEF MissInv

LEMMA MissNext ==
  ASSUME FetchAssumption, FetchInv, MissInv, [Next]_vars
  PROVE  MissInv'
<1>1. CASE \E r \in Relay : Quiet(r) \/ Subscribe(r)
  BY <1>1, QuietKeeps, SubscribeKeeps
<1>2. CASE \E r \in Relay, e \in Event : Arrive(r, e)
  BY <1>2, ArriveFollows
<1>3. CASE Finish \/ CancelContext \/ UNCHANGED vars
  <2>1. /\ UNCHANGED <<call, pc, sub, opened, hasAuthed, holding, endedBy, seen,
                       latest, emitted, results, stored, passedBy>>
        /\ ctxDone' \in BOOLEAN /\ finished' \in BOOLEAN
        /\ finished' => \A r \in Relay : pc[r] = "done"
    <3> USE DEF MissInv, MoreTypes, EndsFit, seenVars, outVars
    <3>1. CASE Finish
      BY <3>1 DEF Finish
    <3>2. CASE CancelContext
      BY <3>2 DEF CancelContext
    <3>3. CASE UNCHANGED vars
      BY <3>3 DEF vars
    <3> QED
      BY <1>3, <3>1, <3>2, <3>3
  <2>2. MoreTypes' /\ EndsFit'
    BY <2>1 DEF MissInv, MoreTypes, EndsFit
  <2>3. Remembered' /\ OnItsWay'
    BY <2>1 DEF MissInv, Remembered, Fresh, OnItsWay, Current, Intact, Out, Carries
  <2> QED
    BY <2>2, <2>3 DEF MissInv
<1> QED
  BY <1>1, <1>2, <1>3, StepKinds

(* When the call has returned every goroutine is done: what is followed to  *)
(* a subscription that had its EOSE is out.                                 *)
LEMMA FollowedIsOut ==
  ASSUME FetchAssumption, FetchInv, MissInv, finished,
         NEW e \in Event, passedBy[e] # None, ~LostBy(e)
  PROVE  Out(e)
<1> DEFINE s == passedBy[e][1]
<1>1. passedBy[e] \in Relay \X Nat
  BY DEF MissInv, MoreTypes
<1>2. s \in Relay /\ passedBy[e] = <<s, passedBy[e][2]>>
  BY <1>1
<1>3. opened[s] = passedBy[e][2] /\ endedBy[s] = "eose" /\ e \in stored[s]
  BY <1>1 DEF LostBy
<1>4. sub[s].eose /\ pc[s] = "done"
  BY <1>2, <1>3 DEF MissInv, EndsFit
<1>5. holding[s] # e
  BY <1>2, <1>4 DEF MissInv, MoreTypes, FetchAssumption
<1>6. Current(s, e)
  BY <1>2, <1>3 DEF Current
<1>7. Intact(s)
  BY <1>3, <1>4 DEF Intact
<1> HIDE DEF s
<1> QED
  BY <1>2, <1>3, <1>4, <1>5, <1>6, <1>7 DEF MissInv, OnItsWay, Carries
--------------------------------------------------------------------------------
(* In every state of a fetch: the events are where the subscriptions, the   *)
(* duplicate check and the goroutines say (pool.go:297, 553).               *)
THEOREM FetchInvariant ==
  ASSUME FetchAssumption
  PROVE  Spec => [](FetchInv /\ MissInv)
<1>1. Init => FetchInv /\ MissInv
  BY FetchInit, MissInit
<1>2. FetchInv /\ MissInv /\ [Next]_vars => FetchInv' /\ MissInv'
  BY FetchNext, MissNext
<1> QED
  BY <1>1, <1>2, PTL DEF Spec

(* The state of a fetch keeps its types (pool.go:297, 553).                 *)
THEOREM FetchTypesHold ==
  ASSUME FetchAssumption
  PROVE  Spec => []TypeOK
<1>1. FetchInv /\ MissInv => TypeOK
  BY DEF FetchInv, FetchTypes, MissInv, MoreTypes, TypeOK, Places, SubState,
         FetchAssumption
<1> QED
  BY <1>1, FetchInvariant, PTL

(* A stored event of a relay that reached its EOSE is handed over, or it    *)
(* was lost with the one subscription that had let it pass the duplicate    *)
(* check for all relays, on any of them and after any AUTH (pool.go:297).   *)
THEOREM FetchMissesNothing ==
  ASSUME FetchAssumption
  PROVE  Spec => []NothingMissed
<1>1. FetchInv /\ MissInv => NothingMissed
  <2> SUFFICES ASSUME FetchInv, MissInv, finished,
                      NEW r \in Relay, NEW e \in stored[r]
               PROVE  IF call = "FetchMany"
                      THEN emitted[e] = 1 \/ LostBy(e)
                      ELSE results # None \/ \E f \in Event : LostBy(f)
    BY DEF NothingMissed
  <2>1. e \in Event /\ ~Fresh(e)
    BY DEF MissInv, MoreTypes, Remembered
  <2>2. CASE call = "FetchMany"
    <3>1. passedBy[e] # None
      BY <2>1, <2>2 DEF MissInv, Remembered
    <3>2. Out(e) \/ LostBy(e)
      BY <2>1, <3>1, FollowedIsOut
    <3>3. emitted[e] <= 1 /\ emitted[e] \in Nat
      BY <2>1, <2>2 DEF FetchInv, FetchTypes, OnePlace
    <3> QED
      BY <2>2, <3>2, <3>3 DEF Out
  <2>3. CASE call # "FetchMany"
    <3>1. latest > 0
      BY <2>1, <2>3 DEF Fresh, FetchAssumption, MissInv, MoreTypes
    <3>2. PICK f \in Event : passedBy[f] # None
      BY <2>3, <3>1 DEF MissInv, Remembered
    <3>3. Out(f) \/ LostBy(f)
      BY <3>2, FollowedIsOut
    <3> QED
      BY <2>3, <3>3 DEF Out
  <2> QED
    BY <2>2, <2>3
<1> QED
  BY <1>1, FetchInvariant, PTL
================================================================================
