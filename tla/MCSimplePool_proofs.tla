-------------------------- MODULE MCSimplePool_proofs --------------------------
(***************************************************************************)
(* The calls of SimplePool. First, that a long-lived subscription counts   *)
(* its EOSEs right, sends nothing on a closed channel and emits an event   *)
(* once unless the ticker forgot it, for any number of relays, repeated    *)
(* urls, events and resubscriptions.                                       *)
(*                                                                         *)
(* Then that this, and what Fetch_proofs and Pool_proofs establish for one *)
(* fetch and one PublishMany, holds in the composition of the three: they  *)
(* take their steps one at a time, and leave each other's state alone.     *)
(*                                                                         *)
(* FP and PP are F and P together with their theorems: the same constants  *)
(* and variables are put in.                                               *)
(***************************************************************************)
EXTENDS MCSimplePool, FiniteSetTheorems, TLAPS

FP == INSTANCE Fetch_proofs
        WITH Event <- {e1, e2},
             CreatedAt <- [e \in {e1, e2} |-> IF e = e1 THEN 1 ELSE 2],
             Has <- [r \in Relay |-> IF r = r1 THEN {e1, e2} ELSE {e1}],
             Calls <- {"FetchMany", "FetchManyReplaceable"},
             Reasons <- [r \in Relay |-> IF r = r1 THEN {"auth-required"} ELSE {}],
             ctxDone <- fetchCtxDone, pc <- fetchPc, sub <- fetchSub,
             opened <- fetchOpened, hasAuthed <- fetchHasAuthed,
             holding <- fetchHolding, emitted <- fetchEmitted

PP == INSTANCE Pool_proofs
        WITH Task <- {t1, t2, t3}, Url <- {u1, u2},
             UrlOf <- [t \in {t1, t2, t3} |-> IF t = t3 THEN u2 ELSE u1],
             LockOf <- [u \in {u1, u2} |-> 1],
             Proactive <- TRUE, AuthHandler <- TRUE, MaxDials <- 3,
             MaxSweeps <- 1, pc <- taskPc, results <- taskResults

(* A goroutine that has counted itself out of pending.                      *)
Gone == {"counted", "close", "last", "done"}
Places == {"loop", "ensure", "subscribe", "listen", "forward", "auth",
           "sleep", "exit"} \cup Gone

(* What the arguments below need of the types.                              *)
PlaceTypes ==
  /\ pc \in [Relay -> Places]
  /\ eosed \in [Relay -> BOOLEAN]
  /\ closes \in Nat
  /\ pending \in Int

(* pending counts the goroutines that are not gone and the repeated urls,   *)
(* and whoever closes events, or has, found it at zero.                     *)
PendingCounts ==
  /\ pending = Cardinality({r \in Relay : pc[r] \notin Gone}) + Repeats
  /\ (closes > 0 \/ \E r \in Relay : pc[r] = "close")
        => \A r \in Relay : pc[r] \in Gone

CountersInv == PlaceTypes /\ EoseCountedOnce /\ PendingCounts

LEMMA CountersInit == Init => CountersInv
<1> SUFFICES ASSUME Init PROVE CountersInv
  OBVIOUS
<1> USE DEF Init
<1>1. PlaceTypes
  <2>1. Cardinality(Relay) \in Nat
    BY RelayAssumption, FS_CardinalityType
  <2>2. Repeats \in Nat
    BY CountAssumption
  <2>3. pending \in Int /\ closes \in Nat
    BY <2>1, <2>2
  <2>4. "loop" \in Places
    BY DEF Places
  <2> QED
    BY <2>3, <2>4 DEF PlaceTypes
<1>2. EoseCountedOnce
  <2>1. {r \in Relay : ~eosed[r]} = Relay
    OBVIOUS
  <2> QED
    BY <2>1 DEF EoseCountedOnce
<1>3. PendingCounts
  <2>1. {r \in Relay : pc[r] \notin Gone} = Relay
    BY DEF Gone
  <2>2. pending = Cardinality({r \in Relay : pc[r] \notin Gone}) + Repeats
    BY <2>1
  <2>3. ~(closes > 0 \/ \E r \in Relay : pc[r] = "close")
    OBVIOUS
  <2> QED
    BY <2>2, <2>3 DEF PendingCounts
<1> QED
  BY <1>1, <1>2, <1>3 DEF CountersInv
--------------------------------------------------------------------------------
(* A goroutine that moves between two places on the same side of pending.   *)
Moves(r, from, to) ==
  /\ pc[r] = from
  /\ pc' = [pc EXCEPT ![r] = to]
  /\ UNCHANGED endVars

LEMMA MovesKeeps ==
  ASSUME PlaceTypes, PendingCounts, NEW r \in Relay,
         NEW from, NEW to \in Places, Moves(r, from, to),
         to # "close", from \in Gone <=> to \in Gone
  PROVE  pc' \in [Relay -> Places] /\ PendingCounts'
<1>1. \A s \in Relay : pc'[s] = IF s = r THEN to ELSE pc[s]
  BY DEF Moves, PlaceTypes
<1>2. \A s \in Relay : pc'[s] \in Gone <=> pc[s] \in Gone
  BY <1>1 DEF Moves
<1>3. {s \in Relay : pc'[s] \notin Gone} = {s \in Relay : pc[s] \notin Gone}
  BY <1>2
<1>4. \A s \in Relay : pc'[s] = "close" => pc[s] = "close"
  BY <1>1
<1>5. pending' = pending /\ closes' = closes
  BY DEF Moves, endVars
<1>6. pc' \in [Relay -> Places]
  BY DEF Moves, PlaceTypes
<1> QED
  BY <1>2, <1>3, <1>4, <1>5, <1>6 DEF PendingCounts

(* eoseWg and eosed change together.                                        *)
LEMMA EosedKeeps ==
  ASSUME PlaceTypes, EoseCountedOnce, NEW r \in Relay,
         eosed' = [eosed EXCEPT ![r] = TRUE],
         eoseWg' = IF eosed[r] THEN eoseWg ELSE eoseWg - 1
  PROVE  eosed' \in [Relay -> BOOLEAN] /\ EoseCountedOnce'
<1> DEFINE Missing == {s \in Relay : ~eosed[s]}
<1>1. \A s \in Relay : eosed'[s] = (IF s = r THEN TRUE ELSE eosed[s])
  BY DEF PlaceTypes
<1>2. {s \in Relay : ~eosed'[s]} = Missing \ {r}
  BY <1>1
<1>3. IsFiniteSet(Missing)
  BY RelayAssumption, FS_Subset
<1>4. Cardinality(Missing \ {r})
        = IF r \in Missing THEN Cardinality(Missing) - 1 ELSE Cardinality(Missing)
  BY <1>3, FS_RemoveElement
<1>5. eosed' \in [Relay -> BOOLEAN]
  BY DEF PlaceTypes
<1>6. r \in Missing <=> ~eosed[r]
  OBVIOUS
<1>7. eoseWg = Cardinality(Missing)
  BY DEF EoseCountedOnce
<1>8. eoseWg' = Cardinality(Missing \ {r})
  BY <1>4, <1>6, <1>7
<1>9. EoseCountedOnce'
  BY <1>2, <1>8 DEF EoseCountedOnce
<1> QED
  BY <1>5, <1>9
--------------------------------------------------------------------------------
LEMMA CountOffKeeps ==
  ASSUME PlaceTypes, PendingCounts, NEW r \in Relay, CountOff(r)
  PROVE  PlaceTypes' /\ PendingCounts'
<1> DEFINE Here == {s \in Relay : pc[s] \notin Gone}
<1>1. /\ pc[r] = "exit" /\ pending' = pending - 1 /\ closes' = closes
      /\ eosed' = eosed
  BY DEF CountOff, Goto, eoseVars
<1>2. \A s \in Relay : pc'[s] = IF s = r THEN "counted" ELSE pc[s]
  BY DEF CountOff, Goto, PlaceTypes
<1>3. {s \in Relay : pc'[s] \notin Gone} = Here \ {r}
  BY <1>2 DEF Gone
<1>4. IsFiniteSet(Here) /\ r \in Here
  BY <1>1, RelayAssumption, FS_Subset DEF Gone
<1>5. Cardinality(Here \ {r}) = Cardinality(Here) - 1
  BY <1>4, FS_RemoveElement
<1>6. Cardinality(Here) \in Nat /\ Repeats \in Nat
  BY <1>4, FS_CardinalityType, CountAssumption
<1>7. pending' = Cardinality(Here \ {r}) + Repeats
  BY <1>1, <1>5, <1>6 DEF PendingCounts
<1>8. ~(closes > 0 \/ \E s \in Relay : pc[s] = "close")
  BY <1>4 DEF PendingCounts
<1>9. PendingCounts'
  BY <1>1, <1>2, <1>3, <1>7, <1>8 DEF PendingCounts
<1>10. "counted" \in Places
  BY DEF Places, Gone
<1>11. pc' \in [Relay -> Places]
  BY <1>10 DEF CountOff, Goto, PlaceTypes
<1> QED
  BY <1>1, <1>9, <1>11 DEF PlaceTypes

(* Only who finds pending at zero goes on to close events, and then nobody  *)
(* is left.                                                                 *)
LEMMA ReadPendingKeeps ==
  ASSUME PlaceTypes, PendingCounts, NEW r \in Relay, ReadPending(r)
  PROVE  PlaceTypes' /\ PendingCounts'
<1> DEFINE Here == {s \in Relay : pc[s] \notin Gone}
<1>1. /\ pc[r] = "counted" /\ UNCHANGED <<pending, closes, eosed>>
  BY DEF ReadPending, Goto, eoseVars, endVars
<1>2. \A s \in Relay : pc'[s] = IF s = r
                                THEN IF pending = 0 THEN "close" ELSE "last"
                                ELSE pc[s]
  BY DEF ReadPending, Goto, PlaceTypes
<1>3. {s \in Relay : pc'[s] \notin Gone} = Here
  BY <1>1, <1>2 DEF Gone
<1>4. pending = 0 => Here = {}
  <2>1. IsFiniteSet(Here)
    BY RelayAssumption, FS_Subset
  <2>2. Cardinality(Here) \in Nat /\ Repeats \in Nat
    BY <2>1, FS_CardinalityType, CountAssumption
  <2>3. pending = Cardinality(Here) + Repeats
    BY DEF PendingCounts
  <2>4. pending = 0 => Cardinality(Here) = 0
    BY <2>2, <2>3
  <2> QED
    BY <2>1, <2>4, FS_EmptySet
<1>5. \A s \in Relay : pc[s] \in Gone => pc'[s] \in Gone
  BY <1>2 DEF Gone
<1>6. PendingCounts'
  <2>1. pending' = Cardinality({s \in Relay : pc'[s] \notin Gone}) + Repeats
    BY <1>1, <1>3 DEF PendingCounts
  <2>2. ASSUME closes' > 0 \/ \E s \in Relay : pc'[s] = "close"
        PROVE  \A s \in Relay : pc'[s] \in Gone
    <3>1. CASE pending = 0
      BY <1>4, <1>5, <3>1
    <3>2. CASE pending # 0
      BY <1>1, <1>2, <1>5, <2>2, <3>2 DEF PendingCounts
    <3> QED
      BY <3>1, <3>2
  <2> QED
    BY <2>1, <2>2 DEF PendingCounts
<1>7. "close" \in Places /\ "last" \in Places
  BY DEF Places, Gone
<1>8. pc' \in [Relay -> Places]
  BY <1>7 DEF ReadPending, Goto, PlaceTypes
<1> QED
  BY <1>1, <1>6, <1>8 DEF PlaceTypes

LEMMA CloseEventsKeeps ==
  ASSUME PlaceTypes, PendingCounts, NEW r \in Relay, CloseEvents(r)
  PROVE  PlaceTypes' /\ PendingCounts'
<1>1. /\ pc[r] = "close" /\ closes' = closes + 1
      /\ UNCHANGED <<pending, eosed>>
  BY DEF CloseEvents, Goto, eoseVars
<1>2. \A s \in Relay : pc'[s] = IF s = r THEN "last" ELSE pc[s]
  BY DEF CloseEvents, Goto, PlaceTypes
<1>3. \A s \in Relay : pc'[s] \in Gone <=> pc[s] \in Gone
  BY <1>1, <1>2 DEF Gone
<1>4. {s \in Relay : pc'[s] \notin Gone} = {s \in Relay : pc[s] \notin Gone}
  BY <1>3
<1>5. PendingCounts'
  BY <1>1, <1>3, <1>4 DEF PendingCounts
<1>6. "last" \in Places
  BY DEF Places, Gone
<1>7. pc' \in [Relay -> Places]
  BY <1>6 DEF CloseEvents, Goto, PlaceTypes
<1> QED
  BY <1>1, <1>5, <1>7 DEF PlaceTypes

(***************************************************************************)
(* The steps that change neither counter, by where they move a goroutine.   *)
(***************************************************************************)
Quiet == UNCHANGED <<eosed, eoseWg, endVars>>

Unmoved == Quiet /\ UNCHANGED pc

Steps(r) ==
  Quiet /\ \E from \in Places \ Gone, to \in Places \ Gone : Moves(r, from, to)

LEMMA QuietSteps ==
  ASSUME NEW r \in Relay,
         \/ CheckContext(r) \/ EnsureRelay(r) \/ Subscribe(r)
         \/ SubscribeFails(r) \/ Sleep(r) \/ ForwardGivesUp(r)
         \/ EventsBroken(r) \/ TakeReason(r) \/ Auth(r) \/ ListenGivesUp(r)
         \/ Forward(r) \/ \E e \in Event : TakeEvent(r, e)
  PROVE  Steps(r)
<1> USE DEF Steps, Moves, Quiet, Goto, eoseVars, endVars, Places, Gone
<1>1. CASE CheckContext(r) \/ EnsureRelay(r) \/ Subscribe(r)
  BY <1>1 DEF CheckContext, EnsureRelay, Subscribe
<1>2. CASE SubscribeFails(r) \/ Sleep(r) \/ ForwardGivesUp(r)
  BY <1>2 DEF SubscribeFails, Sleep, ForwardGivesUp
<1>3. CASE EventsBroken(r) \/ TakeReason(r) \/ ListenGivesUp(r)
  BY <1>3 DEF EventsBroken, TakeReason, ListenGivesUp
<1>4. CASE Auth(r) \/ Forward(r) \/ \E e \in Event : TakeEvent(r, e)
  BY <1>4 DEF Auth, Forward, TakeEvent
<1> QED
  BY <1>1, <1>2, <1>3, <1>4

LEMMA StepsKeep ==
  ASSUME CountersInv, NEW r \in Relay, Steps(r)
  PROVE  CountersInv'
<1>1. PICK from \in Places \ Gone, to \in Places \ Gone : Moves(r, from, to)
  BY DEF Steps
<1>2. to # "close"
  BY <1>1 DEF Gone
<1>3. pc' \in [Relay -> Places] /\ PendingCounts'
  BY <1>1, <1>2, MovesKeeps DEF CountersInv
<1>4. UNCHANGED <<eosed, eoseWg, pending, closes>>
  BY DEF Steps, Quiet, endVars
<1>5. PlaceTypes' /\ EoseCountedOnce'
  BY <1>3, <1>4 DEF CountersInv, PlaceTypes, EoseCountedOnce
<1> QED
  BY <1>3, <1>5 DEF CountersInv

LEMMA UnmovedKeeps ==
  ASSUME CountersInv, Unmoved
  PROVE  CountersInv'
BY DEF Unmoved, Quiet, endVars, CountersInv, PlaceTypes, EoseCountedOnce,
       PendingCounts

(* Counting an EOSE leaves pending alone.                                   *)
LEMMA EosesKeep ==
  ASSUME CountersInv, NEW r \in Relay, WatchEose(r) \/ CountEose(r)
  PROVE  CountersInv'
<1>1. eosed' \in [Relay -> BOOLEAN] /\ EoseCountedOnce'
  BY EosedKeeps DEF CountersInv, WatchEose, CountEose
<1>2. CASE WatchEose(r)
  <2>1. UNCHANGED <<pc, pending, closes>>
    BY <1>2 DEF WatchEose, endVars
  <2> QED
    BY <1>1, <2>1 DEF CountersInv, PlaceTypes, PendingCounts
<1>3. CASE CountEose(r)
  <2>1. Moves(r, "last", "done")
    BY <1>3 DEF CountEose, Goto, Moves
  <2>2. "done" \in Places /\ "last" \in Gone /\ "done" \in Gone
    BY DEF Places, Gone
  <2>3. pc' \in [Relay -> Places] /\ PendingCounts'
    BY <2>1, <2>2, MovesKeeps DEF CountersInv
  <2>4. UNCHANGED <<pending, closes>>
    BY <1>3 DEF CountEose, endVars
  <2> QED
    BY <1>1, <2>3, <2>4 DEF CountersInv, PlaceTypes
<1> QED
  BY <1>2, <1>3

LEMMA CountersNext ==
  ASSUME CountersInv, [Next]_vars
  PROVE  CountersInv'
<1>1. ASSUME NEW r \in Relay, GoroutineStep(r) PROVE CountersInv'
  <2>1. CASE CountOff(r)
    BY <2>1, CountOffKeeps DEF CountersInv, CountOff, eoseVars, EoseCountedOnce
  <2>2. CASE ReadPending(r)
    BY <2>2, ReadPendingKeeps DEF CountersInv, ReadPending, eoseVars, EoseCountedOnce
  <2>3. CASE CloseEvents(r)
    BY <2>3, CloseEventsKeeps DEF CountersInv, CloseEvents, eoseVars, EoseCountedOnce
  <2>4. CASE CountEose(r)
    BY <2>4, EosesKeep
  <2>5. CASE ~(CountOff(r) \/ ReadPending(r) \/ CloseEvents(r) \/ CountEose(r))
    <3>1. Steps(r)
      BY <1>1, <2>5, QuietSteps DEF GoroutineStep
    <3> QED
      BY <3>1, StepsKeep
  <2> QED
    BY <2>1, <2>2, <2>3, <2>4, <2>5
<1>2. ASSUME NEW r \in Relay, Forward(r) \/ \E e \in Event : TakeEvent(r, e)
      PROVE  CountersInv'
  <2>1. Steps(r)
    BY <1>2, QuietSteps
  <2> QED
    BY <2>1, StepsKeep
<1>3. ASSUME NEW r \in Relay, WatchEose(r) PROVE CountersInv'
  BY <1>3, EosesKeep
<1>4. ASSUME NEW r \in Relay,
             \/ EndOfStored(r) \/ SubscriptionEnds(r)
             \/ \E e \in Event : Arrive(r, e) \/ Sweep(r, e)
             \/ \E reason \in Reasons : ClosedByRelay(r, reason)
      PROVE  CountersInv'
  <2>1. Unmoved
    BY <1>4 DEF EndOfStored, SubscriptionEnds, Arrive, Sweep, ClosedByRelay,
                Unmoved, Quiet, eoseVars
  <2> QED
    BY <2>1, UnmovedKeeps
<1>5. CASE CloseEoseChan \/ CancelContext \/ UNCHANGED vars
  <2>1. Unmoved
    BY <1>5 DEF CloseEoseChan, CancelContext, vars, Unmoved, Quiet, eoseVars,
                endVars
  <2> QED
    BY <2>1, UnmovedKeeps
<1> QED
  BY <1>1, <1>2, <1>3, <1>4, <1>5 DEF Next
--------------------------------------------------------------------------------
(* eoseWg is the number of relays not yet counted as EOSEd, and pending     *)
(* that of the goroutines not yet gone and the repeated urls, in every      *)
(* state (pool.go:453-480).                                                 *)
THEOREM CountersInvariant == Spec => []CountersInv
<1>1. Init => CountersInv
  BY CountersInit
<1>2. CountersInv /\ [Next]_vars => CountersInv'
  BY CountersNext
<1> QED
  BY <1>1, <1>2, PTL DEF Spec

(* A relay that EOSEs again after a resubscription, or ends after its EOSE, *)
(* is counted once: the wait group never panics.                            *)
THEOREM EosesCounted == Spec => []EoseCountedOnce
<1>1. CountersInv => EoseCountedOnce
  BY DEF CountersInv
<1> QED
  BY <1>1, CountersInvariant, PTL

(* Once events is closed no goroutine is where it could send into it.       *)
THEOREM NoLateSend == Spec => []NoSendAfterClose
<1>1. CountersInv => NoSendAfterClose
  BY DEF CountersInv, PendingCounts, NoSendAfterClose, Gone
<1> QED
  BY <1>1, CountersInvariant, PTL
--------------------------------------------------------------------------------
(***************************************************************************)
(* Events: where one is on its way.                                         *)
(***************************************************************************)

SubState ==
  [state : {"none", "open", "over"}, reason : {"none", "auth-required", "other"},
   arrived : SUBSET Event, sent : SUBSET Event, eose : BOOLEAN]

EventTypes ==
  /\ sub \in [Relay -> SubState]
  /\ holding \in [Relay -> Event \cup {None}]
  /\ emitted \in [Event -> Nat]
  /\ \A r \in Relay : pc[r] = "forward" => holding[r] \in Event

(* The goroutine of r, or the subscription behind it, has e.                *)
Carries(r, e) == e \in sub[r].arrived \/ holding[r] = e

(* An event that was never forgotten has been let through once: it is       *)
(* unseen, or in one place of one relay, or out, or lost.                   *)
OnePlace ==
  \A e \in Event \ swept :
    /\ emitted[e] <= 1
    /\ e \notin seenAlready => emitted[e] = 0
    /\ \A r \in Relay : Carries(r, e) => e \in seenAlready /\ emitted[e] = 0
    /\ \A r, s \in Relay : Carries(r, e) /\ Carries(s, e) => r = s
    /\ \A r \in Relay : ~(e \in sub[r].arrived /\ holding[r] = e)

EventsInv == EventTypes /\ OnePlace

LEMMA EventsInit == Init => EventsInv
<1> SUFFICES ASSUME Init PROVE EventsInv
  OBVIOUS
<1>1. EventTypes
  BY DEF Init, EventTypes, NoSub, SubState
<1>2. OnePlace
  BY NoneAssumption DEF Init, OnePlace, Carries, NoSub
<1> QED
  BY <1>1, <1>2 DEF EventsInv

(* Steps that at most lose what a relay carries.                            *)
Loses ==
  /\ \A r \in Relay : /\ sub'[r].arrived \subseteq sub[r].arrived
                      /\ holding'[r] \in {holding[r], None}
  /\ UNCHANGED seenVars

LEMMA LosesKeeps ==
  ASSUME EventsInv, Loses, EventTypes'
  PROVE  EventsInv'
<1>1. \A r \in Relay, e \in Event :
        /\ e \in sub'[r].arrived => e \in sub[r].arrived
        /\ holding'[r] = e => holding[r] = e
  BY NoneAssumption DEF Loses
<1>2. UNCHANGED <<seenAlready, swept, emitted>>
  BY DEF Loses, seenVars
<1>3. OnePlace'
  BY <1>1, <1>2 DEF EventsInv, OnePlace, Carries
<1> QED
  BY <1>3 DEF EventsInv

Silent(r) ==
  \/ CheckContext(r) \/ EnsureRelay(r) \/ Subscribe(r) \/ SubscribeFails(r)
  \/ Sleep(r) \/ ForwardGivesUp(r) \/ EventsBroken(r) \/ TakeReason(r)
  \/ Auth(r) \/ ListenGivesUp(r)
  \/ CountOff(r) \/ ReadPending(r) \/ CloseEvents(r) \/ CountEose(r)

LEMMA SilentLoses ==
  ASSUME PlaceTypes, EventsInv, NEW r \in Relay, Silent(r)
  PROVE  Loses /\ EventTypes'
<1> USE DEF EventsInv, EventTypes, PlaceTypes, Goto, seenVars, Loses
<1>1. CASE CheckContext(r) \/ EnsureRelay(r) \/ SubscribeFails(r) \/ Sleep(r)
  BY <1>1 DEF CheckContext, EnsureRelay, SubscribeFails, Sleep
<1>n. NoSub \in SubState /\ NoSub.arrived = {}
  BY DEF NoSub, SubState
<1>2. CASE Subscribe(r)
  <2>1. /\ [NoSub EXCEPT !.state = "open"] \in SubState
        /\ [NoSub EXCEPT !.state = "open"].arrived = {}
    BY DEF NoSub, SubState
  <2> QED
    BY <1>2, <2>1 DEF Subscribe
<1>3. CASE ForwardGivesUp(r)
  BY <1>3, <1>n DEF ForwardGivesUp, Leave
<1>4. CASE EventsBroken(r) \/ TakeReason(r) \/ ListenGivesUp(r)
  <2>1. \E to \in {"sleep", "auth", "exit"} : pc' = [pc EXCEPT ![r] = to]
    BY <1>4 DEF EventsBroken, TakeReason, ListenGivesUp
  <2>2. Leave(r) /\ UNCHANGED <<holding, seenAlready, swept, emitted>>
    BY <1>4 DEF EventsBroken, TakeReason, ListenGivesUp
  <2> QED
    BY <1>n, <2>1, <2>2 DEF Leave
<1>5. CASE Auth(r)
  BY <1>5 DEF Auth
<1>6. CASE CountOff(r) \/ ReadPending(r) \/ CloseEvents(r) \/ CountEose(r)
  BY <1>6 DEF CountOff, ReadPending, CloseEvents, CountEose
<1> QED
  BY <1>1, <1>2, <1>3, <1>4, <1>5, <1>6 DEF Silent

LEMMA RelayLoses ==
  ASSUME EventsInv, NEW r \in Relay,
         \/ EndOfStored(r) \/ SubscriptionEnds(r) \/ WatchEose(r)
         \/ \E reason \in Reasons : ClosedByRelay(r, reason)
  PROVE  Loses /\ EventTypes'
<1> USE DEF EventsInv, EventTypes, seenVars, Loses
<1>t. /\ sub[r] \in SubState
      /\ sub[r].reason \in {"none", "auth-required", "other"}
  BY DEF SubState
<1>1. CASE EndOfStored(r)
  <2>1. /\ [sub[r] EXCEPT !.eose = TRUE] \in SubState
        /\ [sub[r] EXCEPT !.eose = TRUE].arrived = sub[r].arrived
    BY <1>t DEF SubState
  <2>2. /\ sub' = [sub EXCEPT ![r] = [sub[r] EXCEPT !.eose = TRUE]]
        /\ UNCHANGED <<pc, holding, seenAlready, swept, emitted>>
    BY <1>1 DEF EndOfStored
  <2> QED
    BY <2>1, <2>2
<1>2. CASE SubscriptionEnds(r)
  <2> DEFINE over == [sub[r] EXCEPT !.state = "over", !.arrived = {},
                                    !.sent = {}, !.eose = FALSE]
  <2>1. over \in SubState /\ over.arrived = {}
    BY <1>t DEF SubState
  <2>2. /\ sub' = [sub EXCEPT ![r] = over]
        /\ UNCHANGED <<pc, holding, seenAlready, swept, emitted>>
    BY <1>2 DEF SubscriptionEnds
  <2> QED
    BY <2>1, <2>2
<1>3. CASE WatchEose(r)
  BY <1>3 DEF WatchEose
<1>4. ASSUME NEW reason \in Reasons, ClosedByRelay(r, reason)
      PROVE  Loses /\ EventTypes'
  <2> DEFINE refused == [sub[r] EXCEPT !.reason = reason]
  <2>1. refused \in SubState /\ refused.arrived = sub[r].arrived
    BY <1>t, ReasonsAssumption DEF SubState
  <2>2. /\ sub' = [sub EXCEPT ![r] = refused]
        /\ UNCHANGED <<pc, holding, seenAlready, swept, emitted>>
    BY <1>4 DEF ClosedByRelay
  <2> QED
    BY <2>1, <2>2
<1> QED
  BY <1>1, <1>2, <1>3, <1>4

(* An event that arrives is kept only if no relay had it yet.               *)
LEMMA ArriveKeeps ==
  ASSUME EventsInv, NEW r \in Relay, NEW e \in Event, Arrive(r, e)
  PROVE  EventsInv'
<1>1. /\ UNCHANGED <<pc, holding, swept, emitted>>
      /\ seenAlready' = seenAlready \cup {e}
  BY DEF Arrive
<1> DEFINE kept == IF e \in seenAlready THEN sub[r].arrived
                   ELSE sub[r].arrived \cup {e}
           more == [sub[r] EXCEPT !.sent = @ \cup {e}, !.arrived = kept]
<1>t. sub \in [Relay -> SubState] /\ sub[r] \in SubState
  BY DEF EventsInv, EventTypes
<1>m. more \in SubState /\ more.arrived = kept
  BY <1>t DEF SubState
<1>s. sub' = [sub EXCEPT ![r] = more]
  BY <1>t DEF Arrive, SubState
<1>2. \A s \in Relay :
        sub'[s].arrived = IF s = r /\ e \notin seenAlready
                          THEN sub[s].arrived \cup {e} ELSE sub[s].arrived
  BY <1>t, <1>m, <1>s
<1>3. EventTypes'
  BY <1>1, <1>m, <1>s DEF EventsInv, EventTypes
<1>4. ASSUME NEW f \in Event \ swept, NEW s \in Relay
      PROVE  /\ f \in sub'[s].arrived =>
                  f \in sub[s].arrived \/ (s = r /\ f = e /\ e \notin seenAlready)
             /\ holding'[s] = holding[s]
  BY <1>1, <1>2
<1>5. OnePlace'
  BY <1>1, <1>4 DEF EventsInv, OnePlace, Carries
<1> QED
  BY <1>3, <1>5 DEF EventsInv

LEMMA TakeKeeps ==
  ASSUME PlaceTypes, EventsInv, NEW r \in Relay, NEW e \in Event,
         TakeEvent(r, e)
  PROVE  EventsInv'
<1>1. e \in sub[r].arrived /\ UNCHANGED <<seenAlready, swept, emitted>>
  BY DEF TakeEvent, seenVars
<1> DEFINE less == [sub[r] EXCEPT !.arrived = @ \ {e}]
<1>t. sub \in [Relay -> SubState] /\ sub[r] \in SubState
  BY DEF EventsInv, EventTypes
<1>m. less \in SubState /\ less.arrived = sub[r].arrived \ {e}
  BY <1>t DEF SubState
<1>s. sub' = [sub EXCEPT ![r] = less] /\ holding' = [holding EXCEPT ![r] = e]
  BY <1>t DEF TakeEvent, SubState
<1>2. \A s \in Relay :
        /\ sub'[s].arrived = IF s = r THEN sub[s].arrived \ {e} ELSE sub[s].arrived
        /\ holding'[s] = IF s = r THEN e ELSE holding[s]
  BY <1>t, <1>m, <1>s DEF EventsInv, EventTypes
<1>p. pc[r] = "listen" /\ pc' = [pc EXCEPT ![r] = "forward"]
  BY DEF TakeEvent, Goto
<1>3. EventTypes'
  <2>1. sub' \in [Relay -> SubState]
    BY <1>t, <1>m, <1>s
  <2>2. holding' \in [Relay -> Event \cup {None}]
    BY <1>s DEF EventsInv, EventTypes
  <2>3. \A s \in Relay : pc'[s] = "forward" => holding'[s] \in Event
    BY <1>2, <1>p DEF EventsInv, EventTypes, PlaceTypes
  <2> QED
    BY <1>1, <2>1, <2>2, <2>3 DEF EventsInv, EventTypes
<1>4. ASSUME NEW f \in Event \ swept, NEW s \in Relay,
             f \in sub'[s].arrived \/ holding'[s] = f
      PROVE  /\ Carries(s, f)
             /\ ~(f \in sub'[s].arrived /\ holding'[s] = f)
  <2>1. CASE s = r
    BY <1>1, <1>2, <1>4, <2>1 DEF Carries
  <2>2. CASE s # r
    <3>1. sub'[s].arrived = sub[s].arrived /\ holding'[s] = holding[s]
      BY <1>2, <2>2
    <3> QED
      BY <1>4, <3>1 DEF EventsInv, OnePlace, Carries
  <2> QED
    BY <2>1, <2>2
<1>5. OnePlace'
  BY <1>1, <1>4 DEF EventsInv, OnePlace, Carries
<1> QED
  BY <1>3, <1>5 DEF EventsInv

LEMMA ForwardKeeps ==
  ASSUME PlaceTypes, EventsInv, NEW r \in Relay, Forward(r)
  PROVE  EventsInv'
<1>1. holding[r] \in Event
  BY DEF Forward, Goto, EventsInv, EventTypes
<1>2. UNCHANGED <<sub, seenAlready, swept>>
  BY DEF Forward
<1>3. \A e \in Event :
        emitted'[e] = IF e = holding[r] THEN emitted[e] + 1 ELSE emitted[e]
  BY DEF Forward, EventsInv, EventTypes
<1>4. \A s \in Relay : holding'[s] = IF s = r THEN None ELSE holding[s]
  BY DEF Forward, EventsInv, EventTypes
<1>5. EventTypes'
  BY <1>1 DEF Forward, EventsInv, EventTypes, PlaceTypes, Goto
<1>6. \A e \in Event : emitted[e] \in Nat
  BY DEF EventsInv, EventTypes
<1>7. ASSUME NEW e \in Event \ swept
      PROVE  /\ emitted'[e] <= 1
             /\ e \notin seenAlready => emitted'[e] = 0
             /\ \A s \in Relay : e \in sub[s].arrived \/ holding'[s] = e =>
                                  e \in seenAlready /\ emitted'[e] = 0
  <2>1. CASE e = holding[r]
    BY <1>1, <1>3, <1>4, <1>6, <2>1, NoneAssumption
       DEF EventsInv, OnePlace, Carries
  <2>2. CASE e # holding[r]
    BY <1>3, <1>4, <2>2, NoneAssumption DEF EventsInv, OnePlace, Carries
  <2> QED
    BY <2>1, <2>2
<1>8. \A s \in Relay, e \in Event : holding'[s] = e => holding[s] = e
  BY <1>4, NoneAssumption
<1>9. OnePlace'
  BY <1>2, <1>7, <1>8 DEF EventsInv, OnePlace, Carries
<1> QED
  BY <1>5, <1>9 DEF EventsInv

LEMMA SweepKeeps ==
  ASSUME EventsInv, NEW r \in Relay, NEW e \in Event, Sweep(r, e)
  PROVE  EventsInv'
<1>1. /\ UNCHANGED <<pc, sub, holding, emitted>>
      /\ seenAlready' = seenAlready \ {e}
      /\ swept' = swept \cup {e}
  BY DEF Sweep
<1>2. OnePlace'
  BY <1>1 DEF EventsInv, OnePlace, Carries
<1> QED
  BY <1>1, <1>2 DEF EventsInv, EventTypes

LEMMA EventsNext ==
  ASSUME PlaceTypes, EventsInv, [Next]_vars
  PROVE  EventsInv'
<1>1. ASSUME NEW r \in Relay, GoroutineStep(r) PROVE EventsInv'
  <2>1. Silent(r)
    BY <1>1 DEF GoroutineStep, Silent
  <2> QED
    BY <2>1, SilentLoses, LosesKeeps
<1>2. ASSUME NEW r \in Relay,
             \/ EndOfStored(r) \/ SubscriptionEnds(r) \/ WatchEose(r)
             \/ \E reason \in Reasons : ClosedByRelay(r, reason)
      PROVE  EventsInv'
  BY <1>2, RelayLoses, LosesKeeps
<1>3. ASSUME NEW r \in Relay, Forward(r) PROVE EventsInv'
  BY <1>3, ForwardKeeps
<1>4. ASSUME NEW r \in Relay, NEW e \in Event,
             Arrive(r, e) \/ TakeEvent(r, e) \/ Sweep(r, e)
      PROVE  EventsInv'
  BY <1>4, ArriveKeeps, TakeKeeps, SweepKeeps
<1>5. CASE CloseEoseChan \/ CancelContext \/ UNCHANGED vars
  <2>1. UNCHANGED <<pc, sub, holding, seenAlready, swept, emitted>>
    BY <1>5 DEF CloseEoseChan, CancelContext, vars, seenVars
  <2> QED
    BY <2>1 DEF EventsInv, EventTypes, OnePlace, Carries
<1> QED
  BY <1>1, <1>2, <1>3, <1>4, <1>5 DEF Next

(* However many relays send an event, and however often one is subscribed   *)
(* to, the event goes out once, unless the ticker forgot it (pool.go:516).  *)
THEOREM EmittedOnceAlways == Spec => []EmittedOnce
<1>1. Init => CountersInv /\ EventsInv
  BY CountersInit, EventsInit
<1>2. CountersInv /\ EventsInv /\ [Next]_vars => (CountersInv /\ EventsInv)'
  BY CountersNext, EventsNext DEF CountersInv
<1>3. EventsInv => EmittedOnce
  <2>1. SUFFICES ASSUME EventsInv, NEW e \in Event, emitted[e] > 1, e \notin swept
                 PROVE  FALSE
    BY DEF EmittedOnce
  <2>2. emitted[e] <= 1 /\ emitted[e] \in Nat
    BY <2>1 DEF EventsInv, OnePlace, EventTypes
  <2> QED
    BY <2>1, <2>2
<1> QED
  BY <1>1, <1>2, <1>3, PTL DEF Spec
--------------------------------------------------------------------------------
(***************************************************************************)
(* The composition.                                                        *)
(***************************************************************************)

(* The two names of the machine of a fetch are about the same steps.        *)
LEMMA SameFetch ==
  /\ FP!FetchAssumption
  /\ F!Init => FP!Init
  /\ F!Next => FP!Next
  /\ UNCHANGED fetchVars => UNCHANGED FP!vars
<1>1. FP!FetchAssumption
  BY FetchingAssumption DEF F!FetchAssumption, FP!FetchAssumption
<1>2. F!Init => FP!Init
  BY DEF F!Init, FP!Init, F!NoSub, FP!NoSub
<1>3. F!Next => FP!Next
  BY DEF F!Next, FP!Next, F!GoroutineStep, FP!GoroutineStep,
    F!EnsureRelay, FP!EnsureRelay, F!Subscribe, FP!Subscribe,
    F!SubscribeFails, FP!SubscribeFails, F!Arrive, FP!Arrive,
    F!EndOfStored, FP!EndOfStored, F!ClosedByRelay, FP!ClosedByRelay,
    F!SubscriptionEnds, FP!SubscriptionEnds, F!TakeEvent, FP!TakeEvent,
    F!HandOver, FP!HandOver, F!HandOverGivesUp, FP!HandOverGivesUp,
    F!TakeEose, FP!TakeEose, F!TakeReason, FP!TakeReason, F!Auth, FP!Auth,
    F!EventsClosed, FP!EventsClosed, F!ListenGivesUp, FP!ListenGivesUp,
    F!Finish, FP!Finish, F!CancelContext, FP!CancelContext,
    F!Goto, FP!Goto, F!Ends, FP!Ends, F!Fresh, FP!Fresh, F!NoSub, FP!NoSub,
    F!seenVars, FP!seenVars, F!outVars, FP!outVars
<1>4. UNCHANGED fetchVars => UNCHANGED FP!vars
  BY DEF fetchVars, FP!vars
<1> QED
  BY <1>1, <1>2, <1>3, <1>4

LEMMA SamePool ==
  /\ PP!PoolAssumption
  /\ P!Init => PP!Init
  /\ P!Next => PP!Next
  /\ UNCHANGED poolVars => UNCHANGED PP!vars
<1>1. PP!PoolAssumption
  BY PoolingAssumption DEF P!PoolAssumption, PP!PoolAssumption
<1>2. P!Init => PP!Init
  BY DEF P!Init, PP!Init
<1>3. P!Next => PP!Next
  BY DEF P!Next, PP!Next, P!TaskStep, PP!TaskStep, P!Lock, PP!Lock,
    P!LoadRelay, PP!LoadRelay, P!DialSucceeds, PP!DialSucceeds,
    P!DialFails, PP!DialFails, P!PerformAuth, PP!PerformAuth,
    P!StoreRelay, PP!StoreRelay, P!Publish, PP!Publish, P!Auth, PP!Auth,
    P!PublishAgain, PP!PublishAgain, P!ConnectionEnds, PP!ConnectionEnds,
    P!SweepPenaltyBox, PP!SweepPenaltyBox, P!CloseResults, PP!CloseResults,
    P!Goto, PP!Goto, P!PutResult, PP!PutResult, P!boxVars, PP!boxVars,
    P!connVars, PP!connVars, P!publishVars, PP!publishVars
<1>4. UNCHANGED poolVars => UNCHANGED PP!vars
  BY DEF poolVars, PP!vars
<1> QED
  BY <1>1, <1>2, <1>3, <1>4

(* Whoever takes a step, it is one of the subscription or leaves that       *)
(* alone, and the same of the fetch and the pool.                           *)
LEMMA StepsApart ==
  ASSUME [MCNext]_allVars
  PROVE  [Next]_vars /\ [FP!Next]_(FP!vars) /\ [PP!Next]_(PP!vars)
BY SameFetch, SamePool DEF MCNext, allVars, Subscribes, Fetches, Publishes
--------------------------------------------------------------------------------
(* A long-lived subscription counts and closes as it should, and emits an   *)
(* event once, in the composition of all the calls of a pool (pool.go:436). *)
THEOREM SubscriptionsAreExact ==
  MCSpec => [](EoseCountedOnce /\ NoSendAfterClose /\ EmittedOnce)
<1>1. MCInit => Init
  BY DEF MCInit
<1>2. [MCNext]_allVars => [Next]_vars
  BY StepsApart
<1> QED
  BY <1>1, <1>2, EosesCounted, NoLateSend, EmittedOnceAlways, PTL DEF MCSpec, Spec

(* A fetch emits an event once, in the composition of all the calls of a    *)
(* pool (pool.go:614).                                                      *)
THEOREM FetchesEmitOnce == MCSpec => []FetchedOnce
<1>1. MCInit => FP!Init
  BY SameFetch DEF MCInit
<1>2. [MCNext]_allVars => [FP!Next]_(FP!vars)
  BY StepsApart
<1>3. FP!Spec => []FP!EmittedOnce
  BY SameFetch, FP!FetchEmitsOnce
<1>4. FP!EmittedOnce => FetchedOnce
  BY DEF FetchedOnce, F!EmittedOnce, FP!EmittedOnce
<1> QED
  BY <1>1, <1>2, <1>3, <1>4, PTL DEF MCSpec, FP!Spec

(* A fetch hands over what its relays had stored, in the composition of all *)
(* the calls of a pool (pool.go:297, 614).                                  *)
THEOREM FetchesMissNothing == MCSpec => []NothingMissed
<1>1. MCInit => FP!Init
  BY SameFetch DEF MCInit
<1>2. [MCNext]_allVars => [FP!Next]_(FP!vars)
  BY StepsApart
<1>3. FP!Spec => []FP!NothingMissed
  BY SameFetch, FP!FetchMissesNothing
<1>4. FP!NothingMissed => NothingMissed
  BY DEF NothingMissed, F!NothingMissed, FP!NothingMissed, F!LostBy, FP!LostBy
<1> QED
  BY <1>1, <1>2, <1>3, <1>4, PTL DEF MCSpec, FP!Spec

(* A pool keeps one live connection to a url, which everybody gets          *)
(* (EnsureRelay, pool.go:177).                                              *)
THEOREM PoolSharesConnection == MCSpec => []OneSharedConnection
<1>1. MCInit => PP!Init
  BY SamePool DEF MCInit
<1>2. [MCNext]_allVars => [PP!Next]_(PP!vars)
  BY StepsApart
<1>3. PP!Spec => []PP!OneSharedConnection
  BY SamePool, PP!ConnectionIsShared
<1>4. PP!OneSharedConnection => OneSharedConnection
  BY DEF OneSharedConnection, P!OneSharedConnection, PP!OneSharedConnection,
    P!OneConnection, PP!OneConnection, P!SharedConnection, PP!SharedConnection
<1> QED
  BY <1>1, <1>2, <1>3, <1>4, PTL DEF MCSpec, PP!Spec
================================================================================
