-------------------------------- MODULE SubMany --------------------------------
(***************************************************************************)
(* SimplePool.subMany (pool.go:436): one long-lived subscription over many *)
(* relays. Each relay has a goroutine that connects, subscribes, forwards  *)
(* what its Subscription hands over into one shared channel, reconnects    *)
(* when the connection is lost, and counts itself off when it returns.     *)
(*                                                                         *)
(* A relay's Subscription is used as module SubscriptionContract specifies *)
(* it: events come out until it is over, its EOSE after the stored events, *)
(* a CLOSED reason before Events is closed. EnsureRelay, Subscribe and     *)
(* Auth succeed or fail as they like; what an event matches is the relay's *)
(* business; middlewares and the growing sleep between two attempts are    *)
(* left out.                                                               *)
(***************************************************************************)
EXTENDS Integers, FiniteSets

CONSTANTS
  Relay,       \* the distinct relays in urls
  Event,       \* ids of events the relays may send
  Repeats,     \* entries of urls that repeat an earlier one
  Reasons,     \* reasons for CLOSED: subset of {"auth-required", "other"}
  MaxSubs,     \* bound: subscriptions each relay's goroutine opens
  CanBreak,    \* whether connections may be lost
  None

ASSUME RelayAssumption == IsFiniteSet(Relay)
ASSUME CountAssumption == Repeats \in Nat /\ MaxSubs \in [Relay -> Nat]
ASSUME ReasonsAssumption == Reasons \subseteq {"auth-required", "other"}
ASSUME NoneAssumption == None \notin Event
ASSUME CanBreakAssumption == CanBreak \in BOOLEAN

VARIABLES
  ctxDone,    \* the context of subMany is done
  pc,         \* progress of each relay's goroutine
  sub,        \* the current subscription of each goroutine
  opened,     \* subscriptions each has opened
  holding,    \* the event a goroutine is about to forward
  hasAuthed,  \* the goroutine's local of that name
  eosed,      \* the goroutine's atomic eosed
  watchers,   \* EOSE watchers whose EndOfStoredEvents has spoken
  eoseWg,     \* the wait group behind eoseChan
  eoseCloses, \* how often close(eoseChan) ran
  pending,    \* the counter of goroutines still running
  closes,     \* how often close(events) ran
  seenAlready,\* ids received and not forgotten
  swept,      \* history: ids forgotten by the ticker
  emitted     \* history: how often each event went out

vars == <<ctxDone, pc, sub, opened, holding, hasAuthed, eosed, watchers,
          eoseWg, eoseCloses, pending, closes, seenAlready, swept, emitted>>

eoseVars == <<eosed, watchers, eoseWg, eoseCloses>>
endVars == <<pending, closes>>
seenVars == <<seenAlready, swept, emitted>>

NoSub == [state |-> "none", reason |-> "none", arrived |-> {}, sent |-> {},
          eose |-> FALSE]

TypeOK ==
  /\ ctxDone \in BOOLEAN
  /\ pc \in [Relay -> {"loop", "ensure", "subscribe", "listen", "forward",
                       "auth", "sleep", "exit", "counted", "close", "last",
                       "done"}]
  /\ sub \in [Relay -> [state : {"none", "open", "over"},
                        reason : {"none", "auth-required", "other"},
                        arrived : SUBSET Event, sent : SUBSET Event,
                        eose : BOOLEAN]]
  /\ opened \in [Relay -> Nat]
  /\ holding \in [Relay -> Event \cup {None}]
  /\ hasAuthed \in [Relay -> BOOLEAN]
  /\ eosed \in [Relay -> BOOLEAN]
  /\ watchers \in [Relay -> Nat]
  /\ eoseWg \in Int
  /\ eoseCloses \in Nat
  /\ pending \in Int
  /\ closes \in Nat
  /\ seenAlready \in SUBSET Event
  /\ swept \in SUBSET Event
  /\ emitted \in [Event -> Nat]

(* The loop over urls has run: it counted every entry into both counters,   *)
(* counted the repeated ones out of eoseWg, and spawned the others.         *)
Init ==
  /\ ctxDone = FALSE
  /\ pc = [r \in Relay |-> "loop"]
  /\ sub = [r \in Relay |-> NoSub]
  /\ opened = [r \in Relay |-> 0]
  /\ holding = [r \in Relay |-> None]
  /\ hasAuthed = [r \in Relay |-> FALSE]
  /\ eosed = [r \in Relay |-> FALSE]
  /\ watchers = [r \in Relay |-> 0]
  /\ eoseWg = Cardinality(Relay)
  /\ eoseCloses = 0
  /\ pending = Cardinality(Relay) + Repeats
  /\ closes = 0
  /\ seenAlready = {}
  /\ swept = {}
  /\ emitted = [e \in Event |-> 0]

Goto(r, from, to) == pc[r] = from /\ pc' = [pc EXCEPT ![r] = to]

-----------------------------------------------------------------------------
(***************************************************************************)
(* Connecting and subscribing.                                             *)
(***************************************************************************)
CheckContext(r) ==
  /\ Goto(r, "loop", IF ctxDone THEN "exit" ELSE "ensure")
  /\ UNCHANGED <<ctxDone, sub, opened, holding, hasAuthed, eoseVars, endVars,
                 seenVars>>

EnsureRelay(r) ==
  /\ \/ Goto(r, "ensure", "subscribe") /\ hasAuthed' = [hasAuthed EXCEPT ![r] = FALSE]
     \/ Goto(r, "ensure", "sleep") /\ UNCHANGED hasAuthed
  /\ UNCHANGED <<ctxDone, sub, opened, holding, eoseVars, endVars, seenVars>>

(* relay.Subscribe.                                                         *)
Subscribe(r) ==
  /\ Goto(r, "subscribe", "listen")
  /\ opened[r] < MaxSubs[r]
  /\ opened' = [opened EXCEPT ![r] = @ + 1]
  /\ sub' = [sub EXCEPT ![r] = [NoSub EXCEPT !.state = "open"]]
  /\ UNCHANGED <<ctxDone, holding, hasAuthed, eoseVars, endVars, seenVars>>

SubscribeFails(r) ==
  /\ Goto(r, "subscribe", "sleep")
  /\ UNCHANGED <<ctxDone, sub, opened, holding, hasAuthed, eoseVars, endVars,
                 seenVars>>

(* time.Sleep, which the context does not cut short.                        *)
Sleep(r) ==
  /\ Goto(r, "sleep", "loop")
  /\ UNCHANGED <<ctxDone, sub, opened, holding, hasAuthed, eoseVars, endVars,
                 seenVars>>

-----------------------------------------------------------------------------
(***************************************************************************)
(* What the relay does to the current subscription.                        *)
(***************************************************************************)

(* Mutation: checkDuplicate lets everything through.                        *)
ArriveUnchecked(r, e) ==
  /\ sub[r].state = "open"
  /\ sub[r].reason = "none"
  /\ e \notin sub[r].sent
  /\ sub' = [sub EXCEPT ![r].sent = @ \cup {e}, ![r].arrived = @ \cup {e}]
  /\ seenAlready' = seenAlready \cup {e}
  /\ UNCHANGED <<ctxDone, pc, opened, holding, hasAuthed, eoseVars, endVars,
                 swept, emitted>>

(* The read loop asks checkDuplicate, and the event is kept if it is new.   *)
Arrive(r, e) ==
  /\ sub[r].state = "open"
  /\ sub[r].reason = "none"
  /\ e \notin sub[r].sent
  /\ sub' = [sub EXCEPT ![r].sent = @ \cup {e},
                        ![r].arrived = IF e \in seenAlready THEN @ ELSE @ \cup {e}]
  /\ seenAlready' = seenAlready \cup {e}
  /\ UNCHANGED <<ctxDone, pc, opened, holding, hasAuthed, eoseVars, endVars,
                 swept, emitted>>

(* EndOfStoredEvents speaks, once, when nothing is left to hand over.       *)
EndOfStored(r) ==
  /\ sub[r].state = "open"
  /\ sub[r].arrived = {}
  /\ ~sub[r].eose
  /\ sub' = [sub EXCEPT ![r].eose = TRUE]
  /\ watchers' = [watchers EXCEPT ![r] = @ + 1]
  /\ UNCHANGED <<ctxDone, pc, opened, holding, hasAuthed, eosed, eoseWg,
                 eoseCloses, endVars, seenVars>>

(* CLOSED: the reason is there before Events is closed.                     *)
ClosedByRelay(r, reason) ==
  /\ sub[r].state = "open"
  /\ sub[r].reason = "none"
  /\ sub' = [sub EXCEPT ![r].reason = reason]
  /\ UNCHANGED <<ctxDone, pc, opened, holding, hasAuthed, eoseVars, endVars,
                 seenVars>>

(* The subscription ends after a CLOSED, with the context, or with the      *)
(* connection: what it had not handed over is lost and Events is closed.    *)
SubscriptionEnds(r) ==
  /\ sub[r].state = "open"
  /\ sub[r].reason # "none" \/ ctxDone \/ CanBreak
  /\ sub' = [sub EXCEPT ![r].state = "over", ![r].arrived = {},
                        ![r].sent = {}, ![r].eose = FALSE]
  /\ UNCHANGED <<ctxDone, pc, opened, holding, hasAuthed, eoseVars, endVars,
                 seenVars>>

(* Mutation: every EOSE is counted.                                         *)
WatchEveryEose(r) ==
  /\ watchers[r] > 0
  /\ watchers' = [watchers EXCEPT ![r] = @ - 1]
  /\ eosed' = [eosed EXCEPT ![r] = TRUE]
  /\ eoseWg' = eoseWg - 1
  /\ UNCHANGED <<ctxDone, pc, sub, opened, holding, hasAuthed, eoseCloses,
                 endVars, seenVars>>

(* The goroutine that watches for one EOSE: a second EOSE of the same       *)
(* relay, after a resubscription, is not counted again.                     *)
WatchEose(r) ==
  /\ watchers[r] > 0
  /\ watchers' = [watchers EXCEPT ![r] = @ - 1]
  /\ eosed' = [eosed EXCEPT ![r] = TRUE]
  /\ eoseWg' = IF eosed[r] THEN eoseWg ELSE eoseWg - 1
  /\ UNCHANGED <<ctxDone, pc, sub, opened, holding, hasAuthed, eoseCloses,
                 endVars, seenVars>>

CloseEoseChan ==
  /\ eoseWg = 0
  /\ eoseCloses = 0
  /\ eoseCloses' = 1
  /\ UNCHANGED <<ctxDone, pc, sub, opened, holding, hasAuthed, eosed, watchers,
                 eoseWg, endVars, seenVars>>

-----------------------------------------------------------------------------
(* The goroutine is done with its subscription, which is over or ending:     *)
(* whatever it still receives has nowhere to go, and is not followed here.  *)
Leave(r) == sub' = [sub EXCEPT ![r] = NoSub]

(***************************************************************************)
(* The select of the goroutine: any ready case may be taken.               *)
(***************************************************************************)
TakeEvent(r, e) ==
  /\ Goto(r, "listen", "forward")
  /\ e \in sub[r].arrived
  /\ sub' = [sub EXCEPT ![r].arrived = @ \ {e}]
  /\ holding' = [holding EXCEPT ![r] = e]
  /\ UNCHANGED <<ctxDone, opened, hasAuthed, eoseVars, endVars, seenVars>>

Forward(r) ==
  /\ Goto(r, "forward", "listen")
  /\ emitted' = [emitted EXCEPT ![holding[r]] = @ + 1]
  /\ holding' = [holding EXCEPT ![r] = None]
  /\ UNCHANGED <<ctxDone, sub, opened, hasAuthed, eoseVars, endVars,
                 seenAlready, swept>>

ForwardGivesUp(r) ==
  /\ ctxDone
  /\ Goto(r, "forward", "exit")
  /\ holding' = [holding EXCEPT ![r] = None]
  /\ Leave(r)
  /\ UNCHANGED <<ctxDone, opened, hasAuthed, eoseVars, endVars, seenVars>>

(* Events is closed: wait and try again. The Since that the code sets here, *)
(* in the filters all goroutines share, is part of what an event matches.   *)
EventsBroken(r) ==
  /\ Goto(r, "listen", "sleep")
  /\ sub[r].state = "over"
  /\ Leave(r)
  /\ UNCHANGED <<ctxDone, opened, holding, hasAuthed, eoseVars, endVars,
                 seenVars>>

(* The ticker forgets ids that were last received long ago, but only for a  *)
(* goroutine whose relay is past its EOSE.                                  *)
Sweep(r, e) ==
  /\ pc[r] = "listen"
  /\ eosed[r]
  /\ e \in seenAlready
  /\ e \notin swept
  /\ seenAlready' = seenAlready \ {e}
  /\ swept' = swept \cup {e}
  /\ UNCHANGED <<ctxDone, pc, sub, opened, holding, hasAuthed, eoseVars,
                 endVars, emitted>>

(* CLOSED: try to AUTH once per connection, otherwise return.               *)
TakeReason(r) ==
  /\ sub[r].reason # "none"
  /\ Goto(r, "listen", IF sub[r].reason = "auth-required" /\ ~hasAuthed[r]
                       THEN "auth" ELSE "exit")
  /\ Leave(r)
  /\ UNCHANGED <<ctxDone, opened, holding, hasAuthed, eoseVars, endVars,
                 seenVars>>

Auth(r) ==
  /\ \/ Goto(r, "auth", "subscribe") /\ hasAuthed' = [hasAuthed EXCEPT ![r] = TRUE]
     \/ Goto(r, "auth", "exit") /\ UNCHANGED hasAuthed
  /\ UNCHANGED <<ctxDone, sub, opened, holding, eoseVars, endVars, seenVars>>

ListenGivesUp(r) ==
  /\ ctxDone
  /\ Goto(r, "listen", "exit")
  /\ Leave(r)
  /\ UNCHANGED <<ctxDone, opened, holding, hasAuthed, eoseVars, endVars,
                 seenVars>>

-----------------------------------------------------------------------------
(* The deferred exit: pending.Dec(), then pending.Value(), then perhaps    *)
(* close(events) and cancel, and the relay counts as EOSEd.                *)
(***************************************************************************)
CountOff(r) ==
  /\ Goto(r, "exit", "counted")
  /\ pending' = pending - 1
  /\ UNCHANGED <<ctxDone, sub, opened, holding, hasAuthed, eoseVars, closes,
                 seenVars>>

(* Mutation: off by one, the last but one goroutine closes events.          *)
ReadPendingEarly(r) ==
  /\ Goto(r, "counted", IF pending <= 1 THEN "close" ELSE "last")
  /\ UNCHANGED <<ctxDone, sub, opened, holding, hasAuthed, eoseVars, endVars,
                 seenVars>>

ReadPending(r) ==
  /\ Goto(r, "counted", IF pending = 0 THEN "close" ELSE "last")
  /\ UNCHANGED <<ctxDone, sub, opened, holding, hasAuthed, eoseVars, endVars,
                 seenVars>>

CloseEvents(r) ==
  /\ Goto(r, "close", "last")
  /\ closes' = closes + 1
  /\ ctxDone' = TRUE
  /\ UNCHANGED <<sub, opened, holding, hasAuthed, eoseVars, pending, seenVars>>

(* Mutation: the relay is marked as EOSEd and not counted.                  *)
CountEoseForgotten(r) ==
  /\ Goto(r, "last", "done")
  /\ eosed' = [eosed EXCEPT ![r] = TRUE]
  /\ UNCHANGED <<ctxDone, sub, opened, holding, hasAuthed, watchers, eoseWg,
                 eoseCloses, endVars, seenVars>>

CountEose(r) ==
  /\ Goto(r, "last", "done")
  /\ eosed' = [eosed EXCEPT ![r] = TRUE]
  /\ eoseWg' = IF eosed[r] THEN eoseWg ELSE eoseWg - 1
  /\ UNCHANGED <<ctxDone, sub, opened, holding, hasAuthed, watchers,
                 eoseCloses, endVars, seenVars>>

CancelContext ==
  /\ ~ctxDone
  /\ ctxDone' = TRUE
  /\ UNCHANGED <<pc, sub, opened, holding, hasAuthed, eoseVars, endVars,
                 seenVars>>

-----------------------------------------------------------------------------
(* What the goroutine of r does without waiting for anybody.                *)
GoroutineStep(r) ==
  \/ CheckContext(r) \/ EnsureRelay(r) \/ Subscribe(r) \/ SubscribeFails(r)
  \/ Sleep(r) \/ ForwardGivesUp(r) \/ EventsBroken(r) \/ TakeReason(r)
  \/ Auth(r) \/ ListenGivesUp(r)
  \/ CountOff(r) \/ ReadPending(r) \/ CloseEvents(r) \/ CountEose(r)

Next ==
  \/ \E r \in Relay :
       \/ GoroutineStep(r)
       \/ Forward(r)
       \/ EndOfStored(r) \/ SubscriptionEnds(r) \/ WatchEose(r)
       \/ \E e \in Event : Arrive(r, e) \/ TakeEvent(r, e) \/ Sweep(r, e)
       \/ \E reason \in Reasons : ClosedByRelay(r, reason)
  \/ CloseEoseChan
  \/ CancelContext

Spec == Init /\ [][Next]_vars

(* A subscription that is cancelled or CLOSED ends (that is what module     *)
(* Subscription promises).                                                  *)
SubscriptionMustEnd(r) ==
  (ctxDone \/ sub[r].reason # "none") /\ SubscriptionEnds(r)

(***************************************************************************)
(* Goroutines run; nothing is owed by relays, by the consumer of events,   *)
(* or by whoever cancels.                                                  *)
(***************************************************************************)
FairSpec ==
  /\ Spec
  /\ \A r \in Relay :
       /\ WF_vars(GoroutineStep(r))
       /\ WF_vars(WatchEose(r))
       /\ WF_vars(SubscriptionMustEnd(r))
  /\ WF_vars(CloseEoseChan)

-----------------------------------------------------------------------------
(***************************************************************************)
(* Safety.                                                                 *)
(***************************************************************************)

(* eoseWg never goes below zero, which would panic: each relay counts once, *)
(* however often it resubscribes and EOSEs.                                 *)
EoseCountedOnce == eoseWg = Cardinality({r \in Relay : ~eosed[r]})

(* Nobody sends into events once it is closed.                              *)
NoSendAfterClose ==
  closes > 0 => \A r \in Relay : pc[r] \notin {"listen", "forward"}

(* An event goes out once, from whichever relay sent it first, unless the   *)
(* ticker forgot it in between.                                             *)
EmittedOnce == \A e \in Event : emitted[e] > 1 => e \in swept

(* No two goroutines close events.                                          *)
ClosedOnce == closes <= 1

-----------------------------------------------------------------------------
(***************************************************************************)
(* Liveness.                                                               *)
(***************************************************************************)

(* Somebody waits for what is owed by now: the end of events, once the      *)
(* context is done, or of eoseChan, once all relays EOSEd.                  *)
Owed ==
  \/ ctxDone /\ closes = 0
  \/ (\A r \in Relay : eosed[r]) /\ eoseCloses = 0

(* Nobody waits for ever for a channel that should be closed: events is     *)
(* closed once the context is cancelled (pool.go:287), even if nobody reads *)
(* it any more, and eoseChan once all relays EOSEd.                         *)
WaitersReleased == []<>~Owed
=============================================================================
