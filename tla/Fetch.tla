--------------------------------- MODULE Fetch ---------------------------------
(***************************************************************************)
(* The two calls of SimplePool that fetch stored events from many relays   *)
(* and return (pool.go):                                                   *)
(*   - FetchMany, which is SubManyEose: events go out through one channel, *)
(*     each once, and the channel is closed when every relay is finished;  *)
(*   - FetchManyReplaceable: of the versions of one replaceable event the  *)
(*     newest should end up in the map that is returned.                   *)
(* Their goroutines, one per relay, are the same but for the duplicate     *)
(* check and for what is done with an event, which is what `call` selects. *)
(*                                                                         *)
(* A relay's Subscription is used as module SubscriptionContract specifies *)
(* it; its events come out in any order, each from a goroutine of its own. *)
(* A goroutine that returns does not unsubscribe: its subscription lives   *)
(* on until the last one has returned. Query and event middlewares are     *)
(* left out. With Replaceable, Event holds the versions of one key.        *)
(***************************************************************************)
EXTENDS Naturals

CONSTANTS
  Relay,       \* the entries of urls
  Event,       \* the events
  CreatedAt,   \* their timestamps
  Has,         \* the events each relay may send
  Calls,       \* subset of {"FetchMany", "FetchManyReplaceable"}
  Reasons,     \* the reasons each may give in a CLOSED
  MaxSubs,     \* bound: subscriptions its goroutine opens
  None

FetchAssumption ==
  /\ CreatedAt \in [Event -> Nat \ {0}]
  /\ Has \in [Relay -> SUBSET Event]
  /\ Calls \subseteq {"FetchMany", "FetchManyReplaceable"}
  /\ Reasons \in [Relay -> SUBSET {"auth-required", "other"}]
  /\ MaxSubs \in [Relay -> Nat]
  /\ None \notin Event \cup Relay \cup (Relay \X Nat)

VARIABLES
  call,      \* which of the two calls this is
  ctxDone,   \* the context of the subscriptions is done
  pc,        \* progress of each goroutine
  sub,       \* its current subscription
  opened,    \* subscriptions it has opened
  hasAuthed, \* its local of that name
  holding,   \* the event it is about to hand over
  endedBy,   \* why it returned
  seen,      \* seenAlready: ids received
  latest,    \* seenAlreadyLatest: the newest timestamp received
  emitted,   \* how often each event went into the channel
  results,   \* the map's entry for the key
  finished,  \* the channel is closed, or the call has returned
  stored,    \* history: what a relay sent on its subscription before its EOSE
  passedBy   \* history: the subscription that let an event pass the check

vars == <<call, ctxDone, pc, sub, opened, hasAuthed, holding,
          endedBy, seen, latest, emitted, results, finished, stored, passedBy>>

seenVars == <<seen, latest, passedBy>>
outVars == <<emitted, results>>

NoSub == [state |-> "none", reason |-> "none", arrived |-> {}, sent |-> {},
          eose |-> FALSE]

(* A goroutine holds an event exactly while it hands one over, and the     *)
(* event is never nil.                                                     *)
TypeOK ==
  /\ call \in Calls
  /\ ctxDone \in BOOLEAN /\ finished \in BOOLEAN
  /\ pc \in [Relay -> {"ensure", "subscribe", "listen", "hand", "auth", "done"}]
  /\ sub \in [Relay -> [state : {"none", "open", "over"},
                        reason : {"none", "auth-required", "other"},
                        arrived : SUBSET Event, sent : SUBSET Event,
                        eose : BOOLEAN]]
  /\ opened \in [Relay -> Nat]
  /\ hasAuthed \in [Relay -> BOOLEAN]
  /\ holding \in [Relay -> Event \cup {None}]
  /\ \A r \in Relay : holding[r] # None <=> pc[r] = "hand"
  /\ endedBy \in [Relay -> {"none", "eose", "lost"}]
  /\ seen \in SUBSET Event
  /\ latest \in Nat
  /\ emitted \in [Event -> Nat]
  /\ results \in Event \cup {None}
  /\ stored \in [Relay -> SUBSET Event]
  /\ passedBy \in [Event -> (Relay \X Nat) \cup {None}]

Init ==
  /\ call \in Calls
  /\ ctxDone = FALSE /\ finished = FALSE
  /\ pc = [r \in Relay |-> "ensure"]
  /\ sub = [r \in Relay |-> NoSub]
  /\ opened = [r \in Relay |-> 0]
  /\ hasAuthed = [r \in Relay |-> FALSE]
  /\ holding = [r \in Relay |-> None]
  /\ endedBy = [r \in Relay |-> "none"]
  /\ seen = {} /\ latest = 0
  /\ emitted = [e \in Event |-> 0]
  /\ results = None
  /\ stored = [r \in Relay |-> {}]
  /\ passedBy = [e \in Event |-> None]

Goto(r, from, to) == pc[r] = from /\ pc' = [pc EXCEPT ![r] = to]

(* The goroutine returns; why is kept for the properties.                   *)
Ends(r, from, why) ==
  /\ Goto(r, from, "done")
  /\ endedBy' = [endedBy EXCEPT ![r] = why]

-----------------------------------------------------------------------------
(***************************************************************************)
(* Connecting and subscribing: a failure ends the goroutine.               *)
(***************************************************************************)
EnsureRelay(r) ==
  /\ \/ Goto(r, "ensure", "subscribe") /\ UNCHANGED endedBy
     \/ Ends(r, "ensure", "lost")
  /\ UNCHANGED <<call, ctxDone, sub, opened, hasAuthed, holding,
                 seenVars, outVars, finished, stored>>

Subscribe(r) ==
  /\ Goto(r, "subscribe", "listen")
  /\ opened[r] < MaxSubs[r]
  /\ opened' = [opened EXCEPT ![r] = @ + 1]
  /\ sub' = [sub EXCEPT ![r] = [NoSub EXCEPT !.state = "open"]]
  /\ stored' = [stored EXCEPT ![r] = {}]
  /\ UNCHANGED <<call, ctxDone, hasAuthed, holding, endedBy,
                 seenVars, outVars, finished>>

SubscribeFails(r) ==
  /\ Ends(r, "subscribe", "lost")
  /\ UNCHANGED <<call, ctxDone, sub, opened, hasAuthed, holding,
                 seenVars, outVars, finished, stored>>

-----------------------------------------------------------------------------
(***************************************************************************)
(* What happens to a subscription, whether or not its goroutine listens.   *)
(***************************************************************************)

(* Mutations: nothing is a duplicate; or the check is inverted, and skips   *)
(* what is new.                                                             *)
AlwaysFresh(e) == TRUE

StaleOnly(e) ==
  IF call = "FetchMany" THEN e \in seen ELSE CreatedAt[e] <= latest

(* checkDuplicate and checkDuplicateReplaceable let an event pass.          *)
Fresh(e) == IF call = "FetchMany" THEN e \notin seen ELSE CreatedAt[e] > latest

(* The read loop asks the duplicate check, which remembers the event, and   *)
(* keeps the event if it is fresh.                                          *)
Arrive(r, e) ==
  /\ sub[r].state = "open"
  /\ sub[r].reason = "none"
  /\ e \in Has[r] \ sub[r].sent
  /\ sub' = [sub EXCEPT ![r].sent = @ \cup {e},
                        ![r].arrived = IF Fresh(e) THEN @ \cup {e} ELSE @]
  /\ IF call = "FetchMany"
     THEN seen' = seen \cup {e} /\ UNCHANGED latest
     ELSE /\ latest' = IF CreatedAt[e] > latest THEN CreatedAt[e] ELSE latest
          /\ UNCHANGED seen
  /\ passedBy' = [passedBy EXCEPT ![e] = IF Fresh(e) THEN <<r, opened[r]>> ELSE @]
  /\ stored' = IF sub[r].eose THEN stored ELSE [stored EXCEPT ![r] = @ \cup {e}]
  /\ UNCHANGED <<call, ctxDone, pc, opened, hasAuthed, holding,
                 endedBy, outVars, finished>>

(* EndOfStoredEvents speaks once the stored events are handed over.         *)
EndOfStored(r) ==
  /\ sub[r].state = "open"
  /\ sub[r].arrived = {}
  /\ ~sub[r].eose
  /\ sub' = [sub EXCEPT ![r].eose = TRUE]
  /\ UNCHANGED <<call, ctxDone, pc, opened, hasAuthed, holding,
                 endedBy, seenVars, outVars, finished, stored>>

ClosedByRelay(r) ==
  /\ sub[r].state = "open"
  /\ sub[r].reason = "none"
  /\ \E reason \in Reasons[r] :
       sub' = [sub EXCEPT ![r].reason = reason]
  /\ UNCHANGED <<call, ctxDone, pc, opened, hasAuthed, holding,
                 endedBy, seenVars, outVars, finished, stored>>

(* Over, after a CLOSED, with the context or with the connection: what was  *)
(* not handed over is lost, and Events is closed.                           *)
SubscriptionEnds(r) ==
  /\ sub[r].state = "open"
  /\ sub' = [sub EXCEPT ![r].state = "over", ![r].arrived = {},
                        ![r].sent = {}]
  /\ UNCHANGED <<call, ctxDone, pc, opened, hasAuthed, holding,
                 endedBy, seenVars, outVars, finished, stored>>

-----------------------------------------------------------------------------
(***************************************************************************)
(* The select of a goroutine: any ready case may be taken.                 *)
(***************************************************************************)
TakeEvent(r, e) ==
  /\ Goto(r, "listen", "hand")
  /\ e \in sub[r].arrived
  /\ sub' = [sub EXCEPT ![r].arrived = @ \ {e}]
  /\ holding' = [holding EXCEPT ![r] = e]
  /\ UNCHANGED <<call, ctxDone, opened, hasAuthed, endedBy,
                 seenVars, outVars, finished, stored>>

(* The consumer of the channel takes the event; or the map is written,      *)
(* whatever it holds.                                                       *)
HandOver(r) ==
  /\ Goto(r, "hand", "listen")
  /\ holding' = [holding EXCEPT ![r] = None]
  /\ IF call = "FetchMany"
     THEN emitted' = [emitted EXCEPT ![holding[r]] = @ + 1] /\ UNCHANGED results
     ELSE results' = holding[r] /\ UNCHANGED emitted
  /\ UNCHANGED <<call, ctxDone, sub, opened, hasAuthed, endedBy,
                 seenVars, finished, stored>>

HandOverGivesUp(r) ==
  /\ call = "FetchMany"
  /\ ctxDone
  /\ Ends(r, "hand", "lost")
  /\ holding' = [holding EXCEPT ![r] = None]
  /\ UNCHANGED <<call, ctxDone, sub, opened, hasAuthed, seenVars,
                 outVars, finished, stored>>

(* Mutation: an EOSE does not end the goroutine.                            *)
IgnoreEose(r) == FALSE

TakeEose(r) ==
  /\ sub[r].eose
  /\ Ends(r, "listen", "eose")
  /\ UNCHANGED <<call, ctxDone, sub, opened, hasAuthed, holding,
                 seenVars, outVars, finished, stored>>

(* A CLOSED ends the goroutine, unless it is the first to ask for AUTH.     *)
TakeReason(r) ==
  /\ sub[r].reason # "none"
  /\ IF sub[r].reason = "auth-required" /\ ~hasAuthed[r]
     THEN Goto(r, "listen", "auth") /\ UNCHANGED endedBy
     ELSE Ends(r, "listen", "lost")
  /\ UNCHANGED <<call, ctxDone, sub, opened, hasAuthed, holding,
                 seenVars, outVars, finished, stored>>

Auth(r) ==
  /\ \/ /\ Goto(r, "auth", "subscribe")
        /\ hasAuthed' = [hasAuthed EXCEPT ![r] = TRUE]
        /\ sub' = [sub EXCEPT ![r] = NoSub]
        /\ UNCHANGED endedBy
     \/ Ends(r, "auth", "lost") /\ UNCHANGED <<hasAuthed, sub>>
  /\ UNCHANGED <<call, ctxDone, opened, holding, seenVars, outVars,
                 finished, stored>>

EventsClosed(r) ==
  /\ sub[r].state = "over"
  /\ Ends(r, "listen", "lost")
  /\ UNCHANGED <<call, ctxDone, sub, opened, hasAuthed, holding,
                 seenVars, outVars, finished, stored>>

ListenGivesUp(r) ==
  /\ ctxDone
  /\ Ends(r, "listen", "lost")
  /\ UNCHANGED <<call, ctxDone, sub, opened, hasAuthed, holding,
                 seenVars, outVars, finished, stored>>

-----------------------------------------------------------------------------
(* wg.Wait() is over: cancel, and close the channel or return the map.       *)
Finish ==
  /\ \A r \in Relay : pc[r] = "done"
  /\ ~finished
  /\ finished' = TRUE
  /\ ctxDone' = TRUE
  /\ UNCHANGED <<call, pc, sub, opened, hasAuthed, holding, endedBy,
                 seenVars, outVars, stored>>

CancelContext ==
  /\ ~ctxDone
  /\ ctxDone' = TRUE
  /\ UNCHANGED <<call, pc, sub, opened, hasAuthed, holding, endedBy, seenVars,
                 outVars, finished, stored>>

(* What the goroutine of r does without waiting for a consumer or a relay.  *)
GoroutineStep(r) ==
  \/ EnsureRelay(r) \/ Subscribe(r) \/ SubscribeFails(r)
  \/ HandOverGivesUp(r) \/ (call = "FetchManyReplaceable" /\ HandOver(r))
  \/ TakeEose(r) \/ TakeReason(r) \/ Auth(r) \/ EventsClosed(r)
  \/ ListenGivesUp(r)
  \/ \E e \in Event : TakeEvent(r, e)

Next ==
  \/ \E r \in Relay :
       \/ GoroutineStep(r)
       \/ HandOver(r)
       \/ EndOfStored(r) \/ ClosedByRelay(r) \/ SubscriptionEnds(r)
       \/ \E e \in Event : Arrive(r, e)
  \/ Finish
  \/ CancelContext

Spec == Init /\ [][Next]_vars

(***************************************************************************)
(* Goroutines run, and a subscription that was cancelled or CLOSED ends.   *)
(* Relays, the consumer of the channel and the caller owe nothing. Nothing *)
(* goes on for ever here, so that it is fair to each if one of them takes  *)
(* a step while one can.                                                   *)
(***************************************************************************)
Progress ==
  \/ \E r \in Relay :
       \/ GoroutineStep(r)
       \/ (ctxDone \/ sub[r].reason # "none") /\ SubscriptionEnds(r)
  \/ Finish

FairSpec == Spec /\ WF_vars(Progress)

-----------------------------------------------------------------------------
(***************************************************************************)
(* Safety.                                                                 *)
(***************************************************************************)

(* FetchMany emits an event once, however many relays send it, and however  *)
(* often one does.                                                          *)
EmittedOnce == \A e \in Event : emitted[e] <= 1

(* The subscription that let e pass was given up before its stored events   *)
(* were handed over, or sent e only after its EOSE.                         *)
LostBy(e) ==
  /\ passedBy[e] # None
  /\ LET r == passedBy[e][1]  n == passedBy[e][2] IN
       \/ opened[r] # n
       \/ endedBy[r] # "eose"
       \/ e \notin stored[r]

(* The call misses a stored event of a relay that reached its EOSE only if  *)
(* another subscription, which was lost or past its own EOSE, had let the   *)
(* event pass the duplicate check and not handed it over. For the versions  *)
(* of a replaceable event it is enough that one no older was handed over.   *)
NothingMissed ==
  finished =>
    \A r \in Relay : endedBy[r] = "eose" =>
      \A e \in stored[r] :
        IF call = "FetchMany"
        THEN emitted[e] = 1 \/ LostBy(e)
        ELSE \/ results # None
             \/ \E f \in Event : LostBy(f)

(* The map that FetchManyReplaceable returns has the newest of the versions *)
(* that its goroutines took from the relays (pool.go:335).                  *)
LatestWins ==
  (finished /\ results # None /\ \A r \in Relay : endedBy[r] = "eose") =>
    \A r \in Relay, e \in Event :
      e \in stored[r] => CreatedAt[e] <= CreatedAt[results]

-----------------------------------------------------------------------------
(***************************************************************************)
(* Liveness.                                                               *)
(***************************************************************************)

(* The call has nothing left to wait for: its context is done, or every     *)
(* relay has sent its EOSE or is lost and the consumer of the channel has   *)
(* taken what was handed over.                                              *)
MustEnd ==
  \/ ctxDone
  \/ \A r \in Relay : pc[r] # "hand" /\ (sub[r].eose \/ pc[r] = "done")

(* A cancelled call ends, whether or not anybody reads its channel; and any *)
(* call ends once every relay has sent its EOSE or is lost (pool.go:297),   *)
(* unless a goroutine finds another event first, or subscribes anew after   *)
(* an AUTH.                                                                 *)
FetchEnds == []<>(MustEnd => finished)
=============================================================================
