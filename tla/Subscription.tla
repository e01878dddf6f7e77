----------------------------- MODULE Subscription -----------------------------
(***************************************************************************)
(* One subscription of a nostr relay connection (subscription.go, and the  *)
(* parts of relay.go that touch it), from PrepareSubscription to the       *)
(* closing of its Events channel.                                          *)
(*                                                                         *)
(* The goroutines that meet here are                                       *)
(*   - the caller of Relay.Subscribe, which runs Fire;                     *)
(*   - the relay's read loop, which turns EVENT, EOSE and CLOSED messages  *)
(*     into goroutines of their own: one per event, one per EOSE, one per  *)
(*     CLOSED;                                                             *)
(*   - start(), which waits for the context and closes Events;             *)
(*   - the write pump, whose exit unsubscribes everything;                 *)
(*   - whoever calls Unsub().                                              *)
(* Four of them run unsub(), possibly at once: they are the set Closer.    *)
(*                                                                         *)
(* Abstracted: payloads and filters. An element of Event is one EVENT      *)
(* message that passes the read loop's duplicate, filter and signature     *)
(* checks; a message that fails one changes nothing here. The read loop's  *)
(* lookup of the subscription and the call it leads to are one step: they  *)
(* touch nothing that another goroutine changes in between, except the map *)
(* entry, and a lookup that finds the entry is free to act on it late      *)
(* because the goroutine it spawns is.                                     *)
(***************************************************************************)
EXTENDS Naturals

CONSTANTS
  Event,        \* the EVENT messages the relay may send for this subscription
  None,         \* no holder of sub.mu
  MaxEose,      \* bound: EOSE messages the relay sends for this subscription
  CancelStages  \* stages of Subscribe at which the caller's context may end

Stages == {"prepared", "checked", "writing", "fired", "failed"}

ASSUME EventAssumption == None \notin Event
ASSUME MaxEoseAssumption == MaxEose \in Nat
ASSUME CancelStagesAssumption == CancelStages \subseteq Stages

VARIABLES
  fire,         \* progress of Subscribe and Fire
  ctxDone,      \* sub.Context has been cancelled
  live,         \* sub.live
  eosed,        \* sub.eosed
  registered,   \* the relay's Subscriptions map holds the subscription
  mu,           \* holder of sub.mu between two steps
  eventsClosed, \* close(sub.Events) has run
  dispatch,     \* what became of each EVENT message
  storedwg,     \* the events counted by sub.storedwg
  stored,       \* history: the events read before the first EOSE
  eoseRead,     \* EOSE messages the read loop has handled
  eoseWaiting,  \* goroutines in storedwg.Wait()
  eoseSent,     \* values sent to sub.EndOfStoredEvents
  closedReason, \* a reason has been sent to sub.ClosedReason
  closing,      \* progress of each goroutine that runs unsub()
  conn,         \* the websocket and connectionContext
  peer,         \* what the relay at the other end knows of the subscription
  closesSent    \* CLOSE messages written to the websocket

vars == <<fire, ctxDone, live, eosed, registered, mu, eventsClosed, dispatch,
          storedwg, stored, eoseRead, eoseWaiting, eoseSent, closedReason, closing,
          conn, peer, closesSent>>

streamVars == <<eosed, dispatch, storedwg, stored, eoseRead, eoseWaiting,
                eoseSent>>

Closer == {"start", "closed", "pump", "user"}

TypeOK ==
  /\ fire \in Stages
  /\ ctxDone \in BOOLEAN
  /\ live \in BOOLEAN
  /\ eosed \in BOOLEAN
  /\ registered \in BOOLEAN
  /\ mu \in Event \cup {None}
  /\ eventsClosed \in BOOLEAN
  /\ dispatch \in [Event -> {"none", "spawned", "sending", "delivered", "dropped"}]
  /\ storedwg \in SUBSET Event
  /\ stored \in SUBSET Event
  /\ eoseRead \in Nat
  /\ eoseWaiting \in Nat
  /\ eoseSent \in Nat
  /\ closedReason \in BOOLEAN
  /\ closing \in [Closer -> {"idle", "reason", "notlive", "range", "cancel",
                             "cas", "close", "queue", "delete", "lock", "done"}]
  /\ conn \in {"up", "broken", "down"}
  /\ peer \in {"none", "open", "closed"}
  /\ closesSent \in Nat

(***************************************************************************)
(* PrepareSubscription has stored the subscription and spawned start().    *)
(* The connection may be in any condition, the write pump gone already.    *)
(***************************************************************************)
Init ==
  /\ fire = "prepared"
  /\ ctxDone = FALSE
  /\ live = FALSE
  /\ eosed = FALSE
  /\ registered = TRUE
  /\ mu = None
  /\ eventsClosed = FALSE
  /\ dispatch = [e \in Event |-> "none"]
  /\ storedwg = {}
  /\ stored = {}
  /\ eoseRead = 0
  /\ eoseWaiting = 0
  /\ eoseSent = 0
  /\ closedReason = FALSE
  /\ conn \in {"up", "broken", "down"}
  /\ \E gone \in BOOLEAN :
       /\ gone => conn = "down"
       /\ closing = [t \in Closer |->
                       IF t = "pump" /\ gone THEN "done" ELSE "idle"]
  /\ peer = "none"
  /\ closesSent = 0

-----------------------------------------------------------------------------
(***************************************************************************)
(* The caller: Subscribe, Fire, the end of its context, Unsub.             *)
(***************************************************************************)

(* Subscribe's check, under closeMutex, of whether the pump has nilled      *)
(* Connection. On failure it returns an error and leaves the subscription   *)
(* registered, its context as it is.                                        *)
CheckConnection ==
  /\ fire = "prepared"
  /\ fire' = IF closing["pump"] = "idle" THEN "checked" ELSE "failed"
  /\ UNCHANGED <<ctxDone, live, registered, mu, eventsClosed, closedReason,
                 closing, conn, peer, closesSent, streamVars>>

(* Fire, up to its Write of the REQ.                                        *)
SetLive ==
  /\ fire = "checked"
  /\ live' = TRUE
  /\ fire' = "writing"
  /\ UNCHANGED <<ctxDone, registered, mu, eventsClosed, closedReason, closing,
                 conn, peer, closesSent, streamVars>>

(* The write pump takes the REQ off the write queue and writes it.          *)
WriteReq ==
  /\ fire = "writing"
  /\ conn = "up"
  /\ closing["pump"] = "idle"
  /\ fire' = "fired"
  /\ peer' = "open"
  /\ UNCHANGED <<ctxDone, live, registered, mu, eventsClosed, closedReason,
                 closing, conn, closesSent, streamVars>>

(* The write fails, or the connection ends before the pump takes it: Fire   *)
(* cancels the subscription's context and returns the error.                *)
WriteReqFails ==
  /\ fire = "writing"
  /\ conn # "up"
  /\ fire' = "failed"
  /\ ctxDone' = TRUE
  /\ UNCHANGED <<live, registered, mu, eventsClosed, closedReason, closing,
                 conn, peer, closesSent, streamVars>>

(* The context the caller gave to Subscribe is cancelled or expires.        *)
CancelContext ==
  /\ fire \in CancelStages
  /\ ~ctxDone
  /\ ctxDone' = TRUE
  /\ UNCHANGED <<fire, live, registered, mu, eventsClosed, closedReason,
                 closing, conn, peer, closesSent, streamVars>>

(* The caller, which has a subscription once Subscribe returned, unsubs.    *)
Unsub ==
  /\ fire = "fired"
  /\ closing["user"] = "idle"
  /\ closing' = [closing EXCEPT !["user"] = "cancel"]
  /\ UNCHANGED <<fire, ctxDone, live, registered, mu, eventsClosed,
                 closedReason, conn, peer, closesSent, streamVars>>

-----------------------------------------------------------------------------
(***************************************************************************)
(* unsub(), step by step, as each goroutine t of Closer runs it.           *)
(***************************************************************************)

Goto(t, from, to) ==
  /\ closing[t] = from
  /\ closing' = [closing EXCEPT ![t] = to]

UnsubCancel(t) ==
  /\ Goto(t, "cancel", "cas")
  /\ ctxDone' = TRUE
  /\ UNCHANGED <<fire, live, registered, mu, eventsClosed, closedReason, conn,
                 peer, closesSent, streamVars>>

(* Mutation: a plain load of live instead of the compare-and-swap.          *)
UnsubLoadsLive(t) ==
  /\ Goto(t, "cas", IF live THEN "close" ELSE "delete")
  /\ UNCHANGED <<fire, ctxDone, live, registered, mu, eventsClosed,
                 closedReason, conn, peer, closesSent, streamVars>>

(* live.CompareAndSwap(true, false): one goroutine at most goes on to Close *)
UnsubCas(t) ==
  /\ \/ live /\ Goto(t, "cas", "close")
     \/ ~live /\ Goto(t, "cas", "delete")
  /\ live' = FALSE
  /\ UNCHANGED <<fire, ctxDone, registered, mu, eventsClosed, closedReason,
                 conn, peer, closesSent, streamVars>>

(* Mutation: the test for a connection is inverted.                         *)
CloseIfDisconnected(t) ==
  /\ Goto(t, "close", IF conn = "down" THEN "queue" ELSE "delete")
  /\ UNCHANGED <<fire, ctxDone, live, registered, mu, eventsClosed,
                 closedReason, conn, peer, closesSent, streamVars>>

(* Close() asks Relay.IsConnected() before it writes anything.              *)
CloseIfConnected(t) ==
  /\ Goto(t, "close", IF conn = "down" THEN "delete" ELSE "queue")
  /\ UNCHANGED <<fire, ctxDone, live, registered, mu, eventsClosed,
                 closedReason, conn, peer, closesSent, streamVars>>

(* The write pump writes the CLOSE. The relay ignores one for a             *)
(* subscription it does not have.                                           *)
WriteClose(t) ==
  /\ Goto(t, "queue", "delete")
  /\ conn = "up"
  /\ closing["pump"] = "idle"
  /\ closesSent' = closesSent + 1
  /\ peer' = IF peer = "open" THEN "closed" ELSE peer
  /\ UNCHANGED <<fire, ctxDone, live, registered, mu, eventsClosed,
                 closedReason, conn, streamVars>>

WriteCloseFails(t) ==
  /\ Goto(t, "queue", "delete")
  /\ conn # "up"
  /\ UNCHANGED <<fire, ctxDone, live, registered, mu, eventsClosed,
                 closedReason, conn, peer, closesSent, streamVars>>

UnsubDelete(t) ==
  /\ Goto(t, "delete", IF t = "start" THEN "lock" ELSE "done")
  /\ registered' = FALSE
  /\ UNCHANGED <<fire, ctxDone, live, mu, eventsClosed, closedReason, conn,
                 peer, closesSent, streamVars>>

(* start() wakes up when the context is done ...                            *)
StartWakes ==
  /\ ctxDone
  /\ Goto("start", "idle", "cancel")
  /\ UNCHANGED <<fire, ctxDone, live, registered, mu, eventsClosed,
                 closedReason, conn, peer, closesSent, streamVars>>

(* Mutation: Events is closed without sub.mu.                               *)
StartClosesUnlocked ==
  /\ Goto("start", "lock", "done")
  /\ eventsClosed' = TRUE
  /\ UNCHANGED <<fire, ctxDone, live, registered, mu, closedReason, conn,
                 peer, closesSent, streamVars>>

(* ... and, after its unsub(), closes Events under sub.mu.                  *)
StartClosesEvents ==
  /\ Goto("start", "lock", "done")
  /\ mu = None
  /\ eventsClosed' = TRUE
  /\ UNCHANGED <<fire, ctxDone, live, registered, mu, closedReason, conn,
                 peer, closesSent, streamVars>>

(* Mutation: the reason of a CLOSED is not passed on.                       *)
ClosedForgetsReason ==
  /\ Goto("closed", "reason", "notlive")
  /\ UNCHANGED <<fire, ctxDone, live, registered, mu, eventsClosed,
                 closedReason, conn, peer, closesSent, streamVars>>

(* handleClosed's goroutine: the reason first, then live, then unsub().     *)
ClosedSendsReason ==
  /\ Goto("closed", "reason", "notlive")
  /\ closedReason' = TRUE
  /\ UNCHANGED <<fire, ctxDone, live, registered, mu, eventsClosed, conn,
                 peer, closesSent, streamVars>>

ClosedClearsLive ==
  /\ Goto("closed", "notlive", "cancel")
  /\ live' = FALSE
  /\ UNCHANGED <<fire, ctxDone, registered, mu, eventsClosed, closedReason,
                 conn, peer, closesSent, streamVars>>

(* The write pump leaves its loop: it nils Connection, and then unsubs      *)
(* every subscription it finds in the map.                                  *)
PumpExits ==
  /\ conn = "down"
  /\ Goto("pump", "idle", "range")
  /\ UNCHANGED <<fire, ctxDone, live, registered, mu, eventsClosed,
                 closedReason, conn, peer, closesSent, streamVars>>

(* Mutation: the write pump exits without a word to the subscriptions.      *)
PumpJustExits ==
  /\ Goto("pump", "range", "done")
  /\ UNCHANGED <<fire, ctxDone, live, registered, mu, eventsClosed,
                 closedReason, conn, peer, closesSent, streamVars>>

PumpRanges ==
  /\ Goto("pump", "range", IF registered THEN "cancel" ELSE "done")
  /\ UNCHANGED <<fire, ctxDone, live, registered, mu, eventsClosed,
                 closedReason, conn, peer, closesSent, streamVars>>

-----------------------------------------------------------------------------
(***************************************************************************)
(* The read loop. The relay answers once it has the REQ, and what it sent  *)
(* before it saw a CLOSE still arrives.                                    *)
(***************************************************************************)

Readable == conn = "up" /\ peer # "none" /\ registered

(* dispatchEvent: count the event unless the EOSE came, spawn its goroutine *)
DispatchEvent(e) ==
  /\ Readable
  /\ dispatch[e] = "none"
  /\ dispatch' = [dispatch EXCEPT ![e] = "spawned"]
  /\ storedwg' = IF eosed THEN storedwg ELSE storedwg \cup {e}
  /\ stored' = IF eosed THEN stored ELSE stored \cup {e}
  /\ UNCHANGED <<fire, ctxDone, live, eosed, registered, mu, eventsClosed,
                 eoseRead, eoseWaiting, eoseSent, closedReason, closing, conn,
                 peer, closesSent>>

(* dispatchEose: only the first EOSE of a subscription counts.              *)
DispatchEose ==
  /\ Readable
  /\ eoseRead < MaxEose
  /\ eoseRead' = eoseRead + 1
  /\ eosed' = TRUE
  /\ eoseWaiting' = IF eosed THEN eoseWaiting ELSE eoseWaiting + 1
  /\ UNCHANGED <<fire, ctxDone, live, registered, mu, eventsClosed, dispatch,
                 storedwg, stored, eoseSent, closedReason, closing, conn, peer,
                 closesSent>>

(* handleClosed: the relay ended the subscription, which it does once.      *)
HandleClosed ==
  /\ Readable
  /\ Goto("closed", "idle", "reason")
  /\ peer' = "closed"
  /\ UNCHANGED <<fire, ctxDone, live, registered, mu, eventsClosed,
                 closedReason, conn, closesSent, streamVars>>

-----------------------------------------------------------------------------
(***************************************************************************)
(* The goroutine of one event.                                             *)
(***************************************************************************)

(* Mutation: an early return for a dead subscription forgets storedwg.Done. *)
EventReturnsEarly(e) ==
  /\ dispatch[e] = "spawned"
  /\ mu = None
  /\ dispatch' = [dispatch EXCEPT ![e] = IF live THEN "sending" ELSE "dropped"]
  /\ mu' = IF live THEN e ELSE mu
  /\ UNCHANGED <<fire, ctxDone, live, eosed, registered, eventsClosed, storedwg,
                 stored, eoseRead, eoseWaiting, eoseSent, closedReason, closing,
                 conn, peer, closesSent>>

(* It takes sub.mu and gives up at once if the subscription is not live.    *)
EventLocks(e) ==
  /\ dispatch[e] = "spawned"
  /\ mu = None
  /\ IF live
     THEN /\ dispatch' = [dispatch EXCEPT ![e] = "sending"]
          /\ mu' = e
          /\ UNCHANGED storedwg
     ELSE /\ dispatch' = [dispatch EXCEPT ![e] = "dropped"]
          /\ storedwg' = storedwg \ {e}
          /\ UNCHANGED mu
  /\ UNCHANGED <<fire, ctxDone, live, eosed, registered, eventsClosed, stored,
                 eoseRead, eoseWaiting, eoseSent, closedReason, closing, conn,
                 peer, closesSent>>

(* The select of a goroutine that holds sub.mu ends one way or the other,   *)
(* the event is counted off and sub.mu released.                            *)
EventLeaves(e, outcome) ==
  /\ dispatch[e] = "sending"
  /\ dispatch' = [dispatch EXCEPT ![e] = outcome]
  /\ storedwg' = storedwg \ {e}
  /\ mu' = None
  /\ UNCHANGED <<fire, ctxDone, live, eosed, registered, eventsClosed, stored,
                 eoseRead, eoseWaiting, eoseSent, closedReason, closing, conn,
                 peer, closesSent>>

ConsumerTakes(e) == EventLeaves(e, "delivered")

EventGivesUp(e) == ctxDone /\ EventLeaves(e, "dropped")

(* Mutation: the EOSE does not wait for the stored events.                  *)
EoseDoesNotWait ==
  /\ eoseWaiting > 0
  /\ eoseWaiting' = eoseWaiting - 1
  /\ eoseSent' = eoseSent + 1
  /\ UNCHANGED <<fire, ctxDone, live, eosed, registered, mu, eventsClosed,
                 dispatch, storedwg, stored, eoseRead, closedReason, closing, conn,
                 peer, closesSent>>

(* The goroutine of an EOSE: storedwg.Wait(), then the buffered send.       *)
EoseSends ==
  /\ eoseWaiting > 0
  /\ storedwg = {}
  /\ eoseWaiting' = eoseWaiting - 1
  /\ eoseSent' = eoseSent + 1
  /\ UNCHANGED <<fire, ctxDone, live, eosed, registered, mu, eventsClosed,
                 dispatch, storedwg, stored, eoseRead, closedReason, closing, conn,
                 peer, closesSent>>

-----------------------------------------------------------------------------
(***************************************************************************)
(* The connection: it may break, the read loop finds out and cancels       *)
(* connectionContext; Relay.Close() or a failed ping does the same.        *)
(***************************************************************************)
ConnectionBreaks ==
  /\ conn = "up"
  /\ conn' = "broken"
  /\ UNCHANGED <<fire, ctxDone, live, registered, mu, eventsClosed,
                 closedReason, closing, peer, closesSent, streamVars>>

ConnectionCloses ==
  /\ conn # "down"
  /\ conn' = "down"
  /\ UNCHANGED <<fire, ctxDone, live, registered, mu, eventsClosed,
                 closedReason, closing, peer, closesSent, streamVars>>

-----------------------------------------------------------------------------
UnsubStep(t) ==
  \/ UnsubCancel(t)
  \/ UnsubCas(t)
  \/ CloseIfConnected(t)
  \/ WriteClose(t)
  \/ WriteCloseFails(t)
  \/ UnsubDelete(t)

Next ==
  \/ CheckConnection \/ SetLive \/ WriteReq \/ WriteReqFails
  \/ CancelContext \/ Unsub
  \/ \E t \in Closer : UnsubStep(t)
  \/ StartWakes \/ StartClosesEvents
  \/ ClosedSendsReason \/ ClosedClearsLive
  \/ PumpExits \/ PumpRanges
  \/ \E e \in Event : DispatchEvent(e)
  \/ DispatchEose \/ HandleClosed
  \/ \E e \in Event : EventLocks(e) \/ ConsumerTakes(e) \/ EventGivesUp(e)
  \/ EoseSends
  \/ ConnectionBreaks \/ ConnectionCloses

Spec == Init /\ [][Next]_vars

(***************************************************************************)
(* The Go scheduler runs every goroutine that can run, and the read loop   *)
(* notices a broken connection. Nothing here goes on for ever, so that it  *)
(* is fair to each of them if one of them takes a step while one can.      *)
(* Nothing is assumed of the relay, of the caller's context, or of the     *)
(* consumer of Events.                                                     *)
(***************************************************************************)
Progress ==
  \/ CheckConnection \/ SetLive \/ WriteReq \/ WriteReqFails
  \/ \E t \in Closer : UnsubStep(t)
  \/ StartWakes \/ StartClosesEvents
  \/ ClosedSendsReason \/ ClosedClearsLive
  \/ PumpExits \/ PumpRanges
  \/ \E e \in Event : EventLocks(e) \/ EventGivesUp(e)
  \/ EoseSends
  \/ conn = "broken" /\ ConnectionCloses

FairSpec == Spec /\ WF_vars(Progress)

-----------------------------------------------------------------------------
(***************************************************************************)
(* Safety.                                                                 *)
(***************************************************************************)

(* No goroutine is ever at `sub.Events <- evt` once Events is closed, which *)
(* would panic: the promise of the comment at subscription.go:87.           *)
NoSendOnClosed == \A e \in Event : dispatch[e] = "sending" => ~eventsClosed

(* An event is thrown away only if the subscription is over: its context is *)
(* done, or the relay said CLOSED and the reason is there for the consumer. *)
LostOnlyAtEnd ==
  \A e \in Event : dispatch[e] = "dropped" => ctxDone \/ closedReason

(* The consumer is told of the end of the stored events only after every    *)
(* event that the read loop met before the EOSE has been handed over, or    *)
(* lost with the subscription (subscription.go:49).                         *)
EoseAfterStored ==
  eoseSent > 0 =>
    \A e \in stored : \/ dispatch[e] = "delivered"
                      \/ dispatch[e] = "dropped" /\ (ctxDone \/ closedReason)

(* A relay that repeats EOSE does not make the subscription signal twice:   *)
(* the buffered send of dispatchEose never blocks.                          *)
OneEose == eoseWaiting + eoseSent <= 1

(* However unsub() is raced, the relay is sent at most one CLOSE.           *)
OneClose == closesSent <= 1

-----------------------------------------------------------------------------
(***************************************************************************)
(* Liveness.                                                               *)
(***************************************************************************)

(* A live subscription that is cancelled after Fire returned does not stay  *)
(* open at the relay: as long as the connection is up, the relay gets its   *)
(* CLOSE (relay.go:488).                                                    *)
CancelledIsClosed ==
  (ctxDone /\ live /\ fire = "fired" /\ peer = "open")
    ~> (peer = "closed" \/ conn # "up")

(* The loss of the connection ends a subscription the caller holds.         *)
DisconnectEnds == []<>(fire = "fired" /\ conn = "down" => eventsClosed)

(* An EOSE is passed on, unless the consumer leaves an event that is to be  *)
(* handed over before it.                                                   *)
EosePassedOn ==
  []<>(eosed /\ (\A e \in Event : dispatch[e] # "sending") => eoseSent = 1)

-----------------------------------------------------------------------------
(***************************************************************************)
(* The subscription as its consumer sees it.                               *)
(***************************************************************************)
Contract == INSTANCE SubscriptionContract WITH
  pending <- {e \in Event : dispatch[e] \in {"spawned", "sending"}},
  handed  <- {e \in Event : dispatch[e] = "delivered"},
  eose    <- IF eoseSent > 0 THEN "told" ELSE IF eosed THEN "due" ELSE "none",
  over    <- ctxDone \/ closedReason,
  ended   <- eventsClosed

(* The goroutines together keep the contract of SubscriptionContract:       *)
(* whatever they interleave, the consumer sees one of its behaviours, and   *)
(* Events is closed once the subscription is over.                          *)
KeepsContract == Contract!FairSpec
=============================================================================
