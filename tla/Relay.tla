--------------------------------- MODULE Relay ---------------------------------
(***************************************************************************)
(* One relay connection (relay.go): the write pump and its pings, the read *)
(* loop, the teardown they share with Close(), and the calls that wait for *)
(* an answer of the relay: Publish, PerformAuth with Auth, and Count.      *)
(* Subscriptions have a module of their own.                               *)
(*                                                                         *)
(* A Caller is one call, made by a goroutine of its own. Each writes one   *)
(* message through the unbuffered write queue and waits. That the pump     *)
(* takes a message, writes it and answers on the request's channel is one  *)
(* step: the caller waits on that channel and on nothing else meanwhile.   *)
(*                                                                         *)
(* The websocket library is external: a read that fails, or whose context  *)
(* is cancelled, leaves the socket closed; a ping needs a running read.    *)
(***************************************************************************)
EXTENDS Naturals, FiniteSets

CONSTANTS
  Publisher,    \* calls of Publish
  Auther,       \* calls of PerformAuth
  Counter,      \* calls of Count
  Id,           \* event ids
  IdOf,         \* the id of the event each Publisher or Auther sends
  Challenge,    \* the challenges the relay may send, each once
  None,         \* no challenge, no caller
  MaxCalls,     \* bound: calls made on the relay
  MaxAnswers,   \* bound: answers the relay sends to one message
  MaxPings      \* pings that fail before the pump closes the relay (3)

Caller == Publisher \cup Auther \cup Counter
Closing == {"user", "reader", "pump"}

ASSUME CallerAssumption ==
  /\ Publisher \cap Auther = {}
  /\ (Publisher \cup Auther) \cap Counter = {}
  /\ None \notin Caller \cup Challenge
ASSUME IdAssumption == IdOf \in [Publisher \cup Auther -> Id]
ASSUME BoundAssumption ==
  MaxCalls \in Nat /\ MaxAnswers \in Nat /\ MaxPings \in Nat \ {0}

VARIABLES
  connDone,      \* connectionContext is done
  cancelNil,     \* connectionContextCancel is nil: close() has been here
  connectionNil, \* Connection is nil
  socket,        \* the websocket: "open", "broken" or "closed"
  closeMutex,    \* holder of closeMutex between two steps of close()
  closePc,       \* progress of each goroutine in close()
  pump,          \* the write pump
  pingAttempt,   \* pings that failed in a row
  reader,        \* the read loop
  blockedOn,     \* the Counter the read loop hands a count to
  challenge,     \* the newest challenge
  challengeCh,   \* the buffered notification of one
  issued,        \* the challenges the relay has sent
  okCallbacks,   \* who waits for the OK of an id
  pc,            \* progress of each call
  ctxDone,       \* the call's context is done
  gotOk,         \* the call's OK has come
  rejected,      \* ... and was false
  result,        \* what the call returned
  authDone,      \* how often close(authDone) ran
  received,      \* the messages the relay got
  answers        \* answers the relay sent to each

connVars == <<connDone, cancelNil, connectionNil, socket,
              closeMutex, closePc>>
loopVars == <<pump, pingAttempt, reader, blockedOn>>
authVars == <<challenge, challengeCh, issued, authDone>>
callVars == <<okCallbacks, pc, ctxDone, gotOk, rejected, result>>
peerVars == <<received, answers>>
vars == <<connVars, loopVars, authVars, callVars, peerVars>>

TypeOK ==
  /\ connDone \in BOOLEAN
  /\ cancelNil \in BOOLEAN /\ connectionNil \in BOOLEAN
  /\ socket \in {"open", "broken", "closed"}
  /\ closeMutex \in Closing \cup {"none"}
  /\ closePc \in [Closing -> {"idle", "want", "check", "close", "done"}]
  /\ pump \in {"select", "closing", "exit", "done"}
  /\ pingAttempt \in 0..MaxPings
  /\ reader \in {"read", "notify", "count", "failed", "closing", "done"}
  /\ blockedOn \in Counter \cup {None}
  /\ challenge \in Challenge \cup {None}
  /\ challengeCh \in Challenge \cup {None}
  /\ issued \in SUBSET Challenge
  /\ okCallbacks \in [Id -> Publisher \cup Auther \cup {None}]
  /\ pc \in [Caller -> {"start", "wait", "sign", "queue", "await", "unsub",
                        "done"}]
  /\ ctxDone \in [Caller -> BOOLEAN]
  /\ gotOk \in [Publisher \cup Auther -> BOOLEAN]
  /\ rejected \in [Publisher \cup Auther -> BOOLEAN]
  /\ result \in [Caller -> {"none", "nil", "rejected", "ctx", "write", "lost"}]
  /\ authDone \in Nat
  /\ received \in SUBSET Caller
  /\ answers \in [Caller -> 0..MaxAnswers]

(* ConnectWithTLS has dialled and spawned the write pump and the read loop. *)
Init ==
  /\ connDone = FALSE /\ cancelNil = FALSE
  /\ connectionNil = FALSE
  /\ socket = "open"
  /\ closeMutex = "none"
  /\ closePc = [t \in Closing |-> "idle"]
  /\ pump = "select"
  /\ pingAttempt = 0
  /\ reader = "read"
  /\ blockedOn = None
  /\ challenge = None /\ challengeCh = None /\ issued = {}
  /\ okCallbacks = [i \in Id |-> None]
  /\ pc = [c \in Caller |-> "start"]
  /\ ctxDone = [c \in Caller |-> FALSE]
  /\ gotOk = [c \in Publisher \cup Auther |-> FALSE]
  /\ rejected = [c \in Publisher \cup Auther |-> FALSE]
  /\ result = [c \in Caller |-> "none"]
  /\ authDone = 0
  /\ received = {}
  /\ answers = [c \in Caller |-> 0]

-----------------------------------------------------------------------------
(***************************************************************************)
(* Returning from a call: publish's deferred Delete of the callback goes   *)
(* by the event id, whoever stored it.                                     *)
(***************************************************************************)
Return(c, r) ==
  /\ pc' = [pc EXCEPT ![c] = "done"]
  /\ result' = [result EXCEPT ![c] = r]

(* Mutation: the callback is not deleted.                                   *)
ReturnKeepingCallback(c, r) == Return(c, r) /\ UNCHANGED okCallbacks

ReturnFromPublish(c, r) ==
  /\ Return(c, r)
  /\ okCallbacks' = [okCallbacks EXCEPT ![IdOf[c]] = None]

(* A call that has not been made is made, as long as the bound allows it.   *)
Called(c) ==
  /\ pc[c] = "start"
  /\ Cardinality({d \in Caller : pc[d] # "start"}) < MaxCalls

(* publish stores its callback and goes to the write queue.                 *)
StoreCallback(c) ==
  /\ okCallbacks' = [okCallbacks EXCEPT ![IdOf[c]] = c]
  /\ pc' = [pc EXCEPT ![c] = "queue"]

Publish(c) ==
  /\ c \in Publisher
  /\ Called(c)
  /\ StoreCallback(c)
  /\ UNCHANGED <<connVars, loopVars, authVars, ctxDone, gotOk, rejected,
                 result, peerVars>>

(* PerformAuth looks for a challenge, and waits if there is none ...        *)
PerformAuth(c) ==
  /\ c \in Auther
  /\ Called(c)
  /\ pc' = [pc EXCEPT ![c] = IF challenge = None THEN "wait" ELSE "sign"]
  /\ UNCHANGED <<connVars, loopVars, authVars, okCallbacks, ctxDone, gotOk,
                 rejected, result, peerVars>>

(* ... for the notification,                                                *)
TakeChallenge(c) ==
  /\ c \in Auther
  /\ pc[c] = "wait"
  /\ challengeCh # None
  /\ challengeCh' = None
  /\ pc' = [pc EXCEPT ![c] = "sign"]
  /\ UNCHANGED <<connVars, loopVars, challenge, issued, authDone,
                 okCallbacks, ctxDone, gotOk, rejected, result, peerVars>>

(* ... its context or the end of the connection.                            *)
GiveUpChallenge(c) ==
  /\ c \in Auther
  /\ pc[c] = "wait"
  /\ \/ ctxDone[c] /\ Return(c, "ctx")
     \/ connDone /\ Return(c, "lost")
  /\ UNCHANGED <<connVars, loopVars, authVars, okCallbacks, ctxDone, gotOk,
                 rejected, peerVars>>

(* Auth has its event signed, for the newest challenge, and publishes it.   *)
Auth(c) ==
  /\ c \in Auther
  /\ pc[c] = "sign"
  /\ StoreCallback(c)
  /\ UNCHANGED <<connVars, loopVars, challenge, challengeCh, issued, authDone,
                 ctxDone, gotOk, rejected, result, peerVars>>

(* Count prepares a subscription and fires it.                              *)
Count(c) ==
  /\ c \in Counter
  /\ Called(c)
  /\ pc' = [pc EXCEPT ![c] = "queue"]
  /\ UNCHANGED <<connVars, loopVars, authVars, okCallbacks, ctxDone, gotOk,
                 rejected, result, peerVars>>

(* The deadline each call has, or gets (7 seconds), or its caller's cancel. *)
Timeout(c) ==
  /\ pc[c] \notin {"start", "done"}
  /\ ~ctxDone[c]
  /\ ctxDone' = [ctxDone EXCEPT ![c] = TRUE]
  /\ UNCHANGED <<connVars, loopVars, authVars, okCallbacks, pc, gotOk,
                 rejected, result, peerVars>>

-----------------------------------------------------------------------------
(***************************************************************************)
(* The write queue and the pump.                                           *)
(***************************************************************************)
WriteSucceeds(c) ==
  /\ pc[c] = "queue"
  /\ pump = "select"
  /\ socket = "open" /\ ~connDone
  /\ pc' = [pc EXCEPT ![c] = "await"]
  /\ received' = received \cup {c}
  /\ UNCHANGED <<connVars, loopVars, authVars, okCallbacks, ctxDone, gotOk,
                 rejected, result, answers>>

(* Mutation: Write only queues, whether or not the connection is done.      *)
WriteOnlyQueues(c) ==
  /\ pc[c] = "queue"
  /\ pump = "select" /\ (socket # "open" \/ connDone)
  /\ IF c \in Counter
     THEN Return(c, "write") /\ UNCHANGED okCallbacks
     ELSE ReturnFromPublish(c, "write")
  /\ UNCHANGED <<connVars, loopVars, authVars, ctxDone, gotOk, rejected,
                 peerVars>>

(* WriteMessage returns an error, or Write finds the connection done: the   *)
(* call returns the error.                                                  *)
WriteFails(c) ==
  /\ pc[c] = "queue"
  /\ connDone \/ (pump = "select" /\ socket # "open")
  /\ IF c \in Counter
     THEN Return(c, "write") /\ UNCHANGED okCallbacks
     ELSE ReturnFromPublish(c, "write")
  /\ UNCHANGED <<connVars, loopVars, authVars, ctxDone, gotOk, rejected,
                 peerVars>>

(* countInternal's deferred unsub writes its CLOSE, or fails to.            *)
CountUnsubs(c) ==
  /\ pc[c] = "unsub"
  /\ connDone \/ pump = "select"
  /\ pc' = [pc EXCEPT ![c] = "done"]
  /\ UNCHANGED <<connVars, loopVars, authVars, okCallbacks, ctxDone, gotOk,
                 rejected, result, peerVars>>

PingSucceeds ==
  /\ pump = "select"
  /\ socket = "open" /\ ~connDone
  /\ reader \in {"read", "notify"}
  /\ pingAttempt > 0
  /\ pingAttempt' = 0
  /\ UNCHANGED <<connVars, pump, reader, blockedOn, authVars, callVars,
                 peerVars>>

(* Mutation: after too many failed pings the pump returns and leaves the    *)
(* relay open.                                                              *)
PingFailsQuietly ==
  /\ pump = "select"
  /\ socket # "open" \/ reader \notin {"read", "notify"}
  /\ pingAttempt < MaxPings
  /\ pingAttempt' = pingAttempt + 1
  /\ pump' = IF pingAttempt' = MaxPings THEN "exit" ELSE pump
  /\ UNCHANGED <<connVars, reader, blockedOn, authVars, callVars, peerVars>>

(* A ping fails on a dead socket, or if nobody reads its pong.              *)
PingFails ==
  /\ pump = "select"
  /\ socket # "open" \/ reader \notin {"read", "notify"}
  /\ pingAttempt < MaxPings
  /\ pingAttempt' = pingAttempt + 1
  /\ IF pingAttempt' = MaxPings
     THEN /\ pump' = "closing"
          /\ closePc' = [closePc EXCEPT !["pump"] = "want"]
     ELSE UNCHANGED <<pump, closePc>>
  /\ UNCHANGED <<connDone, cancelNil, connectionNil, socket,
                 closeMutex, reader, blockedOn, authVars, callVars, peerVars>>

(* The pump returns, its count of failed pings gone with it.                *)
PumpStops ==
  /\ \/ pump = "select" /\ connDone
     \/ pump = "closing" /\ closePc["pump"] = "done"
  /\ pump' = "exit"
  /\ pingAttempt' = 0
  /\ UNCHANGED <<connVars, reader, blockedOn, authVars, callVars, peerVars>>

(* Mutation: Connection is nilled without closeMutex.                       *)
PumpCleansUpUnlocked ==
  /\ pump = "exit"
  /\ connectionNil' = TRUE
  /\ pump' = "done"
  /\ UNCHANGED <<connDone, cancelNil, socket, closeMutex, closePc,
                 pingAttempt, reader, blockedOn, authVars, callVars, peerVars>>

(* The pump's deferred cleanup nils Connection under closeMutex. What it     *)
(* does to the subscriptions is in module Subscription.                     *)
PumpCleansUp ==
  /\ pump = "exit"
  /\ closeMutex = "none"
  /\ connectionNil' = TRUE
  /\ pump' = "done"
  /\ UNCHANGED <<connDone, cancelNil, socket, closeMutex, closePc,
                 pingAttempt, reader, blockedOn, authVars, callVars, peerVars>>

-----------------------------------------------------------------------------
(***************************************************************************)
(* The read loop.                                                          *)
(***************************************************************************)
CanRead == reader = "read" /\ socket = "open" /\ ~connDone

(* AUTH: record the challenge and drop a notification nobody took; then     *)
(* notify.                                                                  *)
ReadAuth(ch) ==
  /\ CanRead
  /\ ch \notin issued
  /\ issued' = issued \cup {ch}
  /\ challenge' = ch
  /\ challengeCh' = None
  /\ reader' = "notify"
  /\ UNCHANGED <<connVars, pump, pingAttempt, blockedOn, authDone,
                 callVars, peerVars>>

(* Mutation: the challenge is recorded, and nobody notified.                *)
NotifyNobody ==
  /\ reader = "notify"
  /\ reader' = "read"
  /\ UNCHANGED <<connVars, pump, pingAttempt, blockedOn, challenge, challengeCh,
                 issued, authDone, callVars, peerVars>>

NotifyChallenge ==
  /\ reader = "notify"
  /\ challengeCh = None
  /\ challengeCh' = challenge
  /\ reader' = "read"
  /\ UNCHANGED <<connVars, pump, pingAttempt, blockedOn, challenge, issued,
                 authDone, callVars, peerVars>>

(* The relay answers messages it got, each a bounded number of times.       *)
Answer(c) ==
  /\ CanRead
  /\ c \in received
  /\ answers[c] < MaxAnswers
  /\ answers' = [answers EXCEPT ![c] = @ + 1]

(* OK: the callback stored for the id marks its call and cancels its wait.  *)
ReadOk(c, ok) ==
  /\ c \notin Counter
  /\ Answer(c)
  /\ LET waiting == okCallbacks[IdOf[c]] IN
       IF waiting = None
       THEN UNCHANGED <<gotOk, rejected, ctxDone>>
       ELSE /\ gotOk' = [gotOk EXCEPT ![waiting] = TRUE]
            /\ rejected' = [rejected EXCEPT ![waiting] = @ \/ ~ok]
            /\ ctxDone' = [ctxDone EXCEPT ![waiting] = TRUE]
  /\ UNCHANGED <<connVars, loopVars, authVars, okCallbacks, pc, result,
                 received>>

(* COUNT: the loop blocks until the call takes the answer, if it finds the  *)
(* subscription in the map; the end of the context may have removed it.     *)
ReadCount(c) ==
  /\ c \in Counter
  /\ Answer(c)
  /\ \/ /\ pc[c] \in {"await", "unsub"}
        /\ reader' = "count"
        /\ blockedOn' = c
     \/ /\ pc[c] = "done" \/ ctxDone[c]
        /\ UNCHANGED <<reader, blockedOn>>
  /\ UNCHANGED <<connVars, pump, pingAttempt, authVars, callVars, received>>

(* ReadMessage fails; ConnectionError is set under closeMutex, which is     *)
(* released before close() takes it again.                                  *)
ReadFails ==
  /\ reader = "read"
  /\ socket # "open" \/ connDone
  /\ socket' = "closed"
  /\ reader' = "failed"
  /\ UNCHANGED <<connDone, cancelNil, connectionNil, closeMutex,
                 closePc, pump, pingAttempt, blockedOn, authVars, callVars,
                 peerVars>>

SetConnectionError ==
  /\ reader = "failed"
  /\ closeMutex = "none"
  /\ reader' = "closing"
  /\ closePc' = [closePc EXCEPT !["reader"] = "want"]
  /\ UNCHANGED <<connDone, cancelNil, connectionNil, socket,
                 closeMutex, pump, pingAttempt, blockedOn, authVars, callVars,
                 peerVars>>

ReaderStops ==
  /\ reader = "closing"
  /\ closePc["reader"] = "done"
  /\ reader' = "done"
  /\ UNCHANGED <<connVars, pump, pingAttempt, blockedOn, authVars, callVars,
                 peerVars>>

-----------------------------------------------------------------------------
(***************************************************************************)
(* The waits of publish and countInternal.                                 *)
(***************************************************************************)

(* Mutation: the error is returned without a look at gotOk.                 *)
PublishReturnsErr(c) ==
  /\ c \notin Counter
  /\ pc[c] = "await"
  /\ ctxDone[c]
  /\ ReturnFromPublish(c, IF rejected[c] THEN "rejected" ELSE "nil")

(* publish's select: context first ...                                      *)
PublishCtxDone(c) ==
  /\ c \notin Counter
  /\ pc[c] = "await"
  /\ ctxDone[c]
  /\ ReturnFromPublish(c, IF gotOk[c]
                          THEN IF rejected[c] THEN "rejected" ELSE "nil"
                          ELSE "ctx")

(* ... or connection: the error returned is the one the callback sets.      *)
PublishConnDone(c) ==
  /\ c \notin Counter
  /\ pc[c] = "await"
  /\ connDone
  /\ ReturnFromPublish(c, IF rejected[c] THEN "rejected" ELSE "nil")

(* Auth closes authDone, under authOnce, when publish returned no error.    *)
PublishReturns(c) ==
  /\ PublishCtxDone(c) \/ PublishConnDone(c)
  /\ authDone' = IF c \in Auther /\ result'[c] = "nil" /\ authDone = 0
                 THEN authDone + 1 ELSE authDone
  /\ UNCHANGED <<connVars, loopVars, challenge, challengeCh, issued, 
                 ctxDone, gotOk, rejected, peerVars>>

CountTakes(c) ==
  /\ reader = "count" /\ blockedOn = c
  /\ pc[c] = "await"
  /\ reader' = "read"
  /\ blockedOn' = None
  /\ pc' = [pc EXCEPT ![c] = "unsub"]
  /\ result' = [result EXCEPT ![c] = "nil"]
  /\ UNCHANGED <<connVars, pump, pingAttempt, authVars, okCallbacks, ctxDone,
                 gotOk, rejected, peerVars>>

CountGivesUp(c) ==
  /\ c \in Counter
  /\ pc[c] = "await"
  /\ ctxDone[c]
  /\ pc' = [pc EXCEPT ![c] = "unsub"]
  /\ result' = [result EXCEPT ![c] = "ctx"]
  /\ UNCHANGED <<connVars, loopVars, authVars, okCallbacks, ctxDone, gotOk,
                 rejected, peerVars>>

-----------------------------------------------------------------------------
(***************************************************************************)
(* close(), by the user, the read loop or the pump.                        *)
(***************************************************************************)
UserCloses ==
  /\ closePc["user"] = "idle"
  /\ closePc' = [closePc EXCEPT !["user"] = "want"]
  /\ UNCHANGED <<connDone, cancelNil, connectionNil, socket,
                 closeMutex, loopVars, authVars, callVars, peerVars>>

(* Mutation: a close() that comes late returns without unlocking.           *)
CloseKeepsMutex(t) ==
  /\ closePc[t] = "want"
  /\ closeMutex = "none"
  /\ closeMutex' = t
  /\ IF cancelNil
     THEN /\ closePc' = [closePc EXCEPT ![t] = "done"]
          /\ UNCHANGED <<connDone, cancelNil>>
     ELSE /\ closePc' = [closePc EXCEPT ![t] = "check"]
          /\ connDone' = TRUE
          /\ cancelNil' = TRUE
  /\ UNCHANGED <<connectionNil, socket, loopVars, authVars,
                 callVars, peerVars>>

(* Only the first close() has a cancel to call.                             *)
CloseCancels(t) ==
  /\ closePc[t] = "want"
  /\ closeMutex = "none"
  /\ IF cancelNil
     THEN /\ closePc' = [closePc EXCEPT ![t] = "done"]
          /\ UNCHANGED <<connDone, cancelNil, closeMutex>>
     ELSE /\ closePc' = [closePc EXCEPT ![t] = "check"]
          /\ connDone' = TRUE
          /\ cancelNil' = TRUE
          /\ closeMutex' = t
  /\ UNCHANGED <<connectionNil, socket, loopVars, authVars,
                 callVars, peerVars>>

CloseChecks(t) ==
  /\ closePc[t] = "check"
  /\ IF connectionNil
     THEN closePc' = [closePc EXCEPT ![t] = "done"] /\ closeMutex' = "none"
     ELSE closePc' = [closePc EXCEPT ![t] = "close"] /\ UNCHANGED closeMutex
  /\ UNCHANGED <<connDone, cancelNil, connectionNil, socket,
                 loopVars, authVars, callVars, peerVars>>

CloseSocket(t) ==
  /\ closePc[t] = "close"
  /\ socket' = "closed"
  /\ closePc' = [closePc EXCEPT ![t] = "done"]
  /\ closeMutex' = "none"
  /\ UNCHANGED <<connDone, cancelNil, connectionNil, loopVars,
                 authVars, callVars, peerVars>>

(* The context given to NewRelay is cancelled; on a done connection that    *)
(* changes nothing.                                                         *)
ParentCancelled ==
  /\ ~connDone
  /\ connDone' = TRUE
  /\ UNCHANGED <<cancelNil, connectionNil, socket, closeMutex, closePc,
                 loopVars, authVars, callVars, peerVars>>

SocketBreaks ==
  /\ socket = "open"
  /\ socket' = "broken"
  /\ UNCHANGED <<connDone, cancelNil, connectionNil, closeMutex,
                 closePc, loopVars, authVars, callVars, peerVars>>

-----------------------------------------------------------------------------
CallStep(c) ==
  \/ Publish(c) \/ PerformAuth(c) \/ TakeChallenge(c) \/ GiveUpChallenge(c)
  \/ Auth(c) \/ Count(c) \/ WriteSucceeds(c) \/ WriteFails(c)
  \/ CountUnsubs(c) \/ PublishReturns(c) \/ CountTakes(c) \/ CountGivesUp(c)

CloseStep(t) == CloseCancels(t) \/ CloseChecks(t) \/ CloseSocket(t)

Next ==
  \/ \E c \in Caller : CallStep(c) \/ Timeout(c)
  \/ PingSucceeds \/ PingFails \/ PumpStops \/ PumpCleansUp
  \/ \E ch \in Challenge : ReadAuth(ch)
  \/ NotifyChallenge
  \/ \E c \in Caller : (\E ok \in BOOLEAN : ReadOk(c, ok)) \/ ReadCount(c)
  \/ ReadFails \/ SetConnectionError \/ ReaderStops
  \/ UserCloses
  \/ \E t \in Closing : CloseStep(t)
  \/ ParentCancelled \/ SocketBreaks

Spec == Init /\ [][Next]_vars

(***************************************************************************)
(* Every goroutine that can run does; the ticker ticks; publish and        *)
(* countInternal have a deadline while they wait for the relay. The relay, *)
(* the user and the context of a PerformAuth owe nothing.                  *)
(***************************************************************************)
FairSpec ==
  /\ Spec
  /\ \A c \in Caller : WF_vars(CallStep(c))
  /\ \A c \in Caller : WF_vars(pc[c] = "await" /\ Timeout(c))
  /\ WF_vars(PingFails) /\ WF_vars(PumpStops) /\ WF_vars(PumpCleansUp)
  /\ WF_vars(NotifyChallenge)
  /\ WF_vars(ReadFails) /\ WF_vars(SetConnectionError) /\ WF_vars(ReaderStops)
  /\ \A t \in Closing : WF_vars(CloseStep(t))

-----------------------------------------------------------------------------
(***************************************************************************)
(* Safety.                                                                 *)
(***************************************************************************)

(* close() never dereferences a nil Connection, though the pump nils it on  *)
(* the very cancellation that close() causes (relay.go:213).                *)
NoNilClose == \A t \in Closing : closePc[t] = "close" => ~connectionNil

(* A publish that returns no error was accepted by the relay, or the        *)
(* connection ended under it; and only an accepted AUTH, or that, closes    *)
(* authDone, once (relay.go:44).                                            *)
SuccessMeansAcceptedOrLost ==
  /\ \A c \in Publisher \cup Auther :
       result[c] = "nil" => connDone \/ (gotOk[c] /\ ~rejected[c])
  /\ authDone > 0 => connDone \/ \E c \in Auther : gotOk[c] /\ ~rejected[c]
  /\ authDone <= 1

(* Publish returns without an error only after an OK (relay.go:394).        *)
NilMeansAccepted ==
  \A c \in Publisher : result[c] = "nil" => gotOk[c] /\ ~rejected[c]

(* Whoever waits for an OK can be called back, and nobody else is.          *)
CallbacksMatchWaits ==
  \A c \in Publisher \cup Auther :
    okCallbacks[IdOf[c]] = c <=> pc[c] \in {"queue", "await"}

-----------------------------------------------------------------------------
(***************************************************************************)
(* Liveness.                                                               *)
(***************************************************************************)

(* A publish or count that got to the write queue returns: nobody waits for *)
(* the relay for ever.                                                      *)
CallsReturn ==
  []<>(\A c \in Caller : pc[c] \notin {"queue", "await", "unsub"})

(* However the connection ends, the pump cleans up and the socket is closed *)
(* (relay.go:58), if the read loop is not stuck for ever on a count that    *)
(* nobody takes any more.                                                   *)
TeardownCompletes ==
  []<>(reader # "count") => connDone ~> (connectionNil /\ socket = "closed")

(* A dead socket is noticed and torn down.                                  *)
BreakIsNoticed == socket = "broken" ~> connDone

(* PerformAuth does not wait on once a challenge is known (relay.go:424).   *)
ChallengeWakesAuth ==
  \A c \in Auther : (pc[c] = "wait" /\ challenge # None) ~> pc[c] # "wait"
=============================================================================
