------------------------------ MODULE Relay_proofs ------------------------------
(***************************************************************************)
(* The safety of one relay connection, for any number of calls, challenges  *)
(* and answers: close() never uses a nil Connection; and, for calls that    *)
(* each send an event of their own, the OK of an event reaches the call     *)
(* that waits for it, and a call that succeeds was accepted or cut off.     *)
(***************************************************************************)
EXTENDS Relay, TLAPS

(***************************************************************************)
(* Closing: who is past the check of close() holds closeMutex, and the      *)
(* pump needs it to nil Connection.                                         *)
(***************************************************************************)
ClosingInv ==
  /\ closePc \in [Closing -> {"idle", "want", "check", "close", "done"}]
  /\ \A t \in Closing : closePc[t] \in {"check", "close"} => closeMutex = t
  /\ NoNilClose

(* Nobody gets into close(), or further in it, by these steps.              *)
ClosingRests ==
  /\ UNCHANGED <<connectionNil, closeMutex>>
  /\ \/ UNCHANGED closePc
     \/ \E t \in Closing : closePc' = [closePc EXCEPT ![t] = "want"]

LEMMA ClosingInit == Init => ClosingInv
BY DEF Init, ClosingInv, NoNilClose, Closing

LEMMA RestKeepsClosing ==
  ASSUME ClosingInv, ClosingRests
  PROVE  ClosingInv'
BY DEF ClosingInv, ClosingRests, NoNilClose

LEMMA CallsRest ==
  ASSUME NEW c \in Caller,
         CallStep(c) \/ Timeout(c) \/ ReadCount(c) \/ \E ok \in BOOLEAN : ReadOk(c, ok)
  PROVE  ClosingRests /\ UNCHANGED closePc
<1> USE DEF ClosingRests, connVars
<1>1. CASE \/ Publish(c) \/ PerformAuth(c) \/ TakeChallenge(c)
           \/ GiveUpChallenge(c) \/ Auth(c) \/ Count(c)
  BY <1>1 DEF Publish, PerformAuth, TakeChallenge, GiveUpChallenge, Auth, Count
<1>2. CASE \/ WriteSucceeds(c) \/ WriteFails(c) \/ CountUnsubs(c)
           \/ PublishReturns(c)
  BY <1>2 DEF WriteSucceeds, WriteFails, CountUnsubs, PublishReturns
<1>3. CASE \/ CountTakes(c) \/ CountGivesUp(c) \/ Timeout(c) \/ ReadCount(c)
           \/ \E ok \in BOOLEAN : ReadOk(c, ok)
  BY <1>3 DEF CountTakes, CountGivesUp, Timeout, ReadCount, ReadOk
<1> QED
  BY <1>1, <1>2, <1>3 DEF CallStep

LEMMA ClosingNext ==
  ASSUME ClosingInv, [Next]_vars
  PROVE  ClosingInv'
<1>1. ASSUME NEW c \in Caller,
             \/ CallStep(c) \/ Timeout(c) \/ ReadCount(c)
             \/ \E ok \in BOOLEAN : ReadOk(c, ok)
      PROVE  ClosingInv'
  BY <1>1, CallsRest, RestKeepsClosing
<1>2. CASE PingSucceeds \/ PingFails \/ PumpStops
  <2>1. ClosingRests
    BY <1>2 DEF PingSucceeds, PingFails, PumpStops, ClosingRests, connVars, Closing
  <2> QED
    BY <2>1, RestKeepsClosing
<1>3. CASE PumpCleansUp
  <2>1. \A t \in Closing : closePc[t] # "close"
    BY <1>3 DEF PumpCleansUp, ClosingInv, Closing
  <2> QED
    BY <1>3, <2>1 DEF PumpCleansUp, ClosingInv, NoNilClose
<1>4. CASE (\E ch \in Challenge : ReadAuth(ch)) \/ NotifyChallenge
  <2>1. ClosingRests
    BY <1>4 DEF ReadAuth, NotifyChallenge, ClosingRests, connVars
  <2> QED
    BY <2>1, RestKeepsClosing
<1>5. CASE ReadFails \/ SetConnectionError \/ ReaderStops \/ UserCloses
  <2>1. ClosingRests
    BY <1>5 DEF ReadFails, SetConnectionError, ReaderStops, UserCloses,
                ClosingRests, connVars, Closing
  <2> QED
    BY <2>1, RestKeepsClosing
<1>6. ASSUME NEW t \in Closing, CloseStep(t) PROVE ClosingInv'
  <2>1. CASE CloseCancels(t)
    <3>1. t # "none" /\ \A s \in Closing : closePc[s] \notin {"check", "close"}
      BY <2>1 DEF CloseCancels, ClosingInv, Closing
    <3>2. connectionNil' = connectionNil
      BY <2>1 DEF CloseCancels
    <3> QED
      BY <2>1, <3>1, <3>2 DEF CloseCancels, ClosingInv, NoNilClose
  <2>2. CASE CloseChecks(t)
    <3>1. \A s \in Closing : closePc[s] \in {"check", "close"} => s = t
      BY <2>2 DEF CloseChecks, ClosingInv
    <3> QED
      BY <2>2, <3>1 DEF CloseChecks, ClosingInv, NoNilClose
  <2>3. CASE CloseSocket(t)
    <3>1. \A s \in Closing : closePc[s] \in {"check", "close"} => s = t
      BY <2>3 DEF CloseSocket, ClosingInv
    <3> QED
      BY <2>3, <3>1 DEF CloseSocket, ClosingInv, NoNilClose
  <2> QED
    BY <1>6, <2>1, <2>2, <2>3 DEF CloseStep
<1>7. CASE ParentCancelled \/ SocketBreaks \/ UNCHANGED vars
  <2>1. ClosingRests
    BY <1>7 DEF ParentCancelled, SocketBreaks, vars, ClosingRests, connVars
  <2> QED
    BY <2>1, RestKeepsClosing
<1> QED
  BY <1>1, <1>2, <1>3, <1>4, <1>5, <1>6, <1>7 DEF Next

(* close() never dereferences a nil Connection, however many goroutines     *)
(* close the relay and whenever the pump cleans up (relay.go:213, 657).     *)
THEOREM CloseIsSafe == Spec => []NoNilClose
<1>1. Init => ClosingInv
  BY ClosingInit
<1>2. ClosingInv /\ [Next]_vars => ClosingInv'
  BY ClosingNext
<1>3. ClosingInv => NoNilClose
  BY DEF ClosingInv
<1> QED
  BY <1>1, <1>2, <1>3, PTL DEF Spec
--------------------------------------------------------------------------------
(***************************************************************************)
(* The calls that wait for an OK. okCallbacks goes by the id of the event:  *)
(* what follows is for calls that each send an event of their own.          *)
(***************************************************************************)
Sender == Publisher \cup Auther
OwnEvents == \A c, d \in Sender : IdOf[c] = IdOf[d] => c = d

Awaiting == {"queue", "await"}

CallTypes ==
  /\ pc \in [Caller -> {"start", "wait", "sign", "queue", "await", "unsub",
                        "done"}]
  /\ \A c \in Sender : pc[c] # "unsub"
  /\ blockedOn \in Counter \cup {None}
  /\ okCallbacks \in [Id -> Sender \cup {None}]
  /\ gotOk \in [Sender -> BOOLEAN]
  /\ rejected \in [Sender -> BOOLEAN]
  /\ result \in [Caller -> {"none", "nil", "rejected", "ctx", "write", "lost"}]
  /\ authDone \in {0, 1}

Accepted(c) == gotOk[c] /\ ~rejected[c]

(* A call has no result before it is done, so that an OK, which finds only  *)
(* who waits, cannot contradict one.                                        *)
ResultsStand ==
  /\ \A c \in Sender : pc[c] # "done" => result[c] = "none"
  /\ \A c \in Sender : result[c] = "nil" => connDone \/ Accepted(c)
  /\ authDone > 0 => connDone \/ \E c \in Auther : result[c] = "nil"

CallbacksLeadHome ==
  \A i \in Id : okCallbacks[i] # None => IdOf[okCallbacks[i]] = i

CallsInv ==
  CallTypes /\ CallbacksLeadHome /\ CallbacksMatchWaits /\ ResultsStand

LEMMA Senders ==
  /\ None \notin Caller /\ Sender \subseteq Caller
  /\ \A c \in Caller : c \in Sender <=> c \notin Counter
  /\ \A c \in Sender : IdOf[c] \in Id
BY CallerAssumption, IdAssumption DEF Caller, Sender

LEMMA CallsInit == Init => CallsInv
<1> SUFFICES ASSUME Init PROVE CallsInv
  OBVIOUS
<1>1. CallTypes
  BY Senders DEF Init, CallTypes, Sender
<1>2. CallbacksLeadHome /\ CallbacksMatchWaits
  BY Senders DEF Init, CallbacksLeadHome, CallbacksMatchWaits, Sender
<1>3. ResultsStand
  BY Senders DEF Init, ResultsStand
<1> QED
  BY <1>1, <1>2, <1>3 DEF CallsInv

(* A step of a counter, or of a sender that is not waiting for an OK and    *)
(* does not begin to, or goes on waiting for one.                           *)
MovesOn(c, to) ==
  /\ c \in Caller
  /\ pc' = [pc EXCEPT ![c] = to]
  /\ to \in {"wait", "sign", "queue", "await", "unsub", "done"}
  /\ c \in Sender => /\ pc[c] \in Awaiting <=> to \in Awaiting
                     /\ pc[c] # "done" /\ to \notin {"unsub", "done"}
                     /\ result' = result
  /\ \/ result' = result
     \/ \E r \in {"nil", "ctx", "write"} : result' = [result EXCEPT ![c] = r]
  /\ blockedOn' \in {blockedOn, None}
  /\ UNCHANGED <<okCallbacks, gotOk, rejected, authDone, connDone>>

LEMMA MovesOnKeeps ==
  ASSUME CallsInv, NEW c, NEW to, MovesOn(c, to)
  PROVE  CallsInv'
<1>1. \A d \in Sender :
        /\ result'[d] = result[d]
        /\ pc'[d] \in Awaiting <=> pc[d] \in Awaiting
        /\ pc'[d] # "unsub"
        /\ pc'[d] # "done" => pc[d] # "done"
  BY Senders DEF MovesOn, CallsInv, CallTypes
<1>2. CallTypes'
  <2>1. /\ pc' \in [Caller -> {"start", "wait", "sign", "queue", "await",
                                "unsub", "done"}]
        /\ result' \in [Caller -> {"none", "nil", "rejected", "ctx", "write",
                                    "lost"}]
    BY DEF MovesOn, CallsInv, CallTypes
  <2> QED
    BY <1>1, <2>1 DEF MovesOn, CallsInv, CallTypes
<1>3. CallbacksLeadHome' /\ CallbacksMatchWaits'
  BY <1>1 DEF MovesOn, CallsInv, CallbacksLeadHome, CallbacksMatchWaits,
              Awaiting, Sender
<1>4. ResultsStand'
  BY <1>1 DEF MovesOn, CallsInv, ResultsStand, Accepted, Sender
<1> QED
  BY <1>2, <1>3, <1>4 DEF CallsInv

LEMMA StoreKeeps ==
  ASSUME OwnEvents, CallsInv, NEW c \in Sender, StoreCallback(c),
         pc[c] \in {"start", "sign"},
         UNCHANGED <<blockedOn, gotOk, rejected, result, authDone, connDone>>
  PROVE  CallsInv'
<1> USE DEF StoreCallback
<1>1. \A d \in Caller : pc'[d] = IF d = c THEN "queue" ELSE pc[d]
  BY DEF CallsInv, CallTypes
<1>2. \A i \in Id : okCallbacks'[i] = IF i = IdOf[c] THEN c ELSE okCallbacks[i]
  BY DEF CallsInv, CallTypes
<1>3. CallTypes'
  BY <1>1, Senders DEF CallsInv, CallTypes
<1>4. CallbacksLeadHome'
  BY <1>2 DEF CallsInv, CallbacksLeadHome
<1>5. CallbacksMatchWaits'
  <2>1. ASSUME NEW d \in Sender
        PROVE  okCallbacks'[IdOf[d]] = d <=> pc'[d] \in {"queue", "await"}
    <3>1. CASE d = c
      BY <1>1, <1>2, <3>1, Senders
    <3>2. CASE d # c
      <4>1. IdOf[d] # IdOf[c]
        BY <3>2 DEF OwnEvents
      <4> QED
        BY <1>1, <1>2, <3>2, <4>1, Senders
           DEF CallsInv, CallbacksMatchWaits, Sender
    <3> QED
      BY <3>1, <3>2
  <2> QED
    BY <2>1 DEF CallbacksMatchWaits, Sender
<1>6. ResultsStand'
  BY <1>1, Senders DEF CallsInv, ResultsStand, Accepted
<1> QED
  BY <1>3, <1>4, <1>5, <1>6 DEF CallsInv

(* A sender that waits returns, with nil only if accepted or cut off.       *)
LEMMA ReturnKeeps ==
  ASSUME OwnEvents, CallsInv, NEW c \in Sender, pc[c] \in Awaiting,
         NEW r \in {"nil", "rejected", "ctx", "write"},
         ReturnFromPublish(c, r),
         r = "nil" => connDone \/ Accepted(c),
         \/ authDone' = authDone
         \/ c \in Auther /\ r = "nil" /\ authDone' = 1,
         UNCHANGED <<blockedOn, gotOk, rejected, connDone>>
  PROVE  CallsInv'
<1> USE DEF ReturnFromPublish, Return
<1>1. \A d \in Caller : /\ pc'[d] = IF d = c THEN "done" ELSE pc[d]
                        /\ result'[d] = IF d = c THEN r ELSE result[d]
  BY DEF CallsInv, CallTypes
<1>2. \A i \in Id : okCallbacks'[i] = IF i = IdOf[c] THEN None ELSE okCallbacks[i]
  BY DEF CallsInv, CallTypes
<1>3. CallTypes'
  BY <1>1, Senders DEF CallsInv, CallTypes
<1>4. CallbacksLeadHome'
  BY <1>2 DEF CallsInv, CallbacksLeadHome
<1>5. CallbacksMatchWaits'
  <2>1. ASSUME NEW d \in Sender
        PROVE  okCallbacks'[IdOf[d]] = d <=> pc'[d] \in {"queue", "await"}
    <3>1. CASE d = c
      BY <1>1, <1>2, <3>1, Senders
    <3>2. CASE d # c
      <4>1. IdOf[d] # IdOf[c]
        BY <3>2 DEF OwnEvents
      <4> QED
        BY <1>1, <1>2, <3>2, <4>1, Senders
           DEF CallsInv, CallbacksMatchWaits, Sender
    <3> QED
      BY <3>1, <3>2
  <2> QED
    BY <2>1 DEF CallbacksMatchWaits, Sender
<1>6. ResultsStand'
  <2>1. \A d \in Sender : pc'[d] # "done" => result'[d] = "none"
    BY <1>1, Senders DEF CallsInv, ResultsStand
  <2>2. \A d \in Sender : result'[d] = "nil" => connDone \/ Accepted(d)
    BY <1>1, Senders DEF CallsInv, ResultsStand
  <2>3. \A d \in Sender : result[d] = "nil" => result'[d] = "nil"
    BY <1>1, Senders DEF CallsInv, ResultsStand, Awaiting
  <2>4. authDone' > 0 => connDone \/ \E d \in Auther : result'[d] = "nil"
    BY <1>1, <2>3, Senders DEF CallsInv, ResultsStand, Sender
  <2> QED
    BY <2>1, <2>2, <2>4 DEF ResultsStand, Accepted
<1> QED
  BY <1>3, <1>4, <1>5, <1>6 DEF CallsInv

(* PerformAuth gives up before it has sent anything.                        *)
LEMMA GiveUpKeeps ==
  ASSUME CallsInv, NEW c \in Sender, pc[c] = "wait",
         NEW r \in {"ctx", "lost"}, Return(c, r),
         UNCHANGED <<blockedOn, okCallbacks, gotOk, rejected, authDone, connDone>>
  PROVE  CallsInv'
<1>1. \A d \in Caller : /\ pc'[d] = IF d = c THEN "done" ELSE pc[d]
                        /\ result'[d] = IF d = c THEN r ELSE result[d]
  BY DEF Return, CallsInv, CallTypes
<1>2. CallTypes'
  BY <1>1, Senders DEF Return, CallsInv, CallTypes
<1>3. CallbacksLeadHome' /\ CallbacksMatchWaits'
  BY <1>1, Senders DEF CallsInv, CallbacksLeadHome, CallbacksMatchWaits, Sender
<1>4. ResultsStand'
  <2>1. \A d \in Sender : result'[d] = "nil" <=> result[d] = "nil"
    BY <1>1, Senders DEF CallsInv, ResultsStand
  <2> QED
    BY <1>1, <2>1, Senders DEF CallsInv, ResultsStand, Accepted, Sender
<1> QED
  BY <1>2, <1>3, <1>4 DEF CallsInv

(* An OK marks only a call that waits for it, and so has no result yet.     *)
LEMMA ReadOkKeeps ==
  ASSUME CallsInv, NEW c \in Caller, NEW ok \in BOOLEAN, ReadOk(c, ok)
  PROVE  CallsInv'
<1> DEFINE waiting == okCallbacks[IdOf[c]]
<1>1. UNCHANGED <<connDone, blockedOn, authDone, okCallbacks, pc, result>>
  BY DEF ReadOk, connVars, loopVars, authVars
<1>2. c \in Sender /\ IdOf[c] \in Id
  BY Senders DEF ReadOk
<1>3. CASE waiting = None
  <2>1. UNCHANGED <<gotOk, rejected>>
    BY <1>3 DEF ReadOk
  <2> QED
    BY <1>1, <2>1 DEF CallsInv, CallTypes, CallbacksLeadHome,
       CallbacksMatchWaits, ResultsStand, Accepted
<1>4. CASE waiting # None
  <2>1. waiting \in Sender
    BY <1>2, <1>4 DEF CallsInv, CallTypes
  <2>2. IdOf[waiting] = IdOf[c]
    BY <1>2, <1>4 DEF CallsInv, CallbacksLeadHome
  <2>3. pc[waiting] \in {"queue", "await"}
    BY <2>1, <2>2 DEF CallsInv, CallbacksMatchWaits, Sender
  <2>4. result[waiting] = "none"
    BY <2>1, <2>3 DEF CallsInv, ResultsStand
  <2>5. /\ gotOk' = [gotOk EXCEPT ![waiting] = TRUE]
        /\ rejected' = [rejected EXCEPT ![waiting] = @ \/ ~ok]
    BY <1>4 DEF ReadOk
  <2>6. gotOk' \in [Sender -> BOOLEAN] /\ rejected' \in [Sender -> BOOLEAN]
    BY <2>1, <2>5 DEF CallsInv, CallTypes
  <2>7. \A d \in Sender : d # waiting =>
          gotOk'[d] = gotOk[d] /\ rejected'[d] = rejected[d]
    BY <2>5 DEF CallsInv, CallTypes
  <2>8. CallTypes' /\ CallbacksLeadHome' /\ CallbacksMatchWaits'
    BY <1>1, <2>6 DEF CallsInv, CallTypes, CallbacksLeadHome, CallbacksMatchWaits
  <2>9. ResultsStand'
    <3>1. ASSUME NEW d \in Sender, result[d] = "nil"
          PROVE  connDone \/ Accepted(d)'
      <4>1. d # waiting
        BY <2>4, <3>1
      <4> QED
        BY <2>7, <3>1, <4>1 DEF CallsInv, ResultsStand, Accepted
    <3> QED
      BY <1>1, <3>1 DEF CallsInv, ResultsStand
  <2> QED
    BY <2>8, <2>9 DEF CallsInv
<1> QED
  BY <1>3, <1>4

(* Steps of the pump, the read loop and close().                            *)
CallsWait ==
  /\ UNCHANGED <<blockedOn, okCallbacks, pc, gotOk, rejected, result, authDone>>
  /\ connDone => connDone'

LEMMA WaitKeeps ==
  ASSUME CallsInv, CallsWait \/ (\E c \in Counter : blockedOn' = c /\
           UNCHANGED <<okCallbacks, pc, gotOk, rejected, result, authDone, connDone>>)
  PROVE  CallsInv'
BY DEF CallsWait, CallsInv, CallTypes, CallbacksLeadHome, CallbacksMatchWaits,
       ResultsStand, Accepted
(* Which of these a step of a call is.                                      *)
LEMMA CallKeeps ==
  ASSUME OwnEvents, CallsInv, NEW c \in Caller, CallStep(c)
  PROVE  CallsInv'
<1> USE DEF connVars, loopVars, authVars
<1>1. CASE Publish(c)
  <2>1. c \in Sender /\ pc[c] = "start" /\ StoreCallback(c)
    BY <1>1 DEF Publish, Called, Sender
  <2> QED
    BY <1>1, <2>1, StoreKeeps DEF Publish
<1>2. CASE PerformAuth(c) \/ TakeChallenge(c)
  <2>1. \E to \in {"wait", "sign"} : MovesOn(c, to)
    BY <1>2, Senders DEF PerformAuth, TakeChallenge, Called, MovesOn, Sender,
                         Awaiting
  <2> QED
    BY <2>1, MovesOnKeeps
<1>3. CASE GiveUpChallenge(c)
  <2>1. c \in Sender /\ pc[c] = "wait"
    BY <1>3 DEF GiveUpChallenge, Sender
  <2>2. Return(c, "ctx") \/ Return(c, "lost")
    BY <1>3 DEF GiveUpChallenge
  <2>3. UNCHANGED <<blockedOn, okCallbacks, gotOk, rejected, authDone, connDone>>
    BY <1>3 DEF GiveUpChallenge
  <2> QED
    BY <2>1, <2>2, <2>3, GiveUpKeeps
<1>4. CASE Auth(c)
  <2>1. c \in Sender /\ pc[c] = "sign" /\ StoreCallback(c)
    BY <1>4 DEF Auth, Sender
  <2> QED
    BY <1>4, <2>1, StoreKeeps DEF Auth
<1>5. CASE Count(c)
  <2>1. c \notin Sender
    BY <1>5, Senders DEF Count
  <2>2. MovesOn(c, "queue")
    BY <1>5, <2>1 DEF Count, MovesOn
  <2> QED
    BY <2>2, MovesOnKeeps
<1>6. CASE WriteSucceeds(c)
  <2>1. MovesOn(c, "await")
    BY <1>6 DEF WriteSucceeds, MovesOn, Awaiting
  <2> QED
    BY <2>1, MovesOnKeeps
<1>7. CASE WriteFails(c)
  <2>1. CASE c \in Counter
    <3>1. c \notin Sender
      BY <2>1, Senders
    <3>2. MovesOn(c, "done")
      BY <1>7, <2>1, <3>1 DEF WriteFails, Return, MovesOn
    <3> QED
      BY <3>2, MovesOnKeeps
  <2>2. CASE c \notin Counter
    <3>1. c \in Sender /\ pc[c] \in Awaiting
      BY <1>7, <2>2, Senders DEF WriteFails, Awaiting
    <3>2. ReturnFromPublish(c, "write")
      BY <1>7, <2>2 DEF WriteFails
    <3>3. UNCHANGED <<blockedOn, gotOk, rejected, authDone, connDone>>
      BY <1>7 DEF WriteFails
    <3> QED
      BY <3>1, <3>2, <3>3, ReturnKeeps
  <2> QED
    BY <2>1, <2>2
<1>8. CASE CountUnsubs(c) \/ CountTakes(c) \/ CountGivesUp(c)
  <2>1. c \notin Sender
    BY <1>8, Senders DEF CountUnsubs, CountTakes, CountGivesUp, CallsInv, CallTypes
  <2>2. MovesOn(c, "unsub") \/ MovesOn(c, "done")
    BY <1>8, <2>1 DEF CountUnsubs, CountTakes, CountGivesUp, MovesOn
  <2> QED
    BY <2>2, MovesOnKeeps
<1>9. CASE PublishReturns(c)
  <2>1. c \in Sender /\ pc[c] \in Awaiting
    BY <1>9, Senders DEF PublishReturns, PublishCtxDone, PublishConnDone, Awaiting
  <2>2. PICK r \in {"nil", "rejected", "ctx"} :
           /\ ReturnFromPublish(c, r)
           /\ r = "nil" => connDone \/ Accepted(c)
    BY <1>9 DEF PublishReturns, PublishCtxDone, PublishConnDone, Accepted
  <2>3. result'[c] = r
    BY <2>2 DEF ReturnFromPublish, Return, CallsInv, CallTypes
  <2>4. \/ authDone' = authDone
        \/ c \in Auther /\ r = "nil" /\ authDone' = 1
    BY <1>9, <2>3 DEF PublishReturns
  <2>5. UNCHANGED <<blockedOn, gotOk, rejected, connDone>>
    BY <1>9 DEF PublishReturns
  <2> QED
    BY <2>1, <2>2, <2>4, <2>5, ReturnKeeps
<1> QED
  BY <1>1, <1>2, <1>3, <1>4, <1>5, <1>6, <1>7, <1>8, <1>9 DEF CallStep

LEMMA CallsNext ==
  ASSUME OwnEvents, CallsInv, [Next]_vars
  PROVE  CallsInv'
<1> USE DEF connVars, loopVars, authVars, callVars, CallsWait
<1>1. ASSUME NEW c \in Caller, CallStep(c) PROVE CallsInv'
  BY <1>1, CallKeeps
<1>2. ASSUME NEW c \in Caller, Timeout(c) PROVE CallsInv'
  <2>1. CallsWait
    BY <1>2 DEF Timeout
  <2> QED
    BY <2>1, WaitKeeps
<1>3. ASSUME NEW c \in Caller, NEW ok \in BOOLEAN, ReadOk(c, ok) PROVE CallsInv'
  BY <1>3, ReadOkKeeps
<1>4. ASSUME NEW c \in Caller, ReadCount(c) PROVE CallsInv'
  <2>1. c \in Counter
    BY <1>4 DEF ReadCount
  <2>2. \/ CallsWait
        \/ blockedOn' = c /\ UNCHANGED <<okCallbacks, pc, gotOk, rejected, result,
                                         authDone, connDone>>
    BY <1>4 DEF ReadCount
  <2> QED
    BY <2>1, <2>2, WaitKeeps
<1>5. CASE \/ PingSucceeds \/ PingFails \/ PumpStops \/ PumpCleansUp
           \/ NotifyChallenge \/ \E ch \in Challenge : ReadAuth(ch)
  <2>1. CallsWait
    BY <1>5 DEF PingSucceeds, PingFails, PumpStops, PumpCleansUp,
                NotifyChallenge, ReadAuth
  <2> QED
    BY <2>1, WaitKeeps
<1>6. CASE \/ ReadFails \/ SetConnectionError \/ ReaderStops \/ UserCloses
           \/ ParentCancelled \/ SocketBreaks \/ UNCHANGED vars
  <2>1. CallsWait
    BY <1>6 DEF ReadFails, SetConnectionError, ReaderStops, UserCloses,
                ParentCancelled, SocketBreaks, vars
  <2> QED
    BY <2>1, WaitKeeps
<1>7. ASSUME NEW t \in Closing, CloseStep(t) PROVE CallsInv'
  <2>1. CallsWait
    BY <1>7 DEF CloseStep, CloseCancels, CloseChecks, CloseSocket
  <2> QED
    BY <2>1, WaitKeeps
<1> QED
  BY <1>1, <1>2, <1>3, <1>4, <1>5, <1>6, <1>7 DEF Next
--------------------------------------------------------------------------------
(* Callbacks, waits and results of the calls fit together (relay.go:463).   *)
THEOREM CallsInvariant ==
  ASSUME OwnEvents
  PROVE  Spec => []CallsInv
<1>1. Init => CallsInv
  BY CallsInit
<1>2. CallsInv /\ [Next]_vars => CallsInv'
  BY CallsNext
<1> QED
  BY <1>1, <1>2, PTL DEF Spec

(* If no two calls send one event, whoever waits for an OK can be called    *)
(* back, and nobody else is.                                                *)
THEOREM CallbacksMatch ==
  ASSUME OwnEvents
  PROVE  Spec => []CallbacksMatchWaits
<1>1. CallsInv => CallbacksMatchWaits
  BY DEF CallsInv
<1> QED
  BY <1>1, CallsInvariant, PTL

(* Then Publish, and Auth before it closes authDone, return no error only   *)
(* when the relay accepted the event or the connection ended.               *)
THEOREM SuccessIsEarned ==
  ASSUME OwnEvents
  PROVE  Spec => []SuccessMeansAcceptedOrLost
<1>1. CallsInv => SuccessMeansAcceptedOrLost
  <2>1. SUFFICES ASSUME CallsInv PROVE SuccessMeansAcceptedOrLost
    OBVIOUS
  <2>2. \A c \in Sender : result[c] = "nil" => connDone \/ Accepted(c)
    BY <2>1 DEF CallsInv, ResultsStand
  <2>3. authDone > 0 => connDone \/ \E c \in Auther : Accepted(c)
    BY <2>1, <2>2 DEF CallsInv, ResultsStand, Sender
  <2>4. authDone <= 1
    BY <2>1 DEF CallsInv, CallTypes
  <2> QED
    BY <2>2, <2>3, <2>4 DEF SuccessMeansAcceptedOrLost, Sender, Accepted
<1> QED
  BY <1>1, CallsInvariant, PTL
================================================================================
