------------------------- MODULE Subscription_proofs --------------------------
(***************************************************************************)
(* The safety of one subscription, for every set of events and every bound *)
(* on repeated EOSEs.                                                      *)
(***************************************************************************)
EXTENDS Subscription, TLAPS

-----------------------------------------------------------------------------
(***************************************************************************)
(* The inductive invariant, in named parts.                                *)
(***************************************************************************)

(* A goroutine has cancelled the context by the time it runs the rest of    *)
(* unsub(), and start() only runs at all once the context is done.          *)
CancelFirst ==
  /\ \A t \in Closer :
       closing[t] \in {"cas", "close", "queue", "delete"} => ctxDone
  /\ closing["start"] # "idle" => ctxDone
  /\ eventsClosed => closing["start"] = "done"

(* Where each kind of goroutine can be, and what brought it there.          *)
Origins ==
  /\ \A t \in Closer : closing[t] = "lock" => t = "start"
  /\ \A t \in Closer : closing[t] \in {"reason", "notlive"} => t = "closed"
  /\ \A t \in Closer : closing[t] = "range" => t = "pump"
  /\ closing["start"] \notin {"reason", "notlive", "range"}
  /\ closing["pump"] # "idle" => conn = "down"
  /\ closing["user"] # "idle" => fire = "fired"
  /\ closing["closed"] # "idle" => fire = "fired"
  /\ closing["closed"] \in {"notlive", "cancel"} => closedReason

(* The relay has the REQ exactly when Fire returned without an error, and   *)
(* sends nothing before it has it.                                          *)
ReqKnown ==
  /\ peer # "none" <=> fire = "fired"
  /\ fire # "fired" => /\ \A e \in Event : dispatch[e] = "none"
                       /\ ~eosed
                       /\ ~closedReason

(* live is set by Fire alone, and cleared only by what ends the             *)
(* subscription.                                                            *)
LiveCause ==
  /\ fire \in {"prepared", "checked"} => ~live
  /\ fire \in {"writing", "fired"} /\ ~live => ctxDone \/ closedReason

(* sub.mu is held by the goroutine that is sending, and by no other.        *)
MutexHeld == \A e \in Event : dispatch[e] = "sending" <=> mu = e

(* storedwg counts the stored events still on their way.                    *)
StoredCounted ==
  /\ \A e \in Event :
       e \in storedwg <=> /\ e \in stored
                          /\ dispatch[e] \in {"spawned", "sending"}
  /\ \A e \in stored : dispatch[e] # "none"
  /\ eoseSent > 0 => eosed /\ storedwg = {}
  /\ ~eosed => eoseWaiting = 0 /\ eoseSent = 0

(* live, a goroutine in Close() and a CLOSE on the wire exclude each other, *)
(* and there is at most one of them.                                        *)
CloseToken ==
  /\ fire \in {"prepared", "checked"} =>
       /\ closesSent = 0
       /\ \A t \in Closer : closing[t] \notin {"close", "queue"}
  /\ live => /\ closesSent = 0
             /\ \A t \in Closer : closing[t] \notin {"close", "queue"}
  /\ \A t \in Closer : closing[t] \in {"close", "queue"} => closesSent = 0
  /\ \A t, u \in Closer :
       closing[t] \in {"close", "queue"} /\ closing[u] \in {"close", "queue"}
         => t = u

Place == {"idle", "reason", "notlive", "range", "cancel", "cas", "close",
          "queue", "delete", "lock", "done"}

SubInv ==
  /\ TypeOK
  /\ CancelFirst
  /\ Origins
  /\ ReqKnown
  /\ LiveCause
  /\ MutexHeld
  /\ StoredCounted
  /\ CloseToken
  /\ LostOnlyAtEnd
  /\ OneEose
  /\ OneClose

(* If the context outlives Fire's marking of the subscription as live, then *)
(* a context that ended before it ended with the connection, and once       *)
(* start() is past the swap of live nothing can be dispatched as live.      *)
NoEarlyCancel == CancelStages \cap {"prepared", "checked"} = {}

EndedForGood ==
  /\ fire \in {"prepared", "checked"} /\ ctxDone => conn = "down"
  /\ closing["start"] \in {"close", "queue", "delete", "lock", "done"} /\ live
       => conn = "down" /\ peer = "none"
-----------------------------------------------------------------------------
(***************************************************************************)
(* Preservation, one lemma per part: a step for each action that can       *)
(* disturb the part, and one for those that leave its variables alone.     *)
(***************************************************************************)

(* A goroutine in unsub() goes from one of its places to another.          *)
LEMMA GotoStays ==
  ASSUME TypeOK, NEW t \in Closer, NEW from, NEW to \in Place, Goto(t, from, to)
  PROVE  closing' \in [Closer -> Place]
BY DEF TypeOK, Goto, Place

(* Every action keeps the types. *)
LEMMA TypeStep == TypeOK /\ [Next]_vars => TypeOK'
<1> SUFFICES ASSUME TypeOK, [Next]_vars
             PROVE  TypeOK'
  OBVIOUS
<1> USE DEF TypeOK, Stages, Closer, vars, streamVars
<1>1. CASE CheckConnection
  BY <1>1 DEF CheckConnection
<1>2. CASE SetLive
  BY <1>2 DEF SetLive
<1>3. CASE WriteReq
  BY <1>3 DEF WriteReq
<1>4. CASE WriteReqFails
  BY <1>4 DEF WriteReqFails
<1>5. CASE CancelContext
  BY <1>5 DEF CancelContext
<1>6. CASE Unsub
  BY <1>6 DEF Unsub
<1>7. ASSUME NEW t \in Closer, UnsubCancel(t)
      PROVE  TypeOK'
  BY <1>7 DEF UnsubCancel, Goto
<1>8. ASSUME NEW t \in Closer, UnsubCas(t)
      PROVE  TypeOK'
  <2>1. closing' \in [Closer -> Place]
    <3>1. CASE Goto(t, "cas", "close")
      BY <3>1, GotoStays DEF Place
    <3>2. CASE Goto(t, "cas", "delete")
      BY <3>2, GotoStays DEF Place
    <3>3. QED
      BY <1>8, <3>1, <3>2 DEF UnsubCas
  <2>2. live' \in BOOLEAN
    BY <1>8 DEF UnsubCas
  <2>3. QED
    BY <1>8, <2>1, <2>2 DEF UnsubCas, Place
<1>9. ASSUME NEW t \in Closer, CloseIfConnected(t)
      PROVE  TypeOK'
  BY <1>9 DEF CloseIfConnected, Goto
<1>10. ASSUME NEW t \in Closer, WriteClose(t)
      PROVE  TypeOK'
  BY <1>10 DEF WriteClose, Goto
<1>11. ASSUME NEW t \in Closer, WriteCloseFails(t)
      PROVE  TypeOK'
  BY <1>11 DEF WriteCloseFails, Goto
<1>12. ASSUME NEW t \in Closer, UnsubDelete(t)
      PROVE  TypeOK'
  <2>1. closing' \in [Closer -> Place]
    BY <1>12, GotoStays DEF UnsubDelete, Place
  <2>2. registered' \in BOOLEAN
    BY <1>12 DEF UnsubDelete
  <2>3. QED
    BY <1>12, <2>1, <2>2 DEF UnsubDelete, Place
<1>13. CASE StartWakes
  BY <1>13 DEF StartWakes, Goto
<1>14. CASE StartClosesEvents
  BY <1>14 DEF StartClosesEvents, Goto
<1>15. CASE ClosedSendsReason
  BY <1>15 DEF ClosedSendsReason, Goto
<1>16. CASE ClosedClearsLive
  <2>1. closing' \in [Closer -> Place]
    BY <1>16, GotoStays DEF ClosedClearsLive, Place
  <2>2. live' \in BOOLEAN
    BY <1>16 DEF ClosedClearsLive
  <2>3. QED
    BY <1>16, <2>1, <2>2 DEF ClosedClearsLive, Place
<1>17. CASE PumpExits
  BY <1>17 DEF PumpExits, Goto
<1>18. CASE PumpRanges
  BY <1>18 DEF PumpRanges, Goto
<1>19. ASSUME NEW e \in Event, DispatchEvent(e)
      PROVE  TypeOK'
  BY <1>19 DEF DispatchEvent, Readable
<1>20. CASE DispatchEose
  BY <1>20 DEF DispatchEose, Readable
<1>21. CASE HandleClosed
  BY <1>21 DEF HandleClosed, Goto, Readable
<1>22. ASSUME NEW e \in Event, EventLocks(e)
      PROVE  TypeOK'
  BY <1>22 DEF EventLocks
<1>23. ASSUME NEW e \in Event, ConsumerTakes(e)
      PROVE  TypeOK'
  BY <1>23 DEF ConsumerTakes, EventLeaves
<1>24. ASSUME NEW e \in Event, EventGivesUp(e)
      PROVE  TypeOK'
  BY <1>24 DEF EventGivesUp, EventLeaves
<1>25. CASE EoseSends
  BY <1>25 DEF EoseSends
<1>26. CASE ConnectionBreaks
  BY <1>26 DEF ConnectionBreaks
<1>27. CASE ConnectionCloses
  BY <1>27 DEF ConnectionCloses
<1>28. CASE UNCHANGED vars
  BY <1>28
<1>29. QED
  BY <1>1, <1>2, <1>3, <1>4, <1>5, <1>6, <1>7, <1>8, <1>9, <1>10, <1>11,
     <1>12, <1>13, <1>14, <1>15, <1>16, <1>17, <1>18, <1>19, <1>20, <1>21,
     <1>22, <1>23, <1>24, <1>25, <1>26, <1>27, <1>28
  DEF Next, UnsubStep

(* unsub() cancels before it does anything else. *)
LEMMA CancelFirstStep == SubInv /\ [Next]_vars => CancelFirst'
<1> SUFFICES ASSUME SubInv, [Next]_vars
             PROVE  CancelFirst'
  OBVIOUS
<1> USE DEF SubInv, TypeOK, CancelFirst, Origins, Closer, vars, streamVars
<1>1. CASE WriteReqFails
  BY <1>1 DEF WriteReqFails
<1>2. CASE CancelContext
  BY <1>2 DEF CancelContext
<1>3. CASE Unsub
  BY <1>3 DEF Unsub
<1>4. ASSUME NEW t \in Closer, UnsubCancel(t)
      PROVE  CancelFirst'
  BY <1>4 DEF UnsubCancel, Goto
<1>5. ASSUME NEW t \in Closer, UnsubCas(t)
      PROVE  CancelFirst'
  BY <1>5 DEF UnsubCas, Goto
<1>6. ASSUME NEW t \in Closer, CloseIfConnected(t)
      PROVE  CancelFirst'
  BY <1>6 DEF CloseIfConnected, Goto
<1>7. ASSUME NEW t \in Closer, WriteClose(t)
      PROVE  CancelFirst'
  BY <1>7 DEF WriteClose, Goto
<1>8. ASSUME NEW t \in Closer, WriteCloseFails(t)
      PROVE  CancelFirst'
  BY <1>8 DEF WriteCloseFails, Goto
<1>9. ASSUME NEW t \in Closer, UnsubDelete(t)
      PROVE  CancelFirst'
  BY <1>9 DEF UnsubDelete, Goto
<1>10. CASE StartWakes
  BY <1>10 DEF StartWakes, Goto
<1>11. CASE StartClosesEvents
  BY <1>11 DEF StartClosesEvents, Goto
<1>12. CASE ClosedSendsReason
  BY <1>12 DEF ClosedSendsReason, Goto
<1>13. CASE ClosedClearsLive
  BY <1>13 DEF ClosedClearsLive, Goto
<1>14. CASE PumpExits
  BY <1>14 DEF PumpExits, Goto
<1>15. CASE PumpRanges
  BY <1>15 DEF PumpRanges, Goto
<1>16. CASE HandleClosed
  BY <1>16 DEF HandleClosed, Goto, Readable
<1>17. CASE UNCHANGED <<ctxDone, closing, eventsClosed>>
  BY <1>17
<1>18. QED
  BY <1>1, <1>2, <1>3, <1>4, <1>5, <1>6, <1>7, <1>8, <1>9, <1>10, <1>11,
     <1>12, <1>13, <1>14, <1>15, <1>16, <1>17
  DEF Next, UnsubStep, CheckConnection, SetLive, WriteReq, DispatchEvent,
     Readable, DispatchEose, EventLocks, ConsumerTakes, EventLeaves,
     EventGivesUp, EoseSends, ConnectionBreaks, ConnectionCloses

(* Each kind of goroutine stays on its own path. *)
LEMMA OriginsStep == SubInv /\ [Next]_vars => Origins'
<1> SUFFICES ASSUME SubInv, [Next]_vars
             PROVE  Origins'
  OBVIOUS
<1> USE DEF SubInv, TypeOK, Origins, ReqKnown, Stages, Closer, vars,
     streamVars
<1>1. CASE CheckConnection
  BY <1>1 DEF CheckConnection
<1>2. CASE SetLive
  BY <1>2 DEF SetLive
<1>3. CASE WriteReq
  BY <1>3 DEF WriteReq
<1>4. CASE WriteReqFails
  BY <1>4 DEF WriteReqFails
<1>5. CASE Unsub
  BY <1>5 DEF Unsub
<1>6. ASSUME NEW t \in Closer, UnsubCancel(t)
      PROVE  Origins'
  BY <1>6 DEF UnsubCancel, Goto
<1>7. ASSUME NEW t \in Closer, UnsubCas(t)
      PROVE  Origins'
  BY <1>7 DEF UnsubCas, Goto
<1>8. ASSUME NEW t \in Closer, CloseIfConnected(t)
      PROVE  Origins'
  BY <1>8 DEF CloseIfConnected, Goto
<1>9. ASSUME NEW t \in Closer, WriteClose(t)
      PROVE  Origins'
  BY <1>9 DEF WriteClose, Goto
<1>10. ASSUME NEW t \in Closer, WriteCloseFails(t)
      PROVE  Origins'
  BY <1>10 DEF WriteCloseFails, Goto
<1>11. ASSUME NEW t \in Closer, UnsubDelete(t)
      PROVE  Origins'
  BY <1>11 DEF UnsubDelete, Goto
<1>12. CASE StartWakes
  BY <1>12 DEF StartWakes, Goto
<1>13. CASE StartClosesEvents
  BY <1>13 DEF StartClosesEvents, Goto
<1>14. CASE ClosedSendsReason
  BY <1>14 DEF ClosedSendsReason, Goto
<1>15. CASE ClosedClearsLive
  BY <1>15 DEF ClosedClearsLive, Goto
<1>16. CASE PumpExits
  BY <1>16 DEF PumpExits, Goto
<1>17. CASE PumpRanges
  BY <1>17 DEF PumpRanges, Goto
<1>18. CASE HandleClosed
  BY <1>18 DEF HandleClosed, Goto, Readable
<1>19. CASE ConnectionCloses
  BY <1>19 DEF ConnectionCloses
<1>20. CASE UNCHANGED <<fire, conn, closing, closedReason>>
  BY <1>20
<1>21. QED
  BY <1>1, <1>2, <1>3, <1>4, <1>5, <1>6, <1>7, <1>8, <1>9, <1>10, <1>11,
     <1>12, <1>13, <1>14, <1>15, <1>16, <1>17, <1>18, <1>19, <1>20
  DEF Next, UnsubStep, CancelContext, DispatchEvent, Readable, DispatchEose,
     EventLocks, ConsumerTakes, EventLeaves, EventGivesUp, EoseSends,
     ConnectionBreaks

(* The relay hears of the subscription from WriteReq alone. *)
LEMMA ReqKnownStep == SubInv /\ [Next]_vars => ReqKnown'
<1> SUFFICES ASSUME SubInv, [Next]_vars
             PROVE  ReqKnown'
  OBVIOUS
<1> USE DEF SubInv, TypeOK, ReqKnown, Origins, Closer, vars, streamVars
<1>1. CASE CheckConnection
  BY <1>1 DEF CheckConnection
<1>2. CASE SetLive
  BY <1>2 DEF SetLive
<1>3. CASE WriteReq
  BY <1>3 DEF WriteReq
<1>4. CASE WriteReqFails
  BY <1>4 DEF WriteReqFails
<1>5. ASSUME NEW t \in Closer, WriteClose(t)
      PROVE  ReqKnown'
  BY <1>5 DEF WriteClose, Goto
<1>6. CASE ClosedSendsReason
  BY <1>6 DEF ClosedSendsReason, Goto
<1>7. ASSUME NEW e \in Event, DispatchEvent(e)
      PROVE  ReqKnown'
  BY <1>7 DEF DispatchEvent, Readable
<1>8. CASE DispatchEose
  BY <1>8 DEF DispatchEose, Readable
<1>9. CASE HandleClosed
  BY <1>9 DEF HandleClosed, Goto, Readable
<1>10. ASSUME NEW e \in Event, EventLocks(e)
      PROVE  ReqKnown'
  BY <1>10 DEF EventLocks
<1>11. ASSUME NEW e \in Event, ConsumerTakes(e)
      PROVE  ReqKnown'
  BY <1>11 DEF ConsumerTakes, EventLeaves
<1>12. ASSUME NEW e \in Event, EventGivesUp(e)
      PROVE  ReqKnown'
  BY <1>12 DEF EventGivesUp, EventLeaves
<1>13. CASE UNCHANGED <<fire, peer, dispatch, eosed, closedReason>>
  BY <1>13
<1>14. QED
  BY <1>1, <1>2, <1>3, <1>4, <1>5, <1>6, <1>7, <1>8, <1>9, <1>10, <1>11,
     <1>12, <1>13
  DEF Next, UnsubStep, CancelContext, Unsub, UnsubCancel, Goto, UnsubCas,
     CloseIfConnected, WriteCloseFails, UnsubDelete, StartWakes,
     StartClosesEvents, ClosedClearsLive, PumpExits, PumpRanges, EoseSends,
     ConnectionBreaks, ConnectionCloses

(* Whoever clears live has cancelled, or has passed on the reason. *)
LEMMA LiveCauseStep == SubInv /\ [Next]_vars => LiveCause'
<1> SUFFICES ASSUME SubInv, [Next]_vars
             PROVE  LiveCause'
  OBVIOUS
<1> USE DEF SubInv, TypeOK, LiveCause, CancelFirst, Origins, Closer, vars,
     streamVars
<1>1. CASE CheckConnection
  BY <1>1 DEF CheckConnection
<1>2. CASE SetLive
  BY <1>2 DEF SetLive
<1>3. CASE WriteReq
  BY <1>3 DEF WriteReq
<1>4. CASE WriteReqFails
  BY <1>4 DEF WriteReqFails
<1>5. CASE CancelContext
  BY <1>5 DEF CancelContext
<1>6. ASSUME NEW t \in Closer, UnsubCancel(t)
      PROVE  LiveCause'
  BY <1>6 DEF UnsubCancel, Goto
<1>7. ASSUME NEW t \in Closer, UnsubCas(t)
      PROVE  LiveCause'
  BY <1>7 DEF UnsubCas, Goto
<1>8. CASE ClosedSendsReason
  BY <1>8 DEF ClosedSendsReason, Goto
<1>9. CASE ClosedClearsLive
  BY <1>9 DEF ClosedClearsLive, Goto
<1>10. CASE UNCHANGED <<fire, live, ctxDone, closedReason>>
  BY <1>10
<1>11. QED
  BY <1>1, <1>2, <1>3, <1>4, <1>5, <1>6, <1>7, <1>8, <1>9, <1>10
  DEF Next, UnsubStep, Unsub, CloseIfConnected, Goto, WriteClose,
     WriteCloseFails, UnsubDelete, StartWakes, StartClosesEvents, PumpExits,
     PumpRanges, DispatchEvent, Readable, DispatchEose, HandleClosed,
     EventLocks, ConsumerTakes, EventLeaves, EventGivesUp, EoseSends,
     ConnectionBreaks, ConnectionCloses

(* sub.mu goes to the goroutine that starts sending and back. *)
LEMMA MutexHeldStep == SubInv /\ [Next]_vars => MutexHeld'
<1> SUFFICES ASSUME SubInv, [Next]_vars
             PROVE  MutexHeld'
  OBVIOUS
<1> USE DEF SubInv, TypeOK, MutexHeld, vars, streamVars
<1>1. ASSUME NEW e \in Event, DispatchEvent(e)
      PROVE  MutexHeld'
  BY <1>1, EventAssumption DEF DispatchEvent, Readable
<1>2. ASSUME NEW e \in Event, EventLocks(e)
      PROVE  MutexHeld'
  BY <1>2, EventAssumption DEF EventLocks
<1>3. ASSUME NEW e \in Event, ConsumerTakes(e)
      PROVE  MutexHeld'
  BY <1>3, EventAssumption DEF ConsumerTakes, EventLeaves
<1>4. ASSUME NEW e \in Event, EventGivesUp(e)
      PROVE  MutexHeld'
  BY <1>4, EventAssumption DEF EventGivesUp, EventLeaves
<1>5. CASE UNCHANGED <<mu, dispatch>>
  BY <1>5
<1>6. QED
  BY <1>1, <1>2, <1>3, <1>4, <1>5
  DEF Next, UnsubStep, CheckConnection, SetLive, WriteReq, WriteReqFails,
     CancelContext, Unsub, UnsubCancel, Goto, UnsubCas, CloseIfConnected,
     WriteClose, WriteCloseFails, UnsubDelete, StartWakes, StartClosesEvents,
     ClosedSendsReason, ClosedClearsLive, PumpExits, PumpRanges, DispatchEose,
     Readable, HandleClosed, EoseSends, ConnectionBreaks, ConnectionCloses

(* The wait group counts a stored event until its goroutine is done. *)
LEMMA StoredCountedStep == SubInv /\ [Next]_vars => StoredCounted'
<1> SUFFICES ASSUME SubInv, [Next]_vars
             PROVE  StoredCounted'
  OBVIOUS
<1> USE DEF SubInv, TypeOK, StoredCounted, vars, streamVars
<1>1. ASSUME NEW e \in Event, DispatchEvent(e)
      PROVE  StoredCounted'
  BY <1>1 DEF DispatchEvent, Readable
<1>2. CASE DispatchEose
  BY <1>2 DEF DispatchEose, Readable
<1>3. ASSUME NEW e \in Event, EventLocks(e)
      PROVE  StoredCounted'
  BY <1>3 DEF EventLocks
<1>4. ASSUME NEW e \in Event, ConsumerTakes(e)
      PROVE  StoredCounted'
  BY <1>4 DEF ConsumerTakes, EventLeaves
<1>5. ASSUME NEW e \in Event, EventGivesUp(e)
      PROVE  StoredCounted'
  BY <1>5 DEF EventGivesUp, EventLeaves
<1>6. CASE EoseSends
  BY <1>6 DEF EoseSends
<1>7. CASE UNCHANGED <<storedwg, stored, dispatch, eosed, eoseWaiting, eoseSent>>
  BY <1>7
<1>8. QED
  BY <1>1, <1>2, <1>3, <1>4, <1>5, <1>6, <1>7
  DEF Next, UnsubStep, CheckConnection, SetLive, WriteReq, WriteReqFails,
     CancelContext, Unsub, UnsubCancel, Goto, UnsubCas, CloseIfConnected,
     WriteClose, WriteCloseFails, UnsubDelete, StartWakes, StartClosesEvents,
     ClosedSendsReason, ClosedClearsLive, PumpExits, PumpRanges, HandleClosed,
     Readable, ConnectionBreaks, ConnectionCloses

(* The swap of live hands the right to send CLOSE to one goroutine. *)
LEMMA CloseTokenStep == SubInv /\ [Next]_vars => CloseToken'
<1> SUFFICES ASSUME SubInv, [Next]_vars
             PROVE  CloseToken'
  OBVIOUS
<1> USE DEF SubInv, TypeOK, CloseToken, Origins, ReqKnown, Closer, vars,
     streamVars
<1>1. CASE CheckConnection
  BY <1>1 DEF CheckConnection
<1>2. CASE SetLive
  BY <1>2 DEF SetLive
<1>3. CASE WriteReq
  BY <1>3 DEF WriteReq
<1>4. CASE WriteReqFails
  BY <1>4 DEF WriteReqFails
<1>5. CASE Unsub
  BY <1>5 DEF Unsub
<1>6. ASSUME NEW t \in Closer, UnsubCancel(t)
      PROVE  CloseToken'
  BY <1>6 DEF UnsubCancel, Goto
<1>7. ASSUME NEW t \in Closer, UnsubCas(t)
      PROVE  CloseToken'
  <2>1. CASE live /\ Goto(t, "cas", "close")
    <3>1. \A u \in Closer : closing[u] \notin {"close", "queue"}
      BY <2>1
    <3>2. \A u \in Closer : u # t => closing'[u] = closing[u]
      BY <2>1 DEF Goto
    <3>3. \A u \in Closer : closing'[u] \in {"close", "queue"} => u = t
      BY <3>1, <3>2
    <3>4. ~live' /\ closesSent' = 0 /\ fire' \notin {"prepared", "checked"}
      BY <1>7, <2>1 DEF UnsubCas, LiveCause
    <3>5. QED
      BY <3>3, <3>4
  <2>2. CASE ~live /\ Goto(t, "cas", "delete")
    BY <1>7, <2>2 DEF UnsubCas, Goto
  <2>3. QED
    BY <1>7, <2>1, <2>2 DEF UnsubCas
<1>8. ASSUME NEW t \in Closer, CloseIfConnected(t)
      PROVE  CloseToken'
  BY <1>8 DEF CloseIfConnected, Goto
<1>9. ASSUME NEW t \in Closer, WriteClose(t)
      PROVE  CloseToken'
  BY <1>9 DEF WriteClose, Goto
<1>10. ASSUME NEW t \in Closer, WriteCloseFails(t)
      PROVE  CloseToken'
  BY <1>10 DEF WriteCloseFails, Goto
<1>11. ASSUME NEW t \in Closer, UnsubDelete(t)
      PROVE  CloseToken'
  BY <1>11 DEF UnsubDelete, Goto
<1>12. CASE StartWakes
  BY <1>12 DEF StartWakes, Goto
<1>13. CASE StartClosesEvents
  BY <1>13 DEF StartClosesEvents, Goto
<1>14. CASE ClosedSendsReason
  BY <1>14 DEF ClosedSendsReason, Goto
<1>15. CASE ClosedClearsLive
  BY <1>15 DEF ClosedClearsLive, Goto
<1>16. CASE PumpExits
  BY <1>16 DEF PumpExits, Goto
<1>17. CASE PumpRanges
  BY <1>17 DEF PumpRanges, Goto
<1>18. CASE HandleClosed
  BY <1>18 DEF HandleClosed, Goto, Readable
<1>19. CASE UNCHANGED <<fire, live, closing, closesSent>>
  BY <1>19
<1>20. QED
  BY <1>1, <1>2, <1>3, <1>4, <1>5, <1>6, <1>7, <1>8, <1>9, <1>10, <1>11,
     <1>12, <1>13, <1>14, <1>15, <1>16, <1>17, <1>18, <1>19
  DEF Next, UnsubStep, CancelContext, DispatchEvent, Readable, DispatchEose,
     EventLocks, ConsumerTakes, EventLeaves, EventGivesUp, EoseSends,
     ConnectionBreaks, ConnectionCloses

(* An event is dropped by a goroutine that saw live cleared or the context done. *)
LEMMA LostOnlyAtEndStep == SubInv /\ [Next]_vars => LostOnlyAtEnd'
<1> SUFFICES ASSUME SubInv, [Next]_vars
             PROVE  LostOnlyAtEnd'
  OBVIOUS
<1> USE DEF SubInv, TypeOK, LostOnlyAtEnd, LiveCause, ReqKnown, Stages, vars,
     streamVars
<1>1. CASE WriteReqFails
  BY <1>1 DEF WriteReqFails
<1>2. CASE CancelContext
  BY <1>2 DEF CancelContext
<1>3. ASSUME NEW t \in Closer, UnsubCancel(t)
      PROVE  LostOnlyAtEnd'
  BY <1>3 DEF UnsubCancel, Goto
<1>4. CASE ClosedSendsReason
  BY <1>4 DEF ClosedSendsReason, Goto
<1>5. ASSUME NEW e \in Event, DispatchEvent(e)
      PROVE  LostOnlyAtEnd'
  BY <1>5 DEF DispatchEvent, Readable
<1>6. ASSUME NEW e \in Event, EventLocks(e)
      PROVE  LostOnlyAtEnd'
  BY <1>6 DEF EventLocks
<1>7. ASSUME NEW e \in Event, ConsumerTakes(e)
      PROVE  LostOnlyAtEnd'
  BY <1>7 DEF ConsumerTakes, EventLeaves
<1>8. ASSUME NEW e \in Event, EventGivesUp(e)
      PROVE  LostOnlyAtEnd'
  BY <1>8 DEF EventGivesUp, EventLeaves
<1>9. CASE UNCHANGED <<dispatch, ctxDone, closedReason>>
  BY <1>9
<1>10. QED
  BY <1>1, <1>2, <1>3, <1>4, <1>5, <1>6, <1>7, <1>8, <1>9
  DEF Next, UnsubStep, CheckConnection, SetLive, WriteReq, Unsub, UnsubCas,
     Goto, CloseIfConnected, WriteClose, WriteCloseFails, UnsubDelete,
     StartWakes, StartClosesEvents, ClosedClearsLive, PumpExits, PumpRanges,
     DispatchEose, Readable, HandleClosed, EoseSends, ConnectionBreaks,
     ConnectionCloses

(* Once start() is past the swap, a live subscription is one the relay never heard of. *)
LEMMA EndedForGoodStep == NoEarlyCancel /\ SubInv /\ EndedForGood /\ [Next]_vars => EndedForGood'
<1> SUFFICES ASSUME NoEarlyCancel /\ SubInv /\ EndedForGood, [Next]_vars
             PROVE  EndedForGood'
  OBVIOUS
<1> USE DEF SubInv, TypeOK, EndedForGood, NoEarlyCancel, CancelFirst, Origins,
     ReqKnown, LiveCause, Closer, vars, streamVars
<1>1. CASE CheckConnection
  BY <1>1 DEF CheckConnection
<1>2. CASE SetLive
  BY <1>2 DEF SetLive
<1>3. CASE WriteReq
  BY <1>3 DEF WriteReq
<1>4. CASE WriteReqFails
  BY <1>4 DEF WriteReqFails
<1>5. CASE CancelContext
  BY <1>5 DEF CancelContext
<1>6. CASE Unsub
  BY <1>6 DEF Unsub
<1>7. ASSUME NEW t \in Closer, UnsubCancel(t)
      PROVE  EndedForGood'
  BY <1>7 DEF UnsubCancel, Goto
<1>8. ASSUME NEW t \in Closer, UnsubCas(t)
      PROVE  EndedForGood'
  BY <1>8 DEF UnsubCas, Goto
<1>9. ASSUME NEW t \in Closer, CloseIfConnected(t)
      PROVE  EndedForGood'
  BY <1>9 DEF CloseIfConnected, Goto
<1>10. ASSUME NEW t \in Closer, WriteClose(t)
      PROVE  EndedForGood'
  BY <1>10 DEF WriteClose, Goto
<1>11. ASSUME NEW t \in Closer, WriteCloseFails(t)
      PROVE  EndedForGood'
  BY <1>11 DEF WriteCloseFails, Goto
<1>12. ASSUME NEW t \in Closer, UnsubDelete(t)
      PROVE  EndedForGood'
  BY <1>12 DEF UnsubDelete, Goto
<1>13. CASE StartWakes
  BY <1>13 DEF StartWakes, Goto
<1>14. CASE StartClosesEvents
  BY <1>14 DEF StartClosesEvents, Goto
<1>15. CASE ClosedSendsReason
  BY <1>15 DEF ClosedSendsReason, Goto
<1>16. CASE ClosedClearsLive
  BY <1>16 DEF ClosedClearsLive, Goto
<1>17. CASE PumpExits
  BY <1>17 DEF PumpExits, Goto
<1>18. CASE PumpRanges
  BY <1>18 DEF PumpRanges, Goto
<1>19. CASE HandleClosed
  BY <1>19 DEF HandleClosed, Goto, Readable
<1>20. CASE ConnectionBreaks
  BY <1>20 DEF ConnectionBreaks
<1>21. CASE ConnectionCloses
  BY <1>21 DEF ConnectionCloses
<1>22. CASE UNCHANGED <<fire, ctxDone, conn, closing, live, peer>>
  BY <1>22
<1>23. QED
  BY <1>1, <1>2, <1>3, <1>4, <1>5, <1>6, <1>7, <1>8, <1>9, <1>10, <1>11,
     <1>12, <1>13, <1>14, <1>15, <1>16, <1>17, <1>18, <1>19, <1>20, <1>21,
     <1>22
  DEF Next, UnsubStep, DispatchEvent, Readable, DispatchEose, EventLocks,
     ConsumerTakes, EventLeaves, EventGivesUp, EoseSends

(* Only one goroutine ever signals the end of the stored events. *)
LEMMA OneEoseStep == SubInv /\ [Next]_vars => OneEose'
<1> SUFFICES ASSUME SubInv, [Next]_vars
             PROVE  OneEose'
  OBVIOUS
<1> USE DEF SubInv, TypeOK, OneEose, StoredCounted, vars, streamVars
<1>1. CASE DispatchEose
  BY <1>1 DEF DispatchEose
<1>2. CASE EoseSends
  BY <1>2 DEF EoseSends
<1>3. CASE UNCHANGED <<eoseWaiting, eoseSent>>
  BY <1>3
<1>4. QED
  BY <1>1, <1>2, <1>3
  DEF Next, UnsubStep, CheckConnection, SetLive, WriteReq, WriteReqFails,
     CancelContext, Unsub, UnsubCancel, Goto, UnsubCas, CloseIfConnected,
     WriteClose, WriteCloseFails, UnsubDelete, StartWakes, StartClosesEvents,
     ClosedSendsReason, ClosedClearsLive, PumpExits, PumpRanges,
     DispatchEvent, Readable, HandleClosed, EventLocks, ConsumerTakes,
     EventLeaves, EventGivesUp, ConnectionBreaks, ConnectionCloses

(* A CLOSE is written by the goroutine that holds the right to, and once. *)
LEMMA OneCloseStep == SubInv /\ [Next]_vars => OneClose'
<1> SUFFICES ASSUME SubInv, [Next]_vars
             PROVE  OneClose'
  OBVIOUS
<1> USE DEF SubInv, TypeOK, OneClose, CloseToken, Closer, vars, streamVars
<1>1. ASSUME NEW t \in Closer, WriteClose(t)
      PROVE  OneClose'
  BY <1>1 DEF WriteClose, Goto
<1>2. CASE UNCHANGED closesSent
  BY <1>2
<1>3. QED
  BY <1>1, <1>2
  DEF Next, UnsubStep, CheckConnection, SetLive, WriteReq, WriteReqFails,
     CancelContext, Unsub, UnsubCancel, Goto, UnsubCas, CloseIfConnected,
     WriteCloseFails, UnsubDelete, StartWakes, StartClosesEvents,
     ClosedSendsReason, ClosedClearsLive, PumpExits, PumpRanges,
     DispatchEvent, Readable, DispatchEose, HandleClosed, EventLocks,
     ConsumerTakes, EventLeaves, EventGivesUp, EoseSends, ConnectionBreaks,
     ConnectionCloses

(* The invariant holds of the subscription PrepareSubscription returns. *)
LEMMA SubInvInit == Init => SubInv /\ EndedForGood
<1> SUFFICES ASSUME Init
             PROVE  SubInv /\ EndedForGood
  OBVIOUS
<1> USE DEF Init, Closer
<1>1. TypeOK
  BY DEF TypeOK, Stages
<1>2. CancelFirst /\ Origins /\ EndedForGood
  BY DEF CancelFirst, Origins, EndedForGood
<1>3. ReqKnown /\ LiveCause /\ CloseToken
  BY DEF ReqKnown, LiveCause, CloseToken
<1>4. MutexHeld /\ StoredCounted /\ LostOnlyAtEnd
  BY EventAssumption DEF MutexHeld, StoredCounted, LostOnlyAtEnd
<1>5. OneEose /\ OneClose
  BY DEF OneEose, OneClose
<1>6. QED
  BY <1>1, <1>2, <1>3, <1>4, <1>5 DEF SubInv

(* The parts together are inductive. *)
LEMMA SubInvStep == SubInv /\ [Next]_vars => SubInv'
<1> SUFFICES ASSUME SubInv, [Next]_vars
             PROVE  SubInv'
  OBVIOUS
<1>1. TypeOK'
  BY TypeStep DEF SubInv
<1>2. CancelFirst' /\ Origins' /\ ReqKnown' /\ LiveCause'
  BY CancelFirstStep, OriginsStep, ReqKnownStep, LiveCauseStep
<1>3. MutexHeld' /\ StoredCounted' /\ CloseToken'
  BY MutexHeldStep, StoredCountedStep, CloseTokenStep
<1>4. LostOnlyAtEnd' /\ OneEose' /\ OneClose'
  BY LostOnlyAtEndStep, OneEoseStep, OneCloseStep
<1>5. QED
  BY <1>1, <1>2, <1>3, <1>4 DEF SubInv

(* Whatever the schedule, the invariant holds in every state. *)
THEOREM SubscriptionInvariant == Spec => []SubInv
<1>1. Init => SubInv
  BY SubInvInit
<1>2. SubInv /\ [Next]_vars => SubInv'
  BY SubInvStep
<1>3. QED
  BY <1>1, <1>2, PTL DEF Spec

-----------------------------------------------------------------------------
(***************************************************************************)
(* The properties.                                                         *)
(***************************************************************************)

(* Type correctness of the model, for every set of events. *)
THEOREM TypeCorrect == Spec => []TypeOK
<1>1. SubInv => TypeOK
  BY DEF SubInv
<1>2. QED
  BY <1>1, SubscriptionInvariant, PTL

(* An event that was accepted is lost only with the subscription. *)
THEOREM NothingLostEarly == Spec => []LostOnlyAtEnd
<1>1. SubInv => LostOnlyAtEnd
  BY DEF SubInv
<1>2. QED
  BY <1>1, SubscriptionInvariant, PTL

(* The EOSE reaches the consumer after every event that preceded it. *)
THEOREM EoseIsLast == Spec => []EoseAfterStored
<1>1. SubInv => EoseAfterStored
  BY DEF SubInv, TypeOK, StoredCounted, LostOnlyAtEnd, EoseAfterStored
<1>2. QED
  BY <1>1, SubscriptionInvariant, PTL

(* Repeated EOSEs make one signal. *)
THEOREM SingleEose == Spec => []OneEose
<1>1. SubInv => OneEose
  BY DEF SubInv
<1>2. QED
  BY <1>1, SubscriptionInvariant, PTL

(* Raced unsub()s send one CLOSE between them. *)
THEOREM SingleClose == Spec => []OneClose
<1>1. SubInv => OneClose
  BY DEF SubInv
<1>2. QED
  BY <1>1, SubscriptionInvariant, PTL

(* A goroutine that finds the subscription live finds Events open, and       *)
(* start() closes Events only when nobody is sending.                       *)
LEMMA SendStep ==
  SubInv /\ EndedForGood /\ NoSendOnClosed /\ [Next]_vars => NoSendOnClosed'
<1> SUFFICES ASSUME SubInv, EndedForGood, NoSendOnClosed, [Next]_vars
             PROVE  NoSendOnClosed'
  OBVIOUS
<1> USE DEF SubInv, TypeOK, NoSendOnClosed, vars, streamVars
<1>1. CASE StartClosesEvents
  BY <1>1, EventAssumption DEF StartClosesEvents, Goto, MutexHeld
<1>2. ASSUME NEW e \in Event, EventLocks(e)
      PROVE  NoSendOnClosed'
  <2>1. CASE live
    <3>1. ~eventsClosed
      BY <1>2, <2>1 DEF EventLocks, EndedForGood, CancelFirst, ReqKnown
    <3>2. QED
      BY <1>2, <3>1 DEF EventLocks
  <2>2. CASE ~live
    BY <1>2, <2>2 DEF EventLocks
  <2>3. QED
    BY <2>1, <2>2
<1>3. ASSUME NEW e \in Event, DispatchEvent(e)
      PROVE  NoSendOnClosed'
  BY <1>3 DEF DispatchEvent
<1>4. ASSUME NEW e \in Event, ConsumerTakes(e) \/ EventGivesUp(e)
      PROVE  NoSendOnClosed'
  BY <1>4 DEF ConsumerTakes, EventGivesUp, EventLeaves
<1>5. CASE UNCHANGED <<dispatch, eventsClosed>>
  BY <1>5
<1>6. QED
  BY <1>1, <1>2, <1>3, <1>4, <1>5
  DEF Next, UnsubStep, CheckConnection, SetLive, WriteReq, WriteReqFails,
      CancelContext, Unsub, UnsubCancel, Goto, UnsubCas, CloseIfConnected,
      WriteClose, WriteCloseFails, UnsubDelete, StartWakes, ClosedSendsReason,
      ClosedClearsLive, PumpExits, PumpRanges, DispatchEose, Readable,
      HandleClosed, EoseSends, ConnectionBreaks, ConnectionCloses

(* If the context is not cancelled before Fire marks the subscription live,  *)
(* no goroutine sends to Events after start() closed it: the promise of the *)
(* comment at subscription.go:87.                                           *)
THEOREM SendSafety == ASSUME NoEarlyCancel PROVE Spec => []NoSendOnClosed
<1>1. Init => EndedForGood /\ NoSendOnClosed
  BY SubInvInit DEF Init, NoSendOnClosed
<1>2. SubInv /\ EndedForGood /\ [Next]_vars => EndedForGood'
  BY EndedForGoodStep, NoEarlyCancel
<1>3. SubInv /\ EndedForGood /\ NoSendOnClosed /\ [Next]_vars
        => NoSendOnClosed'
  BY SendStep
<1>4. QED
  BY <1>1, <1>2, <1>3, SubscriptionInvariant, PTL DEF Spec

-----------------------------------------------------------------------------
(***************************************************************************)
(* The contract.                                                           *)
(***************************************************************************)

(* One step of the goroutines is one step of the contract, or none.         *)
LEMMA ContractStep ==
  SubInv /\ NoSendOnClosed /\ [Next]_vars
    => [Contract!Next]_(Contract!contractVars)
<1> DEFINE pending == {e \in Event : dispatch[e] \in {"spawned", "sending"}}
           handed == {e \in Event : dispatch[e] = "delivered"}
           eose == IF eoseSent > 0 THEN "told"
                   ELSE IF eosed THEN "due" ELSE "none"
           over == ctxDone \/ closedReason
<1> SUFFICES ASSUME SubInv, NoSendOnClosed, [Next]_vars
             PROVE  \/ Contract!Next
                    \/ UNCHANGED <<pending, handed, stored, eose, over, eventsClosed>>
  BY DEF Contract!contractVars
<1> USE DEF SubInv, TypeOK, vars, streamVars
<1>1. ASSUME NEW e \in Event, DispatchEvent(e)
      PROVE  Contract!Accept(e)
  <2>1. /\ pending' = pending \cup {e}
        /\ handed' = handed
        /\ e \notin pending \cup handed
    BY <1>1 DEF DispatchEvent
  <2>2. /\ eose' = eose /\ over' = over /\ eventsClosed' = eventsClosed
        /\ stored' = IF eose = "none" THEN stored \cup {e} ELSE stored
    BY <1>1 DEF DispatchEvent, StoredCounted
  <2>3. QED
    BY <2>1, <2>2 DEF Contract!Accept
<1>2. ASSUME NEW e \in Event, ConsumerTakes(e)
      PROVE  Contract!HandOver(e)
  <2>1. ~eventsClosed
    BY <1>2 DEF ConsumerTakes, EventLeaves, NoSendOnClosed
  <2>2. /\ e \in pending
        /\ pending' = pending \ {e}
        /\ handed' = handed \cup {e}
    BY <1>2 DEF ConsumerTakes, EventLeaves
  <2>3. UNCHANGED <<stored, eose, over, eventsClosed>>
    BY <1>2 DEF ConsumerTakes, EventLeaves
  <2>4. QED
    BY <2>1, <2>2, <2>3 DEF Contract!HandOver
<1>3. ASSUME NEW e \in Event,
             dispatch[e] \in {"spawned", "sending"},
             dispatch' = [dispatch EXCEPT ![e] = "dropped"],
             over,
             UNCHANGED <<stored, eoseSent, eosed, ctxDone, closedReason, eventsClosed>>
      PROVE  Contract!Lose(e)
  <2>1. /\ e \in pending
        /\ pending' = pending \ {e}
        /\ handed' = handed
    BY <1>3
  <2>2. QED
    BY <1>3, <2>1 DEF Contract!Lose
<1>4. ASSUME NEW e \in Event, EventGivesUp(e)
      PROVE  Contract!Lose(e)
  BY <1>3, <1>4 DEF EventGivesUp, EventLeaves
<1>5. ASSUME NEW e \in Event, EventLocks(e)
      PROVE  Contract!Lose(e) \/ UNCHANGED <<pending, handed, stored, eose, over, eventsClosed>>
  <2>1. CASE live
    BY <1>5, <2>1 DEF EventLocks
  <2>2. CASE ~live
    <3>1. over
      BY <1>5, <2>2 DEF EventLocks, LiveCause, ReqKnown, Stages
    <3>2. QED
      BY <1>3, <1>5, <2>2, <3>1 DEF EventLocks
  <2>3. QED
    BY <2>1, <2>2
<1>6. CASE DispatchEose
  <2>1. CASE eosed
    BY <1>6, <2>1 DEF DispatchEose
  <2>2. CASE ~eosed
    BY <1>6, <2>2 DEF DispatchEose, StoredCounted, Contract!Next, Contract!HearEose
  <2>3. QED
    BY <2>1, <2>2
<1>7. CASE EoseSends
  <2>1. eosed /\ eoseSent = 0 /\ eoseSent' = 1 /\ eosed'
    BY <1>7 DEF EoseSends, StoredCounted, OneEose
  <2>2. stored \cap pending = {}
    BY <1>7 DEF EoseSends, StoredCounted
  <2>3. UNCHANGED <<pending, handed, stored, over, eventsClosed>>
    BY <1>7 DEF EoseSends
  <2>4. QED
    BY <2>1, <2>2, <2>3 DEF Contract!Next, Contract!TellEose
<1>8. CASE StartClosesEvents
  <2>1. over /\ ~eventsClosed /\ eventsClosed'
    BY <1>8 DEF StartClosesEvents, Goto, CancelFirst
  <2>2. UNCHANGED <<pending, handed, stored, eose, over>>
    BY <1>8 DEF StartClosesEvents
  <2>3. QED
    BY <2>1, <2>2 DEF Contract!Next, Contract!End
<1>9. CASE /\ UNCHANGED <<streamVars, eventsClosed>>
           /\ over => over'
  <2>1. UNCHANGED <<pending, handed, stored, eose, eventsClosed>>
    BY <1>9
  <2>2. CASE over
    BY <1>9, <2>1, <2>2
  <2>3. CASE ~over
    BY <1>9, <2>1, <2>3 DEF Contract!Next, Contract!GetOver
  <2>4. QED
    BY <2>2, <2>3
<1>10. QED
  BY <1>1, <1>2, <1>4, <1>5, <1>6, <1>7, <1>8, <1>9
  DEF Contract!Next, Next, UnsubStep, CheckConnection, SetLive, WriteReq,
      WriteReqFails, CancelContext, Unsub, UnsubCancel, Goto, UnsubCas,
      CloseIfConnected, WriteClose, WriteCloseFails, UnsubDelete, StartWakes,
      ClosedSendsReason, ClosedClearsLive, PumpExits, PumpRanges, Readable,
      HandleClosed, ConnectionBreaks, ConnectionCloses

(* The goroutines implement the contract, whatever they interleave, if the   *)
(* context is not cancelled before Fire marks the subscription live.        *)
THEOREM ImplementsContract == ASSUME NoEarlyCancel PROVE Spec => Contract!Spec
<1>1. Init => Contract!Init
  BY DEF Init, Contract!Init
<1>2. SubInv /\ NoSendOnClosed /\ [Next]_vars
        => [Contract!Next]_(Contract!contractVars)
  BY ContractStep
<1>3. Spec => []NoSendOnClosed
  BY SendSafety, NoEarlyCancel
<1>4. QED
  BY <1>1, <1>2, <1>3, SubscriptionInvariant, PTL DEF Spec, Contract!Spec
===============================================================================
