---------------------------- MODULE MCSimplePool ----------------------------
(***************************************************************************)
(* The calls of SimplePool for TLC: a long-lived subscription, a fetch and *)
(* a PublishMany.  `subject` says which one takes its steps.               *)
(***************************************************************************)
EXTENDS SubMany

CONSTANTS r1, r2, e1, e2, t1, t2, t3, u1, u2

VARIABLES
  subject,
  \* of Fetch
  call, fetchCtxDone, fetchPc, fetchSub, fetchOpened, fetchHasAuthed,
  fetchHolding, endedBy, seen, latest, fetchEmitted, results, finished,
  stored, passedBy,
  \* of Pool
  relays, dials, urlOfConn, up, lock, box, sleep, sweeps, taskPc, conn,
  taskResults, closed

fetchVars ==
  <<call, fetchCtxDone, fetchPc, fetchSub, fetchOpened, fetchHasAuthed,
    fetchHolding, endedBy, seen, latest, fetchEmitted, results, finished,
    stored, passedBy>>
poolVars ==
  <<relays, dials, urlOfConn, up, lock, box, sleep, sweeps, taskPc, conn,
    taskResults, closed>>
----------------------------------------------------------------------------
TwoRelays == {r1, r2}
OneEvent == {e1}
AuthRequired == {"auth-required"}

(* r1 may resubscribe, the others subscribe once.                           *)
TwiceR1 == [r \in Relay |-> IF r = r1 THEN 2 ELSE 1]

(* Both relays have e1, r1 also has e2, which is newer; r1 may ask for AUTH *)
(* and be subscribed to twice.                                              *)
F == INSTANCE Fetch
       WITH Event <- {e1, e2},
            CreatedAt <- [e \in {e1, e2} |-> IF e = e1 THEN 1 ELSE 2],
            Has <- [r \in Relay |-> IF r = r1 THEN {e1, e2} ELSE {e1}],
            Calls <- {"FetchMany", "FetchManyReplaceable"},
            Reasons <- [r \in Relay |-> IF r = r1 THEN {"auth-required"} ELSE {}],
            ctxDone <- fetchCtxDone, pc <- fetchPc, sub <- fetchSub,
            opened <- fetchOpened, hasAuthed <- fetchHasAuthed,
            holding <- fetchHolding, emitted <- fetchEmitted

(* Two entries are for one relay, and the mutex of the other is the same.   *)
P == INSTANCE Pool
       WITH Task <- {t1, t2, t3}, Url <- {u1, u2},
            UrlOf <- [t \in {t1, t2, t3} |-> IF t = t3 THEN u2 ELSE u1],
            LockOf <- [u \in {u1, u2} |-> 1],
            Proactive <- TRUE, AuthHandler <- TRUE, MaxDials <- 3,
            MaxSweeps <- 1, pc <- taskPc, results <- taskResults

ASSUME FetchingAssumption == F!FetchAssumption
ASSUME PoolingAssumption == P!PoolAssumption
----------------------------------------------------------------------------
MCInit ==
  /\ subject \in {"subMany", "fetch", "publish"}
  /\ Init /\ F!Init /\ P!Init
  /\ subject # "fetch" => call = "FetchMany"

Subscribes(step) == subject = "subMany" /\ step /\ UNCHANGED <<subject, fetchVars, poolVars>>
Fetches(step) == subject = "fetch" /\ step /\ UNCHANGED <<subject, vars, poolVars>>
Publishes(step) == subject = "publish" /\ step /\ UNCHANGED <<subject, vars, fetchVars>>

MCNext == Subscribes(Next) \/ Fetches(F!Next) \/ Publishes(P!Next)

allVars == <<subject, vars, fetchVars, poolVars>>

MCSpec ==
  /\ MCInit /\ [][MCNext]_allVars
  /\ \A r \in Relay :
       /\ WF_vars(subject = "subMany" /\ GoroutineStep(r))
       /\ WF_vars(subject = "subMany" /\ WatchEose(r))
       /\ WF_vars(subject = "subMany" /\ SubscriptionMustEnd(r))
  /\ WF_vars(subject = "subMany" /\ CloseEoseChan)
  /\ WF_allVars(Fetches(F!Progress) \/ Publishes(P!Progress))
----------------------------------------------------------------------------
(* A fetch emits an event once.                                             *)
FetchedOnce == F!EmittedOnce

(* A fetch hands over what its relays had stored.                           *)
NothingMissed == F!NothingMissed

(* A fetch ends.                                                            *)
FetchEnds == F!FetchEnds

(* One live connection to a url, which everybody gets.                      *)
OneSharedConnection == P!OneSharedConnection

(* PublishMany ends, with a result for every url.                           *)
PublishManyEnds == []<>(subject = "publish" => P!Reported)
=============================================================================
