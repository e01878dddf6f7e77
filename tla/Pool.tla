--------------------------------- MODULE Pool ----------------------------------
(***************************************************************************)
(* SimplePool.EnsureRelay (pool.go:177), with the locks it takes by name   *)
(* and the penalty box, as the goroutines of one PublishMany (pool.go:237) *)
(* use it.                                                                 *)
(*                                                                         *)
(* A Task is one entry of the urls of PublishMany. A connection is a       *)
(* number, counted up as relays are dialled; that a Relay stays in the     *)
(* Relays map after its connection is lost is the map still holding the    *)
(* number. Relay.Connect, PerformAuth, Publish and Auth succeed or fail;   *)
(* all of them return, by their own timeouts (module Relay).               *)
(*                                                                         *)
(* The pool has a penalty box. The branch of EnsureRelay that looks into   *)
(* it is for a nil *Relay in the map; nothing in this code stores one, so  *)
(* the branch is never entered and has no action here.                     *)
(***************************************************************************)
EXTENDS Integers, FiniteSets

CONSTANTS
  Task,         \* the entries of urls
  Url,          \* the normalised urls
  UrlOf,        \* the url of each entry
  LockOf,       \* the mutex namedLock picks for a url
  Proactive,    \* WithProactiveAuth was given
  AuthHandler,  \* an auth handler was given
  MaxDials,     \* bound: relays dialled
  MaxSweeps     \* bound: rounds of the penalty box

PoolAssumption ==
  /\ Url # {}
  /\ UrlOf \in [Task -> Url]
  /\ LockOf \in [Url -> Nat]
  /\ Proactive \in BOOLEAN /\ AuthHandler \in BOOLEAN
  /\ Proactive => AuthHandler
  /\ MaxDials \in Nat /\ MaxSweeps \in Nat

VARIABLES
  relays,   \* pool.Relays: the connection stored for a url, 0 for none
  dials,    \* relays dialled so far
  urlOfConn,\* which url a connection is to
  up,       \* connections that are alive
  lock,     \* the tasks that hold a named mutex
  box,      \* pool.penaltyBox: failures and seconds remaining
  sleep,    \* the penalty box's next sleep
  sweeps,   \* rounds it has made
  pc,       \* progress of each task
  conn,     \* the relay a task works with
  results,  \* results each task has put into the channel
  closed    \* PublishMany's channel is closed

vars == <<relays, dials, urlOfConn, up, lock, box, sleep, sweeps, pc, conn,
          results, closed>>

boxVars == <<box, sleep, sweeps>>
connVars == <<dials, urlOfConn, up>>
publishVars == <<results, closed>>

TypeOK ==
  /\ relays \in [Url -> 0..MaxDials]
  /\ dials \in 0..MaxDials
  /\ urlOfConn \in [1..MaxDials -> Url]
  /\ up \in SUBSET (1..dials)
  /\ lock \in SUBSET Task
  /\ box \in [Url -> [failures : Nat, remaining : Nat]]
  /\ sleep \in Nat
  /\ sweeps \in 0..MaxSweeps
  /\ pc \in [Task -> {"lock", "load", "dial", "auth", "store", "publish",
                      "reauth", "republish", "done"}]
  /\ conn \in [Task -> 0..MaxDials]
  /\ results \in [Task -> 0..1]
  /\ closed \in BOOLEAN

Init ==
  /\ relays = [u \in Url |-> 0]
  /\ dials = 0
  /\ urlOfConn = [k \in 1..MaxDials |-> CHOOSE u \in Url : TRUE]
  /\ up = {}
  /\ lock = {}
  /\ box = [u \in Url |-> [failures |-> 0, remaining |-> 0]]
  /\ sleep = 30
  /\ sweeps = 0
  /\ pc = [t \in Task |-> "lock"]
  /\ conn = [t \in Task |-> 0]
  /\ results = [t \in Task |-> 0]
  /\ closed = FALSE

Goto(t, from, to) == pc[t] = from /\ pc' = [pc EXCEPT ![t] = to]

(* The task puts its result into the buffered channel and is counted off.   *)
PutResult(t, from) ==
  /\ Goto(t, from, "done")
  /\ results' = [results EXCEPT ![t] = @ + 1]
  /\ UNCHANGED closed

-----------------------------------------------------------------------------
(***************************************************************************)
(* EnsureRelay.                                                            *)
(***************************************************************************)

(* Mutation: the lock is taken by the task instead of the normalised url.   *)
LockByTask(t) ==
  /\ Goto(t, "lock", "load")
  /\ lock' = lock \cup {t}
  /\ UNCHANGED <<relays, connVars, boxVars, conn, publishVars>>

(* namedLock: two urls may share a mutex.                                   *)
Lock(t) ==
  /\ Goto(t, "lock", "load")
  /\ \A h \in lock : LockOf[UrlOf[h]] # LockOf[UrlOf[t]]
  /\ lock' = lock \cup {t}
  /\ UNCHANGED <<relays, connVars, boxVars, conn, publishVars>>

(* The stored relay is used if it is connected, otherwise one is dialled.   *)
LoadRelay(t) ==
  /\ IF relays[UrlOf[t]] \in up
     THEN /\ Goto(t, "load", "publish")
          /\ conn' = [conn EXCEPT ![t] = relays[UrlOf[t]]]
          /\ lock' = lock \ {t}
     ELSE Goto(t, "load", "dial") /\ UNCHANGED <<conn, lock>>
  /\ UNCHANGED <<relays, connVars, boxVars, publishVars>>

DialSucceeds(t) ==
  /\ Goto(t, "dial", IF Proactive THEN "auth" ELSE "store")
  /\ dials < MaxDials
  /\ dials' = dials + 1
  /\ urlOfConn' = [urlOfConn EXCEPT ![dials'] = UrlOf[t]]
  /\ up' = up \cup {dials'}
  /\ conn' = [conn EXCEPT ![t] = dials']
  /\ UNCHANGED <<relays, lock, boxVars, publishVars>>

(* Mutation: the error is returned past the unlocking.                      *)
DialFailsLocked(t) ==
  /\ PutResult(t, "dial")
  /\ LET n == box[UrlOf[t]].failures + 1 IN
       box' = [box EXCEPT ![UrlOf[t]] =
                 [failures |-> n, remaining |-> 30 + 2 ^ n]]
  /\ UNCHANGED <<relays, connVars, lock, sleep, sweeps, conn>>

(* A failure puts the url into the penalty box; the task reports it.        *)
DialFails(t) ==
  /\ PutResult(t, "dial")
  /\ LET n == box[UrlOf[t]].failures + 1 IN
       box' = [box EXCEPT ![UrlOf[t]] =
                 [failures |-> n, remaining |-> 30 + 2 ^ n]]
  /\ lock' = lock \ {t}
  /\ UNCHANGED <<relays, connVars, sleep, sweeps, conn>>

(* PerformAuth, whatever comes of it, with the mutex held.                  *)
PerformAuth(t) ==
  /\ Goto(t, "auth", "store")
  /\ UNCHANGED <<relays, connVars, lock, boxVars, conn, publishVars>>

StoreRelay(t) ==
  /\ Goto(t, "store", "publish")
  /\ relays' = [relays EXCEPT ![UrlOf[t]] = conn[t]]
  /\ lock' = lock \ {t}
  /\ UNCHANGED <<connVars, boxVars, conn, publishVars>>

(* The connection of a relay ends; the map keeps the relay.                 *)
ConnectionEnds(k) ==
  /\ k \in up
  /\ up' = up \ {k}
  /\ UNCHANGED <<relays, dials, urlOfConn, lock, boxVars, pc, conn,
                 publishVars>>

-----------------------------------------------------------------------------
(***************************************************************************)
(* The goroutine of WithPenaltyBox: it sleeps, takes what it slept off all *)
(* entries, and sleeps next for the least that remains, 300s at most.      *)
(***************************************************************************)

SweepPenaltyBox ==
  /\ sweeps < MaxSweeps
  /\ sweeps' = sweeps + 1
  /\ box' = [u \in Url |->
               [box[u] EXCEPT !.remaining = IF @ > sleep THEN @ - sleep ELSE 0]]
  /\ sleep' = LET left == {box'[u].remaining : u \in Url} \ {0} IN
                CHOOSE s \in left \cup {300} : \A l \in left \cup {300} : s <= l
  /\ UNCHANGED <<relays, connVars, lock, pc, conn, publishVars>>

-----------------------------------------------------------------------------
(***************************************************************************)
(* PublishMany.                                                            *)
(***************************************************************************)

(* Publish succeeds or fails, or the relay wants AUTH first.                *)
Publish(t) ==
  /\ \/ PutResult(t, "publish")
     \/ AuthHandler /\ Goto(t, "publish", "reauth") /\ UNCHANGED publishVars
  /\ UNCHANGED <<relays, connVars, lock, boxVars, conn>>

Auth(t) ==
  /\ \/ PutResult(t, "reauth")
     \/ Goto(t, "reauth", "republish") /\ UNCHANGED publishVars
  /\ UNCHANGED <<relays, connVars, lock, boxVars, conn>>

PublishAgain(t) ==
  /\ PutResult(t, "republish")
  /\ UNCHANGED <<relays, connVars, lock, boxVars, conn>>

(* wg.Wait() is over.                                                       *)
CloseResults ==
  /\ \A t \in Task : pc[t] = "done"
  /\ ~closed
  /\ closed' = TRUE
  /\ UNCHANGED <<relays, connVars, lock, boxVars, pc, conn, results>>

-----------------------------------------------------------------------------
TaskStep(t) ==
  \/ LoadRelay(t) \/ DialSucceeds(t) \/ DialFails(t) \/ PerformAuth(t)
  \/ StoreRelay(t) \/ Publish(t) \/ Auth(t) \/ PublishAgain(t)

Next ==
  \/ \E t \in Task : Lock(t) \/ TaskStep(t)
  \/ \E k \in 1..MaxDials : ConnectionEnds(k)
  \/ SweepPenaltyBox
  \/ CloseResults

Spec == Init /\ [][Next]_vars

(***************************************************************************)
(* Goroutines run; every call a task makes returns, by a timeout if need   *)
(* be. A task takes a mutex once, so that it is fair to all tasks if one   *)
(* of them takes a step while one can.                                     *)
(***************************************************************************)
Progress == (\E t \in Task : Lock(t) \/ TaskStep(t)) \/ CloseResults

FairSpec == Spec /\ WF_vars(Progress)

-----------------------------------------------------------------------------
(***************************************************************************)
(* Safety.                                                                 *)
(***************************************************************************)

(* However many goroutines want a relay at once, the pool keeps one live    *)
(* connection to a url at most.                                             *)
OneConnection ==
  \A j, k \in up : urlOfConn[j] = urlOfConn[k] => j = k

(* A task publishes on the relay that the pool has for its url, which all   *)
(* others get, too, for as long as that connection lives.                   *)
SharedConnection ==
  \A t \in Task :
    pc[t] \in {"publish", "reauth", "republish"} /\ conn[t] \in up =>
      relays[UrlOf[t]] = conn[t]

(* Both: the pool's only connection to a url is the one that tasks share.   *)
OneSharedConnection == OneConnection /\ SharedConnection

(* No relay is dialled while its url is in the penalty box (pool.go:110).   *)
PenaltyServed ==
  [][\A t \in Task :
       pc[t] = "load" /\ pc'[t] = "dial" => box[UrlOf[t]].remaining = 0]_vars

-----------------------------------------------------------------------------
Reported == closed /\ \A t \in Task : results[t] = 1

(* PublishMany closes its channel, though nobody may read it and two urls   *)
(* may share a mutex, and has put one result into it for every url.         *)
PublishManyEnds == []<>Reported
=============================================================================
