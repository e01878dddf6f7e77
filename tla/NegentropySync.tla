--------------------------- MODULE NegentropySync ---------------------------
(***************************************************************************)
(* NegentropySync (nip77/nip77.go): what is done with the differences that *)
(* a reconciliation finds. The relay's read loop runs the handler, which   *)
(* puts ids into the channels Haves ("up") and HaveNots ("down"); for each *)
(* direction asked for a goroutine collects them into lists, and a full    *)
(* list is synced by a goroutine of its own: its events are queried at the *)
(* source and published to the target.                                     *)
(*                                                                         *)
(* The lists come from a pool (nip77/idlistpool.go). grab locks it and     *)
(* giveback does not, so a giveback reads the pool in one step and writes  *)
(* it in another. The array under the pool is taken to stay where it is.   *)
(* What goes on after the call has returned is not followed.               *)
(*                                                                         *)
(* Module Negentropy is about the reconciliation itself; here it reports   *)
(* those ids part by part. The relay says nothing once it is complete but, *)
(* perhaps, an error. That publishing fails is not noticed by the code.    *)
(***************************************************************************)
EXTENDS Naturals, Sequences, FiniteSets

CONSTANTS
  Id,
  Calls,       \* the calls to look at (see SyncCall)
  ChanCap,     \* room in Haves and HaveNots (64)
  MaxLists     \* bound: lists made

Dir == {"up", "down"}

(* The directions asked for, the ids that each direction has to move, the   *)
(* length of a full list (50), and how often the relay may have an id       *)
(* reported again or send an error.                                         *)
SyncCall ==
  [dirs : SUBSET Dir, needs : [Dir -> SUBSET Id], batch : Nat \ {0},
   repeats : Nat, errors : Nat]

SyncAssumption ==
  /\ Id \subseteq Nat
  /\ Calls \subseteq SyncCall
  /\ ChanCap \in Nat /\ MaxLists \in Nat \ {0}

VARIABLES
  call,      \* what is asked for, and what is in store
  main,      \* progress of the call
  left,      \* ids that are not reported yet
  repeats,   \* ids reported again
  errors,    \* errors sent by the relay
  handler,   \* progress of the handler
  pending,   \* what the handler has still to put into the channels
  items,     \* Haves and HaveNots
  complete,  \* the reconciliation is complete: both channels are closed
  collector, \* each direction's goroutine
  seen,      \* its map of that name
  array,     \* the ids in each list
  slots,     \* the array under the pool
  poolLen,   \* its length
  tasks,     \* the calls to doSync that have not returned
  handled,   \* history: ids queried at the source, and how often
  aliased    \* history: a list in use was given out

vars == <<call, main, left, repeats, errors, handler, pending, items, complete,
          collector, seen, array, slots, poolLen, tasks, handled, aliased>>

relayVars == <<left, repeats, errors, handler, pending>>
poolVars == <<slots, poolLen>>

TypeOK ==
  /\ call \in Calls
  /\ main \in {"write", "wait", "nil", "error"}
  /\ left \in [Dir -> SUBSET Id]
  /\ repeats \in 0..call.repeats /\ errors \in 0..call.errors
  /\ handler \in {"idle", "push", "finish", "fail"}
  /\ pending \in [Dir -> SUBSET Id]
  /\ \A d \in Dir : items[d] \in Seq(Id) /\ Len(items[d]) <= ChanCap
  /\ complete \in BOOLEAN
  /\ collector \in [Dir -> [pc : {"start", "grab", "collect", "done"},
                            list : 0..MaxLists, len : 0..call.batch]]
  /\ seen \in [Dir -> SUBSET Id]
  /\ \A l \in DOMAIN array : array[l] \in [1..call.batch -> Id \cup {0}]
  /\ poolLen \in 0..MaxLists /\ slots \in [1..MaxLists -> 0..MaxLists]
  /\ tasks \subseteq [dir : Dir, no : Nat, list : 1..MaxLists,
                      len : 0..call.batch, header : 0..MaxLists,
                      pc : {"query", "fail", "giveback", "put"}]
  /\ handled \in [Dir -> [Id -> Nat]]
  /\ aliased \in BOOLEAN

Blank == [i \in 1..call.batch |-> 0]

(* The pool has one list to begin with.                                     *)
Init ==
  /\ call \in Calls
  /\ main = "write"
  /\ left = call.needs
  /\ repeats = 0 /\ errors = 0
  /\ handler = "idle"
  /\ pending = [d \in Dir |-> {}]
  /\ items = [d \in Dir |-> <<>>]
  /\ complete = FALSE
  /\ collector = [d \in Dir |-> [pc |-> "start", list |-> 0, len |-> 0]]
  /\ seen = [d \in Dir |-> {}]
  /\ array = <<Blank>>
  /\ slots = [n \in 1..MaxLists |-> IF n = 1 THEN 1 ELSE 0]
  /\ poolLen = 1
  /\ tasks = {}
  /\ handled = [d \in Dir |-> [i \in Id |-> 0]]
  /\ aliased = FALSE

-----------------------------------------------------------------------------
(***************************************************************************)
(* The handler, in the read loop of the relay. While it waits for room in  *)
(* a channel, or for the call to take an error, it reads nothing else.     *)
(***************************************************************************)

(* The first ids of a set: which of them are reported first is of no        *)
(* consequence.                                                             *)
FirstOf(ids, k) == {i \in ids : Cardinality({j \in ids : j <= i}) <= k}

(* A message makes Reconcile report some ids, and perhaps one again; with   *)
(* no ids left there may be nothing to answer: the reconciliation is        *)
(* complete.                                                                *)
ReadMessage ==
  /\ handler = "idle" /\ main = "wait" /\ ~complete
  /\ \E ups \in 0..Cardinality(left["up"]),
        downs \in 0..Cardinality(left["down"]) :
       LET part == [d \in Dir |->
                      FirstOf(left[d], IF d = "up" THEN ups ELSE downs)]
       IN /\ left' = [d \in Dir |-> left[d] \ part[d]]
          /\ \/ pending' = part /\ UNCHANGED repeats
             \/ /\ repeats < call.repeats
                /\ repeats' = repeats + 1
                /\ \E d \in Dir : \E i \in call.needs[d] \ left[d] :
                     pending' = [part EXCEPT ![d] = @ \cup {i}]
  /\ \/ handler' = "push" /\ \E d \in Dir : pending'[d] # {}
     \/ handler' = "finish" /\ \A d \in Dir : left'[d] = {}
  /\ UNCHANGED <<call, main, errors, items, complete, collector, seen, array,
                 poolVars, tasks, handled, aliased>>

Push(d) ==
  /\ handler \in {"push", "finish"}
  /\ pending[d] # {}
  /\ Len(items[d]) < ChanCap
  /\ LET i == CHOOSE i \in pending[d] : \A j \in pending[d] : i <= j
     IN /\ items' = [items EXCEPT ![d] = Append(@, i)]
        /\ pending' = [pending EXCEPT ![d] = @ \ {i}]
  /\ UNCHANGED <<call, main, left, repeats, errors, handler, complete,
                 collector, seen, array, poolVars, tasks, handled, aliased>>

(* The message is read: the next one is asked for, or the channels closed.  *)
EndMessage ==
  /\ handler \in {"push", "finish"}
  /\ \A d \in Dir : pending[d] = {}
  /\ complete' = (handler = "finish")
  /\ handler' = "idle"
  /\ UNCHANGED <<call, main, left, repeats, errors, pending, items, collector,
                 seen, array, poolVars, tasks, handled, aliased>>

(* An error of the relay, or a message out of place or without sense.       *)
ReadError ==
  /\ handler = "idle"
  /\ errors < call.errors
  /\ errors' = errors + 1
  /\ handler' = "fail"
  /\ UNCHANGED <<call, main, left, repeats, pending, items, complete,
                 collector, seen, array, poolVars, tasks, handled, aliased>>

(* Mutation: the handler swallows an error.                                 *)
SwallowError ==
  /\ handler = "fail"
  /\ handler' = "idle"
  /\ UNCHANGED <<call, main, left, repeats, errors, pending, items, complete,
                 collector, seen, array, poolVars, tasks, handled, aliased>>

(* The channel `result` has no room: an error is sent when the call takes   *)
(* it, and one result is all that it takes.                                 *)
SendError ==
  /\ handler = "fail"
  /\ main = "wait"
  /\ main' = "error"
  /\ handler' = "idle"
  /\ UNCHANGED <<call, left, repeats, errors, pending, items, complete,
                 collector, seen, array, poolVars, tasks, handled, aliased>>

-----------------------------------------------------------------------------
(***************************************************************************)
(* The call.                                                               *)
(***************************************************************************)
Open ==
  /\ main = "write"
  /\ main' \in {"wait", "error"}
  /\ collector' = [d \in Dir |->
       IF d \in call.dirs /\ main' = "wait"
       THEN [collector[d] EXCEPT !.pc = "grab"] ELSE collector[d]]
  /\ UNCHANGED <<call, relayVars, items, complete, seen, array, poolVars,
                 tasks, handled, aliased>>

(* wg.Wait() is over.                                                       *)
AllDone ==
  /\ \A d \in call.dirs : collector[d].pc = "done"
  /\ tasks = {}

Succeed ==
  /\ main = "wait"
  /\ AllDone
  /\ main' = "nil"
  /\ UNCHANGED <<call, relayVars, items, complete, collector, seen, array,
                 poolVars, tasks, handled, aliased>>

-----------------------------------------------------------------------------
(***************************************************************************)
(* The goroutine of a direction.                                           *)
(***************************************************************************)
(* A collector or one of these tasks uses the list.                         *)
InUse(l, users) ==
  \/ \E d \in Dir : collector[d].pc = "collect" /\ collector[d].list = l
  \/ \E t \in users : t.list = l /\ t.pc # "put"

(* grab: the last list of the pool, or a new one.                           *)
Grab(d) ==
  /\ collector[d].pc = "grab"
  /\ LET l == IF poolLen > 0 THEN slots[poolLen] ELSE Len(array) + 1 IN
       /\ l <= MaxLists
       /\ collector' = [collector EXCEPT ![d] =
                          [pc |-> "collect", list |-> l, len |-> 0]]
       /\ poolLen' = IF poolLen > 0 THEN poolLen - 1 ELSE 0
       /\ array' = IF poolLen > 0 THEN array ELSE Append(array, Blank)
       /\ aliased' = (aliased \/ InUse(l, tasks))
  /\ UNCHANGED <<call, main, relayVars, items, complete, seen, slots, tasks,
                 handled>>

Task(d, n) ==
  [dir |-> d, no |-> Cardinality(seen[d]), list |-> collector[d].list,
   len |-> n, header |-> 0, pc |-> "query"]

IsNew(d, i) == i \notin seen[d]

(* A new id goes into the list, a full list is synced.                      *)
Collect(d) ==
  /\ collector[d].pc = "collect"
  /\ items[d] # <<>>
  /\ items' = [items EXCEPT ![d] = Tail(@)]
  /\ LET i == Head(items[d])
         n == collector[d].len + 1
     IN IF IsNew(d, i)
        THEN /\ seen' = [seen EXCEPT ![d] = @ \cup {i}]
             /\ array' = [array EXCEPT ![collector[d].list][n] = i]
             /\ IF n = call.batch
                THEN /\ tasks' = tasks \cup {Task(d, n)}
                     /\ collector' = [collector EXCEPT ![d].pc = "grab"]
                ELSE /\ collector' = [collector EXCEPT ![d].len = n]
                     /\ UNCHANGED tasks
        ELSE UNCHANGED <<seen, array, tasks, collector>>
  /\ UNCHANGED <<call, main, relayVars, complete, poolVars, handled, aliased>>

(* Mutation: what does not fill a list is left out.                         *)
DropRest(d) ==
  /\ collector[d].pc = "collect"
  /\ items[d] = <<>> /\ complete
  /\ collector' = [collector EXCEPT ![d].pc = "done"]
  /\ UNCHANGED <<call, main, relayVars, items, complete, seen, array, poolVars,
                 tasks, handled, aliased>>

(* The channel is closed and empty: the rest is synced, by this goroutine   *)
(* itself, which makes no difference to those who wait for it.              *)
CollectRest(d) ==
  /\ collector[d].pc = "collect"
  /\ items[d] = <<>> /\ complete
  /\ tasks' = tasks \cup {Task(d, collector[d].len)}
  /\ collector' = [collector EXCEPT ![d].pc = "done"]
  /\ UNCHANGED <<call, main, relayVars, items, complete, seen, array, poolVars,
                 handled, aliased>>

-----------------------------------------------------------------------------
(***************************************************************************)
(* doSync.                                                                 *)
(***************************************************************************)
TaskGoes(t, from, to) ==
  /\ t.pc = from
  /\ tasks' = (tasks \ {t}) \cup {[t EXCEPT !.pc = to]}

IdsIn(task) == {array[task.list][n] : n \in 1..task.len}

(* The ids are read now; their events go to the target one by one.          *)
Query(t) ==
  /\ TaskGoes(t, "query", "giveback")
  /\ LET ids == IdsIn(t)
         d == t.dir
     IN handled' = [handled EXCEPT ![d] =
                      [i \in Id |-> @[i] + IF i \in ids THEN 1 ELSE 0]]
  /\ UNCHANGED <<call, main, relayVars, items, complete, collector, seen,
                 array, poolVars, aliased>>

QueryFails(t) ==
  /\ TaskGoes(t, "query", "fail")
  /\ t.len > 0
  /\ UNCHANGED <<call, main, relayVars, items, complete, collector, seen,
                 array, poolVars, handled, aliased>>

ReportError(t) ==
  /\ TaskGoes(t, "fail", "giveback")
  /\ main = "wait"
  /\ main' = "error"
  /\ UNCHANGED <<call, relayVars, items, complete, collector, seen, array,
                 poolVars, handled, aliased>>

(* giveback reads the pool; what is left in the list does not matter.       *)
GivebackReads(t) ==
  /\ t.pc = "giveback"
  /\ tasks' = (tasks \ {t}) \cup {[t EXCEPT !.pc = "put", !.header = poolLen]}
  /\ array' = IF InUse(t.list, tasks \ {t})
            THEN array ELSE [array EXCEPT ![t.list] = Blank]
  /\ UNCHANGED <<call, main, relayVars, items, complete, collector, seen,
                 poolVars, handled, aliased>>

(* ... and the call to doSync is over.                                      *)
GivebackWrites(t) ==
  /\ t.pc = "put"
  /\ t.header < MaxLists
  /\ poolLen' = t.header + 1
  /\ slots' = [slots EXCEPT ![poolLen'] = t.list]
  /\ tasks' = tasks \ {t}
  /\ UNCHANGED <<call, main, relayVars, items, complete, collector, seen,
                 array, handled, aliased>>

-----------------------------------------------------------------------------
HandlerStep == EndMessage \/ SendError \/ \E d \in Dir : Push(d)

CollectorStep(d) == Grab(d) \/ Collect(d) \/ CollectRest(d)

TaskStep(t) ==
  \/ Query(t) \/ QueryFails(t) \/ ReportError(t)
  \/ GivebackReads(t) \/ GivebackWrites(t)

Returned == main \in {"nil", "error"}

Step ==
  \/ ReadMessage \/ ReadError \/ HandlerStep
  \/ Open \/ Succeed
  \/ \E d \in Dir : CollectorStep(d)
  \/ \E t \in tasks : TaskStep(t)

Next == ~Returned /\ Step

Spec == Init /\ [][Next]_vars

(* The handler, the call, the collectors and the goroutines they start go   *)
(* on when they can: queries end. Each has an end, so that one step or      *)
(* other is enough. Nothing is owed by the relay.                           *)
Progress ==
  /\ ~Returned
  /\ \/ HandlerStep \/ Open \/ Succeed
     \/ \E d \in Dir : CollectorStep(d)
     \/ \E t \in tasks : TaskStep(t)

FairSpec == Spec /\ WF_vars(Progress)

-----------------------------------------------------------------------------
(* When the call returns without an error, all ids of its directions have   *)
(* been asked for, each once, whether in full lists or in the rest, unless  *)
(* the pool gave out a list that was still in use.                          *)
SyncIsComplete ==
  main = "nil" /\ ~aliased =>
    \A d \in call.dirs : \A i \in call.needs[d] : handled[d][i] = 1

(* Ids of the direction that was not asked for fill their channel.          *)
Overflows ==
  \E d \in Dir \ call.dirs : pending[d] # {} /\ Len(items[d]) = ChanCap

(* Once the last message or an error has come the call returns, unless ids  *)
(* that nobody takes fill their channel and the handler waits for ever.     *)
SyncEnds ==
  main # "write" /\ handler \in {"finish", "fail"}
    ~> Returned \/ Overflows
=============================================================================
