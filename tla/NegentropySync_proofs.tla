-------------------------- MODULE NegentropySync_proofs --------------------------
(***************************************************************************)
(* That a NegentropySync which returns without an error has moved every id, *)
(* once, for any ids, directions, length of a list and room in the channels.*)
(*                                                                         *)
(* The argument follows an id: it is reported, waits in a channel, is seen  *)
(* by the collector, which has it in its list, or in a list whose task has  *)
(* not asked yet, or it was asked for. Only while every list has one user   *)
(* does what a list holds stay what it was.                                 *)
(***************************************************************************)
EXTENDS NegentropySync, FiniteSetTheorems, WellFoundedInduction, TLAPS

Shape ==
  /\ TypeOK
  /\ items \in [Dir -> Seq(Id)]
  /\ array \in Seq([1..call.batch -> Id \cup {0}])
  /\ Len(array) <= MaxLists
  /\ \A d \in Dir : IsFiniteSet(seen[d])

(* The lists that are handed round exist.                                   *)
ListsKnown ==
  /\ \A d \in Dir : collector[d].pc = "collect" =>
       collector[d].list \in 1..Len(array) /\ collector[d].len < call.batch
  /\ \A t \in tasks : t.list \in 1..Len(array)
  /\ \A n \in 1..poolLen : slots[n] \in 1..Len(array)
  /\ \A t \in tasks : t.pc = "put" =>
       \A n \in 1..t.header : slots[n] \in 1..Len(array)

(* An id that has to be moved gets as far as the collector.                 *)
Reported(d, i) ==
  \/ i \in left[d] \cup pending[d] \cup seen[d]
  \/ \E k \in 1..Len(items[d]) : items[d][k] = i

Reporting ==
  /\ handler \in {"idle", "fail"} => \A d \in Dir : pending[d] = {}
  /\ handler = "finish" \/ complete => \A d \in Dir : left[d] = {}
  /\ complete => handler \in {"idle", "fail"}
  /\ \A d \in Dir : \A i \in call.needs[d] : Reported(d, i)
  /\ \A d \in Dir : collector[d].pc = "done" => complete /\ items[d] = <<>>
  /\ main = "nil" => AllDone
  /\ main = "write" => \A d \in Dir : collector[d].pc = "start"

(* A list is with one collector, or with one task that has not given it up. *)
OneUser ==
  /\ \A d, e \in Dir :
       /\ collector[d].pc = "collect" /\ collector[e].pc = "collect"
       /\ collector[d].list = collector[e].list
       => d = e
  /\ \A d \in Dir, t \in tasks :
       collector[d].pc = "collect" /\ t.pc # "put" => t.list # collector[d].list
  /\ \A t, u \in tasks :
       t.pc # "put" /\ u.pc # "put" /\ t.list = u.list => t = u

(* The collector of d has i in its list; t will ask for it.                 *)
Listed(d, i) ==
  /\ collector[d].pc = "collect"
  /\ \E n \in 1..collector[d].len : array[collector[d].list][n] = i

Queued(t, d, i) == t.dir = d /\ t.pc = "query" /\ i \in IdsIn(t)

Failed == main = "error" \/ \E t \in tasks : t.pc = "fail"

OnePlace ==
  \A d \in Dir, i \in Id :
    /\ i \notin seen[d] => handled[d][i] = 0
    /\ Listed(d, i) => i \in seen[d] /\ handled[d][i] = 0
    /\ \A t \in tasks : Queued(t, d, i) =>
         i \in seen[d] /\ handled[d][i] = 0 /\ ~Listed(d, i)
    /\ \A t, u \in tasks : Queued(t, d, i) /\ Queued(u, d, i) => t = u
    /\ i \in seen[d] =>
         \/ Listed(d, i) \/ \E t \in tasks : Queued(t, d, i)
         \/ handled[d][i] = 1 \/ Failed

SyncInv ==
  /\ Shape /\ ListsKnown /\ Reporting
  /\ ~aliased => OneUser /\ OnePlace
--------------------------------------------------------------------------------
LEMMA CallFacts ==
  ASSUME SyncAssumption, Shape
  PROVE  /\ call \in Calls /\ call.dirs \subseteq Dir
         /\ call.needs \in [Dir -> SUBSET Id]
         /\ call.batch \in Nat \ {0}
         /\ call.repeats \in Nat /\ call.errors \in Nat
BY DEF SyncAssumption, Shape, TypeOK, SyncCall

(* A set of ids that is not empty has a first one.                          *)
LEMMA FirstId ==
  ASSUME NEW ids \in SUBSET Nat, ids # {}
  PROVE  \E i \in ids : \A j \in ids : i <= j
<1>1. PICK i \in ids : \A j \in ids : <<j, i>> \notin OpToRel(<, Nat)
  BY NatLessThanWellFounded, WFMin, Zenon
<1>2. \A j \in ids : ~(j < i)
  BY <1>1 DEF OpToRel
<1> QED
  BY <1>2

LEMMA SyncInit == ASSUME SyncAssumption PROVE Init => SyncInv
<1> SUFFICES ASSUME Init PROVE SyncInv
  OBVIOUS
<1>c. /\ call \in Calls /\ call.needs \in [Dir -> SUBSET Id]
      /\ call.batch \in Nat \ {0} /\ call.repeats \in Nat /\ call.errors \in Nat
      /\ MaxLists \in Nat \ {0} /\ ChanCap \in Nat
  BY DEF Init, SyncAssumption, SyncCall
<1>a. Blank \in [1..call.batch -> Id \cup {0}]
  BY DEF Blank
<1>b. /\ array \in Seq([1..call.batch -> Id \cup {0}])
      /\ Len(array) = 1 /\ DOMAIN array = 1..1
      /\ array[1] = Blank
  BY <1>a DEF Init
<1>1. TypeOK
  <2>1. /\ left \in [Dir -> SUBSET Id] /\ pending \in [Dir -> SUBSET Id]
        /\ repeats \in 0..call.repeats /\ errors \in 0..call.errors
    BY <1>c DEF Init
  <2>2. collector \in [Dir -> [pc : {"start", "grab", "collect", "done"},
                               list : 0..MaxLists, len : 0..call.batch]]
    BY <1>c DEF Init
  <2>3. \A d \in Dir : items[d] \in Seq(Id) /\ Len(items[d]) <= ChanCap
    BY <1>c DEF Init
  <2>4. poolLen \in 0..MaxLists /\ slots \in [1..MaxLists -> 0..MaxLists]
    BY <1>c DEF Init
  <2>5. \A l \in DOMAIN array : array[l] \in [1..call.batch -> Id \cup {0}]
    BY <1>a, <1>b
  <2> QED
    BY <1>c, <2>1, <2>2, <2>3, <2>4, <2>5 DEF Init, TypeOK
<1>2. Shape
  BY <1>1, <1>b, <1>c, FS_EmptySet DEF Init, Shape
<1>3. ListsKnown
  BY <1>b, <1>c DEF Init, ListsKnown
<1>4. Reporting
  BY <1>c DEF Init, Reporting, Reported
<1>5. OneUser
  BY DEF Init, OneUser
<1>6. OnePlace
  BY DEF Init, OnePlace, Listed
<1> QED
  BY <1>2, <1>3, <1>4, <1>5, <1>6 DEF SyncInv
--------------------------------------------------------------------------------
(***************************************************************************)
(* The handler and the call itself touch neither lists nor tasks.           *)
(***************************************************************************)
ListsStay ==
  /\ UNCHANGED <<call, seen, array, slots, poolLen, tasks, handled, aliased>>
  /\ \A d \in Dir :
       \/ collector'[d] = collector[d]
       \/ collector[d].pc # "collect" /\ collector'[d].pc # "collect"

LEMMA ListsAlone ==
  ASSUME SyncInv, main # "error", Shape', Reporting', ListsStay
  PROVE  SyncInv'
<1> USE DEF SyncInv, ListsStay
<1>1. ListsKnown'
  BY DEF ListsKnown
<1>2. ASSUME ~aliased PROVE OneUser'
  BY <1>2 DEF OneUser
<1>3. ASSUME ~aliased PROVE OnePlace'
  <2>1. \A d \in Dir, i \in Id : Listed(d, i)' <=> Listed(d, i)
    BY DEF Listed
  <2>2. \A t, d, i : Queued(t, d, i)' <=> Queued(t, d, i)
    BY DEF Queued, IdsIn
  <2>3. Failed => Failed'
    BY DEF Failed
  <2> QED
    BY <1>3, <2>1, <2>2, <2>3 DEF OnePlace
<1> QED
  BY <1>1, <1>2, <1>3

LEMMA ReadMessageKeeps ==
  ASSUME SyncAssumption, SyncInv, ReadMessage
  PROVE  SyncInv'
<1> USE DEF ReadMessage, poolVars
<1>c. call.needs \in [Dir -> SUBSET Id] /\ call.repeats \in Nat
  BY CallFacts DEF SyncInv
<1>t. /\ left \in [Dir -> SUBSET Id] /\ pending \in [Dir -> SUBSET Id]
      /\ repeats \in 0..call.repeats
  BY DEF SyncInv, Shape, TypeOK
<1>1. /\ left' \in [Dir -> SUBSET Id]
      /\ pending' \in [Dir -> SUBSET Id]
      /\ repeats' \in 0..call.repeats
      /\ \A d \in Dir : left[d] \subseteq left'[d] \cup pending'[d]
      /\ \A d \in Dir : left'[d] \subseteq left[d]
  <2>1. PICK ups, downs :
          LET part == [d \in Dir |->
                         FirstOf(left[d], IF d = "up" THEN ups ELSE downs)]
          IN /\ left' = [d \in Dir |-> left[d] \ part[d]]
             /\ \/ pending' = part /\ UNCHANGED repeats
                \/ /\ repeats < call.repeats
                   /\ repeats' = repeats + 1
                   /\ \E d \in Dir : \E i \in call.needs[d] \ left[d] :
                        pending' = [part EXCEPT ![d] = @ \cup {i}]
    OBVIOUS
  <2> DEFINE part == [d \in Dir |->
                        FirstOf(left[d], IF d = "up" THEN ups ELSE downs)]
  <2>2. part \in [Dir -> SUBSET Id] /\ \A d \in Dir : part[d] \subseteq left[d]
    BY <1>t DEF FirstOf
  <2>3. left' = [d \in Dir |-> left[d] \ part[d]]
    BY <2>1
  <2>4. \/ pending' = part /\ UNCHANGED repeats
        \/ /\ repeats < call.repeats
           /\ repeats' = repeats + 1
           /\ \E d \in Dir : \E i \in call.needs[d] \ left[d] :
                pending' = [part EXCEPT ![d] = @ \cup {i}]
    BY <2>1
  <2> HIDE DEF part
  <2>5. /\ pending' \in [Dir -> SUBSET Id] /\ repeats' \in 0..call.repeats
        /\ \A d \in Dir : part[d] \subseteq pending'[d]
    BY <1>c, <1>t, <2>2, <2>4
  <2> QED
    BY <1>t, <2>2, <2>3, <2>5
<1>2. Shape'
  BY <1>1 DEF SyncInv, Shape, TypeOK
<1>3. Reporting'
  <2>1. \A d \in Dir : \A i \in call.needs[d] : Reported(d, i)'
    BY <1>1 DEF SyncInv, Reporting, Reported
  <2>2. handler' = "finish" => \A d \in Dir : left'[d] = {}
    OBVIOUS
  <2>3. handler' \in {"push", "finish"} /\ ~complete'
    OBVIOUS
  <2>4. \A d \in Dir : collector[d].pc = "done" => complete /\ items[d] = <<>>
    BY DEF SyncInv, Reporting
  <2> QED
    BY <2>1, <2>2, <2>3, <2>4 DEF Reporting
<1>4. main # "error" /\ ListsStay
  BY DEF ListsStay
<1> HIDE DEF ReadMessage
<1> QED
  BY <1>2, <1>3, <1>4, ListsAlone

LEMMA PushKeeps ==
  ASSUME SyncAssumption, SyncInv, main # "error", NEW d \in Dir, Push(d)
  PROVE  SyncInv'
<1> USE DEF Push, poolVars
<1> DEFINE i == CHOOSE i \in pending[d] : \A j \in pending[d] : i <= j
<1>c. call.needs \in [Dir -> SUBSET Id]
  BY CallFacts DEF SyncInv
<1>t. /\ pending \in [Dir -> SUBSET Id] /\ items \in [Dir -> Seq(Id)]
      /\ Id \subseteq Nat /\ ChanCap \in Nat
  BY DEF SyncInv, Shape, TypeOK, SyncAssumption
<1>i. i \in pending[d] /\ i \in Id
  <2>1. \E k \in pending[d] : \A j \in pending[d] : k <= j
    BY <1>t, FirstId
  <2> QED
    BY <1>t, <2>1
<1>u. /\ items' = [items EXCEPT ![d] = Append(@, i)]
      /\ pending' = [pending EXCEPT ![d] = @ \ {i}]
  OBVIOUS
<1> HIDE DEF i
<1>1. /\ pending' \in [Dir -> SUBSET Id] /\ items' \in [Dir -> Seq(Id)]
      /\ \A e \in Dir : Len(items'[e]) <= ChanCap
  BY <1>t, <1>i, <1>u DEF SyncInv, Shape, TypeOK
<1>2. Shape'
  BY <1>1 DEF SyncInv, Shape, TypeOK
<1>3. Reporting'
  <2>1. ASSUME NEW e \in Dir, NEW j \in call.needs[e] PROVE Reported(e, j)'
    <3>1. CASE e = d /\ j = i
      <4>1. Len(items'[d]) = Len(items[d]) + 1 /\ items'[d][Len(items[d]) + 1] = i
        BY <1>t, <1>i, <1>u
      <4> QED
        BY <1>t, <3>1, <4>1 DEF Reported
    <3>2. CASE ~(e = d /\ j = i)
      <4>1. /\ Len(items'[e]) >= Len(items[e])
            /\ \A k \in 1..Len(items[e]) : items'[e][k] = items[e][k]
        BY <1>t, <1>i, <1>u
      <4>2. j \in pending[e] => j \in pending'[e]
        BY <1>t, <1>u, <3>2
      <4>3. Reported(e, j)
        BY DEF SyncInv, Reporting
      <4>4. Len(items[e]) \in Nat /\ Len(items'[e]) \in Nat
        BY <1>t, <1>1
      <4> QED
        BY <4>1, <4>2, <4>3, <4>4 DEF Reported
    <3> QED
      BY <3>1, <3>2
  <2>2. handler \in {"push", "finish"} /\ handler' = handler /\ ~complete'
    BY DEF SyncInv, Reporting
  <2>3. \A e \in Dir : collector'[e].pc # "done"
    BY <2>2 DEF SyncInv, Reporting
  <2> QED
    BY <2>1, <2>2, <2>3 DEF SyncInv, Reporting, AllDone
<1>4. main # "error" /\ ListsStay
  BY DEF ListsStay
<1> HIDE DEF Push
<1> QED
  BY <1>2, <1>3, <1>4, ListsAlone

LEMMA HandlerKeeps ==
  ASSUME SyncAssumption, SyncInv, main \notin {"nil", "error"},
         EndMessage \/ ReadError \/ SendError \/ Open \/ Succeed
  PROVE  SyncInv'
<1> USE DEF relayVars, poolVars
<1>c. call.errors \in Nat
  BY CallFacts DEF SyncInv
<1>s. Shape /\ TypeOK /\ Reporting
  BY DEF SyncInv, Shape
<1>1. CASE EndMessage
  <2>1. Shape'
    BY <1>1, <1>s DEF EndMessage, Shape, TypeOK
  <2>a. /\ handler \in {"push", "finish"} /\ handler' = "idle"
        /\ complete' = (handler = "finish")
        /\ \A d \in Dir : pending[d] = {}
        /\ UNCHANGED <<call, main, left, pending, items, collector, seen>>
    BY <1>1 DEF EndMessage
  <2>b. ~complete /\ \A d \in Dir : collector[d].pc # "done"
    BY <1>s, <2>a DEF Reporting
  <2>c. complete' => handler = "finish"
    BY <2>a
  <2>d. /\ \A d \in Dir : \A i \in call.needs[d] : Reported(d, i)'
        /\ main' # "nil"
    BY <1>s, <2>a DEF Reporting, Reported
  <2>2. Reporting'
    BY <1>s, <2>a, <2>b, <2>c, <2>d DEF Reporting
  <2>3. ListsStay
    BY <1>1 DEF EndMessage, ListsStay
  <2> QED
    BY <2>1, <2>2, <2>3, ListsAlone
<1>2. CASE ReadError
  <2>1. Shape'
    BY <1>2, <1>c, <1>s, SMTT(30) DEF ReadError, Shape, TypeOK
  <2>2. Reporting'
    BY <1>2, <1>s DEF ReadError, Reporting, Reported, AllDone
  <2>3. ListsStay
    BY <1>2 DEF ReadError, ListsStay
  <2> QED
    BY <2>1, <2>2, <2>3, ListsAlone
<1>3. CASE SendError
  <2>1. Shape'
    BY <1>3, <1>s DEF SendError, Shape, TypeOK
  <2>2. Reporting'
    BY <1>3, <1>s DEF SendError, Reporting, Reported
  <2>3. ListsStay
    BY <1>3 DEF SendError, ListsStay
  <2> QED
    BY <2>1, <2>2, <2>3, ListsAlone
<1>4. CASE Open
  <2> DEFINE Collectors == [pc : {"start", "grab", "collect", "done"},
                           list : 0..MaxLists, len : 0..call.batch]
  <2>1. \A d \in Dir :
          \/ collector'[d] = collector[d]
          \/ collector'[d] = [collector[d] EXCEPT !.pc = "grab"]
    BY <1>4, <1>s DEF Open, TypeOK
  <2>0. collector \in [Dir -> Collectors]
    BY <1>s DEF TypeOK
  <2>f. \E f : collector' = [d \in Dir |-> f[d]]
    <3>1. collector' = [d \in Dir |-> collector'[d]]
      BY <1>4 DEF Open
    <3> QED
      BY <3>1
  <2>2. collector' \in [Dir -> Collectors]
    <3>1. \A d \in Dir : collector'[d] \in Collectors
      BY <2>0, <2>1
    <3> QED
      BY <2>f, <3>1
  <2>3. Shape'
    BY <1>4, <1>s, <2>2 DEF Open, Shape, TypeOK
  <2>4. \A d \in Dir : collector'[d].pc \in {collector[d].pc, "grab"}
    BY <2>0, <2>1
  <2>5. Reporting'
    BY <1>4, <1>s, <2>4 DEF Open, Reporting, Reported
  <2>6. \A d \in Dir : collector[d].pc = "collect" => main # "write"
    BY <1>s DEF Reporting
  <2>7. ListsStay
    BY <1>4, <2>0, <2>1, <2>6 DEF Open, ListsStay
  <2> QED
    BY <2>3, <2>5, <2>7, ListsAlone
<1>5. CASE Succeed
  <2>1. Shape'
    BY <1>5, <1>s DEF Succeed, Shape, TypeOK
  <2>2. Reporting'
    BY <1>5, <1>s DEF Succeed, Reporting, Reported, AllDone
  <2>3. ListsStay
    BY <1>5 DEF Succeed, ListsStay
  <2> QED
    BY <2>1, <2>2, <2>3, ListsAlone
<1> QED
  BY <1>1, <1>2, <1>3, <1>4, <1>5
--------------------------------------------------------------------------------
(***************************************************************************)
(* The collectors.                                                         *)
(***************************************************************************)
LEMMA GrabKeeps ==
  ASSUME SyncAssumption, SyncInv, main \notin {"nil", "error"},
         NEW d \in Dir, Grab(d)
  PROVE  SyncInv'
<1> DEFINE l == IF poolLen > 0 THEN slots[poolLen] ELSE Len(array) + 1
           Arrays == [1..call.batch -> Id \cup {0}]
<1>s. Shape /\ TypeOK /\ Reporting /\ ListsKnown
  BY DEF SyncInv, Shape
<1>c. call.batch \in Nat \ {0} /\ MaxLists \in Nat \ {0}
  BY <1>s, CallFacts DEF SyncAssumption
<1>b. Blank \in Arrays
  BY <1>c DEF Blank
<1>u. /\ collector[d].pc = "grab" /\ l <= MaxLists
      /\ collector' = [collector EXCEPT ![d] = [pc |-> "collect", list |-> l, len |-> 0]]
      /\ poolLen' = IF poolLen > 0 THEN poolLen - 1 ELSE 0
      /\ array' = IF poolLen > 0 THEN array ELSE Append(array, Blank)
      /\ aliased' = (aliased \/ InUse(l, tasks))
      /\ UNCHANGED <<call, main, left, repeats, errors, handler, pending, items,
                     complete, seen, slots, tasks, handled>>
  BY DEF Grab, relayVars
<1>a. /\ array \in Seq(Arrays) /\ poolLen \in 0..MaxLists /\ Len(array) \in Nat
      /\ Len(array) <= MaxLists
  BY <1>s DEF Shape, TypeOK
<1>l. l \in 1..Len(array') /\ l \in 1..MaxLists
  <2>1. CASE poolLen > 0
    BY <1>a, <1>c, <1>s, <1>u, <2>1 DEF ListsKnown
  <2>2. CASE ~(poolLen > 0)
    BY <1>a, <1>b, <1>c, <1>u, <2>2
  <2> QED
    BY <2>1, <2>2
<1>g. /\ array' \in Seq(Arrays) /\ Len(array') <= MaxLists
      /\ Len(array') >= Len(array) /\ Len(array') \in Nat
      /\ \A k \in 1..Len(array) : array'[k] = array[k]
  BY <1>a, <1>b, <1>u, <1>c
<1> HIDE DEF l
<1>k. \A e \in Dir : collector'[e] = IF e = d THEN [pc |-> "collect", list |-> l, len |-> 0]
                                             ELSE collector[e]
  BY <1>s, <1>u DEF TypeOK
<1>1. Shape'
  <2>1. collector' \in [Dir -> [pc : {"start", "grab", "collect", "done"},
                                list : 0..MaxLists, len : 0..call.batch]]
    BY <1>c, <1>l, <1>s, <1>u DEF TypeOK
  <2>2. \A k \in DOMAIN array' : array'[k] \in Arrays
    BY <1>g
  <2>3. poolLen' \in 0..MaxLists /\ aliased' \in BOOLEAN
    BY <1>a, <1>c, <1>u
  <2> QED
    BY <1>g, <1>s, <1>u, <2>1, <2>2, <2>3 DEF Shape, TypeOK
<1>2. ListsKnown'
  <2>1. 1..Len(array) \subseteq 1..Len(array') /\ 1..poolLen' \subseteq 1..poolLen
    BY <1>a, <1>g, <1>u
  <2> QED
    BY <1>c, <1>k, <1>l, <1>s, <1>u, <2>1 DEF ListsKnown
<1>3. Reporting'
  BY <1>k, <1>s, <1>u DEF Reporting, Reported
<1>4. ASSUME ~aliased' PROVE OneUser'
  <2>1. ~aliased /\ ~InUse(l, tasks)
    BY <1>4, <1>u
  <2>2. OneUser
    BY <2>1 DEF SyncInv
  <2> QED
    BY <1>k, <1>u, <2>1, <2>2 DEF OneUser, InUse
<1>5. ASSUME ~aliased' PROVE OnePlace'
  <2>1. OnePlace
    BY <1>5, <1>u DEF SyncInv
  <2>2. \A e \in Dir, i \in Id : Listed(e, i)' <=> Listed(e, i)
    <3>1. \A i \in Id : ~Listed(d, i) /\ ~Listed(d, i)'
      BY <1>k, <1>u DEF Listed
    <3>2. ASSUME NEW e \in Dir, e # d, NEW i \in Id
          PROVE  Listed(e, i)' <=> Listed(e, i)
      BY <1>g, <1>k, <1>s, <3>2 DEF Listed, ListsKnown
    <3> QED
      BY <3>1, <3>2
  <2>3. \A t \in tasks, e \in Dir, i \in Id : Queued(t, e, i)' <=> Queued(t, e, i)
    BY <1>g, <1>s DEF Queued, IdsIn, ListsKnown
  <2> QED
    BY <1>u, <2>1, <2>2, <2>3 DEF OnePlace, Failed
<1> QED
  BY <1>1, <1>2, <1>3, <1>4, <1>5 DEF SyncInv

TaskType ==
  [dir : Dir, no : Nat, list : 1..MaxLists, len : 0..call.batch,
   header : 0..MaxLists, pc : {"query", "fail", "giveback", "put"}]

(* What a collector hands to a task.                                        *)
LEMMA NewTask ==
  ASSUME SyncAssumption, Shape, ListsKnown, NEW d \in Dir,
         collector[d].pc = "collect", NEW n \in 0..call.batch
  PROVE  /\ Task(d, n) \in TaskType
         /\ Task(d, n).dir = d /\ Task(d, n).list = collector[d].list
         /\ Task(d, n).len = n /\ Task(d, n).pc = "query"
<1>1. Cardinality(seen[d]) \in Nat
  BY FS_CardinalityType DEF Shape
<1>2. collector[d].list \in 1..MaxLists
  BY DEF Shape, TypeOK, ListsKnown, SyncAssumption
<1>3. 0 \in 0..MaxLists
  BY DEF SyncAssumption
<1> QED
  BY <1>1, <1>2, <1>3 DEF Task, TaskType

(* Nobody else uses the list of a collector.                                *)
LEMMA ListIsOwn ==
  ASSUME OneUser, NEW d \in Dir, collector[d].pc = "collect"
  PROVE  /\ \A t \in tasks : t.pc # "put" => t.list # collector[d].list
         /\ \A e \in Dir : collector[e].pc = "collect" /\ e # d =>
              collector[e].list # collector[d].list
BY DEF OneUser

(* The list passes from the collector to a task, and with it what it holds. *)
LEMMA HandedOver ==
  ASSUME OneUser, NEW d \in Dir, collector[d].pc = "collect",
         NEW u, u.list = collector[d].list, u.pc = "query",
         tasks' = tasks \cup {u},
         collector'[d].pc # "collect",
         \A e \in Dir \ {d} : collector'[e] = collector[e]
  PROVE  OneUser'
BY ListIsOwn DEF OneUser

LEMMA CollectRestKeeps ==
  ASSUME SyncAssumption, SyncInv, main \notin {"nil", "error"},
         NEW d \in Dir, CollectRest(d)
  PROVE  SyncInv'
<1>s. Shape /\ TypeOK /\ Reporting /\ ListsKnown
  BY DEF SyncInv, Shape
<1>a. /\ collector[d].pc = "collect" /\ items[d] = <<>> /\ complete
      /\ tasks' = tasks \cup {Task(d, collector[d].len)}
      /\ collector' = [collector EXCEPT ![d].pc = "done"]
      /\ UNCHANGED <<call, main, left, repeats, errors, handler, pending, items,
                     complete, seen, array, slots, poolLen, handled, aliased>>
  BY DEF CollectRest, relayVars, poolVars
<1>u. PICK u : /\ u \in TaskType /\ u.dir = d /\ u.list = collector[d].list
               /\ u.len = collector[d].len /\ u.pc = "query"
               /\ tasks' = tasks \cup {u}
  <2>1. collector[d].len \in 0..call.batch
    BY <1>s DEF TypeOK
  <2> QED
    BY <1>a, <1>s, <2>1, NewTask
<1>k. /\ collector'[d].pc = "done"
      /\ \A e \in Dir \ {d} : collector'[e] = collector[e]
  BY <1>a, <1>s DEF TypeOK
<1>1. Shape'
  <2>1. collector' \in [Dir -> [pc : {"start", "grab", "collect", "done"},
                                list : 0..MaxLists, len : 0..call.batch]]
    BY <1>a, <1>s DEF TypeOK
  <2>2. tasks' \subseteq TaskType
    BY <1>a, <1>s, <1>u DEF TypeOK, TaskType
  <2> QED
    BY <1>a, <1>s, <2>1, <2>2 DEF Shape, TypeOK, TaskType
<1>2. ListsKnown'
  BY <1>a, <1>k, <1>s, <1>u DEF ListsKnown
<1>3. Reporting'
  BY <1>a, <1>k, <1>s DEF Reporting, Reported
<1>4. ASSUME ~aliased PROVE OneUser'
  BY <1>4, <1>a, <1>k, <1>u, HandedOver DEF SyncInv
<1>5. ASSUME ~aliased PROVE OnePlace'
  <2>1. OnePlace /\ OneUser
    BY <1>5 DEF SyncInv
  <2>2. \A i \in Id : ~Listed(d, i)'
    BY <1>k DEF Listed
  <2>3. \A e \in Dir \ {d}, i \in Id : Listed(e, i)' <=> Listed(e, i)
    BY <1>a, <1>k DEF Listed
  <2>4. \A t \in tasks, e \in Dir, i \in Id : Queued(t, e, i)' <=> Queued(t, e, i)
    BY <1>a DEF Queued, IdsIn
  <2>5. \A e \in Dir, i \in Id : Queued(u, e, i)' <=> e = d /\ Listed(d, i)
    <3>1. IdsIn(u)' = {array[collector[d].list][n] : n \in 1..collector[d].len}
      BY <1>a, <1>u DEF IdsIn
    <3>2. \A i \in Id : i \in IdsIn(u)' <=> Listed(d, i)
      BY <1>a, <3>1 DEF Listed
    <3> QED
      BY <1>u, <3>2 DEF Queued
  <2>6. Failed => Failed'
    BY <1>a DEF Failed
  <2>7. ASSUME NEW e \in Dir, NEW i \in Id
        PROVE  /\ i \notin seen[e] => handled[e][i] = 0
               /\ Listed(e, i)' => i \in seen[e] /\ handled[e][i] = 0
               /\ \A t \in tasks' : Queued(t, e, i)' =>
                    i \in seen[e] /\ handled[e][i] = 0 /\ ~Listed(e, i)'
               /\ \A t, v \in tasks' : Queued(t, e, i)' /\ Queued(v, e, i)' => t = v
               /\ i \in seen[e] =>
                    \/ Listed(e, i)' \/ \E t \in tasks' : Queued(t, e, i)'
                    \/ handled[e][i] = 1 \/ Failed'
    <3>1. CASE e = d
      BY <1>a, <1>u, <2>1, <2>2, <2>4, <2>5, <2>6, <3>1 DEF OnePlace
    <3>2. CASE e # d
      BY <1>a, <1>u, <2>1, <2>3, <2>4, <2>5, <2>6, <3>2 DEF OnePlace
    <3> QED
      BY <3>1, <3>2
  <2> QED
    BY <1>a, <2>7 DEF OnePlace
<1> QED
  BY <1>1, <1>2, <1>3, <1>4, <1>5, <1>a DEF SyncInv

(* An id that a collector takes from its channel is seen then.              *)
LEMMA TakenIsSeen ==
  ASSUME SyncAssumption, Shape, Reporting,
         NEW d \in Dir, collector[d].pc = "collect", items[d] # <<>>, items' = [items EXCEPT ![d] = Tail(@)],
         Head(items[d]) \in seen'[d],
         \A e \in Dir : seen[e] \subseteq seen'[e],
         \A e \in Dir : collector'[e].pc = "done" => collector[e].pc = "done" /\ e # d,
         main \notin {"nil", "error", "write"},
         UNCHANGED <<call, main, left, handler, pending, complete>>
  PROVE  /\ Reporting'
         /\ items' \in [Dir -> Seq(Id)]
         /\ \A e \in Dir : Len(items'[e]) <= ChanCap
<1>1. /\ items \in [Dir -> Seq(Id)]
      /\ \A e \in Dir : Len(items[e]) <= ChanCap
  BY DEF Shape, TypeOK
<1>2. /\ Tail(items[d]) \in Seq(Id) /\ items[d] \in Seq(Id)
      /\ Len(items[d]) \in Nat \ {0} /\ Len(Tail(items[d])) = Len(items[d]) - 1
      /\ \A k \in 1..Len(items[d]) - 1 : Tail(items[d])[k] = items[d][k + 1]
      /\ Head(items[d]) = items[d][1]
  BY <1>1
<1>3. /\ items' \in [Dir -> Seq(Id)] /\ items'[d] = Tail(items[d])
      /\ \A e \in Dir \ {d} : items'[e] = items[e]
  BY <1>1, <1>2
<1>4. ASSUME NEW e \in Dir, NEW j \in call.needs[e] PROVE Reported(e, j)'
  <2>1. Reported(e, j)
    BY DEF Reporting
  <2>2. CASE \E k \in 1..Len(items[e]) : items[e][k] = j
    <3>1. PICK k \in 1..Len(items[e]) : items[e][k] = j
      BY <2>2
    <3>2. CASE e # d
      BY <1>3, <3>1, <3>2 DEF Reported
    <3>3. CASE e = d /\ k = 1
      BY <1>2, <3>1, <3>3 DEF Reported
    <3>4. CASE e = d /\ k # 1
      <4>1. k - 1 \in 1..Len(Tail(items[d])) /\ Tail(items[d])[k - 1] = j
        BY <1>2, <3>1, <3>4
      <4> QED
        BY <1>3, <3>4, <4>1 DEF Reported
    <3> QED
      BY <3>2, <3>3, <3>4
  <2> QED
    BY <2>1, <2>2 DEF Reported
<1>5. \A e \in Dir : Len(items'[e]) <= ChanCap
  <2>1. Len(items'[d]) <= ChanCap
    BY <1>1, <1>2, <1>3 DEF SyncAssumption
  <2> QED
    BY <1>1, <1>3, <2>1
<1>6. \A e \in Dir : collector'[e].pc = "done" => complete' /\ items'[e] = <<>>
  BY <1>3 DEF Reporting
<1> QED
  BY <1>3, <1>4, <1>5, <1>6 DEF Reporting

LEMMA CollectKeeps ==
  ASSUME SyncAssumption, SyncInv, main \notin {"nil", "error"},
         NEW d \in Dir, Collect(d)
  PROVE  SyncInv'
<1>p. PICK i, L, n : /\ i = Head(items[d])
                     /\ L = collector[d].list /\ n = collector[d].len + 1
  OBVIOUS
<1> DEFINE Arrays == [1..call.batch -> Id \cup {0}]
<1>s. Shape /\ TypeOK /\ Reporting /\ ListsKnown
  BY DEF SyncInv, Shape
<1>c. call.batch \in Nat \ {0} /\ MaxLists \in Nat \ {0}
  BY <1>s, CallFacts DEF SyncAssumption
<1>a. /\ collector[d].pc = "collect" /\ items[d] # <<>>
      /\ items' = [items EXCEPT ![d] = Tail(@)]
      /\ UNCHANGED <<call, main, left, repeats, errors, handler, pending,
                     complete, slots, poolLen, handled, aliased>>
  BY DEF Collect, relayVars, poolVars
<1>b. IF i \notin seen[d]
      THEN /\ seen' = [seen EXCEPT ![d] = @ \cup {i}]
           /\ array' = [array EXCEPT ![L][n] = i]
           /\ IF n = call.batch
              THEN /\ tasks' = tasks \cup {Task(d, n)}
                   /\ collector' = [collector EXCEPT ![d].pc = "grab"]
              ELSE /\ collector' = [collector EXCEPT ![d].len = n]
                   /\ UNCHANGED tasks
      ELSE UNCHANGED <<seen, array, tasks, collector>>
  BY <1>p DEF Collect, IsNew
<1>i. i \in Id
  <2>1. items[d] \in Seq(Id)
    BY <1>s DEF Shape
  <2> QED
    BY <1>a, <1>p, <2>1
<1>n. /\ n \in 1..call.batch /\ L \in 1..Len(array) /\ L \in 1..MaxLists
      /\ array \in Seq(Arrays) /\ array[L] \in Arrays
      /\ collector[d].len = n - 1
  <2>1. collector[d].len \in Nat
    BY <1>c, <1>s DEF TypeOK
  <2>2. array \in Seq(Arrays) /\ L \in 1..Len(array) /\ L \in 1..MaxLists
    BY <1>a, <1>c, <1>p, <1>s DEF Shape, ListsKnown
  <2>3. collector[d].len < call.batch
    BY <1>a, <1>s DEF ListsKnown
  <2> HIDE DEF Arrays
  <2>4. array[L] \in Arrays
    BY <2>2
  <2>5. n \in 1..call.batch /\ collector[d].len = n - 1
    BY <1>c, <1>p, <2>1, <2>3
  <2> QED
    BY <2>2, <2>4, <2>5
<1>w. main # "write"
  BY <1>a, <1>s DEF Reporting
<1>1. CASE i \in seen[d]
  <2>1. UNCHANGED <<seen, array, tasks, collector>>
    BY <1>1, <1>b
  <2>2. Reporting' /\ items' \in [Dir -> Seq(Id)]
        /\ \A e \in Dir : Len(items'[e]) <= ChanCap
    BY <1>1, <1>a, <1>p, <1>s, <1>w, <2>1, TakenIsSeen
  <2>3. Shape'
    BY <1>a, <1>s, <2>1, <2>2 DEF Shape, TypeOK
  <2>4. ListsStay
    BY <1>a, <2>1 DEF ListsStay
  <2> QED
    BY <2>2, <2>3, <2>4, ListsAlone
<1>2. CASE i \notin seen[d]
  <2>u. PICK u : /\ u \in TaskType /\ u.dir = d /\ u.list = L
                 /\ u.len = n /\ u.pc = "query"
                 /\ n = call.batch => tasks' = tasks \cup {u}
                 /\ n # call.batch => tasks' = tasks
    <3>1. n \in 0..call.batch
      BY <1>c, <1>n
    <3> QED
      BY <1>2, <1>a, <1>b, <1>p, <1>s, <3>1, NewTask
  <2>b. /\ seen' = [seen EXCEPT ![d] = seen[d] \cup {i}]
        /\ array' = [array EXCEPT ![L] = [array[L] EXCEPT ![n] = i]]
        /\ n = call.batch => collector' = [collector EXCEPT ![d].pc = "grab"]
        /\ n # call.batch => collector' = [collector EXCEPT ![d].len = n]
    BY <1>2, <1>b
  <2>k. /\ \A e \in Dir \ {d} : collector'[e] = collector[e]
        /\ n = call.batch => collector'[d].pc = "grab"
        /\ n # call.batch => /\ collector'[d].pc = "collect"
                             /\ collector'[d].list = L
                             /\ collector'[d].len = n
        /\ collector' \in [Dir -> [pc : {"start", "grab", "collect", "done"},
                                   list : 0..MaxLists, len : 0..call.batch]]
    <3> DEFINE Collectors == [pc : {"start", "grab", "collect", "done"},
                              list : 0..MaxLists, len : 0..call.batch]
    <3>1. collector \in [Dir -> Collectors] /\ collector[d] \in Collectors
      BY <1>s DEF TypeOK
    <3>2. n \in 0..call.batch
      BY <1>c, <1>n
    <3>3. CASE n = call.batch
      <4> DEFINE new == [collector[d] EXCEPT !.pc = "grab"]
      <4>1. new \in Collectors /\ new.pc = "grab"
        BY <3>1
      <4>2. collector' = [collector EXCEPT ![d] = new]
        BY <2>b, <3>3
      <4> HIDE DEF Collectors, new
      <4>3. collector'[d] = new /\ \A e \in Dir \ {d} : collector'[e] = collector[e]
        BY <3>1, <4>2
      <4>4. collector' \in [Dir -> Collectors]
        BY <3>1, <4>1, <4>2
      <4> QED
        BY <3>3, <4>1, <4>3, <4>4 DEF Collectors
    <3>4. CASE n # call.batch
      <4> DEFINE new == [collector[d] EXCEPT !.len = n]
      <4>1. /\ new \in Collectors
            /\ new.pc = "collect" /\ new.list = L /\ new.len = n
        BY <1>a, <1>p, <3>1, <3>2
      <4>2. collector' = [collector EXCEPT ![d] = new]
        BY <2>b, <3>4
      <4> HIDE DEF Collectors, new
      <4>3. collector'[d] = new /\ \A e \in Dir \ {d} : collector'[e] = collector[e]
        BY <3>1, <4>2
      <4>4. collector' \in [Dir -> Collectors]
        BY <3>1, <4>1, <4>2
      <4> QED
        BY <3>4, <4>1, <4>3, <4>4 DEF Collectors
    <3> QED
      BY <3>3, <3>4
  <2>e. /\ seen' \in [Dir -> SUBSET Id]
        /\ seen'[d] = seen[d] \cup {i}
        /\ \A e \in Dir \ {d} : seen'[e] = seen[e]
    BY <1>i, <1>s, <2>b DEF TypeOK
  <2>r. /\ array' \in Seq(Arrays) /\ Len(array') = Len(array)
        /\ \A k \in 1..Len(array) : k # L => array'[k] = array[k]
        /\ \A k \in 1..call.batch : array'[L][k] = IF k = n THEN i ELSE array[L][k]
    <3> DEFINE new == [array[L] EXCEPT ![n] = i]
    <3>1. array' = [array EXCEPT ![L] = new]
      BY <2>b
    <3>2. new \in Arrays /\ \A k \in 1..call.batch : new[k] = IF k = n THEN i ELSE array[L][k]
      BY <1>i, <1>n
    <3> HIDE DEF new, Arrays
    <3> QED
      BY <1>n, <3>1, <3>2
  <2>1. Reporting' /\ items' \in [Dir -> Seq(Id)]
        /\ \A e \in Dir : Len(items'[e]) <= ChanCap
    <3>1. \A e \in Dir : collector'[e].pc = "done" => collector[e].pc = "done" /\ e # d
      BY <2>k
    <3>2. Head(items[d]) \in seen'[d] /\ \A e \in Dir : seen[e] \subseteq seen'[e]
      BY <1>p, <2>e
    <3> QED
      BY <1>a, <1>s, <1>w, <3>1, <3>2, TakenIsSeen
  <2>2. Shape'
    <3>1. tasks' \subseteq TaskType
      BY <1>s, <2>u DEF TypeOK, TaskType
    <3>2. \A e \in Dir : IsFiniteSet(seen'[e])
      <4>1. IsFiniteSet(seen[d] \cup {i})
        BY <1>s, FS_AddElement DEF Shape
      <4> QED
        BY <1>s, <2>e, <4>1 DEF Shape
    <3>3. \A l \in DOMAIN array' : array'[l] \in Arrays
      BY <2>r
    <3> QED
      BY <1>a, <1>s, <2>1, <2>e, <2>k, <2>r, <3>1, <3>2, <3>3 DEF Shape, TypeOK, TaskType
  <2>3. ListsKnown'
    <3>1. \A t \in tasks' : t \in tasks \/ (t.list = L /\ t.pc = "query")
      BY <2>u
    <3>2. \A e \in Dir : collector'[e].pc = "collect" =>
             /\ collector[e].pc = "collect" /\ collector'[e].list = collector[e].list
             /\ collector'[e].len < call.batch
      <4>1. \A e \in Dir \ {d} : collector'[e] = collector[e]
        BY <2>k
      <4>2. n # call.batch => n < call.batch
        BY <1>c, <1>n
      <4>3. collector'[d].pc = "collect" =>
              collector'[d].list = L /\ collector'[d].len < call.batch
        BY <2>k, <4>2
      <4> QED
        BY <1>a, <1>p, <1>s, <4>1, <4>3 DEF ListsKnown
    <3> QED
      BY <1>a, <1>n, <1>s, <2>r, <3>1, <3>2 DEF ListsKnown
  <2>4. ASSUME ~aliased PROVE OneUser'
    <3>1. CASE n = call.batch
      BY <1>a, <1>p, <2>4, <2>k, <2>u, <3>1, HandedOver DEF SyncInv
    <3>2. CASE n # call.batch
      <4>1. \A e \in Dir : /\ collector'[e].pc = collector[e].pc
                           /\ collector'[e].list = collector[e].list
        BY <1>a, <1>p, <2>k, <3>2
      <4> QED
        BY <2>4, <2>u, <3>2, <4>1 DEF SyncInv, OneUser
    <3> QED
      BY <3>1, <3>2
  <2>5. ASSUME ~aliased PROVE OnePlace'
    <3>o. OnePlace /\ OneUser
      BY <2>5 DEF SyncInv
    <3>1. \A t \in tasks, e \in Dir, j \in Id : Queued(t, e, j)' <=> Queued(t, e, j)
      <4>1. \A t \in tasks : t.pc = "query" => t.list # L /\ t.list \in 1..Len(array)
        BY <1>a, <1>p, <1>s, <3>o, ListIsOwn DEF ListsKnown
      <4>2. \A t \in tasks : t.pc = "query" => array'[t.list] = array[t.list]
        BY <2>r, <4>1
      <4> QED
        BY <4>2 DEF Queued, IdsIn
    <3>2. \A e \in Dir \ {d}, j \in Id : Listed(e, j)' <=> Listed(e, j)
      <4>1. \A e \in Dir \ {d} : collector[e].pc = "collect" =>
              collector[e].list # L /\ collector[e].list \in 1..Len(array)
        BY <1>a, <1>p, <1>s, <3>o, ListIsOwn DEF ListsKnown
      <4> QED
        BY <2>k, <2>r, <4>1 DEF Listed
    <3>3. \A j \in Id : (\E k \in 1..n : array'[L][k] = j) <=> Listed(d, j) \/ j = i
      <4>1. \A k \in 1..n : k \in 1..call.batch /\ (k = n \/ k \in 1..n-1)
        BY <1>c, <1>n
      <4>2. 1..n-1 \subseteq 1..n /\ n \in 1..n
        BY <1>n, <1>c
      <4> QED
        BY <1>a, <1>n, <1>p, <2>r, <4>1, <4>2, SMTT(30) DEF Listed
    <3>4. \A j \in Id : handled[d][j] = 0 \/ j # i
      BY <1>2, <3>o DEF OnePlace
    <3>5. Failed => Failed'
      BY <1>a, <2>u DEF Failed
    <3>6. CASE n = call.batch
      <4>1. \A j \in Id : ~Listed(d, j)'
        BY <2>k, <3>6 DEF Listed
      <4>2. \A e \in Dir, j \in Id : Queued(u, e, j)' <=> e = d /\ (Listed(d, j) \/ j = i)
        <5>1. IdsIn(u)' = {array'[L][k] : k \in 1..n}
          BY <2>u DEF IdsIn
        <5>2. \A j \in Id : j \in IdsIn(u)' <=> Listed(d, j) \/ j = i
          BY <3>3, <5>1
        <5> QED
          BY <2>u, <5>2 DEF Queued
      <4>3. ASSUME NEW e \in Dir, NEW j \in Id
            PROVE  /\ j \notin seen'[e] => handled[e][j] = 0
                   /\ Listed(e, j)' => j \in seen'[e] /\ handled[e][j] = 0
                   /\ \A t \in tasks' : Queued(t, e, j)' =>
                        j \in seen'[e] /\ handled[e][j] = 0 /\ ~Listed(e, j)'
                   /\ \A t, v \in tasks' : Queued(t, e, j)' /\ Queued(v, e, j)' => t = v
                   /\ j \in seen'[e] =>
                        \/ Listed(e, j)' \/ \E t \in tasks' : Queued(t, e, j)'
                        \/ handled[e][j] = 1 \/ Failed'
        <5>1. CASE e = d
          BY <1>2, <2>e, <2>u, <3>o, <3>1, <3>4, <3>5, <3>6, <4>1, <4>2, <5>1 DEF OnePlace
        <5>2. CASE e # d
          BY <2>e, <2>u, <3>o, <3>1, <3>2, <3>5, <3>6, <4>2, <5>2 DEF OnePlace
        <5> QED
          BY <5>1, <5>2
      <4> QED
        BY <1>a, <4>3 DEF OnePlace
    <3>7. CASE n # call.batch
      <4>1. \A j \in Id : Listed(d, j)' <=> Listed(d, j) \/ j = i
        <5>1. /\ collector'[d].pc = "collect" /\ collector'[d].list = L
              /\ collector'[d].len = n
          BY <2>k, <3>7
        <5>2. \A j \in Id : Listed(d, j)' <=> \E k \in 1..n : array'[L][k] = j
          BY <5>1 DEF Listed
        <5> QED
          BY <3>3, <5>2
      <4>2. ASSUME NEW e \in Dir, NEW j \in Id
            PROVE  /\ j \notin seen'[e] => handled[e][j] = 0
                   /\ Listed(e, j)' => j \in seen'[e] /\ handled[e][j] = 0
                   /\ \A t \in tasks' : Queued(t, e, j)' =>
                        j \in seen'[e] /\ handled[e][j] = 0 /\ ~Listed(e, j)'
                   /\ \A t, v \in tasks' : Queued(t, e, j)' /\ Queued(v, e, j)' => t = v
                   /\ j \in seen'[e] =>
                        \/ Listed(e, j)' \/ \E t \in tasks' : Queued(t, e, j)'
                        \/ handled[e][j] = 1 \/ Failed'
        <5>1. CASE e = d
          BY <1>2, <2>e, <2>u, <3>o, <3>1, <3>4, <3>5, <3>7, <4>1, <5>1 DEF OnePlace
        <5>2. CASE e # d
          BY <2>e, <2>u, <3>o, <3>1, <3>2, <3>5, <3>7, <5>2 DEF OnePlace
        <5> QED
          BY <5>1, <5>2
      <4> QED
        BY <1>a, <4>2 DEF OnePlace
    <3> QED
      BY <3>6, <3>7
  <2> QED
    BY <1>a, <2>1, <2>2, <2>3, <2>4, <2>5 DEF SyncInv
<1> QED
  BY <1>1, <1>2
--------------------------------------------------------------------------------
(***************************************************************************)
(* The tasks.                                                              *)
(***************************************************************************)

(* A task goes on; the channels and the collectors stay as they are.        *)
TaskAlone ==
  UNCHANGED <<call, left, repeats, errors, handler, pending, items, complete,
              collector, seen, aliased>>

LEMMA TaskReporting ==
  ASSUME Reporting, TaskAlone, main \notin {"nil", "error"},
         main' = main \/ main' = "error"
  PROVE  Reporting'
BY DEF Reporting, Reported, TaskAlone

(* ... as the task u that it becomes, with the list that it had.            *)
Becomes(t, u) ==
  /\ tasks' = (tasks \ {t}) \cup {u}
  /\ u.dir = t.dir /\ u.list = t.list

LEMMA TaskListKept ==
  ASSUME OneUser, NEW t \in tasks, NEW u, Becomes(t, u), u.pc # "put" => t.pc # "put",
         UNCHANGED collector
  PROVE  OneUser'
BY DEF OneUser, Becomes

LEMMA NextTask ==
  ASSUME Shape, NEW t \in tasks, NEW to \in {"query", "fail", "giveback", "put"},
         NEW from, TaskGoes(t, from, to)
  PROVE  \E u \in TaskType : Becomes(t, u) /\ t.pc = from /\ u.pc = to /\ u.len = t.len
<1>1. t \in TaskType
  BY DEF Shape, TypeOK, TaskType
<1>2. /\ [t EXCEPT !.pc = to] \in TaskType
      /\ [t EXCEPT !.pc = to].dir = t.dir /\ [t EXCEPT !.pc = to].list = t.list
      /\ [t EXCEPT !.pc = to].pc = to /\ [t EXCEPT !.pc = to].len = t.len
  BY <1>1 DEF TaskType
<1> QED
  BY <1>2 DEF TaskGoes, Becomes

LEMMA QueryKeeps ==
  ASSUME SyncAssumption, SyncInv, main \notin {"nil", "error"},
         NEW t \in tasks, Query(t)
  PROVE  SyncInv'
<1>s. Shape /\ TypeOK /\ Reporting /\ ListsKnown
  BY DEF SyncInv, Shape
<1>u. PICK u \in TaskType : Becomes(t, u) /\ t.pc = "query" /\ u.pc = "giveback"
  BY <1>s, NextTask DEF Query
<1>p. PICK d, ids : d = t.dir /\ ids = IdsIn(t)
  OBVIOUS
<1>a. /\ TaskAlone /\ UNCHANGED <<main, array, slots, poolLen>>
      /\ tasks' = (tasks \ {t}) \cup {u}
  BY <1>u DEF Query, TaskAlone, Becomes, relayVars, poolVars
<1>h. handled' = [handled EXCEPT ![d] =
                    [i \in Id |-> handled[d][i] + IF i \in ids THEN 1 ELSE 0]]
  BY <1>p DEF Query
<1>d. d \in Dir
  BY <1>p, <1>s DEF TypeOK
<1>n. /\ handled' \in [Dir -> [Id -> Nat]]
      /\ \A i \in Id : handled'[d][i] = handled[d][i] + IF i \in ids THEN 1 ELSE 0
      /\ \A e \in Dir \ {d} : handled'[e] = handled[e]
  BY <1>d, <1>h, <1>s DEF TypeOK
<1>1. Shape'
  <2>1. tasks' \subseteq TaskType
    BY <1>a, <1>s DEF TypeOK, TaskType
  <2> QED
    BY <1>a, <1>n, <1>s, <2>1 DEF Shape, TypeOK, TaskType, TaskAlone
<1>2. ListsKnown'
  BY <1>a, <1>s, <1>u DEF ListsKnown, TaskAlone, Becomes
<1>3. Reporting'
  BY <1>a, <1>s, TaskReporting
<1>4. ASSUME ~aliased PROVE OneUser'
  BY <1>4, <1>a, <1>u, TaskListKept DEF SyncInv, TaskAlone
<1>5. ASSUME ~aliased PROVE OnePlace'
  <2>1. OnePlace
    BY <1>5 DEF SyncInv
  <2>2. \A e \in Dir, i \in Id : Listed(e, i)' <=> Listed(e, i)
    BY <1>a DEF Listed, TaskAlone
  <2>3. \A v, e, i : Queued(v, e, i)' <=> Queued(v, e, i)
    BY <1>a DEF Queued, IdsIn
  <2>4. \A e, i : ~Queued(u, e, i) /\ (Queued(t, e, i) <=> e = d /\ i \in ids)
    BY <1>p, <1>u DEF Queued
  <2>5. Failed => Failed'
    BY <1>a, <1>u DEF Failed
  <2>6. ASSUME NEW e \in Dir, NEW i \in Id
        PROVE  /\ i \notin seen[e] => handled'[e][i] = 0
               /\ Listed(e, i) => i \in seen[e] /\ handled'[e][i] = 0
               /\ \A v \in tasks' : Queued(v, e, i) =>
                    i \in seen[e] /\ handled'[e][i] = 0 /\ ~Listed(e, i)
               /\ \A v, w \in tasks' : Queued(v, e, i) /\ Queued(w, e, i) => v = w
               /\ i \in seen[e] =>
                    \/ Listed(e, i) \/ \E v \in tasks' : Queued(v, e, i)
                    \/ handled'[e][i] = 1 \/ Failed'
    <3>1. CASE e = d /\ i \in ids
      <4>1. Queued(t, e, i)
        BY <2>4, <3>1
      <4>2. /\ i \in seen[e] /\ handled[e][i] = 0 /\ ~Listed(e, i)
            /\ \A v \in tasks' : ~Queued(v, e, i)
        BY <1>a, <2>1, <2>4, <4>1 DEF OnePlace
      <4>3. handled'[e][i] = 1
        BY <1>n, <3>1, <4>2
      <4> QED
        BY <4>2, <4>3
    <3>2. CASE ~(e = d /\ i \in ids)
      <4>1. handled'[e][i] = handled[e][i]
        BY <1>n, <1>s, <3>2 DEF TypeOK
      <4>2. ~Queued(t, e, i) /\ ~Queued(u, e, i)
        BY <2>4, <3>2
      <4> QED
        BY <1>a, <2>1, <2>5, <4>1, <4>2 DEF OnePlace
    <3> QED
      BY <3>1, <3>2
  <2>7. seen' = seen
    BY <1>a DEF TaskAlone
  <2> QED
    BY <2>2, <2>3, <2>6, <2>7 DEF OnePlace
<1> QED
  BY <1>1, <1>2, <1>3, <1>4, <1>5, <1>a DEF SyncInv, TaskAlone

(* Neither an error nor its report moves an id: the call has failed, or is  *)
(* about to.                                                                *)
LEMMA FailureKeeps ==
  ASSUME SyncAssumption, SyncInv, main \notin {"nil", "error"},
         NEW t \in tasks, QueryFails(t) \/ ReportError(t)
  PROVE  SyncInv'
<1>s. Shape /\ TypeOK /\ Reporting /\ ListsKnown
  BY DEF SyncInv, Shape
<1>u. PICK u \in TaskType : /\ Becomes(t, u)
                            /\ t.pc # "put" /\ u.pc \in {"fail", "giveback"}
                            /\ u.pc = "fail" \/ main' = "error"
  <2>1. CASE QueryFails(t)
    <3>1. PICK u \in TaskType : Becomes(t, u) /\ t.pc = "query" /\ u.pc = "fail"
      BY <1>s, <2>1, NextTask DEF QueryFails
    <3> QED
      BY <3>1
  <2>2. CASE ReportError(t)
    <3>1. PICK u \in TaskType : Becomes(t, u) /\ t.pc = "fail" /\ u.pc = "giveback"
      BY <1>s, <2>2, NextTask DEF ReportError
    <3>2. main' = "error"
      BY <2>2 DEF ReportError
    <3> QED
      BY <3>1, <3>2
  <2> QED
    BY <2>1, <2>2
<1>a. /\ TaskAlone /\ UNCHANGED <<array, slots, poolLen, handled>>
      /\ main' = main \/ main' = "error"
      /\ tasks' = (tasks \ {t}) \cup {u}
  BY <1>u DEF QueryFails, ReportError, TaskAlone, Becomes, relayVars, poolVars
<1>1. Shape'
  <2>1. tasks' \subseteq TaskType
    BY <1>a, <1>s DEF TypeOK, TaskType
  <2> QED
    BY <1>a, <1>s, <2>1 DEF Shape, TypeOK, TaskType, TaskAlone
<1>2. ListsKnown'
  BY <1>a, <1>s, <1>u DEF ListsKnown, TaskAlone, Becomes
<1>3. Reporting'
  BY <1>a, <1>s, TaskReporting
<1>4. ASSUME ~aliased PROVE OneUser'
  BY <1>4, <1>a, <1>u, TaskListKept DEF SyncInv, TaskAlone
<1>5. ASSUME ~aliased PROVE OnePlace'
  <2>1. OnePlace
    BY <1>5 DEF SyncInv
  <2>2. \A e \in Dir, i \in Id : Listed(e, i)' <=> Listed(e, i)
    BY <1>a DEF Listed, TaskAlone
  <2>3. \A v \in tasks' : \A e, i : Queued(v, e, i)' => v \in tasks /\ Queued(v, e, i)
    BY <1>a, <1>u DEF Queued, IdsIn
  <2>4. Failed'
    BY <1>a, <1>u DEF Failed
  <2> QED
    BY <1>a, <2>1, <2>2, <2>3, <2>4 DEF OnePlace, TaskAlone
<1> QED
  BY <1>1, <1>2, <1>3, <1>4, <1>5, <1>a DEF SyncInv, TaskAlone

(* The list is given up; it is emptied only if nobody else has it.          *)
LEMMA GivebackReadsKeeps ==
  ASSUME SyncAssumption, SyncInv, main \notin {"nil", "error"},
         NEW t \in tasks, GivebackReads(t)
  PROVE  SyncInv'
<1> DEFINE Arrays == [1..call.batch -> Id \cup {0}]
<1>s. Shape /\ TypeOK /\ Reporting /\ ListsKnown
  BY DEF SyncInv, Shape
<1>c. call.batch \in Nat \ {0} /\ MaxLists \in Nat \ {0}
  BY <1>s, CallFacts DEF SyncAssumption
<1>u. PICK u \in TaskType : /\ Becomes(t, u) /\ t.pc = "giveback" /\ u.pc = "put"
                            /\ u.header = poolLen
  <2> DEFINE v == [t EXCEPT !.pc = "put", !.header = poolLen]
  <2>1. t \in TaskType /\ poolLen \in 0..MaxLists
    BY <1>s DEF TypeOK, TaskType
  <2>2. /\ v \in TaskType /\ v.dir = t.dir /\ v.list = t.list
        /\ v.pc = "put" /\ v.header = poolLen
    BY <2>1 DEF TaskType
  <2> QED
    BY <2>2 DEF GivebackReads, Becomes
<1>a. /\ TaskAlone /\ UNCHANGED <<main, slots, poolLen, handled>>
      /\ tasks' = (tasks \ {t}) \cup {u}
      /\ array' = IF InUse(t.list, tasks \ {t}) THEN array
                  ELSE [array EXCEPT ![t.list] = Blank]
  BY <1>u DEF GivebackReads, TaskAlone, Becomes, relayVars, poolVars
<1>r. /\ array' \in Seq(Arrays) /\ Len(array') = Len(array)
      /\ \A k \in 1..Len(array) : k # t.list \/ InUse(t.list, tasks \ {t}) =>
           array'[k] = array[k]
  <2>1. array \in Seq(Arrays) /\ t.list \in 1..Len(array)
    BY <1>s DEF Shape, ListsKnown
  <2>2. Blank \in Arrays
    BY <1>c DEF Blank
  <2> HIDE DEF Arrays
  <2> QED
    BY <1>a, <2>1, <2>2
<1>1. Shape'
  <2>1. tasks' \subseteq TaskType
    BY <1>a, <1>s DEF TypeOK, TaskType
  <2>2. \A k \in DOMAIN array' : array'[k] \in Arrays
    BY <1>r
  <2> QED
    BY <1>a, <1>r, <1>s, <2>1, <2>2 DEF Shape, TypeOK, TaskType, TaskAlone
<1>2. ListsKnown'
  BY <1>a, <1>r, <1>s, <1>u DEF ListsKnown, TaskAlone, Becomes
<1>3. Reporting'
  BY <1>a, <1>s, TaskReporting
<1>4. ASSUME ~aliased PROVE OneUser'
  BY <1>4, <1>a, <1>u, TaskListKept DEF SyncInv, TaskAlone
<1>5. ASSUME ~aliased PROVE OnePlace'
  <2>1. OnePlace
    BY <1>5 DEF SyncInv
  <2>2. \A e \in Dir, i \in Id : Listed(e, i)' <=> Listed(e, i)
    <3>1. \A e \in Dir : collector[e].pc = "collect" =>
            array'[collector[e].list] = array[collector[e].list]
      BY <1>r, <1>s DEF InUse, ListsKnown
    <3> QED
      BY <1>a, <3>1 DEF Listed, TaskAlone
  <2>3. \A v \in tasks \ {t} : \A e, i : Queued(v, e, i)' <=> Queued(v, e, i)
    <3>1. \A v \in tasks \ {t} : v.pc = "query" => array'[v.list] = array[v.list]
      BY <1>r, <1>s DEF InUse, ListsKnown
    <3> QED
      BY <3>1 DEF Queued, IdsIn
  <2>4. \A e, i : ~Queued(u, e, i)' /\ ~Queued(t, e, i)
    BY <1>u DEF Queued
  <2>5. Failed => Failed'
    BY <1>a, <1>u DEF Failed
  <2> QED
    BY <1>a, <2>1, <2>2, <2>3, <2>4, <2>5 DEF OnePlace, TaskAlone
<1> QED
  BY <1>1, <1>2, <1>3, <1>4, <1>5, <1>a DEF SyncInv, TaskAlone

(* What goes into the pool is a list, whatever the pool became meanwhile.   *)
LEMMA GivebackWritesKeeps ==
  ASSUME SyncAssumption, SyncInv, main \notin {"nil", "error"},
         NEW t \in tasks, GivebackWrites(t)
  PROVE  SyncInv'
<1>s. Shape /\ TypeOK /\ Reporting /\ ListsKnown
  BY DEF SyncInv, Shape
<1>t. t.header \in 0..MaxLists /\ t.list \in 1..MaxLists /\ t.list \in 1..Len(array)
  BY <1>s DEF TypeOK, ListsKnown
<1>p. PICK m : m = t.header + 1
  OBVIOUS
<1>a. /\ TaskAlone /\ UNCHANGED <<main, array, handled>>
      /\ t.pc = "put" /\ t.header < MaxLists
      /\ poolLen' = m /\ slots' = [slots EXCEPT ![m] = t.list]
      /\ tasks' = tasks \ {t}
  BY <1>p DEF GivebackWrites, TaskAlone, relayVars
<1>m. /\ m \in 1..MaxLists /\ slots' \in [1..MaxLists -> 0..MaxLists]
      /\ \A n \in 1..MaxLists : slots'[n] = IF n = m THEN t.list ELSE slots[n]
  <2>1. m \in 1..MaxLists
    BY <1>a, <1>p, <1>t DEF SyncAssumption
  <2> QED
    BY <1>a, <1>s, <1>t, <2>1 DEF TypeOK
<1>1. Shape'
  <2>1. poolLen' \in 0..MaxLists
    BY <1>a, <1>m DEF SyncAssumption
  <2>2. tasks' \subseteq TaskType
    BY <1>a, <1>s DEF TypeOK, TaskType
  <2> QED
    BY <1>a, <1>m, <1>s, <2>1, <2>2 DEF Shape, TypeOK, TaskType, TaskAlone
<1>2. ListsKnown'
  <2>1. \A n \in 1..poolLen' : slots'[n] \in 1..Len(array)
    <3>1. \A n \in 1..m : n \in 1..MaxLists /\ (n = m \/ n \in 1..t.header)
      BY <1>m, <1>p, <1>t DEF SyncAssumption
    <3> QED
      BY <1>a, <1>m, <1>s, <1>t, <3>1 DEF ListsKnown
  <2>2. \A v \in tasks' : v.pc = "put" => \A n \in 1..v.header : slots'[n] \in 1..Len(array)
    <3>1. \A v \in tasks : \A n \in 1..v.header : n \in 1..MaxLists
      BY <1>s, SMTT(30) DEF TypeOK, SyncAssumption
    <3> QED
      BY <1>a, <1>m, <1>s, <1>t, <3>1 DEF ListsKnown
  <2> QED
    BY <1>a, <1>s, <2>1, <2>2 DEF ListsKnown, TaskAlone
<1>3. Reporting'
  BY <1>a, <1>s, TaskReporting
<1>4. ASSUME ~aliased PROVE OneUser'
  BY <1>4, <1>a DEF SyncInv, OneUser, TaskAlone
<1>5. ASSUME ~aliased PROVE OnePlace'
  <2>1. OnePlace
    BY <1>5 DEF SyncInv
  <2>2. \A e \in Dir, i \in Id : Listed(e, i)' <=> Listed(e, i)
    BY <1>a DEF Listed, TaskAlone
  <2>3. \A v, e, i : Queued(v, e, i)' <=> Queued(v, e, i)
    BY <1>a DEF Queued, IdsIn
  <2>4. \A e, i : ~Queued(t, e, i)
    BY <1>a DEF Queued
  <2>5. Failed => Failed'
    BY <1>a DEF Failed
  <2> QED
    BY <1>a, <2>1, <2>2, <2>3, <2>4, <2>5 DEF OnePlace, TaskAlone
<1> QED
  BY <1>1, <1>2, <1>3, <1>4, <1>5, <1>a DEF SyncInv, TaskAlone
--------------------------------------------------------------------------------
LEMMA SyncNext ==
  ASSUME SyncAssumption
  PROVE  SyncInv /\ [Next]_vars => SyncInv'
<1> SUFFICES ASSUME SyncInv, [Next]_vars PROVE SyncInv'
  OBVIOUS
<1>1. CASE UNCHANGED vars
  BY <1>1, SMTT(30) DEF vars, SyncInv, Shape, TypeOK, ListsKnown, Reporting, Reported, AllDone,
              OneUser, OnePlace, Listed, Queued, IdsIn, Failed
<1>2. CASE Next
  <2>1. main \notin {"nil", "error"}
    BY <1>2 DEF Next, Returned
  <2>2. CASE ReadMessage
    BY <2>2, ReadMessageKeeps
  <2>3. ASSUME NEW d \in Dir, Push(d) PROVE SyncInv'
    BY <2>1, <2>3, PushKeeps
  <2>4. CASE EndMessage \/ ReadError \/ SendError \/ Open \/ Succeed
    BY <2>1, <2>4, HandlerKeeps
  <2>5. ASSUME NEW d \in Dir, CollectorStep(d) PROVE SyncInv'
    BY <2>1, <2>5, GrabKeeps, CollectKeeps, CollectRestKeeps DEF CollectorStep
  <2>6. ASSUME NEW t \in tasks, TaskStep(t) PROVE SyncInv'
    BY <2>1, <2>6, QueryKeeps, FailureKeeps, GivebackReadsKeeps, GivebackWritesKeeps
       DEF TaskStep
  <2> QED
    BY <1>2, <2>2, <2>3, <2>4, <2>5, <2>6 DEF Next, Step, HandlerStep
<1> QED
  BY <1>1, <1>2

(* In every state of a NegentropySync each id that has to be moved is still *)
(* to come, in a channel, in the list of its collector or of one task that  *)
(* has not asked, or asked for once, while every list has one user.         *)
THEOREM SyncInvariant == ASSUME SyncAssumption PROVE Spec => []SyncInv
<1>1. Init => SyncInv
  BY SyncInit
<1>2. SyncInv /\ [Next]_vars => SyncInv'
  BY SyncNext
<1> QED
  BY <1>1, <1>2, PTL DEF Spec

(* The variables keep their types, the pool's slots and length among them.  *)
THEOREM SyncTypesHold == ASSUME SyncAssumption PROVE Spec => []TypeOK
<1>1. SyncInv => TypeOK
  BY DEF SyncInv, Shape
<1> QED
  BY <1>1, SyncInvariant, PTL

(* A NegentropySync that returns without an error has asked for every id of *)
(* its directions, once, unless the pool gave out a list still in use.      *)
THEOREM SyncMovesEveryId == ASSUME SyncAssumption PROVE Spec => []SyncIsComplete
<1>1. ASSUME SyncInv PROVE SyncIsComplete
  <2>1. SUFFICES ASSUME main = "nil", ~aliased,
                        NEW d \in call.dirs, NEW i \in call.needs[d]
                 PROVE  handled[d][i] = 1
    BY DEF SyncIsComplete
  <2>2. d \in Dir /\ i \in Id
    BY <1>1, CallFacts DEF SyncInv
  <2>3. AllDone /\ collector[d].pc = "done" /\ tasks = {}
    BY <1>1, <2>1 DEF SyncInv, Reporting, AllDone
  <2>4. /\ complete /\ items[d] = <<>> /\ left[d] = {}
        /\ pending[d] = {} /\ Reported(d, i)
    BY <1>1, <2>1, <2>2, <2>3 DEF SyncInv, Reporting
  <2>5. i \in seen[d]
    BY <2>4 DEF Reported
  <2>6. ~Listed(d, i) /\ ~Failed
    BY <2>1, <2>3 DEF Listed, Failed
  <2> QED
    BY <1>1, <2>1, <2>2, <2>3, <2>5, <2>6 DEF SyncInv, OnePlace
<1> QED
  BY <1>1, SyncInvariant, PTL
================================================================================
