------------------------------ MODULE Pool_proofs ------------------------------
(***************************************************************************)
(* That SimplePool.EnsureRelay keeps one live connection to a url, and      *)
(* hands the same one to everybody, for any number of tasks, urls and       *)
(* mutexes that urls share.                                                 *)
(*                                                                         *)
(* The mutex alone is not the argument: what makes the next holder find the *)
(* connection is that a live one is either in the Relays map or in the      *)
(* hands of the task that still holds the url's mutex.                      *)
(***************************************************************************)
EXTENDS Pool, TLAPS

Holding == {"load", "dial", "auth", "store"}
Dialled == {"auth", "store"}
Publishing == {"publish", "reauth", "republish"}

TypeOfConns ==
  /\ relays \in [Url -> 0..dials]
  /\ dials \in 0..MaxDials
  /\ urlOfConn \in [1..MaxDials -> Url]
  /\ up \in SUBSET (1..dials)
  /\ lock \in SUBSET Task
  /\ pc \in [Task -> Holding \cup Publishing \cup {"lock", "done"}]
  /\ conn \in [Task -> 0..dials]

(* The mutexes of the tasks between Lock and their unlocking, one each.     *)
LocksHeld ==
  /\ \A t \in Task : t \in lock <=> pc[t] \in Holding
  /\ \A s, t \in lock : LockOf[UrlOf[s]] = LockOf[UrlOf[t]] => s = t

(* What the map and the tasks have are connections to their own urls.       *)
UrlsMatch ==
  /\ \A u \in Url : relays[u] # 0 => urlOfConn[relays[u]] = u
  /\ \A t \in Task : pc[t] \in Dialled \cup Publishing =>
       conn[t] # 0 /\ urlOfConn[conn[t]] = UrlOf[t]

(* A live connection is in the map, or with the task that will store it.    *)
LiveIsKept ==
  \A k \in up : \/ relays[urlOfConn[k]] = k
                \/ \E t \in Task : pc[t] \in Dialled /\ conn[t] = k

(* Who dials does so because what the map has is dead.                      *)
DialsForDead ==
  \A t \in Task : pc[t] \in {"dial"} \cup Dialled => relays[UrlOf[t]] \notin up

ConnInv ==
  /\ TypeOfConns /\ LocksHeld /\ UrlsMatch /\ LiveIsKept /\ DialsForDead
  /\ OneConnection /\ SharedConnection

(* The connections dialled so far are among those the bound allows.         *)
LEMMA UrlOfLive ==
  ASSUME PoolAssumption, TypeOfConns
  PROVE  /\ 1..dials \subseteq 1..MaxDials
         /\ \A k \in up : k # 0 /\ urlOfConn[k] \in Url
<1>1. MaxDials \in Nat /\ dials \in 0..MaxDials
  BY DEF PoolAssumption, TypeOfConns
<1>2. \A k \in 1..dials : k \in 1..MaxDials /\ k # 0
  BY <1>1
<1> QED
  BY <1>2 DEF TypeOfConns

(* Between Lock and its unlocking a task is alone with its url.             *)
LEMMA AloneWithUrl ==
  ASSUME PoolAssumption, LocksHeld, NEW s \in Task, NEW t \in Task,
         pc[s] \in Holding, pc[t] \in Holding, UrlOf[s] = UrlOf[t]
  PROVE  s = t
BY DEF PoolAssumption, LocksHeld

(* A task at the dial finds no live connection to its url at all.           *)
LEMMA NoneAlive ==
  ASSUME PoolAssumption, ConnInv, NEW t \in Task, pc[t] = "dial" \/
           (pc[t] = "load" /\ relays[UrlOf[t]] \notin up),
         NEW k \in up
  PROVE  urlOfConn[k] # UrlOf[t]
<1>1. SUFFICES ASSUME urlOfConn[k] = UrlOf[t] PROVE FALSE
  OBVIOUS
<1>2. relays[urlOfConn[k]] # k
  BY <1>1 DEF ConnInv, DialsForDead
<1>3. PICK s \in Task : pc[s] \in Dialled /\ conn[s] = k
  BY <1>2 DEF ConnInv, LiveIsKept
<1>4. UrlOf[s] = UrlOf[t]
  BY <1>1, <1>3 DEF ConnInv, UrlsMatch
<1>5. pc[s] \in Holding /\ pc[t] \in Holding
  BY <1>3 DEF Holding, Dialled
<1>6. s = t
  BY <1>4, <1>5, AloneWithUrl DEF ConnInv
<1> QED
  BY <1>3, <1>6 DEF Dialled
--------------------------------------------------------------------------------
LEMMA ConnInit == ASSUME PoolAssumption PROVE Init => ConnInv
<1> SUFFICES ASSUME Init PROVE ConnInv
  OBVIOUS
<1> USE DEF PoolAssumption, Init
<1>1. TypeOfConns
  BY DEF TypeOfConns, Holding, Publishing
<1>2. LocksHeld
  BY DEF LocksHeld, Holding
<1>3. UrlsMatch /\ LiveIsKept /\ DialsForDead
  BY DEF UrlsMatch, LiveIsKept, DialsForDead, Dialled, Publishing
<1>4. OneConnection /\ SharedConnection
  BY DEF OneConnection, SharedConnection
<1> QED
  BY <1>1, <1>2, <1>3, <1>4 DEF ConnInv
--------------------------------------------------------------------------------
(***************************************************************************)
(* A step that moves only tasks outside the locked region, or nothing.      *)
(***************************************************************************)
LEMMA LockKeeps ==
  ASSUME PoolAssumption, ConnInv, NEW t \in Task, Lock(t)
  PROVE  ConnInv'
<1> USE DEF ConnInv, Lock, Goto, connVars, boxVars, publishVars
<1>1. TypeOfConns'
  BY DEF TypeOfConns, Holding
<1>2. LocksHeld'
  <2>1. \A s \in Task : s \in lock' <=> pc'[s] \in Holding
    BY DEF TypeOfConns, LocksHeld, Holding
  <2>2. ASSUME NEW r \in lock', NEW s \in lock',
               LockOf[UrlOf[r]] = LockOf[UrlOf[s]]
        PROVE  r = s
    BY <2>2 DEF LocksHeld
  <2> QED
    BY <2>1, <2>2 DEF LocksHeld
<1>3. UrlsMatch'
  BY DEF TypeOfConns, UrlsMatch, Dialled, Publishing
<1>4. LiveIsKept'
  BY DEF TypeOfConns, LiveIsKept, Dialled
<1>5. DialsForDead'
  BY DEF TypeOfConns, DialsForDead, Dialled
<1>6. OneConnection' /\ SharedConnection'
  BY DEF TypeOfConns, OneConnection, SharedConnection
<1> QED
  BY <1>1, <1>2, <1>3, <1>4, <1>5, <1>6

LEMMA LoadKeeps ==
  ASSUME PoolAssumption, ConnInv, NEW t \in Task, LoadRelay(t)
  PROVE  ConnInv'
<1> USE DEF ConnInv, LoadRelay, Goto, connVars, boxVars, publishVars
<1>1. TypeOfConns'
  BY DEF PoolAssumption, TypeOfConns, Holding, Publishing
<1>2. LocksHeld'
  BY DEF TypeOfConns, LocksHeld, Holding
<1>3. UrlsMatch'
  <2>1. ASSUME NEW s \in Task, pc'[s] \in Dialled \cup Publishing
        PROVE  conn'[s] # 0 /\ urlOfConn[conn'[s]] = UrlOf[s]
    <3>1. CASE s = t
      <4>1. pc'[t] \in {"publish", "dial"}
        BY DEF TypeOfConns
      <4>2. relays[UrlOf[t]] \in up /\ conn'[t] = relays[UrlOf[t]]
        BY <2>1, <3>1, <4>1 DEF TypeOfConns, Dialled, Publishing
      <4>3. UrlOf[t] \in Url /\ relays[UrlOf[t]] # 0
        BY <4>2, UrlOfLive DEF PoolAssumption
      <4> QED
        BY <3>1, <4>2, <4>3 DEF UrlsMatch
    <3>2. CASE s # t
      BY <2>1, <3>2 DEF TypeOfConns, UrlsMatch
    <3> QED
      BY <3>1, <3>2
  <2> QED
    BY <2>1 DEF UrlsMatch
<1>4. LiveIsKept'
  BY DEF TypeOfConns, LiveIsKept, Dialled
<1>5. DialsForDead'
  BY DEF TypeOfConns, DialsForDead, Dialled
<1>6. OneConnection' /\ SharedConnection'
  BY DEF TypeOfConns, OneConnection, SharedConnection
<1> QED
  BY <1>1, <1>2, <1>3, <1>4, <1>5, <1>6

(* The new connection is the only one to its url, and its task holds it.    *)
LEMMA DialKeeps ==
  ASSUME PoolAssumption, ConnInv, NEW t \in Task, DialSucceeds(t)
  PROVE  ConnInv'
<1> USE DEF DialSucceeds, Goto, boxVars, publishVars
<1>k. /\ dials' = dials + 1 /\ dials' \in 1..MaxDials
      /\ dials' \notin up /\ dials \in Nat
  BY DEF ConnInv, TypeOfConns, PoolAssumption
<1>u. \A k \in up : urlOfConn'[k] = urlOfConn[k]
  BY <1>k DEF ConnInv, TypeOfConns
<1>n. \A k \in up : urlOfConn[k] # UrlOf[t]
  BY NoneAlive
<1>d. urlOfConn'[dials'] = UrlOf[t]
  BY <1>k DEF ConnInv, TypeOfConns
<1>1. TypeOfConns'
  <2>1. 0..dials \subseteq 0..dials' /\ 1..dials \subseteq 1..dials'
    BY <1>k
  <2>2. /\ dials' \in 0..MaxDials /\ dials' \in 0..dials'
        /\ dials' \in 1..dials'
    BY <1>k
  <2>3. urlOfConn' \in [1..MaxDials -> Url]
    BY <1>k DEF ConnInv, TypeOfConns, PoolAssumption
  <2>4. pc' \in [Task -> Holding \cup Publishing \cup {"lock", "done"}]
    BY DEF ConnInv, TypeOfConns, Holding
  <2>5. up' \in SUBSET (1..dials') /\ lock' \in SUBSET Task
    BY <2>1, <2>2 DEF ConnInv, TypeOfConns
  <2>6. /\ relays' \in [Url -> 0..dials']
        /\ conn' \in [Task -> 0..dials']
    BY <2>1, <2>2 DEF ConnInv, TypeOfConns
  <2> QED
    BY <2>2, <2>3, <2>4, <2>5, <2>6 DEF TypeOfConns
<1>2. LocksHeld'
  BY DEF ConnInv, TypeOfConns, LocksHeld, Holding
<1>3. UrlsMatch'
  <2>1. \A u \in Url : relays[u] \in 0..dials
    BY DEF ConnInv, TypeOfConns
  <2>2. \A s \in Task : conn[s] \in 0..dials
    BY DEF ConnInv, TypeOfConns
  <2>3. \A k \in 1..dials : urlOfConn'[k] = urlOfConn[k]
    BY <1>k DEF ConnInv, TypeOfConns
  <2>4. \A u \in Url : relays'[u] # 0 => urlOfConn'[relays'[u]] = u
    BY <1>k, <2>1, <2>3 DEF ConnInv, UrlsMatch
  <2>5. ASSUME NEW s \in Task, pc'[s] \in Dialled \cup Publishing
        PROVE  conn'[s] # 0 /\ urlOfConn'[conn'[s]] = UrlOf[s]
    <3>1. CASE s = t
      BY <1>k, <1>d, <3>1 DEF ConnInv, TypeOfConns
    <3>2. CASE s # t
      <4>1. conn'[s] = conn[s] /\ pc'[s] = pc[s]
        BY <3>2 DEF ConnInv, TypeOfConns
      <4> QED
        BY <1>k, <2>2, <2>3, <2>5, <4>1 DEF ConnInv, UrlsMatch
    <3> QED
      BY <3>1, <3>2
  <2> QED
    BY <2>4, <2>5 DEF UrlsMatch
<1>4. LiveIsKept'
  <2>1. ASSUME NEW k \in up'
        PROVE  \/ relays'[urlOfConn'[k]] = k
               \/ \E s \in Task : pc'[s] \in Dialled /\ conn'[s] = k
    <3>1. CASE k = dials'
      BY <3>1 DEF ConnInv, TypeOfConns, Dialled
    <3>2. CASE k \in up
      BY <1>u, <3>2 DEF ConnInv, TypeOfConns, LiveIsKept, Dialled
    <3> QED
      BY <3>1, <3>2
  <2> QED
    BY <2>1 DEF LiveIsKept
<1>5. DialsForDead'
  <2>1. \A s \in Task : UrlOf[s] \in Url /\ relays[UrlOf[s]] \in 0..dials
    BY DEF PoolAssumption, ConnInv, TypeOfConns
  <2>2. \A s \in Task : relays[UrlOf[s]] # dials'
    BY <1>k, <2>1
  <2>3. \A s \in Task : pc'[s] \in {"dial"} \cup Dialled =>
                        pc[s] \in {"dial"} \cup Dialled
    BY DEF ConnInv, TypeOfConns, Dialled
  <2> QED
    BY <2>2, <2>3 DEF ConnInv, DialsForDead
<1>6. OneConnection'
  BY <1>u, <1>n, <1>d DEF ConnInv, OneConnection
<1>7. SharedConnection'
  <2>1. ASSUME NEW s \in Task, pc'[s] \in Publishing, conn'[s] \in up'
        PROVE  relays'[UrlOf[s]] = conn'[s]
    <3>1. s # t /\ pc[s] = pc'[s] /\ conn'[s] = conn[s]
      BY <2>1 DEF ConnInv, TypeOfConns, Publishing
    <3>2. conn[s] # dials'
      BY <1>k, <3>1 DEF ConnInv, TypeOfConns
    <3> QED
      BY <2>1, <3>1, <3>2 DEF ConnInv, SharedConnection, Publishing
  <2> QED
    BY <2>1 DEF SharedConnection, Publishing
<1> QED
  BY <1>1, <1>2, <1>3, <1>4, <1>5, <1>6, <1>7 DEF ConnInv

(* What is stored replaces a dead connection only.                          *)
LEMMA StoreKeeps ==
  ASSUME PoolAssumption, ConnInv, NEW t \in Task, StoreRelay(t)
  PROVE  ConnInv'
<1> USE DEF StoreRelay, Goto, connVars, boxVars, publishVars
<1>t. /\ UrlOf[t] \in Url /\ pc[t] = "store"
      /\ relays'[UrlOf[t]] = conn[t]
      /\ \A u \in Url : u # UrlOf[t] => relays'[u] = relays[u]
  BY DEF PoolAssumption, ConnInv, TypeOfConns
<1>c. conn[t] # 0 /\ urlOfConn[conn[t]] = UrlOf[t]
  BY <1>t DEF ConnInv, UrlsMatch, Dialled
<1>d. relays[UrlOf[t]] \notin up
  BY <1>t DEF ConnInv, DialsForDead, Dialled
<1>p. \A s \in Task : pc'[s] = IF s = t THEN "publish" ELSE pc[s]
  BY DEF ConnInv, TypeOfConns
<1>1. TypeOfConns'
  BY DEF ConnInv, PoolAssumption, TypeOfConns, Publishing
<1>2. LocksHeld'
  BY DEF ConnInv, TypeOfConns, LocksHeld, Holding
<1>3. UrlsMatch'
  <2>1. \A u \in Url : relays'[u] # 0 => urlOfConn'[relays'[u]] = u
    BY <1>t, <1>c DEF ConnInv, UrlsMatch
  <2>2. \A s \in Task : pc'[s] \in Dialled \cup Publishing =>
                        pc[s] \in Dialled \cup Publishing
    BY <1>p, <1>t DEF Dialled
  <2> QED
    BY <2>1, <2>2 DEF ConnInv, UrlsMatch
<1>4. LiveIsKept'
  <2>1. ASSUME NEW k \in up
        PROVE  \/ relays'[urlOfConn[k]] = k
               \/ \E s \in Task : pc'[s] \in Dialled /\ conn[s] = k
    <3>1. CASE relays[urlOfConn[k]] = k
      <4>1. urlOfConn[k] # UrlOf[t]
        BY <1>d, <3>1
      <4>2. urlOfConn[k] \in Url
        BY UrlOfLive DEF ConnInv
      <4> QED
        BY <1>t, <3>1, <4>1, <4>2
    <3>2. CASE \E s \in Task : pc[s] \in Dialled /\ conn[s] = k
      <4>1. PICK s \in Task : pc[s] \in Dialled /\ conn[s] = k
        BY <3>2
      <4>2. CASE s = t
        BY <1>t, <1>c, <4>1, <4>2
      <4>3. CASE s # t
        BY <1>p, <4>1, <4>3
      <4> QED
        BY <4>2, <4>3
    <3> QED
      BY <3>1, <3>2 DEF ConnInv, LiveIsKept
  <2> QED
    BY <2>1 DEF LiveIsKept
<1>5. DialsForDead'
  <2>1. ASSUME NEW s \in Task, pc'[s] \in {"dial"} \cup Dialled
        PROVE  relays'[UrlOf[s]] \notin up
    <3>1. s # t /\ pc[s] = pc'[s]
      BY <1>p, <2>1 DEF Dialled
    <3>2. pc[s] \in Holding /\ pc[t] \in Holding
      BY <1>t, <2>1, <3>1 DEF Holding, Dialled
    <3>3. UrlOf[s] # UrlOf[t]
      BY <3>1, <3>2, AloneWithUrl DEF ConnInv
    <3>4. UrlOf[s] \in Url
      BY DEF PoolAssumption
    <3> QED
      BY <1>t, <2>1, <3>1, <3>3, <3>4 DEF ConnInv, DialsForDead
  <2> QED
    BY <2>1 DEF DialsForDead
<1>6. OneConnection'
  BY DEF ConnInv, OneConnection
<1>7. SharedConnection'
  <2>1. ASSUME NEW s \in Task, pc'[s] \in Publishing, conn[s] \in up
        PROVE  relays'[UrlOf[s]] = conn[s]
    <3>1. CASE s = t
      BY <1>t, <3>1
    <3>2. CASE s # t
      <4>1. relays[UrlOf[s]] = conn[s]
        BY <1>p, <2>1, <3>2 DEF ConnInv, SharedConnection, Publishing
      <4>2. UrlOf[s] # UrlOf[t] /\ UrlOf[s] \in Url
        BY <1>d, <2>1, <4>1 DEF PoolAssumption
      <4> QED
        BY <1>t, <4>1, <4>2
    <3> QED
      BY <3>1, <3>2
  <2> QED
    BY <2>1 DEF SharedConnection, Publishing
<1> QED
  BY <1>1, <1>2, <1>3, <1>4, <1>5, <1>6, <1>7 DEF ConnInv
(* A task leaves the locked region with an error.                           *)
LEMMA FailKeeps ==
  ASSUME PoolAssumption, ConnInv, NEW t \in Task, DialFails(t)
  PROVE  ConnInv'
<1> USE DEF ConnInv, DialFails, PutResult, Goto, connVars
<1>1. TypeOfConns'
  BY DEF TypeOfConns
<1>2. LocksHeld'
  BY DEF TypeOfConns, LocksHeld, Holding
<1>3. UrlsMatch'
  BY DEF TypeOfConns, UrlsMatch, Dialled, Publishing
<1>4. LiveIsKept'
  BY DEF TypeOfConns, LiveIsKept, Dialled
<1>5. DialsForDead'
  BY DEF TypeOfConns, DialsForDead, Dialled
<1>6. OneConnection' /\ SharedConnection'
  BY DEF TypeOfConns, OneConnection, SharedConnection
<1> QED
  BY <1>1, <1>2, <1>3, <1>4, <1>5, <1>6

(* What a task does with its connection leaves the map, and the mutexes.    *)
WithinPlace(t, from, to) ==
  /\ pc[t] = from /\ pc' = [pc EXCEPT ![t] = to]
  /\ UNCHANGED <<relays, dials, urlOfConn, up, lock, conn>>

LEMMA WithinKeeps ==
  ASSUME PoolAssumption, ConnInv, NEW t \in Task, NEW from, NEW to,
         WithinPlace(t, from, to),
         \/ from = "auth" /\ to = "store"
         \/ from \in Publishing /\ to \in Publishing \cup {"done"}
  PROVE  ConnInv'
<1> USE DEF ConnInv, WithinPlace
<1>1. TypeOfConns'
  BY DEF TypeOfConns, Holding, Publishing
<1>2. LocksHeld'
  BY DEF TypeOfConns, LocksHeld, Holding, Publishing
<1>3. UrlsMatch'
  BY DEF TypeOfConns, UrlsMatch, Dialled, Publishing
<1>4. LiveIsKept'
  BY DEF TypeOfConns, LiveIsKept, Dialled, Publishing
<1>5. DialsForDead'
  BY DEF TypeOfConns, DialsForDead, Dialled, Publishing
<1>6. OneConnection' /\ SharedConnection'
  BY DEF TypeOfConns, OneConnection, SharedConnection, Publishing
<1> QED
  BY <1>1, <1>2, <1>3, <1>4, <1>5, <1>6

LEMMA TaskKeeps ==
  ASSUME PoolAssumption, ConnInv, NEW t \in Task, Lock(t) \/ TaskStep(t)
  PROVE  ConnInv'
<1>1. CASE Lock(t)
  BY <1>1, LockKeeps
<1>2. CASE LoadRelay(t)
  BY <1>2, LoadKeeps
<1>3. CASE DialSucceeds(t)
  BY <1>3, DialKeeps
<1>4. CASE DialFails(t)
  BY <1>4, FailKeeps
<1>5. CASE PerformAuth(t)
  <2>1. WithinPlace(t, "auth", "store")
    BY <1>5 DEF PerformAuth, Goto, WithinPlace, connVars
  <2> QED
    BY <2>1, WithinKeeps
<1>6. CASE StoreRelay(t)
  BY <1>6, StoreKeeps
<1>7. CASE Publish(t)
  <2>1. \/ WithinPlace(t, "publish", "done")
        \/ WithinPlace(t, "publish", "reauth")
    BY <1>7 DEF Publish, PutResult, Goto, WithinPlace, connVars
  <2> QED
    BY <2>1, WithinKeeps DEF Publishing
<1>8. CASE Auth(t)
  <2>1. \/ WithinPlace(t, "reauth", "done")
        \/ WithinPlace(t, "reauth", "republish")
    BY <1>8 DEF Auth, PutResult, Goto, WithinPlace, connVars
  <2> QED
    BY <2>1, WithinKeeps DEF Publishing
<1>9. CASE PublishAgain(t)
  <2>1. WithinPlace(t, "republish", "done")
    BY <1>9 DEF PublishAgain, PutResult, Goto, WithinPlace, connVars
  <2> QED
    BY <2>1, WithinKeeps DEF Publishing
<1> QED
  BY <1>1, <1>2, <1>3, <1>4, <1>5, <1>6, <1>7, <1>8, <1>9 DEF TaskStep

(* A connection that ends can only take away what the invariant is about.   *)
LEMMA EndKeeps ==
  ASSUME PoolAssumption, ConnInv, NEW k \in 1..MaxDials, ConnectionEnds(k)
  PROVE  ConnInv'
<1> USE DEF ConnInv, ConnectionEnds
<1>1. TypeOfConns' /\ LocksHeld' /\ UrlsMatch'
  BY DEF TypeOfConns, LocksHeld, UrlsMatch
<1>2. LiveIsKept' /\ DialsForDead'
  BY DEF LiveIsKept, DialsForDead
<1>3. OneConnection' /\ SharedConnection'
  BY DEF OneConnection, SharedConnection
<1> QED
  BY <1>1, <1>2, <1>3

LEMMA OthersKeep ==
  ASSUME ConnInv,
         UNCHANGED <<relays, dials, urlOfConn, up, lock, pc, conn>>
  PROVE  ConnInv'
<1> USE DEF ConnInv
<1>1. TypeOfConns' /\ LocksHeld' /\ UrlsMatch' /\ LiveIsKept' /\ DialsForDead'
  BY DEF TypeOfConns, LocksHeld, UrlsMatch, LiveIsKept, DialsForDead
<1>2. OneConnection' /\ SharedConnection'
  BY DEF OneConnection, SharedConnection
<1> QED
  BY <1>1, <1>2

LEMMA ConnNext ==
  ASSUME PoolAssumption, ConnInv, [Next]_vars
  PROVE  ConnInv'
<1>1. CASE \E t \in Task : Lock(t) \/ TaskStep(t)
  BY <1>1, TaskKeeps
<1>2. CASE \E k \in 1..MaxDials : ConnectionEnds(k)
  BY <1>2, EndKeeps
<1>3. CASE SweepPenaltyBox \/ CloseResults \/ UNCHANGED vars
  <2>1. UNCHANGED <<relays, dials, urlOfConn, up, lock, pc, conn>>
    BY <1>3 DEF SweepPenaltyBox, CloseResults, vars, connVars
  <2> QED
    BY <2>1, OthersKeep
<1> QED
  BY <1>1, <1>2, <1>3 DEF Next
--------------------------------------------------------------------------------
(* In every state of the pool: the mutexes, the map and the live            *)
(* connections fit together (EnsureRelay, pool.go:177).                     *)
THEOREM ConnInvariant ==
  ASSUME PoolAssumption
  PROVE  Spec => []ConnInv
<1>1. Init => ConnInv
  BY ConnInit
<1>2. ConnInv /\ [Next]_vars => ConnInv'
  BY ConnNext
<1> QED
  BY <1>1, <1>2, PTL DEF Spec

(* However many goroutines ask for a relay at once, and however its          *)
(* connections end, at most one to a url is alive, and it is the one that   *)
(* everybody who publishes there has.                                       *)
THEOREM ConnectionIsShared ==
  ASSUME PoolAssumption
  PROVE  Spec => []OneSharedConnection
<1>1. ConnInv => OneSharedConnection
  BY DEF ConnInv, OneSharedConnection
<1> QED
  BY <1>1, ConnInvariant, PTL
================================================================================
