-------------------------------- MODULE Wallet --------------------------------
(***************************************************************************)
(* The Cashu wallet (nip60): its list of tokens, which three goroutines    *)
(* keep up with what the user's relays have, while calls to Send and       *)
(* Receive spend tokens at a mint, add new ones, and publish both.         *)
(*                                                                         *)
(* A token is a number; what it is worth never changes, and the mint takes *)
(* it as a whole. What is published may come back from the relays, once.   *)
(* There is one mint, at which a swap succeeds, fails, or succeeds without *)
(* its answer getting through. Encryption is left out, but that it may     *)
(* fail is not; so are the wallet's metadata and its history.              *)
(*                                                                         *)
(* w.Tokens is a slice: removals and the loop of Send work in place, on    *)
(* the array under it, and neither takes the same lock as the other.       *)
(***************************************************************************)
EXTENDS Naturals, Sequences, SequencesExt, FiniteSets, FiniteSetsExt

CONSTANTS
  Send, Receive, \* the calls made
  Amount,        \* of each of them
  Fee,           \* what a swap costs (calculateFee)
  Stored,        \* tokens on the relays, 1 .. Stored
  Worth,         \* of each of them
  SpentBefore,   \* those among them that are spent ...
  Deletes,       \* ... and which of them a token says it replaced
  Starts,        \* bound: the calls made, with the tokens the relays have
  MaxToken,      \* bound: tokens there can be
  None

Caller == Send \cup Receive
Token == 1..MaxToken
Loader == {"eose", "deletions", "events"}

WalletAssumption ==
  /\ Send \cap Receive = {}
  /\ None \notin Caller /\ None \notin Loader /\ None \notin Token
  /\ Amount \in [Caller -> Nat \ {0}] /\ Fee \in Nat
  /\ Stored \in Nat /\ MaxToken \in Nat /\ Stored <= MaxToken
  /\ Worth \in [1..Stored -> Nat] /\ SpentBefore \subseteq 1..Stored
  /\ Deletes \in [1..Stored -> SpentBefore \cup {None}]
  /\ Starts \subseteq [calls : SUBSET Caller, tokens : SUBSET (1..Stored)]

VARIABLES
  array, len,       \* w.Tokens: the array under it, and its length
  worth,            \* of each token made so far
  pendingDeletions, eosed,
  mu, tokensMu,     \* who holds w.Mutex, and who tokensMu
  loading,          \* progress of each goroutine of loadWallet
  working,          \* the token it works on
  below,            \* removeDeletedToken: positions not yet looked at
  left,             \* the deletions that the eose goroutine has to go through
  pc,               \* progress of each call ...
  local,            \* ... and its variables, see NoLocal
  tokenEvents, deletionEvents, \* tokens whose events come from the relays
  spent,            \* the mint: tokens spent
  owned,            \* history: tokens that the wallet was told of or made
  causes            \* history: what happened that may upset the books

listVars == <<array, len>>
loaderVars == <<pendingDeletions, eosed, loading, working, below, left>>
callVars == <<pc, local>>
eventVars == <<tokenEvents, deletionEvents>>
mintVars == <<worth, spent>>
vars == <<listVars, loaderVars, callVars, eventVars, mintVars, mu, tokensMu,
          owned, causes>>
-----------------------------------------------------------------------------
Tokens == SubSeq(array, 1, len)

(* The tokens that Send chose, the first of the list; its place in the loop *)
(* over w.Tokens, and the loop's end; updatedTokens; what comes back; and   *)
(* the token in hand, which Receive has as well.                            *)
NoLocal == [inputs |-> <<>>, at |-> 1, last |-> 0, kept |-> <<>>, change |-> 0,
            token |-> None]

Init ==
  /\ array = <<>> /\ len = 0
  /\ worth = Worth /\ spent = SpentBefore
  /\ pendingDeletions = <<>> /\ eosed = FALSE
  /\ mu = None /\ tokensMu = None
  /\ loading = [l \in Loader |-> "wait"]
  /\ working = [l \in Loader |-> None]
  /\ below = [l \in Loader |-> 0]
  /\ left = <<>>
  /\ local = [c \in Caller |-> NoLocal]
  /\ \E start \in Starts :
       /\ pc = [c \in Caller |-> IF c \in start.calls THEN "idle" ELSE "done"]
       /\ tokenEvents = start.tokens
       /\ deletionEvents = start.tokens \cap SpentBefore
  /\ owned = {} /\ causes = {}

Loads(l, from, to) == loading[l] = from /\ loading' = [loading EXCEPT ![l] = to]
Goto(c, from, to) == pc[c] = from /\ pc' = [pc EXCEPT ![c] = to]

(* A removal between its two assignments.                                   *)
Removing == \E l \in Loader : loading[l] = "cut"

(* w.Tokens grows in place. A removal that is half done cuts off what comes *)
(* in between.                                                              *)
AppendToken(t) ==
  /\ array' = IF len < Len(array) THEN [array EXCEPT ![len + 1] = t]
                                  ELSE Append(array, t)
  /\ len' = len + 1

Torn == IF Removing THEN {"torn"} ELSE {}
-----------------------------------------------------------------------------
(***************************************************************************)
(* removeDeletedToken, in the goroutine l: it looks for the token from the *)
(* end of the list. The events' and the deletions' goroutine hold w.Mutex, *)
(* nobody holds tokensMu.                                                  *)
(***************************************************************************)
StartRemoving(l, t) ==
  /\ working' = [working EXCEPT ![l] = t]
  /\ below' = [below EXCEPT ![l] = len]

(* The position that the loop has come to; it reads w.Tokens again for each. *)
Here(l) == loading[l] = "remove" /\ below[l] > 0

LookAt(l) ==
  /\ Here(l) /\ below[l] <= len /\ array[below[l]] # working[l]
  /\ below' = [below EXCEPT ![l] = @ - 1]
  /\ UNCHANGED <<listVars, pendingDeletions, eosed, loading, working, left,
                 callVars, eventVars, mintVars, mu, tokensMu, owned, causes>>

(* A Send reckons with the positions in the list from its choice until it    *)
(* has put another list in its place.                                       *)
Reckoning ==
  \E s \in Send : pc[s] \in {"swap", "delete", "announce", "change", "store"}

MoveLast(l) ==
  /\ Here(l) /\ below[l] <= len /\ array[below[l]] = working[l]
  /\ loading' = [loading EXCEPT ![l] = "cut"]
  /\ array' = [array EXCEPT ![below[l]] = array[len]]
  /\ below' = [below EXCEPT ![l] = @ - 1]
  /\ causes' = causes \cup (IF Reckoning THEN {"moved"} ELSE {}) \cup Torn
  /\ UNCHANGED <<len, pendingDeletions, eosed, working, left, callVars, eventVars,
                 mintVars, mu, tokensMu, owned>>

CutLast(l) ==
  /\ Loads(l, "cut", "remove")
  /\ len > 0
  /\ len' = len - 1
  /\ UNCHANGED <<array, pendingDeletions, eosed, working, below, left, callVars,
                 eventVars, mintVars, mu, tokensMu, owned, causes>>

(* Somebody else has made the list shorter: an index is out of range, and    *)
(* the program ends.                                                        *)
OutOfRange(l) ==
  /\ \/ Here(l) /\ below[l] > len
     \/ loading[l] = "cut" /\ len = 0
  /\ loading' = [loading EXCEPT ![l] = "panic"]
  /\ UNCHANGED <<listVars, pendingDeletions, eosed, working, below, left,
                 callVars, eventVars, mintVars, mu, tokensMu, owned, causes>>

Removed(l) ==
  /\ loading[l] = "remove" /\ below[l] = 0
  /\ working' = [working EXCEPT ![l] = None]
  /\ IF l = "eose"
     THEN /\ loading' = [loading EXCEPT ![l] = "next"]
          /\ UNCHANGED mu
     ELSE /\ loading' = [loading EXCEPT ![l] = "wait"]
          /\ mu' = None
  /\ UNCHANGED <<listVars, pendingDeletions, eosed, below, left, callVars,
                 eventVars, mintVars, tokensMu, owned, causes>>
-----------------------------------------------------------------------------
(***************************************************************************)
(* The goroutine that waits for the EOSEs. It holds no lock.               *)
(***************************************************************************)
Eose ==
  /\ Loads("eose", "wait", "range")
  /\ eosed' = TRUE
  /\ UNCHANGED <<listVars, pendingDeletions, working, below, left, callVars,
                 eventVars, mintVars, mu, tokensMu, owned, causes>>

RangePending ==
  /\ Loads("eose", "range", "next")
  /\ left' = pendingDeletions
  /\ UNCHANGED <<listVars, pendingDeletions, eosed, working, below, callVars,
                 eventVars, mintVars, mu, tokensMu, owned, causes>>

NextPending ==
  /\ Loads("eose", "next", "remove")
  /\ left # <<>>
  /\ StartRemoving("eose", Head(left))
  /\ left' = Tail(left)
  /\ UNCHANGED <<listVars, pendingDeletions, eosed, callVars, eventVars, mintVars,
                 mu, tokensMu, owned, causes>>

(* Afterwards it closes Stable.                                             *)
ForgetPending ==
  /\ Loads("eose", "next", "stable")
  /\ left = <<>>
  /\ pendingDeletions' = <<>>
  /\ UNCHANGED <<listVars, eosed, working, below, left, callVars, eventVars,
                 mintVars, mu, tokensMu, owned, causes>>
-----------------------------------------------------------------------------
(***************************************************************************)
(* The goroutines for deletions and for events.                            *)
(***************************************************************************)

(* What l does with the deletion of t, under w.Mutex: it looks at eosed,    *)
(* and keeps the deletion for the eose goroutine or carries it out.         *)
HandleDeletion(l, from, t) ==
  IF eosed
  THEN Loads(l, from, "remove") /\ StartRemoving(l, t)
  ELSE /\ Loads(l, from, "keep")
       /\ working' = [working EXCEPT ![l] = t]
       /\ UNCHANGED below

ReadDeletion(t) ==
  /\ mu = None /\ t \in deletionEvents
  /\ mu' = "deletions"
  /\ HandleDeletion("deletions", "wait", t)
  /\ deletionEvents' = deletionEvents \ {t}
  /\ causes' = IF eosed /\ t \in tokenEvents
               THEN causes \cup {"overtaken"} ELSE causes
  /\ UNCHANGED <<listVars, pendingDeletions, eosed, left, callVars, tokenEvents,
                 mintVars, tokensMu, owned>>

(* The eose goroutine may have passed, or be past it the next moment.       *)
KeepDeletion(l) ==
  /\ Loads(l, "keep", "wait")
  /\ pendingDeletions' = Append(pendingDeletions, working[l])
  /\ working' = [working EXCEPT ![l] = None]
  /\ mu' = None
  /\ causes' = IF eosed THEN causes \cup {"missed"} ELSE causes
  /\ UNCHANGED <<listVars, eosed, below, left, callVars, eventVars, mintVars,
                 tokensMu, owned>>

ReadToken(t) ==
  /\ mu = None /\ t \in tokenEvents
  /\ mu' = "events"
  /\ Loads("events", "wait", "add")
  /\ working' = [working EXCEPT !["events"] = t]
  /\ tokenEvents' = tokenEvents \ {t}
  /\ UNCHANGED <<listVars, pendingDeletions, eosed, below, left, callVars,
                 deletionEvents, mintVars, tokensMu, owned, causes>>

(* Mutation: no check.                                                      *)
AddTokenAgain ==
  LET t == working["events"]
      replaces == t <= Stored /\ Deletes[t] # None
  IN /\ Loads("events", "add", IF replaces THEN "replaces" ELSE "wait")
     /\ tokensMu = None
     /\ AppendToken(t)
     /\ mu' = IF replaces THEN mu ELSE None
     /\ working' = [working EXCEPT !["events"] = IF replaces THEN t ELSE None]
     /\ owned' = owned \cup {t}
     /\ UNCHANGED <<pendingDeletions, eosed, below, left, callVars,
                    eventVars, mintVars, tokensMu, causes>>

(* tokensMu is taken and released, w.Mutex is kept if there is more to do.  *)
AddToken ==
  LET t == working["events"]
      replaces == t <= Stored /\ Deletes[t] # None
  IN /\ Loads("events", "add", IF replaces THEN "replaces" ELSE "wait")
     /\ tokensMu = None
     /\ IF Contains(Tokens, t) THEN UNCHANGED <<listVars, causes>>
        ELSE /\ AppendToken(t)
             /\ causes' = causes \cup Torn
                  \cup (IF eosed /\ t \in spent \ deletionEvents
                        THEN {"overtaken"} ELSE {})
     /\ mu' = IF replaces THEN mu ELSE None
     /\ working' = [working EXCEPT !["events"] = IF replaces THEN t ELSE None]
     /\ owned' = owned \cup {t}
     /\ UNCHANGED <<pendingDeletions, eosed, below, left, callVars,
                    eventVars, mintVars, tokensMu>>

ReplaceToken ==
  /\ HandleDeletion("events", "replaces", Deletes[working["events"]])
  /\ causes' = IF eosed /\ Deletes[working["events"]] \in tokenEvents
               THEN causes \cup {"overtaken"} ELSE causes
  /\ UNCHANGED <<listVars, pendingDeletions, eosed, left, callVars, eventVars,
                 mintVars, mu, tokensMu, owned>>
-----------------------------------------------------------------------------
(***************************************************************************)
(* Send. It holds tokensMu from its start to its return.                   *)
(***************************************************************************)
Total(tokens) == FoldLeft(LAMBDA sum, t : sum + worth[t], 0, tokens)

(* What c keeps in its variables.                                           *)
Sets(c, field, value) == local' = [local EXCEPT ![c][field] = value]

Ends(s, from, to) ==
  /\ Goto(s, from, to)
  /\ tokensMu' = None
  /\ local' = [local EXCEPT ![s] = NoLocal]

(* getProofsForSending: as few tokens from the start of the list as do.     *)
Enough(s) ==
  {k \in 1..len : Total(SubSeq(array, 1, k)) >= Amount[s] + Fee}

Choose(s) ==
  /\ tokensMu = None
  /\ Enough(s) # {}
  /\ Goto(s, "idle", "swap")
  /\ tokensMu' = s
  /\ Sets(s, "inputs",
          SubSeq(array, 1, CHOOSE k \in Enough(s) : \A j \in Enough(s) : k <= j))
  /\ causes' = causes \cup Torn
  /\ UNCHANGED <<listVars, loaderVars, eventVars, mintVars, mu, owned>>

NotEnough(s) ==
  /\ tokensMu = None
  /\ Enough(s) = {}
  /\ Goto(s, "idle", "failed")
  /\ UNCHANGED <<listVars, loaderVars, local, eventVars, mintVars, mu, tokensMu,
                 owned, causes>>

(* The mint takes no token twice.                                           *)
MintTakes(tokens) ==
  /\ Cardinality(ToSet(tokens)) = Len(tokens)
  /\ ToSet(tokens) \cap spent = {}
  /\ spent' = spent \cup ToSet(tokens)

(* saveChangeAndDeleteUsedTokens starts to range over the list as it is now. *)
SwapSucceeds(s) ==
  /\ Goto(s, "swap", "delete")
  /\ MintTakes(local[s].inputs)
  /\ local' = [local EXCEPT ![s].last = len,
       ![s].change = Total(local[s].inputs) - Amount[s] - Fee]
  /\ causes' = causes \cup Torn
  /\ UNCHANGED <<listVars, loaderVars, eventVars, worth, mu, tokensMu, owned>>

(* Mutation: the lock is not given back.                                    *)
SwapFailsLocked(s) ==
  /\ Goto(s, "swap", "failed")
  /\ local' = [local EXCEPT ![s] = NoLocal]
  /\ UNCHANGED <<listVars, loaderVars, eventVars, mintVars, mu, tokensMu, owned,
                 causes>>

SwapFails(s) ==
  /\ Ends(s, "swap", "failed")
  /\ UNCHANGED <<listVars, loaderVars, eventVars, mintVars, mu, owned, causes>>

AnswerLost(s) ==
  /\ Ends(s, "swap", "failed")
  /\ MintTakes(local[s].inputs)
  /\ causes' = causes \cup {"answerLost"}
  /\ UNCHANGED <<listVars, loaderVars, eventVars, worth, mu, owned>>

(* It takes the positions chosen for spent, whatever is there now.          *)
SpendsHere(s) == local[s].at <= Min({local[s].last, Len(local[s].inputs)})

ReadUsed(s) ==
  /\ Goto(s, "delete", "announce")
  /\ SpendsHere(s)
  /\ Sets(s, "token", array[local[s].at])
  /\ UNCHANGED <<listVars, loaderVars, eventVars, mintVars, mu, tokensMu, owned,
                 causes>>

Announce(s) ==
  /\ Goto(s, "announce", "delete")
  /\ mu = None
  /\ deletionEvents' = deletionEvents \cup {local[s].token}
  /\ local' = [local EXCEPT ![s].at = @ + 1, ![s].token = None]
  /\ UNCHANGED <<listVars, loaderVars, tokenEvents, mintVars, mu, tokensMu,
                 owned, causes>>

(* Without change the list stays as it is: the tokens go when their         *)
(* deletions come back.                                                     *)
KeepRest(s) ==
  /\ Goto(s, "delete", IF local[s].change = 0 THEN "history" ELSE "change")
  /\ ~ SpendsHere(s)
  /\ Sets(s, "kept", SubSeq(array, local[s].at, local[s].last))
  /\ UNCHANGED <<listVars, loaderVars, eventVars, mintVars, mu, tokensMu, owned,
                 causes>>

ChangeFails(s) ==
  /\ Ends(s, "change", "failed")
  /\ UNCHANGED <<listVars, loaderVars, eventVars, mintVars, mu, owned, causes>>

(* The token c makes, of this worth, goes to the relays. It does not say    *)
(* which tokens it replaces.                                                *)
PublishToken(c, from, to, amount) ==
  /\ Goto(c, from, to)
  /\ mu = None
  /\ Len(worth) < MaxToken
  /\ worth' = Append(worth, amount)
  /\ Sets(c, "token", Len(worth) + 1)
  /\ tokenEvents' = tokenEvents \cup {Len(worth) + 1}
  /\ UNCHANGED <<listVars, loaderVars, deletionEvents, spent, mu, tokensMu, owned,
                 causes>>

PublishChange(s) == PublishToken(s, "change", "store", local[s].change)

(* w.Tokens becomes a new array.                                            *)
StoreChange(s) ==
  /\ Goto(s, "store", "history")
  /\ array' = Append(local[s].kept, local[s].token)
  /\ len' = Len(local[s].kept) + 1
  /\ owned' = owned \cup {local[s].token}
  /\ causes' = causes \cup Torn
  /\ UNCHANGED <<loaderVars, local, eventVars, mintVars, mu, tokensMu>>

PublishHistory(s) ==
  /\ Ends(s, "history", "done")
  /\ mu = None
  /\ UNCHANGED <<listVars, loaderVars, eventVars, mintVars, mu, owned, causes>>
-----------------------------------------------------------------------------
(***************************************************************************)
(* Receive: it swaps what it was given, publishes the new token under      *)
(* w.Mutex, and then adds it to the list under tokensMu.                   *)
(***************************************************************************)
ReceiveSwaps(r, to) ==
  /\ Goto(r, "idle", to)
  /\ UNCHANGED <<listVars, loaderVars, local, eventVars, mintVars, mu, tokensMu,
                 owned, causes>>

PublishReceived(r) == PublishToken(r, "publish", "append", Amount[r] - Fee)

(* It does not look whether the event has come back and is in the list.     *)
AppendReceived(r) ==
  /\ Goto(r, "append", "done")
  /\ tokensMu = None
  /\ AppendToken(local[r].token)
  /\ owned' = owned \cup {local[r].token}
  /\ causes' = causes \cup Torn
                 \cup (IF local[r].token \in owned THEN {"echo"} ELSE {})
  /\ local' = [local EXCEPT ![r] = NoLocal]
  /\ UNCHANGED <<loaderVars, eventVars, mintVars, mu, tokensMu>>
-----------------------------------------------------------------------------
Removals(l) ==
  LookAt(l) \/ MoveLast(l) \/ CutLast(l) \/ Removed(l) \/ OutOfRange(l)

Loading ==
  \/ RangePending \/ NextPending \/ ForgetPending
  \/ AddToken \/ ReplaceToken
  \/ \E l \in Loader : Removals(l) \/ KeepDeletion(l)

Calls ==
  \/ \E s \in Send :
       \/ SwapSucceeds(s) \/ SwapFails(s) \/ AnswerLost(s)
       \/ ReadUsed(s) \/ Announce(s) \/ KeepRest(s)
       \/ ChangeFails(s) \/ PublishChange(s) \/ StoreChange(s)
       \/ PublishHistory(s)
  \/ \E r \in Receive : PublishReceived(r) \/ AppendReceived(r)

Requests ==
  \/ \E s \in Send : Choose(s) \/ NotEnough(s)
  \/ \E r \in Receive, to \in {"publish", "failed"} : ReceiveSwaps(r, to)
  \/ \E t \in Token : ReadToken(t) \/ ReadDeletion(t)
  \/ Eose

Panicked == \E l \in Loader : loading[l] = "panic"

(* What goes on once it has begun: a call is neither made nor an event sent *)
(* for certain.                                                             *)
Progress == ~ Panicked /\ (Loading \/ Calls)

Next == ~ Panicked /\ (Loading \/ Calls \/ Requests)

Spec == Init /\ [][Next]_vars

FairSpec == Spec /\ WF_vars(Progress)
-----------------------------------------------------------------------------
Settled(c) == pc[c] \in {"idle", "done", "failed"}

Quiet ==
  /\ \A c \in Caller : Settled(c)
  /\ loading["eose"] = "stable"
  /\ \A l \in Loader : loading[l] \in {"wait", "stable"}
  /\ tokenEvents = {} /\ deletionEvents = {}

(* When the wallet is stable, no call is under way and everything published *)
(* has come back, its list has every token it was told of or made and has   *)
(* not spent, once, and none that is spent - unless the list was changed    *)
(* under somebody's hands, a deletion came too early, or the mint's answer  *)
(* was lost (wallet.go:128-223, send.go:63-187, receive.go:149-158).        *)
Balanced ==
  Quiet /\ causes = {} =>
    \A t \in 1..Len(worth) :
      Cardinality({i \in 1..len : array[i] = t}) =
        IF t \in owned \ spent THEN 1 ELSE 0

(* The events' goroutine waits for tokensMu while it holds w.Mutex          *)
(* (wallet.go:161, 186), and a Send waits for w.Mutex while it holds        *)
(* tokensMu (send.go:63, 151, 171, 112).                                    *)
LockedUp ==
  /\ mu = "events" /\ loading["events"] = "add"
  /\ tokensMu \in Send
  /\ pc[tokensMu] \in {"announce", "change", "history"}

(* Every call comes back, however it ends, and a lock that it had is free   *)
(* for others, but for that deadlock and a panic.                           *)
CallsSettle ==
  []<>(Panicked \/ LockedUp \/ \A c \in Caller : Settled(c))

(* "Close waits for pending operations to end" (wallet.go:228): they do end, *)
(* and Close gets w.Mutex.                                                  *)
OperationsEnd == []<>(Panicked \/ mu = None)
=============================================================================
