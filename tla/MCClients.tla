------------------------------ MODULE MCClients ------------------------------
(***************************************************************************)
(* The clients of NIP-46, NIP-77 and NIP-60 for TLC. The machines have no  *)
(* state in common; `subject` says which one takes its steps.              *)
(***************************************************************************)
EXTENDS Bunker, FiniteSets, TLC

CONSTANTS
  c1, c2, s1, r1,
  \* of Negentropy
  MaxItem, Buckets, FrameLimit,
  \* of Wallet, where they go by other names
  Sends, Receives, Amounts, Fee, StoredTokens, StoredWorth, SpentBefore, Replaced,
  WalletStarts, MaxToken

VARIABLES
  subject,
  \* of Negentropy
  has, turn, input, prevBound, skipping, output, haves, haveNots, done,
  \* of NegentropySync
  call, main, left, repeats, errors, handler, pending, items, complete,
  collector, seen, array, slots, poolLen, tasks, handled, aliased,
  \* of Wallet
  list, len, worth, pendingDeletions, eosed, walletMu, tokensMu, loading,
  working, below, toDelete, walletPc, local, tokenEvents, deletionEvents,
  spent, owned, causes

reconcileVars ==
  <<has, turn, input, prevBound, skipping, output, haves, haveNots, done>>
syncVars ==
  <<call, main, left, repeats, errors, handler, pending, items, complete,
    collector, seen, array, slots, poolLen, tasks, handled, aliased>>
walletVars ==
  <<list, len, worth, pendingDeletions, eosed, walletMu, tokensMu, loading,
    working, below, toDelete, walletPc, local, tokenEvents, deletionEvents,
    spent, owned, causes>>
----------------------------------------------------------------------------
TwoCalls == {c1, c2}

(* Messages of either side are cut off.                                     *)
SmallFrames == [s \in {"client", "server"} |-> 4]

N == INSTANCE Negentropy

(* A call that has these ids to move up and those down.                     *)
SyncOf(dirs, ups, downs, batch, repeated, failing) ==
  [dirs |-> dirs, batch |-> batch, repeats |-> repeated, errors |-> failing,
   needs |-> [d \in {"up", "down"} |-> IF d = "up" THEN ups ELSE downs]]

(* Full lists, a rest, both; one direction, whose counterpart overflows; and *)
(* enough lists for two to be given back at once.                            *)
SyncCalls ==
  {SyncOf({"up", "down"}, {1}, {3}, 1, 0, 0),
   SyncOf({"up", "down"}, {1, 2}, {3}, 2, 1, 1),
   SyncOf({"down"}, {1, 2}, {3, 4}, 1, 1, 1),
   SyncOf({"up"}, {1, 2, 3}, {}, 2, 1, 1),
   SyncOf({"up"}, {1, 2, 3, 4}, {}, 1, 0, 0)}

S == INSTANCE NegentropySync
       WITH Id <- 1..4, Calls <- SyncCalls, ChanCap <- 1, MaxLists <- 6

(* One call at a wallet with two tokens, or both at an empty one.           *)
SmallStarts ==
  {[calls |-> {s1}, tokens |-> {1, 2}], [calls |-> {r1}, tokens |-> {1, 2}],
   [calls |-> {s1, r1}, tokens |-> {}]}

(* Token 2, which replaces the spent token 1, leaves change when it is spent, *)
(* and the token received does not.                                         *)
SmallAmounts == (s1 :> 1) @@ (r1 :> 1)
SmallWorth == <<1, 2>>
SmallReplaced == <<None, 1>>

W == INSTANCE Wallet
       WITH Send <- Sends, Receive <- Receives, Amount <- Amounts,
            Stored <- StoredTokens, Worth <- StoredWorth, Deletes <- Replaced,
            Starts <- WalletStarts,
            array <- list, mu <- walletMu, left <- toDelete, pc <- walletPc

ASSUME WalletingAssumption == W!WalletAssumption
ASSUME ReconcileAssumption == N!ReconcileAssumption
ASSUME SyncingAssumption == S!SyncAssumption
----------------------------------------------------------------------------
(* For the machines that are not looked at one initial state is enough.     *)
MCInit ==
  /\ subject \in {"bunker", "reconcile", "sync", "wallet"}
  /\ Init /\ N!Init /\ S!Init /\ W!Init
  /\ subject # "reconcile" => \A s \in N!Side : has[s] = {}
  /\ subject # "wallet" => tokenEvents = {}
  /\ subject # "sync" => call = SyncOf({"down"}, {1, 2}, {3, 4}, 1, 1, 1)

Bunkers(step) ==
  subject = "bunker" /\ step
  /\ UNCHANGED <<subject, reconcileVars, syncVars, walletVars>>
Reconciles(step) ==
  subject = "reconcile" /\ step
  /\ UNCHANGED <<subject, vars, syncVars, walletVars>>
Syncs(step) ==
  subject = "sync" /\ step
  /\ UNCHANGED <<subject, vars, reconcileVars, walletVars>>
Wallets(step) ==
  subject = "wallet" /\ step
  /\ UNCHANGED <<subject, vars, reconcileVars, syncVars>>

(* Bound: once the books of the wallet are upset, what it has begun comes   *)
(* to its end and nothing new begins.                                       *)
WalletNext == W!Progress \/ (causes = {} /\ W!Next)

MCNext ==
  Bunkers(Next) \/ Reconciles(N!Next) \/ Syncs(S!Next) \/ Wallets(WalletNext)

MCProgress ==
  \/ Bunkers(Progress) \/ Reconciles(N!Next)
  \/ Syncs(S!Progress) \/ Wallets(W!Progress)

allVars == <<subject, vars, reconcileVars, syncVars, walletVars>>

MCSpec == MCInit /\ [][MCNext]_allVars /\ WF_allVars(MCProgress)
----------------------------------------------------------------------------
(* The client of a reconciliation reports true differences, and in the end  *)
(* all of them.                                                             *)
DifferenceFound == N!DifferenceFound

(* A reconciliation comes to an end.                                        *)
Terminates == subject = "reconcile" => N!Terminates

(* A NegentropySync without error has moved every id, once.                 *)
SyncIsComplete == S!SyncIsComplete

(* It returns, once the relay has answered.                                 *)
SyncEnds == S!SyncEnds

(* A wallet whose books nothing has upset lists what it has, once.          *)
Balanced == W!Balanced

(* Its calls come back, but for one deadlock and a panic.                   *)
CallsSettle == W!CallsSettle
=============================================================================
