---------------------------- MODULE MCClients_proofs ----------------------------
(***************************************************************************)
(* That a call to a remote signer returns the answer to its own request,    *)
(* for any number of calls, relays and responses, late or repeated: an id   *)
(* is given out once, an entry of listeners leads to the call that has its  *)
(* id, and what the dispatcher has loaded and not yet sent leads there      *)
(* still, whether or not the entry does.                                    *)
(*                                                                         *)
(* That the books of a wallet balance as long as nothing upsets them, for   *)
(* any calls, tokens and amounts: a spent token in the list has a deletion  *)
(* on its way.                                                              *)
(*                                                                         *)
(* That whoever waits for a lock of the wallet waits for somebody who can   *)
(* go on, or who waits for one who can, but for one deadlock.               *)
(*                                                                         *)
(* That a reconciliation reports the differences of two storages, and all   *)
(* of them when it is done, for any storages, buckets and frame limits.     *)
(*                                                                         *)
(* And that all this, and what NegentropySync_proofs shows, holds in the    *)
(* composition of the clients, which take their steps one at a time and     *)
(* leave each other's state alone. SP is S together with its theorems: the  *)
(* same constants and variables are put in.                                 *)
(***************************************************************************)
EXTENDS MCClients, SequenceTheorems, FiniteSetTheorems, WellFoundedInduction, TLAPS

SP == INSTANCE NegentropySync_proofs
        WITH Id <- 1..4, Calls <- SyncCalls, ChanCap <- 1, MaxLists <- 6

Counts ==
  /\ serial \in 0..MaxSerial
  /\ id \in [Call -> 0..serial]
  /\ connecting \in [Call -> Nat]
  /\ publishing \in [Call -> Nat]

CallTypes ==
  /\ pc \in [Call -> {"idle", "spawned", "connect", "wait", "keep", "done"}]
  /\ outcome \in [Call -> {"none", "kept", "result", "error", "context",
                           "unconnected"}]
  /\ answer \in [Call -> Call \cup {None}]
  /\ keyKept \in KeyCall \cup {None}
  /\ respWaiter \in [Call -> Response \cup {None}]
  /\ listeners \in [Id -> Call \cup {None}]

(* Two calls have different ids, and only who has one reaches the signer.   *)
IdsGivenOnce ==
  /\ \A c, d \in Call : id[c] = id[d] /\ id[c] # 0 => c = d
  /\ \A c \in Call : pc[c] = "idle" => id[c] = 0
  /\ \A c \in Call : connecting[c] > 0 \/ publishing[c] > 0 => id[c] # 0
  /\ signer \subseteq Call
  /\ \A c \in signer : id[c] # 0

(* The maps and the channels lead to the call a response is for.            *)
LeadsHome ==
  /\ \A i \in Id : listeners[i] # None => id[listeners[i]] = i
  /\ arriving # None => arriving \in Response /\ arriving.to \in signer
  /\ dispatcher = "send" =>
       /\ resp \in Response /\ resp.kind # "auth_url"
       /\ target = resp.to
  /\ \A c \in Call : respWaiter[c] # None =>
       respWaiter[c].to = c /\ respWaiter[c].kind # "auth_url"

Answered ==
  /\ OwnAnswer
  /\ \A c \in Call : pc[c] = "keep" => c \in KeyCall /\ outcome[c] # "kept"

BunkerInv == Counts /\ CallTypes /\ IdsGivenOnce /\ LeadsHome /\ Answered

LEMMA BunkerInit == Init => BunkerInv
<1> SUFFICES ASSUME Init PROVE BunkerInv
  OBVIOUS
<1> USE CallAssumption DEF Init
<1>1. Counts
  BY CountAssumption DEF Counts
<1>2. CallTypes
  BY DEF CallTypes
<1>3. IdsGivenOnce
  BY DEF IdsGivenOnce
<1>4. LeadsHome
  BY DEF LeadsHome
<1>5. Answered
  BY DEF Answered, OwnAnswer
<1> QED
  BY <1>1, <1>2, <1>3, <1>4, <1>5 DEF BunkerInv
--------------------------------------------------------------------------------
(***************************************************************************)
(* A call.                                                                 *)
(***************************************************************************)
LEMMA ReturnKeptKeeps ==
  ASSUME BunkerInv, NEW c \in Call, ReturnKept(c)
  PROVE  BunkerInv'
<1> USE DEF BunkerInv, ReturnKept, Goto, carriers, signerVars, dispatcherVars
<1>1. Counts'
  BY DEF Counts
<1>2. CallTypes'
  BY CallAssumption DEF CallTypes
<1>3. IdsGivenOnce'
  BY DEF CallTypes, IdsGivenOnce
<1>4. LeadsHome'
  BY DEF LeadsHome
<1>5. Answered'
  BY DEF CallTypes, Answered, OwnAnswer
<1> QED
  BY <1>1, <1>2, <1>3, <1>4, <1>5

(* The new id is above all that were given out.                             *)
LEMMA RequestKeeps ==
  ASSUME BunkerInv, NEW c \in Call, Request(c)
  PROVE  BunkerInv'
<1> USE DEF Request, NextSerial, Goto, signerVars, dispatcherVars
<1>s. /\ serial' = serial + 1 /\ serial \in Nat /\ serial' \in Id
      /\ \A d \in Call : id[d] \in 0..serial
  BY CountAssumption DEF BunkerInv, Counts, Id
<1>m. serial' \in 0..MaxSerial
  BY CountAssumption DEF BunkerInv, Counts
<1>i. \A d \in Call : id'[d] = IF d = c THEN serial' ELSE id[d]
  BY DEF BunkerInv, Counts
<1>p. \A d \in Call : pc'[d] = IF d = c THEN "spawned" ELSE pc[d]
  BY DEF BunkerInv, CallTypes
<1>z. id[c] = 0
  BY DEF BunkerInv, IdsGivenOnce
<1>1. Counts'
  <2>1. id' \in [Call -> 0..serial']
    BY <1>s, <1>i DEF BunkerInv, Counts
  <2>2. connecting' \in [Call -> Nat]
    BY CountAssumption DEF BunkerInv, Counts
  <2> QED
    BY <1>m, <2>1, <2>2 DEF BunkerInv, Counts
<1>2. CallTypes'
  BY <1>s DEF BunkerInv, CallTypes
<1>3. IdsGivenOnce'
  <2>1. \A d \in Call : id[d] # serial' /\ serial' # 0
    BY <1>s
  <2>2. \A d, e \in Call : id'[d] = id'[e] /\ id'[d] # 0 => d = e
    BY <1>i, <2>1 DEF BunkerInv, IdsGivenOnce
  <2>3. \A d \in Call : connecting'[d] > 0 \/ publishing'[d] > 0 => id'[d] # 0
    BY <1>i, <2>1 DEF BunkerInv, IdsGivenOnce, Counts
  <2>4. \A d \in Call : pc'[d] = "idle" => id'[d] = 0
    BY <1>i, <1>p DEF BunkerInv, IdsGivenOnce
  <2>5. signer' = signer /\ \A d \in signer : id'[d] # 0
    BY <1>i, <2>1 DEF BunkerInv, IdsGivenOnce
  <2> QED
    BY <2>2, <2>3, <2>4, <2>5 DEF BunkerInv, IdsGivenOnce
<1>4. LeadsHome'
  <2>1. ASSUME NEW i \in Id, listeners'[i] # None
        PROVE  id'[listeners'[i]] = i
    <3>1. CASE i = serial'
      BY <1>s, <1>i, <3>1 DEF BunkerInv, CallTypes
    <3>2. CASE i # serial'
      <4>1. listeners'[i] = listeners[i] /\ listeners[i] \in Call
        BY <2>1, <3>2 DEF BunkerInv, CallTypes
      <4>2. id[listeners[i]] = i /\ i # 0
        BY <2>1, <4>1 DEF BunkerInv, LeadsHome, Id
      <4>3. listeners[i] # c
        BY <1>z, <4>2
      <4> QED
        BY <1>i, <4>1, <4>2, <4>3
    <3> QED
      BY <3>1, <3>2
  <2>2. UNCHANGED <<arriving, signer, dispatcher, resp, target, respWaiter>>
    OBVIOUS
  <2> QED
    BY <2>1, <2>2 DEF BunkerInv, LeadsHome
<1>5. Answered'
  BY <1>p DEF BunkerInv, Answered, OwnAnswer
<1> QED
  BY <1>1, <1>2, <1>3, <1>4, <1>5 DEF BunkerInv
(* A call that returns deletes the entry of its id.                         *)
LEMMA ReturnsKeeps ==
  ASSUME BunkerInv, NEW c \in Call, NEW from \in {"connect", "wait"},
         NEW how \in {"result", "error", "context", "unconnected"},
         NEW whose \in {None, c}, Returns(c, from, how, whose),
         respWaiter' \in {respWaiter, [respWaiter EXCEPT ![c] = None]},
         UNCHANGED <<serial, keyKept, id, carriers, signerVars, dispatcherVars>>
  PROVE  BunkerInv'
<1> USE DEF Returns, Goto, carriers, signerVars, dispatcherVars
<1>p. \A d \in Call :
        /\ pc'[d] = IF d = c THEN IF c \in KeyCall THEN "keep" ELSE "done"
                    ELSE pc[d]
        /\ answer'[d] = IF d = c THEN whose ELSE answer[d]
        /\ outcome'[d] = IF d = c THEN how ELSE outcome[d]
  BY DEF BunkerInv, CallTypes
<1>l. \A i \in Id : listeners'[i] \in {listeners[i], None}
  BY DEF BunkerInv, CallTypes
<1>w. \A d \in Call : respWaiter'[d] \in {respWaiter[d], None}
  BY DEF BunkerInv, CallTypes
<1>1. Counts'
  BY DEF BunkerInv, Counts
<1>2. CallTypes'
  BY DEF BunkerInv, CallTypes
<1>3. IdsGivenOnce'
  <2>1. \A d \in Call : pc'[d] = "idle" => pc[d] = "idle"
    BY <1>p
  <2> QED
    BY <2>1 DEF BunkerInv, IdsGivenOnce
<1>4. LeadsHome'
  BY <1>l, <1>w DEF BunkerInv, LeadsHome
<1>5. Answered'
  BY <1>p DEF BunkerInv, Answered, OwnAnswer
<1> QED
  BY <1>1, <1>2, <1>3, <1>4, <1>5 DEF BunkerInv

LEMMA GivesUpKeeps ==
  ASSUME BunkerInv, NEW c \in Call,
         ConnectGivesUp(c) \/ WaitGivesUp(c) \/ TakeResponse(c)
  PROVE  BunkerInv'
<1>1. CASE ConnectGivesUp(c)
  <2>1. Returns(c, "connect", "unconnected", None)
    BY <1>1 DEF ConnectGivesUp
  <2>2. UNCHANGED <<serial, keyKept, id, respWaiter, carriers, signerVars,
                    dispatcherVars>>
    BY <1>1 DEF ConnectGivesUp
  <2> QED
    BY <2>1, <2>2, ReturnsKeeps
<1>2. CASE WaitGivesUp(c)
  <2>1. Returns(c, "wait", "context", None)
    BY <1>2 DEF WaitGivesUp
  <2>2. UNCHANGED <<serial, keyKept, id, respWaiter, carriers, signerVars,
                    dispatcherVars>>
    BY <1>2 DEF WaitGivesUp
  <2> QED
    BY <2>1, <2>2, ReturnsKeeps
<1>3. CASE TakeResponse(c)
  <2>1. respWaiter[c] \in Response /\ respWaiter[c] # None
    BY <1>3 DEF TakeResponse, BunkerInv, CallTypes
  <2>2. respWaiter[c].to = c /\ respWaiter[c].kind \in {"result", "error"}
    BY <2>1 DEF BunkerInv, LeadsHome, Response
  <2>3. Returns(c, "wait", respWaiter[c].kind, c)
    BY <1>3, <2>2 DEF TakeResponse
  <2>4. /\ respWaiter' = [respWaiter EXCEPT ![c] = None]
        /\ UNCHANGED <<serial, keyKept, id, carriers, signerVars, dispatcherVars>>
    BY <1>3 DEF TakeResponse
  <2> QED
    BY <2>2, <2>3, <2>4, ReturnsKeeps
<1> QED
  BY <1>1, <1>2, <1>3

(* GetPublicKey keeps the answer to its own request.                        *)
LEMMA KeepKeyKeeps ==
  ASSUME BunkerInv, NEW c \in Call, KeepKey(c)
  PROVE  BunkerInv'
<1> USE DEF KeepKey, Goto, carriers, signerVars, dispatcherVars
<1>1. Counts' /\ IdsGivenOnce' /\ LeadsHome'
  BY DEF BunkerInv, Counts, CallTypes, IdsGivenOnce, LeadsHome
<1>2. answer[c] \in {c, None} /\ c \in KeyCall
  BY DEF BunkerInv, CallTypes, Answered, OwnAnswer
<1>3. CallTypes'
  BY <1>2 DEF BunkerInv, CallTypes
<1>4. Answered'
  BY DEF BunkerInv, CallTypes, Answered, OwnAnswer
<1> QED
  BY <1>1, <1>3, <1>4 DEF BunkerInv

(* Steps that move a call along, or nothing of it.                          *)
LEMMA CallKeeps ==
  ASSUME BunkerInv, NEW c \in Call, CallStep(c) \/ CancelContext(c)
  PROVE  BunkerInv'
<1>1. CASE AwaitRelay(c)
  <2> USE <1>1 DEF AwaitRelay, Goto, carriers, signerVars, dispatcherVars
  <2>1. Counts' /\ LeadsHome'
    BY DEF BunkerInv, Counts, LeadsHome
  <2>2. CallTypes' /\ IdsGivenOnce' /\ Answered'
    BY DEF BunkerInv, CallTypes, IdsGivenOnce, Answered, OwnAnswer
  <2> QED
    BY <2>1, <2>2 DEF BunkerInv
<1>2. CASE CancelContext(c)
  BY <1>2 DEF CancelContext, carriers, callVars, signerVars, dispatcherVars,
     BunkerInv, Counts, CallTypes, IdsGivenOnce, LeadsHome, Answered, OwnAnswer
<1> QED
  BY <1>1, <1>2, ReturnKeptKeeps, RequestKeeps, GivesUpKeeps, KeepKeyKeeps
     DEF CallStep
--------------------------------------------------------------------------------
(***************************************************************************)
(* The goroutines of a call, the signer and the dispatcher.                *)
(***************************************************************************)
LEMMA CarrierKeeps ==
  ASSUME BunkerInv, NEW c \in Call, CarrierStep(c)
  PROVE  BunkerInv'
<1>1. CASE CannotConnect(c)
  <2> USE <1>1 DEF CannotConnect, callVars, signerVars, dispatcherVars
  <2>1. Counts' /\ IdsGivenOnce'
    BY DEF BunkerInv, Counts, IdsGivenOnce
  <2>2. CallTypes' /\ LeadsHome' /\ Answered'
    BY DEF BunkerInv, CallTypes, LeadsHome, Answered, OwnAnswer
  <2> QED
    BY <2>1, <2>2 DEF BunkerInv
<1>2. CASE SignalWorked(c)
  <2> USE <1>2 DEF SignalWorked, signerVars, dispatcherVars
  <2>1. id[c] # 0
    BY DEF BunkerInv, IdsGivenOnce
  <2>2. \A d \in Call : pc'[d] \in {pc[d], "wait"}
    BY DEF BunkerInv, CallTypes
  <2>3. Counts'
    BY DEF BunkerInv, Counts
  <2>4. \A d \in Call : connecting'[d] > 0 \/ publishing'[d] > 0 =>
          d = c \/ connecting[d] > 0 \/ publishing[d] > 0
    BY DEF BunkerInv, Counts
  <2>5. IdsGivenOnce'
    BY <2>1, <2>2, <2>4 DEF BunkerInv, IdsGivenOnce
  <2>6. CallTypes' /\ LeadsHome'
    BY <2>2 DEF BunkerInv, CallTypes, LeadsHome
  <2>7. Answered'
    BY <2>2 DEF BunkerInv, Answered, OwnAnswer
  <2> QED
    BY <2>3, <2>5, <2>6, <2>7 DEF BunkerInv
<1>3. CASE PublishRequest(c)
  <2> USE <1>3 DEF PublishRequest, callVars, dispatcherVars
  <2>1. id[c] # 0
    BY DEF BunkerInv, IdsGivenOnce
  <2>2. Counts' /\ IdsGivenOnce'
    BY <2>1 DEF BunkerInv, Counts, IdsGivenOnce
  <2>3. CallTypes' /\ LeadsHome' /\ Answered'
    BY DEF BunkerInv, CallTypes, LeadsHome, Answered, OwnAnswer
  <2> QED
    BY <2>2, <2>3 DEF BunkerInv
<1> QED
  BY <1>1, <1>2, <1>3 DEF CarrierStep

LEMMA RespondKeeps ==
  ASSUME BunkerInv, NEW c \in Call, NEW kind \in {"result", "error", "auth_url"},
         Respond(c, kind)
  PROVE  BunkerInv'
<1> USE DEF Respond, callVars, carriers, dispatcherVars
<1>1. arriving' \in Response /\ arriving'.to \in signer
  BY DEF Response
<1>2. LeadsHome'
  BY <1>1 DEF BunkerInv, LeadsHome
<1>3. Counts' /\ CallTypes' /\ IdsGivenOnce' /\ Answered'
  BY DEF BunkerInv, Counts, CallTypes, IdsGivenOnce, Answered, OwnAnswer
<1> QED
  BY <1>2, <1>3 DEF BunkerInv

(* The channel that the dispatcher loads is that of the call the response   *)
(* is for, since the id is nobody else's.                                   *)
LEMMA ReadKeeps ==
  ASSUME BunkerInv, ReadResponse
  PROVE  BunkerInv'
<1> USE DEF ReadResponse, NextResponse, callVars, carriers
<1> DEFINE listener == listeners[id[arriving.to]]
<1>1. arriving \in Response /\ arriving.to \in signer /\ arriving.to \in Call
  BY DEF BunkerInv, LeadsHome, IdsGivenOnce
<1>2. id[arriving.to] # 0 /\ id[arriving.to] \in 0..serial
  BY <1>1 DEF BunkerInv, IdsGivenOnce, Counts
<1>3. listener # None => listener = arriving.to
  <2>1. SUFFICES ASSUME listener # None PROVE listener = arriving.to
    OBVIOUS
  <2>2. id[arriving.to] \in Id
    BY <1>2, CountAssumption DEF BunkerInv, Counts, Id
  <2>3. listener \in Call /\ id[listener] = id[arriving.to]
    BY <2>1, <2>2 DEF BunkerInv, CallTypes, LeadsHome
  <2> QED
    BY <1>1, <1>2, <2>3 DEF BunkerInv, IdsGivenOnce
<1>4. LeadsHome'
  BY <1>1, <1>3 DEF BunkerInv, LeadsHome
<1>5. Counts' /\ CallTypes' /\ IdsGivenOnce' /\ Answered'
  BY DEF BunkerInv, Counts, CallTypes, IdsGivenOnce, Answered, OwnAnswer
<1> QED
  BY <1>4, <1>5 DEF BunkerInv

LEMMA SendKeeps ==
  ASSUME BunkerInv, SendResponse
  PROVE  BunkerInv'
<1> USE DEF SendResponse, NextResponse, callVars, carriers, signerVars
<1>1. /\ resp \in Response /\ resp.to = target /\ resp.kind # "auth_url"
      /\ target \in Call
  BY DEF BunkerInv, LeadsHome, Response
<1>2. \A c \in Call : \/ respWaiter'[c] = respWaiter[c]
                      \/ c = target /\ respWaiter'[c] = resp
  BY DEF BunkerInv, CallTypes
<1>3. CallTypes'
  BY <1>1, <1>2 DEF BunkerInv, CallTypes
<1>4. LeadsHome'
  BY <1>1, <1>2 DEF BunkerInv, LeadsHome
<1>5. Counts' /\ IdsGivenOnce' /\ Answered'
  BY DEF BunkerInv, Counts, IdsGivenOnce, Answered, OwnAnswer
<1> QED
  BY <1>3, <1>4, <1>5 DEF BunkerInv

(* Nothing that the invariant is about, but for a response that is gone.    *)
LEMMA RestKeeps ==
  ASSUME BunkerInv, ReadAuthUrl \/ StopDispatcher \/ UNCHANGED vars
  PROVE  BunkerInv'
<1>1. /\ UNCHANGED <<serial, listeners, keyKept, pc, id, respWaiter, outcome,
                     answer, connecting, publishing, signer, resp, target>>
      /\ arriving' \in {arriving, None}
      /\ dispatcher' = "send" => dispatcher = "send"
  BY DEF ReadAuthUrl, StopDispatcher, vars, callVars, carriers, dispatcherVars
<1>2. LeadsHome'
  BY <1>1 DEF BunkerInv, LeadsHome
<1>3. Counts' /\ CallTypes' /\ IdsGivenOnce' /\ Answered'
  BY <1>1 DEF BunkerInv, Counts, CallTypes, IdsGivenOnce, Answered, OwnAnswer
<1> QED
  BY <1>2, <1>3 DEF BunkerInv

LEMMA BunkerNext ==
  ASSUME BunkerInv, [Next]_vars
  PROVE  BunkerInv'
<1>1. ASSUME NEW c \in Call, CallStep(c) \/ CancelContext(c) PROVE BunkerInv'
  BY <1>1, CallKeeps
<1>2. ASSUME NEW c \in Call, CarrierStep(c) PROVE BunkerInv'
  BY <1>2, CarrierKeeps
<1>3. ASSUME NEW c \in Call,
             \E kind \in {"result", "error", "auth_url"} : Respond(c, kind)
      PROVE  BunkerInv'
  BY <1>3, RespondKeeps
<1>4. CASE DispatcherStep \/ StopDispatcher \/ UNCHANGED vars
  BY <1>4, ReadKeeps, SendKeeps, RestKeeps DEF DispatcherStep
<1> QED
  BY <1>1, <1>2, <1>3, <1>4 DEF Next
--------------------------------------------------------------------------------
(* Ids, listeners, what the dispatcher has loaded and what waits in a       *)
(* channel fit together in every state of the client (nip46/client.go:156,  *)
(* 246).                                                                    *)
THEOREM BunkerInvariant == Spec => []BunkerInv
<1>1. Init => BunkerInv
  BY BunkerInit
<1>2. BunkerInv /\ [Next]_vars => BunkerInv'
  BY BunkerNext
<1> QED
  BY <1>1, <1>2, PTL DEF Spec

(* A call returns the answer to its own request, and the public key that is *)
(* kept is the answer to a GetPublicKey.                                    *)
THEOREM AnswersAreOwn == Spec => []OwnAnswer
<1>1. BunkerInv => OwnAnswer
  BY DEF BunkerInv, Answered
<1> QED
  BY <1>1, BunkerInvariant, PTL
--------------------------------------------------------------------------------
(***************************************************************************)
(* The wallet. Its list is right as long as nothing has upset the books:   *)
(* every spent token in it has a deletion on its way, whoever has it in hand, *)
(* and no removal moves a token that another removal looks for to a place  *)
(* where this one has been.                                                *)
(***************************************************************************)

(* The tokens listed: a removal that is half done has given up the last.    *)
Real == IF W!Removing THEN len - 1 ELSE len

(* What a call may have in its variables. The change is a fold over the     *)
(* tokens chosen, and nothing is said of it.                                *)
LocalTypes(c) ==
  local[c] \in [inputs : Seq(W!Token), at : Nat, last : Nat, kept : Seq(W!Token),
               change : {local[c].change}, token : W!Token \cup {None}]

WalletTypes ==
  /\ list \in Seq(W!Token) /\ len \in 0..Len(list)
  /\ worth \in Seq({worth[i] : i \in DOMAIN worth})
  /\ Len(worth) \in StoredTokens..MaxToken
  /\ pendingDeletions \in Seq(spent) /\ toDelete \in Seq(spent)
  /\ working \in [W!Loader -> W!Token \cup {None}]
  /\ below \in [W!Loader -> Nat]
  /\ local \in [W!Caller -> {local[c] : c \in W!Caller}]
  /\ \A c \in W!Caller : LocalTypes(c)
  /\ tokenEvents \subseteq 1..Len(worth) /\ deletionEvents \subseteq spent
  /\ spent \subseteq 1..Len(worth) /\ SpentBefore \subseteq spent
  /\ owned \subseteq 1..Len(worth)

(* The lines of Send at which it holds tokensMu.                            *)
SendHas(s) ==
  walletPc[s] \in {"swap", "delete", "announce", "change", "store", "history"}

(* tokensMu is held by the Send that is between its two ends.               *)
Holds(c) ==
  /\ c \in Sends => /\ walletPc[c] \notin {"publish", "append"}
                    /\ tokensMu = c <=> SendHas(c)
  /\ c \in Receives => ~ SendHas(c)

CallsHold ==
  /\ walletPc \in [W!Caller -> {"idle", "swap", "delete", "announce", "change",
       "store", "history", "publish", "append", "done", "failed"}]
  /\ \A c \in W!Caller : Holds(c)

(* Each goroutine is at a line of its own, and a deletion it works on is of *)
(* a spent token.                                                           *)
LoadersWork ==
  /\ loading \in [W!Loader -> {"wait", "range", "next", "add", "replaces", "keep",
       "remove", "cut", "stable"}]
  /\ loading["eose"] \notin {"add", "replaces", "keep"}
  /\ loading["deletions"] \notin {"range", "next", "add", "replaces", "stable"}
  /\ loading["events"] \notin {"range", "next", "stable"}
  /\ eosed <=> loading["eose"] # "wait"
  /\ loading["eose"] = "stable" => pendingDeletions = <<>>
  /\ \A l \in W!Loader : loading[l] \in {"keep", "remove", "cut"} => working[l] \in spent
  /\ loading["events"] \in {"add", "replaces"} => working["events"] \in 1..Len(worth)
  /\ loading["events"] = "replaces" =>
       working["events"] <= StoredTokens /\ Replaced[working["events"]] # None

(* One removal at a time is half done, and what it has left at the end of the *)
(* list it has put further down, or it was what is to be removed.           *)
RemovalsApart ==
  /\ \A l, m \in W!Loader : loading[l] = "cut" /\ loading[m] = "cut" => l = m
  /\ W!Removing =>
       /\ len > 0
       /\ \/ list[len] \in spent
          \/ \E p \in 1..(len - 1) : list[p] = list[len]

(* The list has each token once, of those known, and all that are not spent. *)
Listed ==
  /\ \A p, q \in 1..Real : list[p] = list[q] => p = q
  /\ \A p \in 1..Real : list[p] \in owned
  /\ \A t \in owned \ spent : \E p \in 1..Real : list[p] = t

(* What Send has chosen is the beginning of the list still.                 *)
InputsStand(s) ==
  /\ ~ W!Removing
  /\ Len(local[s].inputs) <= len
  /\ \A i \in 1..Len(local[s].inputs) : local[s].inputs[i] = list[i]

(* All of it is spent, and the loop is within it.                           *)
InputsSpent(s) ==
  /\ local[s].last = len
  /\ local[s].at \in 1..(Len(local[s].inputs) + 1)
  /\ \A i \in 1..Len(local[s].inputs) : list[i] \in spent

(* updatedTokens is the list without it.                                    *)
RestKept(s) ==
  /\ local[s].at = Len(local[s].inputs) + 1
  /\ Len(local[s].kept) = len - Len(local[s].inputs)
  /\ \A i \in 1..Len(local[s].kept) :
       local[s].kept[i] = list[Len(local[s].inputs) + i]

(* The choice of a Send, at each of its lines.                              *)
Stands(s) ==
  /\ walletPc[s] \in {"idle", "swap"} => local[s].at = 1
  /\ walletPc[s] \in {"swap", "delete", "announce", "change", "store"} =>
       InputsStand(s)
  /\ walletPc[s] \in {"delete", "announce", "change", "store"} => InputsSpent(s)
  /\ walletPc[s] = "announce" =>
       /\ local[s].at <= Len(local[s].inputs)
       /\ local[s].token = list[local[s].at]
  /\ walletPc[s] \in {"change", "store"} => RestKept(s)

ChosenStand == \A s \in Sends : Stands(s)

(* A token that was not on the relays to begin with.                        *)
New(t) == t \in 1..Len(worth) /\ t \notin SpentBefore

(* The token that a call has made and published. A Send keeps the goroutine *)
(* of the events from the list until it has stored it.                      *)
Makes(c) ==
  /\ c \in Sends /\ walletPc[c] = "store" =>
       New(local[c].token) /\ local[c].token \notin owned
  /\ c \in Receives /\ walletPc[c] = "append" => New(local[c].token)

MadeIsNew ==
  /\ spent \subseteq owned \cup SpentBefore
  /\ \A c \in W!Caller : Makes(c)

(* The deletion of t is on its way: from the relays, in the hands of a      *)
(* goroutine that keeps it, or among those the eose goroutine will go through. *)
Pursued(t) ==
  \/ t \in deletionEvents
  \/ \E l \in W!Loader : loading[l] = "keep" /\ working[l] = t
  \/ /\ loading["eose"] \in {"wait", "range"}
     /\ \E i \in 1..Len(pendingDeletions) : pendingDeletions[i] = t
  \/ /\ loading["eose"] \in {"next", "remove", "cut"}
     /\ \E i \in 1..Len(toDelete) : toDelete[i] = t

(* A Send will announce it yet.                                             *)
Announces(s, t) ==
  /\ walletPc[s] \in {"delete", "announce"}
  /\ \E i \in local[s].at..Len(local[s].inputs) : local[s].inputs[i] = t

Announcing(t) == \E s \in Sends : Announces(s, t)

(* A removal will come to this position yet.                                *)
Sought(p) ==
  \E l \in W!Loader :
    loading[l] \in {"remove", "cut"} /\ working[l] = list[p] /\ p <= below[l]

(* A spent token in the list will be removed.                               *)
SpentGoes ==
  \A p \in 1..Real :
    list[p] \in spent => Pursued(list[p]) \/ Announcing(list[p]) \/ Sought(p)

(* The event of t is still to be dealt with.                                *)
Arrives(t) ==
  t \in tokenEvents \/ (loading["events"] = "add" /\ working["events"] = t)

(* Until the EOSE a spent token can still come into the list, and its       *)
(* deletion has not been carried out.                                       *)
SpentAwaited ==
  ~ eosed => \A t \in spent : Arrives(t) => Pursued(t) \/ Announcing(t)

Sound ==
  /\ WalletTypes /\ CallsHold /\ LoadersWork /\ RemovalsApart /\ Listed
  /\ ChosenStand /\ MadeIsNew /\ SpentGoes /\ SpentAwaited

(* What holds until something upsets the books or the program ends.         *)
WalletInv == causes = {} /\ ~ W!Panicked => Sound
--------------------------------------------------------------------------------
LEMMA FirstOfNats ==
  ASSUME NEW set \in SUBSET Nat, set # {}
  PROVE  \E i \in set : \A j \in set : i <= j
<1>1. PICK i \in set : \A j \in set : <<j, i>> \notin OpToRel(<, Nat)
  BY NatLessThanWellFounded, WFMin, Zenon
<1>2. \A j \in set : ~(j < i)
  BY <1>1 DEF OpToRel
<1> QED
  BY <1>2

LEMMA TokensOfWorth ==
  ASSUME Sound
  PROVE  /\ Len(worth) \in Nat /\ StoredTokens \in Nat /\ MaxToken \in Nat
         /\ 1..Len(worth) \subseteq W!Token /\ spent \subseteq W!Token
<1>1. StoredTokens \in Nat /\ MaxToken \in Nat
  BY WalletingAssumption DEF W!WalletAssumption
<1> QED
  BY <1>1 DEF Sound, WalletTypes, W!Token

LEMMA RemovalsTyped ==
  ASSUME Sound
  PROVE  /\ len \in Nat /\ below \in [W!Loader -> Nat]
         /\ working \in [W!Loader -> W!Token \cup {None}]
<1>1. WalletTypes
  BY Zenon DEF Sound
<1>2. /\ list \in Seq(W!Token) /\ len \in 0..Len(list)
      /\ below \in [W!Loader -> Nat]
      /\ working \in [W!Loader -> W!Token \cup {None}]
  BY <1>1, Zenon DEF WalletTypes
<1>3. Len(list) \in Nat
  BY <1>2, LenProperties
<1>4. len \in Nat
  BY ONLY <1>2, <1>3, len \in 0..Len(list)
<1> QED
  BY <1>2, <1>4

LEMMA LookAtKeeps ==
  ASSUME Sound, NEW l \in W!Loader, W!LookAt(l)
  PROVE  Sound'
<1>a. /\ W!Here(l) /\ below[l] <= len /\ list[below[l]] # working[l]
      /\ below' = [below EXCEPT ![l] = @ - 1]
      /\ UNCHANGED <<list, len, pendingDeletions, eosed, loading, working, toDelete,
                 walletPc, local, tokenEvents, deletionEvents, worth, spent,
                 walletMu, tokensMu, owned, causes>>
  BY DEF W!LookAt, W!listVars, W!callVars, W!eventVars, W!mintVars
<1>1. WalletTypes'
  BY <1>a, SMTT(30) DEF Sound, WalletTypes, LocalTypes, W!Here
<1>2. CallsHold'
  BY <1>a DEF Sound, CallsHold, Holds, SendHas
<1>3. LoadersWork'
  BY <1>a DEF Sound, LoadersWork
<1>4. RemovalsApart'
  BY <1>a DEF Sound, RemovalsApart, W!Removing
<1>5. Listed'
  BY <1>a DEF Sound, Listed, Real, W!Removing
<1>6. ChosenStand'
  BY <1>a DEF Sound, ChosenStand, Stands, InputsStand, InputsSpent, RestKept, W!Removing
<1>7. MadeIsNew'
  BY <1>a DEF Sound, MadeIsNew, Makes, New
<1>8. SpentGoes'
  <2> SUFFICES ASSUME NEW p \in 1..Real, list[p] \in spent
      PROVE  Pursued(list[p])' \/ Announcing(list[p])' \/ Sought(p)'
    BY <1>a DEF SpentGoes, Real, W!Removing
  <2>1. Pursued(list[p]) => Pursued(list[p])'
    BY <1>a DEF Pursued
  <2>2. Announcing(list[p]) => Announcing(list[p])'
    BY <1>a DEF Announcing, Announces
  <2>3. ASSUME Sought(p) PROVE Sought(p)'
    <3>1. PICK m \in W!Loader : loading[m] \in {"remove", "cut"}
             /\ working[m] = list[p] /\ p <= below[m]
      BY <2>3 DEF Sought
    <3>2. /\ p \in Nat /\ below \in [W!Loader -> Nat]
      BY DEF Sound, WalletTypes, Real
    <3>3. p <= below'[m]
      BY <1>a, <3>1, <3>2
    <3> QED
      BY <1>a, <3>1, <3>3 DEF Sought
  <2> QED
    BY <2>1, <2>2, <2>3 DEF Sound, SpentGoes
<1>9. SpentAwaited'
  BY <1>a DEF Sound, SpentAwaited, Arrives, Pursued, Announcing, Announces
<1> QED
  BY <1>1, <1>2, <1>3, <1>4, <1>5, <1>6, <1>7, <1>8, <1>9 DEF Sound

LEMMA MoveLastKeeps ==
  ASSUME Sound, causes' = {}, NEW l \in W!Loader, W!MoveLast(l)
  PROVE  Sound'
<1> DEFINE b == below[l]
<1>a. /\ loading[l] = "remove" /\ b > 0 /\ b <= len /\ list[b] = working[l]
      /\ loading' = [loading EXCEPT ![l] = "cut"]
      /\ list' = [list EXCEPT ![b] = list[len]]
      /\ below' = [below EXCEPT ![l] = b - 1]
      /\ ~ W!Reckoning /\ ~ W!Removing
      /\ UNCHANGED <<len, pendingDeletions, eosed, working, toDelete,
                 walletPc, local, tokenEvents, deletionEvents, worth, spent,
                 walletMu, tokensMu, owned>>
  BY DEF W!MoveLast, W!Here, W!callVars, W!eventVars, W!mintVars, W!Torn
<1>b. /\ list \in Seq(W!Token) /\ len \in 0..Len(list) /\ b \in 1..len
      /\ below \in [W!Loader -> Nat] /\ working[l] \in spent
      /\ DOMAIN loading = W!Loader
  BY <1>a DEF Sound, WalletTypes, LoadersWork
<1>c. /\ list' \in Seq(W!Token) /\ Len(list') = Len(list)
      /\ list'[b] = list[len]
      /\ \A p \in 1..Len(list) : p # b => list'[p] = list[p]
  <2>1. b \in 1..Len(list) /\ list[len] \in W!Token
    BY <1>b, ElementOfSeq
  <2> QED
    BY <1>a, <1>b, <2>1, ExceptSeq
<1>d. /\ W!Removing' /\ Real = len /\ Real' = len - 1
      /\ \A m \in W!Loader : loading'[m] = IF m = l THEN "cut" ELSE loading[m]
  BY <1>a, <1>b DEF W!Removing, Real
<1>e. /\ \A p, q \in 1..len : list[p] = list[q] => p = q
      /\ \A p \in 1..len : list[p] \in owned
      /\ \A t \in owned \ spent : \E p \in 1..len : list[p] = t
  BY <1>d DEF Sound, Listed
<1> HIDE DEF b
<1>1. WalletTypes'
  BY <1>a, <1>b, <1>c DEF Sound, WalletTypes, LocalTypes, b
<1>2. CallsHold'
  BY <1>a DEF Sound, CallsHold, Holds, SendHas
<1>3. LoadersWork'
  BY <1>a, <1>b, <1>d DEF Sound, LoadersWork
<1>4. RemovalsApart'
  <2>1. \A m, n \in W!Loader : loading'[m] = "cut" /\ loading'[n] = "cut" => m = n
    BY <1>a, <1>d DEF W!Removing
  <2>2. len > 0
    BY <1>b
  <2>3. list'[len] \in spent \/ \E p \in 1..(len - 1) : list'[p] = list'[len]
    <3>1. CASE b = len
      BY <3>1, <1>a, <1>b, <1>c
    <3>2. CASE b # len
      BY <3>2, <1>b, <1>c
    <3> QED
      BY <3>1, <3>2
  <2> QED
    BY <1>a, <2>1, <2>2, <2>3 DEF RemovalsApart
<1>5. Listed'
  <2>a. /\ len \in 1..len /\ \A p \in 1..(len - 1) : p \in 1..len /\ p # len
        /\ \A p \in 1..len : p \in 1..Len(list)
    BY <1>b
  <2>1. ASSUME NEW p \in 1..(len - 1), NEW q \in 1..(len - 1), list'[p] = list'[q]
        PROVE  p = q
    <3>1. /\ p = b => list'[p] = list[len]
          /\ p # b => list'[p] = list[p]
          /\ q = b => list'[q] = list[len]
          /\ q # b => list'[q] = list[q]
      BY <1>c, <2>a
    <3>2. CASE p = b
      BY <1>e, <2>1, <2>a, <3>1, <3>2
    <3>3. CASE p # b
      BY <1>e, <2>1, <2>a, <3>1, <3>3
    <3> QED
      BY <3>2, <3>3
  <2>2. \A p \in 1..(len - 1) : list'[p] \in owned
    BY <1>b, <1>c, <1>e
  <2>3. \A t \in owned \ spent : \E p \in 1..(len - 1) : list'[p] = t
    <3> TAKE t \in owned \ spent
    <3>1. PICK p \in 1..len : list[p] = t
      BY <1>e
    <3>2. p # b
      BY <3>1, <1>a, <1>b
    <3>3. CASE p = len
      BY <3>1, <3>2, <3>3, <1>b, <1>c
    <3>4. CASE p # len
      BY <3>1, <3>2, <3>4, <1>b, <1>c
    <3> QED
      BY <3>3, <3>4
  <2> QED
    BY <1>a, <1>d, <2>1, <2>2, <2>3 DEF Listed
<1>6. ChosenStand'
  BY <1>a DEF Sound, ChosenStand, Stands, W!Reckoning
<1>7. MadeIsNew'
  BY <1>a DEF Sound, MadeIsNew, Makes, New
<1>8. SpentGoes'
  <2> SUFFICES ASSUME NEW p \in 1..(len - 1), list'[p] \in spent
      PROVE  Pursued(list[p])' \/ Announcing(list[p])' \/ Sought(p)'
    BY <1>a, <1>d DEF SpentGoes
  <2>1. PICK q \in 1..len : q >= p /\ list[q] = list'[p]
    BY <1>b, <1>c
  <2>2. Pursued(list[q]) => Pursued(list[p])'
    BY <1>a, <1>d, <2>1 DEF Pursued
  <2>3. Announcing(list[q]) => Announcing(list[p])'
    BY <1>a, <2>1 DEF Announcing, Announces
  <2>4. ASSUME Sought(q) PROVE Sought(p)'
    <3>1. PICK m \in W!Loader : loading[m] \in {"remove", "cut"}
             /\ working[m] = list[q] /\ q <= below[m]
      BY <2>4 DEF Sought
    <3>2. p <= below'[m]
      <4>1. CASE m = l
        <5>1. q = b
          BY <4>1, <3>1, <1>a, <1>b, <1>e
        <5>2. p # b
          BY <5>1, <2>1, <1>b, <1>c, <1>e
        <5> QED
          BY <4>1, <5>1, <5>2, <2>1, <1>a, <1>b DEF b
      <4>2. CASE m # l
        BY <4>2, <3>1, <2>1, <1>a, <1>b
      <4> QED
        BY <4>1, <4>2
    <3> QED
      BY <1>a, <1>d, <3>1, <3>2, <2>1 DEF Sought
  <2> QED
    BY <2>1, <2>2, <2>3, <2>4, <1>d DEF Sound, SpentGoes
<1>9. SpentAwaited'
  BY <1>a, <1>d DEF Sound, SpentAwaited, Arrives, Pursued, Announcing, Announces
<1> QED
  BY <1>1, <1>2, <1>3, <1>4, <1>5, <1>6, <1>7, <1>8, <1>9 DEF Sound

LEMMA CutLastKeeps ==
  ASSUME Sound, NEW l \in W!Loader, W!CutLast(l)
  PROVE  Sound'
<1>a. /\ loading[l] = "cut" /\ loading' = [loading EXCEPT ![l] = "remove"]
      /\ len > 0 /\ len' = len - 1
      /\ UNCHANGED <<list, pendingDeletions, eosed, working, below, toDelete,
                 walletPc, local, tokenEvents, deletionEvents, worth, spent,
                 walletMu, tokensMu, owned>>
  BY DEF W!CutLast, W!Loads, W!callVars, W!eventVars, W!mintVars
<1>b. /\ DOMAIN loading = W!Loader /\ len \in 0..Len(list)
      /\ \A m \in W!Loader : loading[m] = "cut" => m = l
  BY <1>a DEF Sound, WalletTypes, LoadersWork, RemovalsApart
<1>d. /\ W!Removing /\ ~ W!Removing' /\ Real = len - 1 /\ Real' = Real
      /\ \A m \in W!Loader : loading'[m] = IF m = l THEN "remove" ELSE loading[m]
  BY <1>a, <1>b DEF W!Removing, Real
<1>1. WalletTypes'
  BY <1>a, <1>b, SMTT(30) DEF Sound, WalletTypes, LocalTypes
<1>2. CallsHold'
  BY <1>a DEF Sound, CallsHold, Holds, SendHas
<1>3. LoadersWork'
  BY <1>a, <1>b, <1>d DEF Sound, LoadersWork
<1>4. RemovalsApart'
  BY <1>d DEF RemovalsApart, W!Removing
<1>5. Listed'
  BY <1>a, <1>d DEF Sound, Listed
<1>6. ChosenStand'
  BY <1>a, <1>d DEF Sound, ChosenStand, Stands, InputsStand
<1>7. MadeIsNew'
  BY <1>a DEF Sound, MadeIsNew, Makes, New
<1>8. SpentGoes'
  <2> SUFFICES ASSUME NEW p \in 1..Real, list[p] \in spent
      PROVE  Pursued(list[p])' \/ Announcing(list[p])' \/ Sought(p)'
    BY <1>a, <1>d DEF SpentGoes
  <2>1. Pursued(list[p]) => Pursued(list[p])'
    BY <1>a, <1>d DEF Pursued
  <2>2. Announcing(list[p]) => Announcing(list[p])'
    BY <1>a DEF Announcing, Announces
  <2>3. Sought(p) => Sought(p)'
    BY <1>a, <1>d DEF Sought
  <2> QED
    BY <2>1, <2>2, <2>3 DEF Sound, SpentGoes
<1>9. SpentAwaited'
  BY <1>a, <1>d DEF Sound, SpentAwaited, Arrives, Pursued, Announcing, Announces
<1> QED
  BY <1>1, <1>2, <1>3, <1>4, <1>5, <1>6, <1>7, <1>8, <1>9 DEF Sound

LEMMA RemovedKeeps ==
  ASSUME Sound, NEW l \in W!Loader, W!Removed(l)
  PROVE  Sound'
<1> DEFINE to == IF l = "eose" THEN "next" ELSE "wait"
<1>a. /\ loading[l] = "remove" /\ below[l] = 0
      /\ loading' = [loading EXCEPT ![l] = to]
      /\ working' = [working EXCEPT ![l] = None]
      /\ UNCHANGED <<list, len, pendingDeletions, eosed, below, toDelete,
                 walletPc, local, tokenEvents, deletionEvents, worth, spent,
                 tokensMu, owned>>
  BY DEF W!Removed, W!listVars, W!callVars, W!eventVars, W!mintVars
<1>b. /\ DOMAIN loading = W!Loader /\ DOMAIN working = W!Loader /\ len \in 0..Len(list)
  BY <1>a DEF Sound, WalletTypes, LoadersWork
<1>d. /\ \A m \in W!Loader : loading'[m] = IF m = l THEN to ELSE loading[m]
      /\ \A m \in W!Loader : m # l => working'[m] = working[m]
      /\ W!Removing' <=> W!Removing
      /\ Real' = Real
  BY <1>a, <1>b DEF W!Removing, Real
<1>1. WalletTypes'
  BY <1>a, <1>b DEF Sound, WalletTypes, LocalTypes
<1>2. CallsHold'
  BY <1>a DEF Sound, CallsHold, Holds, SendHas
<1>3. LoadersWork'
  BY <1>a, <1>b, <1>d DEF Sound, LoadersWork, W!Loader
<1>4. RemovalsApart'
  BY <1>a, <1>d DEF Sound, RemovalsApart
<1>5. Listed'
  BY <1>a, <1>d DEF Sound, Listed
<1>6. ChosenStand'
  BY <1>a, <1>d DEF Sound, ChosenStand, Stands, InputsStand, InputsSpent, RestKept
<1>7. MadeIsNew'
  BY <1>a DEF Sound, MadeIsNew, Makes, New
<1>8. SpentGoes'
  <2> SUFFICES ASSUME NEW p \in 1..Real, list[p] \in spent
      PROVE  Pursued(list[p])' \/ Announcing(list[p])' \/ Sought(p)'
    BY <1>a, <1>d DEF SpentGoes
  <2>1. Pursued(list[p]) => Pursued(list[p])'
    BY <1>a, <1>d DEF Pursued, W!Loader
  <2>2. Announcing(list[p]) => Announcing(list[p])'
    BY <1>a DEF Announcing, Announces
  <2>3. ASSUME Sought(p) PROVE Sought(p)'
    <3>1. PICK m \in W!Loader : loading[m] \in {"remove", "cut"}
             /\ working[m] = list[p] /\ p <= below[m]
      BY <2>3 DEF Sought
    <3>2. p > 0
      BY <1>b DEF Real
    <3>3. m # l
      BY <1>a, <3>1, <3>2
    <3> QED
      BY <1>a, <1>d, <3>1, <3>3 DEF Sought
  <2> QED
    BY <2>1, <2>2, <2>3 DEF Sound, SpentGoes
<1>9. SpentAwaited'
  <2>1. \A t : Pursued(t) => Pursued(t)'
    BY <1>a, <1>d DEF Pursued, W!Loader
  <2>2. \A t : Arrives(t)' => Arrives(t)
    BY <1>a, <1>d DEF Arrives, W!Loader
  <2> QED
    BY <1>a, <2>1, <2>2 DEF Sound, SpentAwaited, Announcing, Announces
<1> QED
  BY <1>1, <1>2, <1>3, <1>4, <1>5, <1>6, <1>7, <1>8, <1>9 DEF Sound

LEMMA EoseKeeps ==
  ASSUME Sound, W!Eose
  PROVE  Sound'
<1>a. /\ loading["eose"] = "wait" /\ loading' = [loading EXCEPT !["eose"] = "range"]
      /\ eosed'
      /\ UNCHANGED <<list, len, pendingDeletions, working, below, toDelete,
                 walletPc, local, tokenEvents, deletionEvents, worth, spent,
                 tokensMu, owned>>
  BY DEF W!Eose, W!Loads, W!listVars, W!callVars, W!eventVars, W!mintVars
<1>b. DOMAIN loading = W!Loader /\ "eose" \in W!Loader
  BY DEF Sound, LoadersWork, W!Loader
<1>d. /\ \A m \in W!Loader : loading'[m] = IF m = "eose" THEN "range" ELSE loading[m]
      /\ W!Removing' <=> W!Removing
      /\ Real' = Real
  BY <1>a, <1>b DEF W!Removing, Real
<1>1. WalletTypes'
  BY <1>a DEF Sound, WalletTypes, LocalTypes
<1>2. CallsHold'
  BY <1>a DEF Sound, CallsHold, Holds, SendHas
<1>3. LoadersWork'
  BY <1>a, <1>b, <1>d DEF Sound, LoadersWork, W!Loader
<1>4. RemovalsApart'
  BY <1>a, <1>d DEF Sound, RemovalsApart
<1>5. Listed'
  BY <1>a, <1>d DEF Sound, Listed
<1>6. ChosenStand'
  BY <1>a, <1>d DEF Sound, ChosenStand, Stands, InputsStand, InputsSpent, RestKept
<1>7. MadeIsNew'
  BY <1>a DEF Sound, MadeIsNew, Makes, New
<1>8. SpentGoes'
  <2> SUFFICES ASSUME NEW p \in 1..Real, list[p] \in spent
      PROVE  Pursued(list[p])' \/ Announcing(list[p])' \/ Sought(p)'
    BY <1>a, <1>d DEF SpentGoes
  <2>1. Pursued(list[p]) => Pursued(list[p])'
    BY <1>a, <1>b, <1>d DEF Pursued
  <2>2. Announcing(list[p]) => Announcing(list[p])'
    BY <1>a DEF Announcing, Announces
  <2>3. Sought(p) => Sought(p)'
    BY <1>a, <1>d DEF Sought
  <2> QED
    BY <2>1, <2>2, <2>3 DEF Sound, SpentGoes
<1>9. SpentAwaited'
  BY <1>a DEF SpentAwaited
<1> QED
  BY <1>1, <1>2, <1>3, <1>4, <1>5, <1>6, <1>7, <1>8, <1>9 DEF Sound

LEMMA RangePendingKeeps ==
  ASSUME Sound, W!RangePending
  PROVE  Sound'
<1>a. /\ loading["eose"] = "range" /\ loading' = [loading EXCEPT !["eose"] = "next"]
      /\ toDelete' = pendingDeletions
      /\ UNCHANGED <<list, len, pendingDeletions, working, eosed, below,
                 walletPc, local, tokenEvents, deletionEvents, worth, spent,
                 tokensMu, owned>>
  BY DEF W!RangePending, W!Loads, W!listVars, W!callVars, W!eventVars, W!mintVars
<1>b. DOMAIN loading = W!Loader /\ "eose" \in W!Loader
  BY DEF Sound, LoadersWork, W!Loader
<1>d. /\ \A m \in W!Loader : loading'[m] = IF m = "eose" THEN "next" ELSE loading[m]
      /\ W!Removing' <=> W!Removing
      /\ Real' = Real
  BY <1>a, <1>b DEF W!Removing, Real
<1>1. WalletTypes'
  BY <1>a DEF Sound, WalletTypes, LocalTypes
<1>2. CallsHold'
  BY <1>a DEF Sound, CallsHold, Holds, SendHas
<1>3. LoadersWork'
  BY <1>a, <1>b, <1>d DEF Sound, LoadersWork, W!Loader
<1>4. RemovalsApart'
  BY <1>a, <1>d DEF Sound, RemovalsApart
<1>5. Listed'
  BY <1>a, <1>d DEF Sound, Listed
<1>6. ChosenStand'
  BY <1>a, <1>d DEF Sound, ChosenStand, Stands, InputsStand, InputsSpent, RestKept
<1>7. MadeIsNew'
  BY <1>a DEF Sound, MadeIsNew, Makes, New
<1>8. SpentGoes'
  <2> SUFFICES ASSUME NEW p \in 1..Real, list[p] \in spent
      PROVE  Pursued(list[p])' \/ Announcing(list[p])' \/ Sought(p)'
    BY <1>a, <1>d DEF SpentGoes
  <2>1. Pursued(list[p]) => Pursued(list[p])'
    BY <1>a, <1>b, <1>d DEF Pursued
  <2>2. Announcing(list[p]) => Announcing(list[p])'
    BY <1>a DEF Announcing, Announces
  <2>3. Sought(p) => Sought(p)'
    BY <1>a, <1>d DEF Sought
  <2> QED
    BY <2>1, <2>2, <2>3 DEF Sound, SpentGoes
<1>9. SpentAwaited'
  BY <1>a DEF Sound, LoadersWork, SpentAwaited
<1> QED
  BY <1>1, <1>2, <1>3, <1>4, <1>5, <1>6, <1>7, <1>8, <1>9 DEF Sound

LEMMA NextPendingKeeps ==
  ASSUME Sound, W!NextPending
  PROVE  Sound'
<1>a. /\ loading["eose"] = "next" /\ loading' = [loading EXCEPT !["eose"] = "remove"]
      /\ toDelete # <<>> /\ toDelete' = Tail(toDelete)
      /\ working' = [working EXCEPT !["eose"] = Head(toDelete)]
      /\ below' = [below EXCEPT !["eose"] = len]
      /\ UNCHANGED <<list, len, pendingDeletions, eosed,
                 walletPc, local, tokenEvents, deletionEvents, worth, spent,
                 tokensMu, owned>>
  BY DEF W!NextPending, W!Loads, W!StartRemoving, W!listVars, W!callVars, W!eventVars, W!mintVars
<1>b. DOMAIN loading = W!Loader /\ "eose" \in W!Loader
  BY DEF Sound, LoadersWork, W!Loader
<1>d. /\ \A m \in W!Loader : loading'[m] = IF m = "eose" THEN "remove" ELSE loading[m]
      /\ W!Removing' <=> W!Removing
      /\ Real' = Real
  BY <1>a, <1>b DEF W!Removing, Real
<1>c. /\ toDelete \in Seq(spent) /\ Head(toDelete) \in spent /\ toDelete' \in Seq(spent)
      /\ \A i \in 1..Len(toDelete) : toDelete[i] = Head(toDelete)
           \/ \E j \in 1..Len(toDelete') : toDelete'[j] = toDelete[i]
  <2>1. toDelete \in Seq(spent)
    BY DEF Sound, WalletTypes
  <2>2. /\ Head(toDelete) \in spent /\ toDelete' \in Seq(spent)
        /\ Len(toDelete') = Len(toDelete) - 1
        /\ \A i \in 1..Len(toDelete') : toDelete'[i] = toDelete[i + 1]
    BY <1>a, <2>1, HeadTailProperties
  <2>3. Head(toDelete) = toDelete[1] /\ Len(toDelete) \in Nat
    BY <2>1
  <2>4. ASSUME NEW i \in 1..Len(toDelete), toDelete[i] # Head(toDelete)
        PROVE  \E j \in 1..Len(toDelete') : toDelete'[j] = toDelete[i]
    <3>1. i # 1
      BY <2>3, <2>4
    <3>2. i - 1 \in 1..Len(toDelete')
      BY <3>1, <2>2, <2>3
    <3>3. toDelete'[i - 1] = toDelete[(i - 1) + 1] /\ (i - 1) + 1 = i
      BY <3>2, <2>2, <2>3
    <3> QED
      BY <3>2, <3>3
  <2> QED
    BY <2>1, <2>2, <2>4
<1>e. /\ spent \subseteq W!Token /\ len \in Nat
      /\ working \in [W!Loader -> W!Token \cup {None}] /\ below \in [W!Loader -> Nat]
  BY TokensOfWorth, RemovalsTyped, Zenon
<1>f. \A m \in W!Loader :
        /\ working'[m] = IF m = "eose" THEN Head(toDelete) ELSE working[m]
        /\ below'[m] = IF m = "eose" THEN len ELSE below[m]
  BY <1>a, <1>e
<1>1. WalletTypes'
  BY <1>a, <1>b, <1>c, <1>e, SMTT(30) DEF Sound, WalletTypes, LocalTypes
<1>2. CallsHold'
  BY <1>a DEF Sound, CallsHold, Holds, SendHas
<1>3. LoadersWork'
  BY <1>a, <1>b, <1>c, <1>d, <1>f DEF Sound, LoadersWork, W!Loader
<1>4. RemovalsApart'
  BY <1>a, <1>d DEF Sound, RemovalsApart
<1>5. Listed'
  BY <1>a, <1>d DEF Sound, Listed
<1>6. ChosenStand'
  BY <1>a, <1>d DEF Sound, ChosenStand, Stands, InputsStand, InputsSpent, RestKept
<1>7. MadeIsNew'
  BY <1>a DEF Sound, MadeIsNew, Makes, New
<1>8. SpentGoes'
  <2> SUFFICES ASSUME NEW p \in 1..Real, list[p] \in spent
      PROVE  Pursued(list[p])' \/ Announcing(list[p])' \/ Sought(p)'
    BY <1>a, <1>d DEF SpentGoes
  <2>0. p <= len
    BY <1>e DEF Real
  <2>1. Pursued(list[p]) => Pursued(list[p])' \/ Sought(p)'
    BY <1>a, <1>b, <1>c, <1>d, <1>f, <2>0 DEF Pursued, Sought
  <2>2. Announcing(list[p]) => Announcing(list[p])'
    BY <1>a DEF Announcing, Announces
  <2>3. Sought(p) => Sought(p)'
    BY <1>a, <1>d, <1>f DEF Sought
  <2> QED
    BY <2>1, <2>2, <2>3 DEF Sound, SpentGoes
<1>9. SpentAwaited'
  BY <1>a DEF Sound, LoadersWork, SpentAwaited
<1> QED
  BY <1>1, <1>2, <1>3, <1>4, <1>5, <1>6, <1>7, <1>8, <1>9 DEF Sound

LEMMA ForgetPendingKeeps ==
  ASSUME Sound, W!ForgetPending
  PROVE  Sound'
<1>a. /\ loading["eose"] = "next" /\ loading' = [loading EXCEPT !["eose"] = "stable"]
      /\ toDelete = <<>> /\ pendingDeletions' = <<>>
      /\ UNCHANGED <<list, len, eosed, working, below, toDelete,
                 walletPc, local, tokenEvents, deletionEvents, worth, spent,
                 tokensMu, owned>>
  BY DEF W!ForgetPending, W!Loads, W!listVars, W!callVars, W!eventVars, W!mintVars
<1>b. DOMAIN loading = W!Loader /\ "eose" \in W!Loader
  BY DEF Sound, LoadersWork, W!Loader
<1>d. /\ \A m \in W!Loader : loading'[m] = IF m = "eose" THEN "stable" ELSE loading[m]
      /\ W!Removing' <=> W!Removing
      /\ Real' = Real
  BY <1>a, <1>b DEF W!Removing, Real
<1>1. WalletTypes'
  BY <1>a DEF Sound, WalletTypes, LocalTypes
<1>2. CallsHold'
  BY <1>a DEF Sound, CallsHold, Holds, SendHas
<1>3. LoadersWork'
  BY <1>a, <1>b, <1>d DEF Sound, LoadersWork, W!Loader
<1>4. RemovalsApart'
  BY <1>a, <1>d DEF Sound, RemovalsApart
<1>5. Listed'
  BY <1>a, <1>d DEF Sound, Listed
<1>6. ChosenStand'
  BY <1>a, <1>d DEF Sound, ChosenStand, Stands, InputsStand, InputsSpent, RestKept
<1>7. MadeIsNew'
  BY <1>a DEF Sound, MadeIsNew, Makes, New
<1>8. SpentGoes'
  <2> SUFFICES ASSUME NEW p \in 1..Real, list[p] \in spent
      PROVE  Pursued(list[p])' \/ Announcing(list[p])' \/ Sought(p)'
    BY <1>a, <1>d DEF SpentGoes
  <2>1. Pursued(list[p]) => Pursued(list[p])'
    BY <1>a, <1>b, <1>d DEF Pursued
  <2>2. Announcing(list[p]) => Announcing(list[p])'
    BY <1>a DEF Announcing, Announces
  <2>3. Sought(p) => Sought(p)'
    BY <1>a, <1>d DEF Sought
  <2> QED
    BY <2>1, <2>2, <2>3 DEF Sound, SpentGoes
<1>9. SpentAwaited'
  BY <1>a DEF Sound, LoadersWork, SpentAwaited
<1> QED
  BY <1>1, <1>2, <1>3, <1>4, <1>5, <1>6, <1>7, <1>8, <1>9 DEF Sound

(* The deletion of a spent token goes on where it comes from the relays.    *)
LEMMA HandleKeeps ==
  ASSUME Sound, NEW l \in {"deletions", "events"}, NEW from \in {"wait", "replaces"},
         NEW t \in spent, W!HandleDeletion(l, from, t),
         \A u \in deletionEvents : u \in deletionEvents' \/ u = t,
         deletionEvents' \subseteq deletionEvents,
         UNCHANGED <<list, len, pendingDeletions, eosed, toDelete, walletPc, local,
                     tokenEvents, worth, spent, tokensMu, owned>>
  PROVE  Sound'
<1> DEFINE to == IF eosed THEN "remove" ELSE "keep"
<1>a. /\ loading[l] = from /\ loading' = [loading EXCEPT ![l] = to]
      /\ working' = [working EXCEPT ![l] = t]
      /\ below' = IF eosed THEN [below EXCEPT ![l] = len] ELSE below
  BY DEF W!HandleDeletion, W!Loads, W!StartRemoving
<1>b. DOMAIN loading = W!Loader /\ l \in W!Loader /\ l # "eose"
  BY DEF Sound, LoadersWork, W!Loader
<1>c. /\ spent \subseteq W!Token /\ len \in Nat
      /\ working \in [W!Loader -> W!Token \cup {None}] /\ below \in [W!Loader -> Nat]
  BY TokensOfWorth, RemovalsTyped, Zenon
<1>d. /\ \A m \in W!Loader : loading'[m] = IF m = l THEN to ELSE loading[m]
      /\ \A m \in W!Loader : working'[m] = IF m = l THEN t ELSE working[m]
      /\ \A m \in W!Loader : below'[m] = IF m = l /\ eosed THEN len ELSE below[m]
      /\ W!Removing' <=> W!Removing
      /\ Real' = Real
  <2>1. /\ \A m \in W!Loader : loading'[m] = IF m = l THEN to ELSE loading[m]
        /\ \A m \in W!Loader : working'[m] = IF m = l THEN t ELSE working[m]
        /\ \A m \in W!Loader : below'[m] = IF m = l /\ eosed THEN len ELSE below[m]
    BY <1>a, <1>b, <1>c
  <2>2. W!Removing' <=> W!Removing
    BY <1>a, <1>b, <2>1 DEF W!Removing
  <2> QED
    BY <2>1, <2>2 DEF Real
<1>1. WalletTypes'
  BY <1>a, <1>b, <1>c DEF Sound, WalletTypes, LocalTypes
<1>2. CallsHold'
  BY DEF Sound, CallsHold, Holds, SendHas
<1>3. LoadersWork'
  BY <1>a, <1>b, <1>d DEF Sound, LoadersWork, W!Loader
<1>4. RemovalsApart'
  BY <1>a, <1>b, <1>d DEF Sound, RemovalsApart
<1>5. Listed'
  BY <1>d DEF Sound, Listed
<1>6. ChosenStand'
  BY <1>d DEF Sound, ChosenStand, Stands, InputsStand, InputsSpent, RestKept
<1>7. MadeIsNew'
  BY DEF Sound, MadeIsNew, Makes, New
<1>e. \A u : Pursued(u) => Pursued(u)' \/ u = t
  BY <1>a, <1>b, <1>d DEF Pursued
<1>8. SpentGoes'
  <2> SUFFICES ASSUME NEW p \in 1..Real, list[p] \in spent
      PROVE  Pursued(list[p])' \/ Announcing(list[p])' \/ Sought(p)'
    BY <1>d DEF SpentGoes
  <2>0. p <= len
    BY <1>c DEF Real
  <2>1. list[p] = t => Pursued(list[p])' \/ Sought(p)'
    BY <1>a, <1>b, <1>d, <2>0 DEF Pursued, Sought
  <2>2. Announcing(list[p]) => Announcing(list[p])'
    BY DEF Announcing, Announces
  <2>3. Sought(p) => Sought(p)'
    BY <1>a, <1>b, <1>d DEF Sought
  <2>4. Pursued(list[p]) => Pursued(list[p])' \/ list[p] = t
    BY <1>e DEF Pursued
  <2> QED
    BY <2>1, <2>2, <2>3, <2>4 DEF Sound, SpentGoes
<1>9. SpentAwaited'
  <2>1. ~ eosed => Pursued(t)'
    BY <1>a, <1>b, <1>d DEF Pursued
  <2>2. \A u : Arrives(u)' => Arrives(u)
    BY <1>a, <1>b, <1>d DEF Arrives, W!Loader
  <2>3. \A u : Announcing(u) => Announcing(u)'
    BY DEF Announcing, Announces
  <2> QED
    BY <1>e, <2>1, <2>2, <2>3 DEF Sound, SpentAwaited
<1> QED
  BY <1>1, <1>2, <1>3, <1>4, <1>5, <1>6, <1>7, <1>8, <1>9 DEF Sound

LEMMA ReadDeletionKeeps ==
  ASSUME Sound, NEW t, W!ReadDeletion(t)
  PROVE  Sound'
<1>1. t \in spent
  BY DEF W!ReadDeletion, Sound, WalletTypes
<1> QED
  BY <1>1, HandleKeeps DEF W!ReadDeletion, W!listVars, W!callVars, W!mintVars

LEMMA ReplaceTokenKeeps ==
  ASSUME Sound, W!ReplaceToken
  PROVE  Sound'
<1> DEFINE t == working["events"]
<1>1. /\ loading["events"] = "replaces"
      /\ W!HandleDeletion("events", "replaces", Replaced[t])
      /\ UNCHANGED <<list, len, pendingDeletions, eosed, toDelete, walletPc, local,
                     tokenEvents, deletionEvents, worth, spent, tokensMu, owned>>
  BY DEF W!ReplaceToken, W!HandleDeletion, W!Loads, W!listVars, W!callVars,
         W!eventVars, W!mintVars
<1>2. t \in 1..StoredTokens /\ Replaced[t] # None
  BY <1>1, TokensOfWorth DEF Sound, LoadersWork
<1>3. Replaced[t] \in spent
  BY <1>2, WalletingAssumption DEF W!WalletAssumption, Sound, WalletTypes
<1> QED
  BY <1>1, <1>3, HandleKeeps

LEMMA KeepDeletionKeeps ==
  ASSUME Sound, causes' = {}, NEW l \in W!Loader, W!KeepDeletion(l)
  PROVE  Sound'
<1>a. /\ loading[l] = "keep" /\ loading' = [loading EXCEPT ![l] = "wait"]
      /\ pendingDeletions' = Append(pendingDeletions, working[l])
      /\ working' = [working EXCEPT ![l] = None]
      /\ ~ eosed
      /\ UNCHANGED <<list, len, eosed, below, toDelete, walletPc, local,
                 tokenEvents, deletionEvents, worth, spent, tokensMu, owned>>
  BY DEF W!KeepDeletion, W!Loads, W!listVars, W!callVars, W!eventVars, W!mintVars
<1>b. /\ DOMAIN loading = W!Loader /\ l # "eose" /\ loading["eose"] = "wait"
      /\ "eose" \in W!Loader
  BY <1>a DEF Sound, LoadersWork, W!Loader
<1>c. /\ spent \subseteq W!Token /\ len \in Nat
      /\ working \in [W!Loader -> W!Token \cup {None}]
      /\ pendingDeletions \in Seq(spent) /\ working[l] \in spent
  <2>1. working[l] \in spent
    BY <1>a DEF Sound, LoadersWork
  <2> QED
    BY <2>1, TokensOfWorth, SMTT(30) DEF Sound, WalletTypes
<1>d. /\ \A m \in W!Loader : loading'[m] = IF m = l THEN "wait" ELSE loading[m]
      /\ \A m \in W!Loader : m # l => working'[m] = working[m]
      /\ W!Removing' <=> W!Removing
      /\ Real' = Real
  BY <1>a, <1>b, <1>c DEF W!Removing, Real
<1>e. /\ pendingDeletions' \in Seq(spent)
      /\ Len(pendingDeletions') = Len(pendingDeletions) + 1
      /\ \A i \in 1..Len(pendingDeletions) : pendingDeletions'[i] = pendingDeletions[i]
      /\ pendingDeletions'[Len(pendingDeletions) + 1] = working[l]
      /\ Len(pendingDeletions) \in Nat
  BY <1>a, <1>c, AppendProperties, LenProperties
<1>1. WalletTypes'
  BY <1>a, <1>b, <1>c, <1>e, SMTT(30) DEF Sound, WalletTypes, LocalTypes
<1>2. CallsHold'
  BY <1>a DEF Sound, CallsHold, Holds, SendHas
<1>3. LoadersWork'
  BY <1>a, <1>b, <1>d DEF Sound, LoadersWork, W!Loader
<1>4. RemovalsApart'
  BY <1>a, <1>b, <1>d DEF Sound, RemovalsApart
<1>5. Listed'
  BY <1>a, <1>d DEF Sound, Listed
<1>6. ChosenStand'
  BY <1>a, <1>d DEF Sound, ChosenStand, Stands, InputsStand, InputsSpent, RestKept
<1>7. MadeIsNew'
  BY <1>a DEF Sound, MadeIsNew, Makes, New
<1>f. ASSUME NEW u, Pursued(u) PROVE Pursued(u)'
  <2>1. CASE u = working[l]
    BY <2>1, <1>a, <1>b, <1>d, <1>e DEF Pursued
  <2>2. CASE u # working[l]
    BY <1>f, <2>2, <1>a, <1>b, <1>d, <1>e DEF Pursued
  <2> QED
    BY <2>1, <2>2
<1>8. SpentGoes'
  <2> SUFFICES ASSUME NEW p \in 1..Real, list[p] \in spent
      PROVE  Pursued(list[p])' \/ Announcing(list[p])' \/ Sought(p)'
    BY <1>a, <1>d DEF SpentGoes
  <2>1. Pursued(list[p]) => Pursued(list[p])'
    BY <1>a, <1>f DEF Pursued
  <2>2. Announcing(list[p]) => Announcing(list[p])'
    BY <1>a DEF Announcing, Announces
  <2>3. Sought(p) => Sought(p)'
    BY <1>a, <1>b, <1>d DEF Sought
  <2> QED
    BY <2>1, <2>2, <2>3 DEF Sound, SpentGoes
<1>9. SpentAwaited'
  <2>1. \A u : Arrives(u)' => Arrives(u)
    BY <1>a, <1>b, <1>d DEF Arrives, W!Loader
  <2>2. \A u : Announcing(u) => Announcing(u)'
    BY <1>a DEF Announcing, Announces
  <2> QED
    BY <1>a, <1>f, <2>1, <2>2 DEF Sound, SpentAwaited
<1> QED
  BY <1>1, <1>2, <1>3, <1>4, <1>5, <1>6, <1>7, <1>8, <1>9 DEF Sound

LEMMA ReadTokenKeeps ==
  ASSUME Sound, NEW t, W!ReadToken(t)
  PROVE  Sound'
<1>a. /\ loading["events"] = "wait" /\ loading' = [loading EXCEPT !["events"] = "add"]
      /\ t \in tokenEvents /\ tokenEvents' = tokenEvents \ {t}
      /\ working' = [working EXCEPT !["events"] = t]
      /\ UNCHANGED <<list, len, pendingDeletions, eosed, below, toDelete, walletPc,
                 local, deletionEvents, worth, spent, tokensMu, owned>>
  BY DEF W!ReadToken, W!Loads, W!listVars, W!callVars, W!mintVars
<1>b. DOMAIN loading = W!Loader /\ "events" \in W!Loader
  BY DEF Sound, LoadersWork, W!Loader
<1>c. /\ t \in 1..Len(worth) /\ t \in W!Token /\ len \in Nat
      /\ working \in [W!Loader -> W!Token \cup {None}]
  BY <1>a, TokensOfWorth, SMTT(30) DEF Sound, WalletTypes
<1>d. /\ \A m \in W!Loader : loading'[m] = IF m = "events" THEN "add" ELSE loading[m]
      /\ \A m \in W!Loader : working'[m] = IF m = "events" THEN t ELSE working[m]
      /\ W!Removing' <=> W!Removing
      /\ Real' = Real
  BY <1>a, <1>b, <1>c DEF W!Removing, Real
<1>1. WalletTypes'
  BY <1>a, <1>b, <1>c DEF Sound, WalletTypes, LocalTypes
<1>2. CallsHold'
  BY <1>a DEF Sound, CallsHold, Holds, SendHas
<1>3. LoadersWork'
  BY <1>a, <1>b, <1>c, <1>d DEF Sound, LoadersWork, W!Loader
<1>4. RemovalsApart'
  BY <1>a, <1>b, <1>d DEF Sound, RemovalsApart
<1>5. Listed'
  BY <1>a, <1>d DEF Sound, Listed
<1>6. ChosenStand'
  BY <1>a, <1>d DEF Sound, ChosenStand, Stands, InputsStand, InputsSpent, RestKept
<1>7. MadeIsNew'
  BY <1>a DEF Sound, MadeIsNew, Makes, New
<1>f. \A u : Pursued(u) => Pursued(u)'
  BY <1>a, <1>b, <1>d DEF Pursued, W!Loader
<1>8. SpentGoes'
  <2> SUFFICES ASSUME NEW p \in 1..Real, list[p] \in spent
      PROVE  Pursued(list[p])' \/ Announcing(list[p])' \/ Sought(p)'
    BY <1>a, <1>d DEF SpentGoes
  <2>1. Pursued(list[p]) => Pursued(list[p])'
    BY <1>a, <1>f DEF Pursued
  <2>2. Announcing(list[p]) => Announcing(list[p])'
    BY <1>a DEF Announcing, Announces
  <2>3. Sought(p) => Sought(p)'
    BY <1>a, <1>b, <1>d DEF Sought
  <2> QED
    BY <2>1, <2>2, <2>3 DEF Sound, SpentGoes
<1>9. SpentAwaited'
  <2>1. \A u : Arrives(u)' => Arrives(u)
    BY <1>a, <1>b, <1>d DEF Arrives, W!Loader
  <2>2. \A u : Announcing(u) => Announcing(u)'
    BY <1>a DEF Announcing, Announces
  <2> QED
    BY <1>a, <1>f, <2>1, <2>2 DEF Sound, SpentAwaited
<1> QED
  BY <1>1, <1>2, <1>3, <1>4, <1>5, <1>6, <1>7, <1>8, <1>9 DEF Sound

(* What w.Tokens is when a token has been added.                            *)
LEMMA ListGrows ==
  ASSUME Sound, NEW t \in 1..Len(worth), W!AppendToken(t),
         ~ W!Removing, ~ W!Removing', spent' = spent, owned' = owned \cup {t},
         \A p \in 1..len : list[p] # t
  PROVE  /\ list' \in Seq(W!Token) /\ len' \in 0..Len(list') /\ len' = len + 1
         /\ list'[len + 1] = t /\ len \in Nat
         /\ \A p \in 1..len : list'[p] = list[p]
         /\ Real = len /\ Real' = len + 1
         /\ Listed'
<1>a. list \in Seq(W!Token) /\ len \in 0..Len(list) /\ t \in W!Token
  BY TokensOfWorth DEF Sound, WalletTypes
<1>1. /\ list' \in Seq(W!Token) /\ len' \in 0..Len(list') /\ len' = len + 1
      /\ list'[len + 1] = t /\ len \in Nat
      /\ \A p \in 1..len : list'[p] = list[p]
  <2>1. CASE len < Len(list)
    <3>1. len + 1 \in 1..Len(list) /\ list' = [list EXCEPT ![len + 1] = t] /\ len' = len + 1
      BY <2>1, <1>a DEF W!AppendToken
    <3> QED
      BY <3>1, <1>a, ExceptSeq
  <2>2. CASE ~ (len < Len(list))
    <3>1. len = Len(list) /\ list' = Append(list, t) /\ len' = len + 1
      BY <2>2, <1>a DEF W!AppendToken
    <3> QED
      BY <3>1, <1>a, AppendProperties
  <2> QED
    BY <2>1, <2>2
<1>2. Real = len /\ Real' = len + 1
  BY <1>1 DEF Real
<1>3. /\ \A p, q \in 1..len : list[p] = list[q] => p = q
      /\ \A p \in 1..len : list[p] \in owned
      /\ \A u \in owned \ spent : \E p \in 1..len : list[p] = u
  BY <1>2 DEF Sound, Listed
<1>4. \A p, q \in 1..(len + 1) : list'[p] = list'[q] => p = q
  BY <1>1, <1>3
<1>5. \A p \in 1..(len + 1) : list'[p] \in owned'
  BY <1>1, <1>3
<1>6. \A u \in owned' \ spent : \E p \in 1..(len + 1) : list'[p] = u
  BY <1>1, <1>3
<1> QED
  BY <1>1, <1>2, <1>4, <1>5, <1>6 DEF Listed

LEMMA InTokens ==
  ASSUME Sound, NEW t
  PROVE  W!Contains(W!Tokens, t) <=> \E p \in 1..len : list[p] = t
<1>1. list \in Seq(W!Token) /\ len \in 0..Len(list)
  BY DEF Sound, WalletTypes
<1>2. \A i \in 1..len : list[i] \in W!Token
  BY <1>1, ElementOfSeq
<1>3. /\ Len(W!Tokens) = len
      /\ \A i \in 1..len : W!Tokens[i] = list[i]
  BY <1>1, <1>2, SubSeqProperties DEF W!Tokens
<1> QED
  BY <1>3 DEF W!Contains

(* The token's event is dealt with, or leads on to a deletion. It is in the *)
(* list already, or it is added, and then its deletion is on its way if it  *)
(* is spent.                                                                *)
LEMMA AddTokenKeeps ==
  ASSUME Sound, causes' = {}, W!AddToken
  PROVE  Sound'
<1> DEFINE t == working["events"]
           replaces == t <= StoredTokens /\ Replaced[t] # None
           to == IF replaces THEN "replaces" ELSE "wait"
<1>a. /\ loading["events"] = "add" /\ loading' = [loading EXCEPT !["events"] = to]
      /\ tokensMu = None
      /\ working' = [working EXCEPT !["events"] = IF replaces THEN t ELSE None]
      /\ owned' = owned \cup {t}
      /\ UNCHANGED <<pendingDeletions, eosed, below, toDelete, walletPc, local,
                 tokenEvents, deletionEvents, worth, spent, tokensMu>>
  BY DEF W!AddToken, W!Loads, W!callVars, W!eventVars, W!mintVars
<1>b. /\ DOMAIN loading = W!Loader /\ "events" \in W!Loader /\ t \in 1..Len(worth)
  BY <1>a DEF Sound, LoadersWork, W!Loader
<1>c. /\ t \in W!Token /\ len \in Nat
      /\ working \in [W!Loader -> W!Token \cup {None}]
  BY <1>b, TokensOfWorth, SMTT(30) DEF Sound, WalletTypes
<1>d. /\ \A m \in W!Loader : loading'[m] = IF m = "events" THEN to ELSE loading[m]
      /\ \A m \in W!Loader : m # "events" => working'[m] = working[m]
      /\ replaces => working'["events"] = t
      /\ W!Removing' <=> W!Removing
  BY <1>a, <1>b, <1>c DEF W!Removing
<1>e. \A s \in Sends : ~ SendHas(s)
  <2>1. \A s \in Sends : s # None
    BY WalletingAssumption DEF W!WalletAssumption, W!Caller
  <2> QED
    BY <1>a, <2>1 DEF Sound, CallsHold, Holds, W!Caller
<1>g. \/ /\ UNCHANGED <<list, len>>
         /\ \E p \in 1..len : list[p] = t
      \/ /\ W!AppendToken(t) /\ \A p \in 1..len : list[p] # t
         /\ ~ W!Removing
         /\ eosed /\ t \in spent => t \in deletionEvents
  BY InTokens DEF W!AddToken, W!listVars, W!Torn
<1>h. \/ /\ UNCHANGED <<list, len>> /\ Real' = Real
         /\ \E p \in 1..len : list[p] = t
      \/ /\ ~ W!Removing /\ Listed' /\ len' = len + 1
         /\ list' \in Seq(W!Token) /\ len' \in 0..Len(list')
         /\ list'[len + 1] = t /\ Real = len /\ Real' = len + 1
         /\ \A p \in 1..len : list'[p] = list[p]
         /\ eosed /\ t \in spent => t \in deletionEvents
  <2>1. CASE UNCHANGED <<list, len>> /\ \E p \in 1..len : list[p] = t
    BY <2>1, <1>d DEF Real
  <2>2. CASE /\ W!AppendToken(t) /\ \A p \in 1..len : list[p] # t
             /\ ~ W!Removing
             /\ eosed /\ t \in spent => t \in deletionEvents
    <3> HIDE DEF t
    <3> QED
      BY <2>2, <1>a, <1>b, <1>d, ListGrows
  <2> QED
    BY <1>g, <2>1, <2>2
<1> HIDE DEF t, replaces
<1>1. WalletTypes'
  <2>1. list' \in Seq(W!Token) /\ len' \in 0..Len(list')
    BY <1>h DEF Sound, WalletTypes
  <2>2. owned' \subseteq 1..Len(worth)
    BY <1>a, <1>b DEF Sound, WalletTypes
  <2>3. working' \in [W!Loader -> W!Token \cup {None}]
    BY <1>a, <1>b, <1>c
  <2> QED
    BY <1>a, <2>1, <2>2, <2>3 DEF Sound, WalletTypes, LocalTypes
<1>2. CallsHold'
  BY <1>a DEF Sound, CallsHold, Holds, SendHas
<1>3. LoadersWork'
  BY <1>a, <1>b, <1>d DEF Sound, LoadersWork, W!Loader, replaces
<1>4. RemovalsApart'
  BY <1>a, <1>b, <1>d, <1>h DEF Sound, RemovalsApart
<1>5. Listed'
  <2>1. CASE UNCHANGED <<list, len>> /\ Real' = Real /\ \E p \in 1..len : list[p] = t
    <3>1. PICK p \in 1..len : list[p] = t
      BY <2>1
    <3>2. t \in spent \/ \E q \in 1..Real : list[q] = t
      <4>1. CASE p \in 1..Real
        BY <3>1, <4>1
      <4>2. CASE p \notin 1..Real
        <5>1. W!Removing /\ p = len
          BY <4>2, <1>c DEF Real
        <5> QED
          BY <5>1, <3>1 DEF Sound, RemovalsApart, Real
      <4> QED
        BY <4>1, <4>2
    <3> QED
      BY <1>a, <2>1, <3>2 DEF Sound, Listed
  <2> QED
    BY <1>h, <2>1
<1>6. ChosenStand'
  BY <1>a, <1>e DEF Sound, ChosenStand, Stands, SendHas
<1>7. MadeIsNew'
  BY <1>a, <1>e DEF Sound, MadeIsNew, Makes, New, SendHas
<1>f. \A u : Pursued(u) => Pursued(u)'
  BY <1>a, <1>b, <1>d DEF Pursued, W!Loader
<1>i. \A u : ~ Announcing(u)
  BY <1>e DEF Announcing, Announces, SendHas
<1>8. SpentGoes'
  <2> SUFFICES ASSUME NEW p \in 1..Real', list'[p] \in spent
      PROVE  Pursued(list[p])' \/ Sought(p)'
    BY <1>a DEF SpentGoes
  <2>1. CASE p \in 1..Real /\ list'[p] = list[p]
    <3>1. Pursued(list[p]) \/ Sought(p)
      BY <1>i, <2>1 DEF Sound, SpentGoes
    <3>2. Sought(p) => Sought(p)'
      BY <1>a, <1>b, <1>d, <2>1 DEF Sought
    <3>3. Pursued(list[p]) => Pursued(list[p])'
      BY <1>f, <2>1 DEF Pursued
    <3> QED
      BY <3>1, <3>2, <3>3
  <2>2. CASE list'[p] = t /\ (eosed /\ t \in spent => t \in deletionEvents)
    <3>1. Arrives(t)
      BY <1>a DEF Arrives, t
    <3>2. Pursued(t)
      <4>1. CASE eosed
        BY <4>1, <2>2 DEF Pursued
      <4>2. CASE ~ eosed
        BY <4>2, <2>2, <3>1, <1>i DEF Sound, SpentAwaited
      <4> QED
        BY <4>1, <4>2
    <3> QED
      BY <3>2, <1>f, <2>2 DEF Pursued
  <2> QED
    <3>1. p \in 1..Real \/ p = len + 1
      BY <1>h, <1>c DEF Real
    <3> QED
      BY <3>1, <2>1, <2>2, <1>h, <1>c
<1>9. SpentAwaited'
  <2>1. \A u : Arrives(u)' => Arrives(u)
    BY <1>a, <1>b, <1>d DEF Arrives, W!Loader
  <2> QED
    BY <1>a, <1>f, <1>i, <2>1 DEF Sound, SpentAwaited
<1> QED
  BY <1>1, <1>2, <1>3, <1>4, <1>5, <1>6, <1>7, <1>8, <1>9 DEF Sound

(* A call goes on and leaves the list, the loaders and what is spent alone. *)
LEMMA CallMoves ==
  ASSUME Sound, NEW c \in W!Caller, CallsHold',
         \A d \in W!Caller : d # c => walletPc'[d] = walletPc[d],
         local' \in [W!Caller -> {local'[d] : d \in W!Caller}],
         \A d \in W!Caller : d # c => local'[d] = local[d],
         LocalTypes(c)', c \in Sends => Stands(c)', Makes(c)',
         \A t \in spent : Announces(c, t) =>
           Announces(c, t)' \/ t \in deletionEvents',
         UNCHANGED <<list, len, pendingDeletions, eosed, loading, working, below,
                     toDelete, spent, owned>>,
         worth' \in Seq({worth'[i] : i \in DOMAIN worth'}),
         Len(worth') \in Len(worth)..MaxToken,
         deletionEvents \subseteq deletionEvents', deletionEvents' \subseteq spent,
         tokenEvents' \subseteq 1..Len(worth'),
         tokenEvents' \cap spent \subseteq tokenEvents
  PROVE  Sound'
<1>a. 1..Len(worth) \subseteq 1..Len(worth') /\ Len(worth') \in StoredTokens..MaxToken
  BY TokensOfWorth, SMTT(30) DEF Sound, WalletTypes
<1>b. \A d \in W!Caller : d # c => LocalTypes(d)'
  BY DEF Sound, WalletTypes, LocalTypes
<1>c. W!Removing' = W!Removing /\ Real' = Real
  BY DEF W!Removing, Real
<1>1. WalletTypes'
  <2>1. \A d \in W!Caller : LocalTypes(d)'
    BY <1>b
  <2>2. spent \subseteq 1..Len(worth') /\ owned \subseteq 1..Len(worth')
    BY <1>a DEF Sound, WalletTypes
  <2> QED
    BY <1>a, <2>1, <2>2 DEF Sound, WalletTypes
<1>3. LoadersWork'
  BY <1>a DEF Sound, LoadersWork
<1>4. RemovalsApart'
  BY <1>c DEF Sound, RemovalsApart
<1>5. Listed'
  BY <1>c DEF Sound, Listed
<1>6. ChosenStand'
  <2>1. ASSUME NEW s \in Sends, s # c PROVE Stands(s)'
    <3>1. walletPc'[s] = walletPc[s] /\ local'[s] = local[s]
      BY <2>1 DEF W!Caller
    <3>2. Stands(s)
      BY DEF Sound, ChosenStand
    <3> QED
      BY <1>c, <3>1, <3>2 DEF Stands, InputsStand, InputsSpent, RestKept
  <2> QED
    BY <2>1 DEF ChosenStand
<1>7. MadeIsNew'
  <2>1. \A d \in W!Caller : d # c => Makes(d)'
    BY <1>a DEF Sound, MadeIsNew, Makes, New
  <2> QED
    BY <2>1 DEF Sound, MadeIsNew
<1>d. \A t \in spent : Announcing(t) => Announcing(t)' \/ t \in deletionEvents'
  <2>1. \A s \in Sends : s # c => \A t : Announces(s, t) => Announces(s, t)'
    BY DEF Announces, W!Caller
  <2> QED
    BY <2>1 DEF Announcing
<1>e. \A t : Pursued(t) => Pursued(t)'
  BY DEF Pursued
<1>f. \A t : t \in deletionEvents' => Pursued(t)'
  BY DEF Pursued
<1>8. SpentGoes'
  <2> SUFFICES ASSUME NEW p \in 1..Real, list[p] \in spent
      PROVE  Pursued(list[p])' \/ Announcing(list[p])' \/ Sought(p)'
    BY <1>c DEF SpentGoes
  <2>1. Pursued(list[p]) \/ Announcing(list[p]) \/ Sought(p)
    BY DEF Sound, SpentGoes
  <2> DEFINE t == list[p]
  <2>2. Pursued(t) => Pursued(t)'
    BY DEF Pursued
  <2>3. Announcing(t) => Announcing(t)' \/ Pursued(t)'
    <3>1. t \in deletionEvents' => Pursued(t)'
      BY DEF Pursued
    <3>2. \A s \in Sends : s # c => (Announces(s, t) => Announces(s, t)')
      BY DEF Announces, W!Caller
    <3>3. Announces(c, t) => Announces(c, t)' \/ t \in deletionEvents'
      BY DEF Announces
    <3> QED
      BY <3>1, <3>2, <3>3 DEF Announcing
  <2>4. Sought(p) => Sought(p)'
    BY DEF Sought
  <2> QED
    BY <2>1, <2>2, <2>3, <2>4 DEF Pursued
<1>9. SpentAwaited'
  <2>1. \A t \in spent : Arrives(t)' => Arrives(t)
    BY DEF Arrives
  <2> QED
    BY <1>d, <1>e, <1>f, <2>1 DEF Sound, SpentAwaited
<1> QED
  BY <1>1, <1>3, <1>4, <1>5, <1>6, <1>7, <1>8, <1>9 DEF Sound

(* Who holds tokensMu when a call has moved on.                             *)
LEMMA HoldsOn ==
  ASSUME Sound, NEW c \in W!Caller, NEW from, NEW to, W!Goto(c, from, to),
         to \in {"idle", "swap", "delete", "announce", "change", "store",
                 "history", "publish", "append", "done", "failed"},
         c \in Sends => /\ to \notin {"publish", "append"}
                        /\ tokensMu' = c <=> SendHas(c)',
         c \in Receives => ~ SendHas(c)',
         \A d \in Sends : d # c => (tokensMu' = d <=> tokensMu = d)
  PROVE  /\ CallsHold' /\ walletPc[c] = from /\ walletPc'[c] = to
         /\ \A d \in W!Caller : d # c => walletPc'[d] = walletPc[d]
<1>1. /\ walletPc[c] = from /\ walletPc' = [walletPc EXCEPT ![c] = to]
      /\ DOMAIN walletPc = W!Caller
  BY DEF W!Goto, Sound, CallsHold
<1>2. walletPc'[c] = to /\ \A d \in W!Caller : d # c => walletPc'[d] = walletPc[d]
  BY <1>1
<1>3. \A d \in W!Caller : Holds(d)'
  <2>1. Holds(c)'
    BY <1>2 DEF Holds
  <2>2. \A d \in W!Caller : d # c => Holds(d)'
    BY <1>2 DEF Sound, CallsHold, Holds, SendHas
  <2> QED
    BY <2>1, <2>2
<1> QED
  BY <1>1, <1>2, <1>3 DEF Sound, CallsHold

(* What a call has in its variables when it has set some of them.           *)
LEMMA LocalOn ==
  ASSUME Sound, NEW c \in W!Caller, NEW inputs \in Seq(W!Token), NEW at \in Nat,
         NEW last \in Nat, NEW kept \in Seq(W!Token), NEW change,
         NEW token \in W!Token \cup {None},
         local' = [local EXCEPT ![c] =
           [inputs |-> inputs, at |-> at, last |-> last, kept |-> kept,
            change |-> change, token |-> token]]
  PROVE  /\ local' \in [W!Caller -> {local'[d] : d \in W!Caller}]
         /\ \A d \in W!Caller : d # c => local'[d] = local[d]
         /\ LocalTypes(c)'
         /\ local'[c] = [inputs |-> inputs, at |-> at, last |-> last, kept |-> kept,
                         change |-> change, token |-> token]
<1>1. DOMAIN local = W!Caller
  BY DEF Sound, WalletTypes
<1>2. /\ DOMAIN local' = W!Caller
      /\ \A d \in W!Caller : d # c => local'[d] = local[d]
      /\ local'[c] = [inputs |-> inputs, at |-> at, last |-> last, kept |-> kept,
                      change |-> change, token |-> token]
  BY <1>1
<1>3. local' \in [W!Caller -> {local'[d] : d \in W!Caller}]
  BY <1>1
<1>4. LocalTypes(c)'
  BY <1>2 DEF LocalTypes
<1> QED
  BY <1>2, <1>3, <1>4

LEMMA SetsLocal ==
  ASSUME Sound, NEW c \in W!Caller, NEW v
  PROVE  /\ W!Sets(c, "inputs", v) => local' = [local EXCEPT ![c] =
              [inputs |-> v, at |-> local[c].at, last |-> local[c].last,
               kept |-> local[c].kept, change |-> local[c].change,
               token |-> local[c].token]]
         /\ W!Sets(c, "kept", v) => local' = [local EXCEPT ![c] =
              [inputs |-> local[c].inputs, at |-> local[c].at, last |-> local[c].last,
               kept |-> v, change |-> local[c].change, token |-> local[c].token]]
         /\ W!Sets(c, "token", v) => local' = [local EXCEPT ![c] =
              [inputs |-> local[c].inputs, at |-> local[c].at, last |-> local[c].last,
               kept |-> local[c].kept, change |-> local[c].change, token |-> v]]
<1>1. LocalTypes(c)
  BY DEF Sound, WalletTypes
<1> DEFINE r == local[c]
<1>2. r = [inputs |-> r.inputs, at |-> r.at, last |-> r.last, kept |-> r.kept,
           change |-> r.change, token |-> r.token]
  BY <1>1 DEF LocalTypes
<1>3. /\ [r EXCEPT !["inputs"] = v] =
           [inputs |-> v, at |-> r.at, last |-> r.last, kept |-> r.kept,
            change |-> r.change, token |-> r.token]
      /\ [r EXCEPT !["kept"] = v] =
           [inputs |-> r.inputs, at |-> r.at, last |-> r.last, kept |-> v,
            change |-> r.change, token |-> r.token]
      /\ [r EXCEPT !["token"] = v] =
           [inputs |-> r.inputs, at |-> r.at, last |-> r.last, kept |-> r.kept,
            change |-> r.change, token |-> v]
  BY <1>2
<1>4. \A field : W!Sets(c, field, v) =>
        local' = [local EXCEPT ![c] = [r EXCEPT ![field] = v]]
  BY DEF W!Sets
<1> HIDE DEF r
<1>5. /\ W!Sets(c, "inputs", v) => local' = [local EXCEPT ![c] = [r EXCEPT !["inputs"] = v]]
      /\ W!Sets(c, "kept", v) => local' = [local EXCEPT ![c] = [r EXCEPT !["kept"] = v]]
      /\ W!Sets(c, "token", v) => local' = [local EXCEPT ![c] = [r EXCEPT !["token"] = v]]
  BY <1>4
<1> QED
  BY <1>3, <1>5 DEF r

LEMMA LocalHas ==
  ASSUME Sound, NEW c \in W!Caller
  PROVE  /\ local[c].inputs \in Seq(W!Token) /\ Len(local[c].inputs) \in Nat
         /\ local[c].at \in Nat /\ local[c].last \in Nat
         /\ local[c].kept \in Seq(W!Token) /\ local[c].token \in W!Token \cup {None}
<1>1. LocalTypes(c)
  BY DEF Sound, WalletTypes
<1> QED
  BY <1>1 DEF LocalTypes

LEMMA SetsOn ==
  ASSUME Sound, NEW c \in W!Caller, NEW field, NEW v, W!Sets(c, field, v),
         \/ field \in {"inputs", "kept"} /\ v \in Seq(W!Token)
         \/ field = "token" /\ v \in W!Token \cup {None}
  PROVE  /\ local' \in [W!Caller -> {local'[d] : d \in W!Caller}]
         /\ \A d \in W!Caller : d # c => local'[d] = local[d]
         /\ LocalTypes(c)'
         /\ local'[c].inputs = IF field = "inputs" THEN v ELSE local[c].inputs
         /\ local'[c].kept = IF field = "kept" THEN v ELSE local[c].kept
         /\ local'[c].token = IF field = "token" THEN v ELSE local[c].token
         /\ local'[c].at = local[c].at /\ local'[c].last = local[c].last
         /\ local'[c].change = local[c].change
<1> DEFINE r == local[c]
           inputs == IF field = "inputs" THEN v ELSE r.inputs
           kept == IF field = "kept" THEN v ELSE r.kept
           token == IF field = "token" THEN v ELSE r.token
<1>1. /\ r.inputs \in Seq(W!Token) /\ r.at \in Nat /\ r.last \in Nat
      /\ r.kept \in Seq(W!Token) /\ r.token \in W!Token \cup {None}
  BY LocalHas
<1>2. /\ inputs \in Seq(W!Token) /\ kept \in Seq(W!Token)
      /\ token \in W!Token \cup {None}
  BY <1>1
<1>3. local' = [local EXCEPT ![c] =
           [inputs |-> inputs, at |-> r.at, last |-> r.last, kept |-> kept,
            change |-> r.change, token |-> token]]
  <2>1. CASE field = "inputs"
    BY <2>1, SetsLocal
  <2>2. CASE field = "kept"
    BY <2>2, SetsLocal
  <2>3. CASE field = "token"
    BY <2>3, SetsLocal
  <2> QED
    BY <2>1, <2>2, <2>3
<1> HIDE DEF r, inputs, kept, token
<1>4. /\ local' \in [W!Caller -> {local'[d] : d \in W!Caller}]
      /\ \A d \in W!Caller : d # c => local'[d] = local[d]
      /\ LocalTypes(c)'
      /\ local'[c] = [inputs |-> inputs, at |-> r.at, last |-> r.last, kept |-> kept,
                      change |-> r.change, token |-> token]
  BY <1>1, <1>2, <1>3, LocalOn
<1> QED
  BY <1>4 DEF r, inputs, kept, token

(* A call ends, and has nothing in its variables any more.                  *)
LEMMA NothingLeft ==
  ASSUME Sound, NEW c \in W!Caller, local' = [local EXCEPT ![c] = W!NoLocal]
  PROVE  /\ local' \in [W!Caller -> {local'[d] : d \in W!Caller}]
         /\ \A d \in W!Caller : d # c => local'[d] = local[d]
         /\ LocalTypes(c)'
<1>1. <<>> \in Seq(W!Token)
  OBVIOUS
<1> QED
  BY <1>1, LocalOn DEF W!NoLocal

(* Worths stay as they are.                                                 *)
LEMMA WorthStays ==
  ASSUME Sound, UNCHANGED <<worth, spent, deletionEvents, tokenEvents>>
  PROVE  /\ worth' \in Seq({worth'[i] : i \in DOMAIN worth'})
         /\ Len(worth') \in Len(worth)..MaxToken
         /\ deletionEvents \subseteq deletionEvents' /\ deletionEvents' \subseteq spent
         /\ tokenEvents' \subseteq 1..Len(worth')
         /\ tokenEvents' \cap spent \subseteq tokenEvents
BY TokensOfWorth DEF Sound, WalletTypes

LEMMA Callers ==
  /\ \A s \in Sends : s \in W!Caller /\ s \notin Receives /\ s # None
  /\ \A r \in Receives : r \in W!Caller /\ r \notin Sends
BY WalletingAssumption DEF W!WalletAssumption, W!Caller

LEMMA EndsKeeps ==
  ASSUME Sound, NEW s \in Sends, NEW from \in {"swap", "change", "history"},
         NEW to \in {"failed", "done"}, W!Ends(s, from, to),
         UNCHANGED <<list, len, pendingDeletions, eosed, loading, working, below,
                     toDelete, tokenEvents, deletionEvents, worth, spent, owned>>
  PROVE  Sound'
<1>a. /\ W!Goto(s, from, to) /\ tokensMu' = None
      /\ local' = [local EXCEPT ![s] = W!NoLocal]
      /\ walletPc[s] = from /\ s \in W!Caller /\ s \notin Receives
  BY Callers DEF W!Ends, W!Goto
<1>b. walletPc'[s] = to
  BY <1>a DEF W!Goto, Sound, CallsHold
<1>c. tokensMu = s
  BY <1>a DEF Sound, CallsHold, Holds, SendHas
<1>d. /\ CallsHold' /\ \A d \in W!Caller : d # s => walletPc'[d] = walletPc[d]
  <2>1. ~ SendHas(s)'
    BY <1>b DEF SendHas
  <2>2. \A d \in Sends : d # s => (tokensMu' = d <=> tokensMu = d)
    BY <1>a, <1>c, Callers
  <2>3. tokensMu' # s
    BY <1>a, Callers
  <2> QED
    BY <1>a, <2>1, <2>2, <2>3, HoldsOn
<1>1. Stands(s)' /\ Makes(s)' /\ \A t : ~ Announces(s, t)
  BY <1>a, <1>b DEF Stands, Makes, Announces
<1> QED
  BY <1>a, <1>d, <1>1, NothingLeft, WorthStays, CallMoves

LEMMA ChooseKeeps ==
  ASSUME Sound, causes' = {}, NEW s \in Sends, W!Choose(s)
  PROVE  Sound'
<1> DEFINE k == CHOOSE k \in W!Enough(s) : \A j \in W!Enough(s) : k <= j
           inputs == SubSeq(list, 1, k)
<1>a. /\ tokensMu = None /\ tokensMu' = s /\ W!Enough(s) # {}
      /\ W!Goto(s, "idle", "swap") /\ walletPc[s] = "idle"
      /\ W!Sets(s, "inputs", inputs)
      /\ ~ W!Removing
      /\ UNCHANGED <<list, len, pendingDeletions, eosed, loading, working, below,
                     toDelete, tokenEvents, deletionEvents, worth, spent, owned>>
  BY DEF W!Choose, W!Goto, W!Torn, W!listVars, W!loaderVars, W!eventVars, W!mintVars
<1>b. /\ list \in Seq(W!Token) /\ len \in 0..Len(list) /\ s \in W!Caller
      /\ s \notin Receives
  BY Callers DEF Sound, WalletTypes
<1>1. k \in 1..len
  <2>1. W!Enough(s) \subseteq 1..len /\ W!Enough(s) \subseteq Nat
    BY <1>b DEF W!Enough
  <2>2. \E i \in W!Enough(s) : \A j \in W!Enough(s) : i <= j
    BY <1>a, <2>1, FirstOfNats
  <2> QED
    BY <2>1, <2>2
<1> HIDE DEF k
<1>2. /\ inputs \in Seq(W!Token) /\ Len(inputs) = k
      /\ \A i \in 1..k : inputs[i] = list[i]
  <2>1. \A i \in 1..k : list[i] \in W!Token
    BY <1>1, <1>b, ElementOfSeq
  <2> QED
    BY <1>1, <1>b, <2>1, SubSeqProperties
<1> HIDE DEF inputs
<1>3. /\ local' \in [W!Caller -> {local'[d] : d \in W!Caller}]
      /\ \A d \in W!Caller : d # s => local'[d] = local[d]
      /\ LocalTypes(s)'
      /\ local'[s].inputs = inputs /\ local'[s].at = local[s].at
  BY <1>a, <1>b, <1>2, SetsOn
<1>4. walletPc'[s] = "swap"
  BY <1>a, <1>b DEF W!Goto, Sound, CallsHold
<1>5. /\ CallsHold' /\ \A d \in W!Caller : d # s => walletPc'[d] = walletPc[d]
  <2>1. SendHas(s)'
    BY <1>4 DEF SendHas
  <2>2. \A d \in Sends : d # s => (tokensMu' = d <=> tokensMu = d)
    BY <1>a, Callers
  <2> QED
    BY <1>a, <1>b, <2>1, <2>2, HoldsOn
<1>6. Stands(s)'
  <2>1. local[s].at = 1
    BY <1>a DEF Sound, ChosenStand, Stands
  <2>2. ~ W!Removing'
    BY <1>a DEF W!Removing
  <2>3. InputsStand(s)'
    BY <1>a, <1>b, <1>1, <1>2, <1>3, <2>2 DEF InputsStand
  <2> QED
    BY <1>3, <1>4, <2>1, <2>3 DEF Stands
<1>7. Makes(s)' /\ \A t : ~ Announces(s, t)
  BY <1>a, <1>b, <1>4 DEF Makes, Announces
<1> QED
  BY <1>a, <1>b, <1>3, <1>5, <1>6, <1>7, WorthStays, CallMoves

LEMMA NotEnoughKeeps ==
  ASSUME Sound, NEW c \in W!Caller,
         \/ c \in Sends /\ W!NotEnough(c)
         \/ /\ c \in Receives
            /\ \E to \in {"publish", "failed"} : W!ReceiveSwaps(c, to)
  PROVE  Sound'
<1>1. PICK to \in {"publish", "failed"} :
        /\ W!Goto(c, "idle", to)
        /\ c \in Sends => to = "failed"
        /\ UNCHANGED <<list, len, pendingDeletions, eosed, loading, working, below,
                       toDelete, local, tokenEvents, deletionEvents, worth, spent,
                       tokensMu, owned>>
  BY Callers DEF W!NotEnough, W!ReceiveSwaps, W!listVars, W!loaderVars, W!eventVars,
     W!mintVars
<1>2. walletPc[c] = "idle" /\ walletPc'[c] = to
  BY <1>1 DEF W!Goto, Sound, CallsHold
<1>3. /\ CallsHold' /\ \A d \in W!Caller : d # c => walletPc'[d] = walletPc[d]
  <2>1. ~ SendHas(c)' /\ ~ SendHas(c)
    BY <1>2 DEF SendHas
  <2>2. c \in Sends => tokensMu # c
    BY <1>2 DEF Sound, CallsHold, Holds, SendHas
  <2> QED
    BY <1>1, <2>1, <2>2, HoldsOn
<1>4. /\ c \in Sends => Stands(c)'
      /\ Makes(c)' /\ \A t : ~ Announces(c, t)
  BY <1>1, <1>2 DEF Stands, Makes, Announces
<1>5. /\ local' \in [W!Caller -> {local'[d] : d \in W!Caller}]
      /\ LocalTypes(c)'
  BY <1>1 DEF Sound, WalletTypes, LocalTypes
<1> QED
  BY <1>1, <1>3, <1>4, <1>5, WorthStays, CallMoves

(* A call that has tokensMu goes on and keeps it.                           *)
LEMMA HoldsStill ==
  ASSUME Sound, NEW s \in Sends, NEW from \in {"swap", "delete", "announce", "change", "store"},
         NEW to \in {"delete", "announce", "change", "store", "history"},
         W!Goto(s, from, to), tokensMu' = tokensMu
  PROVE  /\ CallsHold' /\ walletPc[s] = from /\ walletPc'[s] = to
         /\ \A d \in W!Caller : d # s => walletPc'[d] = walletPc[d]
<1>1. s \in W!Caller /\ s \notin Receives
  BY Callers
<1>2. walletPc[s] = from /\ walletPc'[s] = to
  BY <1>1 DEF W!Goto, Sound, CallsHold
<1>3. tokensMu = s /\ SendHas(s)'
  BY <1>1, <1>2 DEF Sound, CallsHold, Holds, SendHas
<1> QED
  BY <1>1, <1>2, <1>3, HoldsOn

LEMMA InputsAt ==
  ASSUME Sound, NEW s \in Sends,
         walletPc[s] \in {"delete", "announce", "change", "store"}
  PROVE  /\ local[s].inputs \in Seq(W!Token) /\ Len(local[s].inputs) \in Nat
         /\ local[s].kept \in Seq(W!Token)
         /\ list \in Seq(W!Token) /\ len \in 0..Len(list)
         /\ \A i \in 1..len : list[i] \in W!Token
         /\ InputsStand(s) /\ InputsSpent(s)
         /\ W!SpendsHere(s) <=> local[s].at <= Len(local[s].inputs)
<1>1. /\ local[s].inputs \in Seq(W!Token) /\ Len(local[s].inputs) \in Nat
      /\ local[s].kept \in Seq(W!Token) /\ local[s].at \in Nat
  BY Callers, LocalHas
<1>2. list \in Seq(W!Token) /\ len \in 0..Len(list)
  BY DEF Sound, WalletTypes
<1>3. \A i \in 1..len : list[i] \in W!Token
  BY <1>2, ElementOfSeq
<1>4. InputsStand(s) /\ InputsSpent(s)
  BY DEF Sound, ChosenStand, Stands
<1>5. local[s].last = len /\ Len(local[s].inputs) <= len
  BY <1>4 DEF InputsStand, InputsSpent
<1>6. W!Min({local[s].last, Len(local[s].inputs)}) = Len(local[s].inputs)
  <2>1. \A a, b \in Nat : b <= a => W!Min({a, b}) = b
    <3> TAKE a, b \in Nat
    <3> HAVE b <= a
    <3>1. \A x \in {a, b} : (\A y \in {a, b} : x <= y) => x = b
      OBVIOUS
    <3>2. \A y \in {a, b} : b <= y
      OBVIOUS
    <3> QED
      BY <3>1, <3>2 DEF W!Min
  <2>2. Len(list) \in Nat
    BY <1>2, LenProperties
  <2>3. len \in Nat
    BY ONLY <1>2, <2>2, len \in 0..Len(list)
  <2>4. W!Min({len, Len(local[s].inputs)}) = Len(local[s].inputs)
    BY ONLY <1>1, <1>5, <2>1, <2>3, Zenon
  <2> QED
    BY ONLY <1>5, <2>4, Zenon
<1> QED
  BY <1>1, <1>2, <1>3, <1>4, <1>6 DEF W!SpendsHere

LEMMA ReadUsedKeeps ==
  ASSUME Sound, NEW s \in Sends, W!ReadUsed(s)
  PROVE  Sound'
<1>a. /\ W!Goto(s, "delete", "announce") /\ W!SpendsHere(s)
      /\ W!Sets(s, "token", list[local[s].at])
      /\ UNCHANGED <<list, len, pendingDeletions, eosed, loading, working, below,
                     toDelete, tokenEvents, deletionEvents, worth, spent, owned>>
      /\ tokensMu' = tokensMu /\ s \in W!Caller /\ s \notin Receives
  BY Callers DEF W!ReadUsed, W!listVars, W!loaderVars, W!eventVars, W!mintVars
<1>b. /\ CallsHold' /\ walletPc[s] = "delete" /\ walletPc'[s] = "announce"
      /\ \A d \in W!Caller : d # s => walletPc'[d] = walletPc[d]
  BY <1>a, HoldsStill
<1>c. /\ InputsStand(s) /\ InputsSpent(s) /\ local[s].at <= Len(local[s].inputs)
      /\ list[local[s].at] \in W!Token
  <2>1. /\ InputsStand(s) /\ InputsSpent(s) /\ local[s].at <= Len(local[s].inputs)
        /\ \A i \in 1..len : list[i] \in W!Token
        /\ Len(local[s].inputs) \in Nat /\ len \in Nat
    BY <1>a, <1>b, InputsAt
  <2>2. local[s].at \in 1..len
    BY <2>1 DEF InputsStand, InputsSpent
  <2> QED
    BY <2>1, <2>2
<1>d. /\ local' \in [W!Caller -> {local'[d] : d \in W!Caller}]
      /\ \A d \in W!Caller : d # s => local'[d] = local[d]
      /\ LocalTypes(s)'
      /\ local'[s].inputs = local[s].inputs /\ local'[s].at = local[s].at
      /\ local'[s].last = local[s].last /\ local'[s].token = list[local[s].at]
  BY <1>a, <1>c, SetsOn
<1>1. Stands(s)'
  <2>1. InputsStand(s)' /\ InputsSpent(s)'
    BY <1>a, <1>c, <1>d DEF InputsStand, InputsSpent, W!Removing
  <2> QED
    BY <1>a, <1>b, <1>c, <1>d, <2>1 DEF Stands
<1>2. Makes(s)' /\ \A t : Announces(s, t) => Announces(s, t)'
  BY <1>a, <1>b, <1>d DEF Makes, Announces
<1> QED
  BY <1>a, <1>b, <1>d, <1>1, <1>2, WorthStays, CallMoves

LEMMA NextAt ==
  ASSUME NEW r,
         r = [inputs |-> r.inputs, at |-> r.at, last |-> r.last, kept |-> r.kept,
              change |-> r.change, token |-> r.token]
  PROVE  [r EXCEPT !.at = @ + 1, !.token = None] =
           [inputs |-> r.inputs, at |-> r.at + 1, last |-> r.last, kept |-> r.kept,
            change |-> r.change, token |-> None]
<1> DEFINE x == [r EXCEPT !.at = @ + 1, !.token = None]
<1>1. x \in [inputs : {r.inputs}, at : {r.at + 1}, last : {r.last}, kept : {r.kept},
             change : {r.change}, token : {None}]
  OBVIOUS
<1> HIDE DEF x
<1>2. x = [inputs |-> r.inputs, at |-> r.at + 1, last |-> r.last, kept |-> r.kept,
           change |-> r.change, token |-> None]
  BY <1>1
<1> QED
  BY <1>2 DEF x

LEMMA AnnounceKeeps ==
  ASSUME Sound, NEW s \in Sends, W!Announce(s)
  PROVE  Sound'
<1> DEFINE l == local[s]
<1>a. /\ W!Goto(s, "announce", "delete")
      /\ deletionEvents' = deletionEvents \cup {l.token}
      /\ local' = [local EXCEPT ![s].at = @ + 1, ![s].token = None]
      /\ UNCHANGED <<list, len, pendingDeletions, eosed, loading, working, below,
                     toDelete, tokenEvents, worth, spent, owned>>
      /\ tokensMu' = tokensMu /\ s \in W!Caller /\ s \notin Receives
  BY Callers DEF W!Announce, W!listVars, W!loaderVars, W!mintVars
<1>b. /\ CallsHold' /\ walletPc[s] = "announce" /\ walletPc'[s] = "delete"
      /\ \A d \in W!Caller : d # s => walletPc'[d] = walletPc[d]
  BY <1>a, HoldsStill
<1>c. /\ InputsStand(s) /\ InputsSpent(s) /\ l.at <= Len(l.inputs)
      /\ l.token = list[l.at] /\ Len(l.inputs) \in Nat
      /\ l.inputs \in Seq(W!Token) /\ l.at \in Nat /\ l.last \in Nat
      /\ l.kept \in Seq(W!Token)
  <2>1. l.at <= Len(l.inputs) /\ l.token = list[l.at]
    BY <1>b DEF Sound, ChosenStand, Stands
  <2> QED
    BY <1>a, <1>b, <2>1, InputsAt, LocalHas
<1>d. /\ local' \in [W!Caller -> {local'[d] : d \in W!Caller}]
      /\ \A d \in W!Caller : d # s => local'[d] = local[d]
      /\ LocalTypes(s)'
      /\ local'[s].inputs = l.inputs /\ local'[s].at = l.at + 1
      /\ local'[s].last = l.last
  <2>1. local' = [local EXCEPT ![s] =
           [inputs |-> l.inputs, at |-> l.at + 1, last |-> l.last, kept |-> l.kept,
            change |-> l.change, token |-> None]]
    <3>1. LocalTypes(s)
      BY <1>a DEF Sound, WalletTypes
    <3>2. l = [inputs |-> l.inputs, at |-> l.at, last |-> l.last, kept |-> l.kept,
               change |-> l.change, token |-> l.token]
      BY <3>1 DEF LocalTypes
    <3> HIDE DEF l
    <3>3. [l EXCEPT !.at = @ + 1, !.token = None] =
            [inputs |-> l.inputs, at |-> l.at + 1, last |-> l.last, kept |-> l.kept,
             change |-> l.change, token |-> None]
      BY <3>2, NextAt
    <3>4. local' = [local EXCEPT ![s] = [l EXCEPT !.at = @ + 1, !.token = None]]
      BY <1>a DEF Sound, WalletTypes, l
    <3> QED
      BY <3>3, <3>4
  <2> HIDE DEF l
  <2> DEFINE at == l.at + 1
  <2>2. at \in Nat
    BY <1>c
  <2>3. local' = [local EXCEPT ![s] =
           [inputs |-> l.inputs, at |-> at, last |-> l.last, kept |-> l.kept,
            change |-> l.change, token |-> None]]
    BY <2>1
  <2> HIDE DEF at
  <2>4. /\ local' \in [W!Caller -> {local'[d] : d \in W!Caller}]
        /\ \A d \in W!Caller : d # s => local'[d] = local[d]
        /\ LocalTypes(s)'
        /\ local'[s] = [inputs |-> l.inputs, at |-> at, last |-> l.last,
             kept |-> l.kept, change |-> l.change, token |-> None]
    <3>1. /\ s \in W!Caller /\ l.inputs \in Seq(W!Token) /\ l.last \in Nat
          /\ l.kept \in Seq(W!Token) /\ None \in W!Token \cup {None}
      BY <1>a, <1>c
    <3> QED
      BY <3>1, <2>2, <2>3, LocalOn
  <2> QED
    BY <2>4 DEF at
<1> HIDE DEF l
<1>1. Stands(s)'
  <2>1. InputsStand(s)' /\ InputsSpent(s)'
    BY <1>a, <1>c, <1>d DEF InputsStand, InputsSpent, W!Removing, l
  <2> QED
    BY <1>b, <2>1 DEF Stands
<1>2. Makes(s)'
  BY <1>a, <1>b DEF Makes
<1>3. l.token = l.inputs[l.at] /\ l.token \in spent
  BY <1>c DEF InputsStand, InputsSpent, l
<1>4. ASSUME NEW t, Announces(s, t)
      PROVE  Announces(s, t)' \/ t \in deletionEvents'
  <2>1. PICK i \in l.at..Len(l.inputs) : l.inputs[i] = t
    BY <1>4 DEF Announces, l
  <2>2. CASE i = l.at
    BY <2>1, <2>2, <1>3, <1>a
  <2>3. CASE i # l.at
    BY <2>1, <2>3, <1>b, <1>c, <1>d DEF Announces
  <2> QED
    BY <2>2, <2>3
<1>5. /\ worth' \in Seq({worth'[i] : i \in DOMAIN worth'})
      /\ Len(worth') \in Len(worth)..MaxToken
      /\ deletionEvents \subseteq deletionEvents' /\ deletionEvents' \subseteq spent
      /\ tokenEvents' \subseteq 1..Len(worth')
      /\ tokenEvents' \cap spent \subseteq tokenEvents
  BY <1>a, <1>3, TokensOfWorth DEF Sound, WalletTypes
<1> QED
  BY <1>a, <1>b, <1>d, <1>1, <1>2, <1>4, <1>5, CallMoves

LEMMA KeepRestKeeps ==
  ASSUME Sound, NEW s \in Sends, W!KeepRest(s)
  PROVE  Sound'
<1> DEFINE l == local[s]
           to == IF l.change = 0 THEN "history" ELSE "change"
           kept == SubSeq(list, l.at, l.last)
<1>a. /\ W!Goto(s, "delete", to) /\ ~ W!SpendsHere(s)
      /\ W!Sets(s, "kept", kept)
      /\ UNCHANGED <<list, len, pendingDeletions, eosed, loading, working, below,
                     toDelete, tokenEvents, deletionEvents, worth, spent, owned>>
      /\ tokensMu' = tokensMu /\ s \in W!Caller /\ s \notin Receives
  BY Callers DEF W!KeepRest, W!listVars, W!loaderVars, W!eventVars, W!mintVars
<1>b. /\ CallsHold' /\ walletPc[s] = "delete" /\ walletPc'[s] = to
      /\ \A d \in W!Caller : d # s => walletPc'[d] = walletPc[d]
  BY <1>a, HoldsStill
<1>c. /\ InputsStand(s) /\ InputsSpent(s) /\ l.at = Len(l.inputs) + 1
      /\ l.last = len /\ Len(l.inputs) \in Nat /\ Len(l.inputs) <= len
      /\ \A i \in 1..len : list[i] \in W!Token
      /\ len \in Nat
  <2>1. /\ InputsStand(s) /\ InputsSpent(s) /\ ~ (l.at <= Len(l.inputs))
        /\ Len(l.inputs) \in Nat /\ \A i \in 1..len : list[i] \in W!Token
    BY <1>a, <1>b, InputsAt
  <2>2. len \in Nat
    BY DEF Sound, WalletTypes
  <2> QED
    BY <2>1, <2>2 DEF InputsStand, InputsSpent
<1> HIDE DEF l
<1>e. /\ kept \in Seq(W!Token) /\ Len(kept) = len - Len(l.inputs)
      /\ \A i \in 1..Len(kept) : kept[i] = list[Len(l.inputs) + i]
  <2>1. /\ l.at \in Int /\ l.last \in Int
        /\ \A i \in l.at..l.last : list[i] \in W!Token
    BY <1>c
  <2>2. /\ kept \in Seq(W!Token)
        /\ Len(kept) = IF l.at <= l.last THEN l.last - l.at + 1 ELSE 0
        /\ \A i \in 1..(l.last - l.at + 1) : kept[i] = list[l.at + i - 1]
    BY <2>1, SubSeqProperties
  <2> HIDE DEF kept
  <2>3. l.last - l.at + 1 = len - Len(l.inputs)
    BY <1>c
  <2>4. Len(kept) = len - Len(l.inputs)
    <3>1. CASE l.at <= l.last
      BY <3>1, <2>2, <2>3
    <3>2. CASE ~ (l.at <= l.last)
      <4>1. len - Len(l.inputs) = 0
        BY <3>2, <1>c
      <4> QED
        BY <3>2, <4>1, <2>2
    <3> QED
      BY <3>1, <3>2
  <2>5. \A i \in 1..Len(kept) : l.at + i - 1 = Len(l.inputs) + i
    BY <1>c
  <2> QED
    BY <2>2, <2>3, <2>4, <2>5
<1> HIDE DEF kept
<1>d. /\ local' \in [W!Caller -> {local'[d] : d \in W!Caller}]
      /\ \A d \in W!Caller : d # s => local'[d] = local[d]
      /\ LocalTypes(s)'
      /\ local'[s].inputs = l.inputs /\ local'[s].at = l.at
      /\ local'[s].last = l.last /\ local'[s].kept = kept
  BY <1>a, <1>e, SetsOn DEF l
<1>1. Stands(s)'
  <2>1. InputsStand(s)' /\ InputsSpent(s)'
    BY <1>a, <1>c, <1>d DEF InputsStand, InputsSpent, W!Removing, l
  <2>2. RestKept(s)'
    BY <1>a, <1>c, <1>d, <1>e DEF RestKept
  <2> QED
    BY <1>b, <2>1, <2>2 DEF Stands
<1>2. Makes(s)' /\ \A t : ~ Announces(s, t)
  BY <1>a, <1>b, <1>c DEF Makes, Announces, l
<1> QED
  BY <1>a, <1>b, <1>d, <1>1, <1>2, WorthStays, CallMoves

LEMMA OneSends ==
  ASSUME Sound
  PROVE  /\ \A s, d \in Sends : SendHas(s) /\ SendHas(d) => s = d
         /\ tokensMu = None => \A s \in Sends : ~ SendHas(s)
BY Callers DEF Sound, CallsHold, Holds

LEMMA PublishTokenKeeps ==
  ASSUME Sound, NEW c \in W!Caller, NEW from, NEW to, NEW amount,
         \/ c \in Sends /\ from = "change" /\ to = "store"
         \/ c \in Receives /\ from = "publish" /\ to = "append",
         W!PublishToken(c, from, to, amount)
  PROVE  Sound'
<1> DEFINE t == Len(worth) + 1
<1>a. /\ W!Goto(c, from, to) /\ Len(worth) < MaxToken
      /\ worth' = Append(worth, amount) /\ W!Sets(c, "token", t)
      /\ tokenEvents' = tokenEvents \cup {t}
      /\ UNCHANGED <<list, len, pendingDeletions, eosed, loading, working, below,
                     toDelete, deletionEvents, spent, owned>>
      /\ tokensMu' = tokensMu
  BY DEF W!PublishToken, W!listVars, W!loaderVars
<1>b. /\ CallsHold' /\ walletPc[c] = from /\ walletPc'[c] = to
      /\ \A d \in W!Caller : d # c => walletPc'[d] = walletPc[d]
  <2>1. CASE c \in Sends
    BY <2>1, <1>a, Callers, HoldsStill
  <2>2. CASE c \in Receives
    <3>1. c \notin Sends /\ from = "publish" /\ to = "append"
      BY <2>2, Callers
    <3>2. walletPc'[c] = to
      BY <1>a, <3>1 DEF W!Goto, Sound, CallsHold
    <3>3. ~ SendHas(c)'
      BY <3>1, <3>2 DEF SendHas
    <3> QED
      BY <3>1, <3>2, <3>3, <1>a, HoldsOn
  <2> QED
    BY <2>1, <2>2
<1>c. /\ worth' \in Seq({worth'[i] : i \in DOMAIN worth'})
      /\ Len(worth') = Len(worth) + 1
  <2> DEFINE values == {worth[i] : i \in DOMAIN worth} \cup {amount}
  <2>1. worth \in Seq(values) /\ amount \in values
    BY SeqMonotonic DEF Sound, WalletTypes
  <2>2. worth' \in Seq(values) /\ Len(worth') = Len(worth) + 1
    BY <1>a, <2>1, AppendProperties
  <2> HIDE DEF values
  <2>3. worth' \in [1..Len(worth') -> values] /\ Len(worth') \in Nat
    BY <2>2, LenProperties
  <2>4. worth' \in [1..Len(worth') -> {worth'[i] : i \in DOMAIN worth'}]
    BY <2>3
  <2> QED
    BY <2>2, <2>3, <2>4, SeqDef
<1>d. /\ t \in W!Token /\ t \in 1..Len(worth') /\ t \notin 1..Len(worth)
      /\ Len(worth') \in Len(worth)..MaxToken /\ 1..Len(worth) \subseteq 1..Len(worth')
  BY <1>a, <1>c, TokensOfWorth DEF W!Token
<1>e. /\ t \notin spent /\ t \notin owned /\ t \notin SpentBefore
      /\ tokenEvents \subseteq 1..Len(worth) /\ deletionEvents \subseteq spent
  BY <1>d DEF Sound, WalletTypes
<1> HIDE DEF t
<1>f. /\ local' \in [W!Caller -> {local'[d] : d \in W!Caller}]
      /\ \A d \in W!Caller : d # c => local'[d] = local[d]
      /\ LocalTypes(c)'
      /\ local'[c].inputs = local[c].inputs /\ local'[c].at = local[c].at
      /\ local'[c].last = local[c].last /\ local'[c].kept = local[c].kept
      /\ local'[c].token = t
  BY <1>a, <1>d, SetsOn
<1>1. c \in Sends => Stands(c)'
  <2> SUFFICES ASSUME c \in Sends PROVE Stands(c)'
    OBVIOUS
  <2>1. from = "change" /\ to = "store"
    BY Callers
  <2>2. InputsStand(c) /\ InputsSpent(c) /\ RestKept(c)
    BY <1>b, <2>1 DEF Sound, ChosenStand, Stands
  <2>3. InputsStand(c)' /\ InputsSpent(c)' /\ RestKept(c)'
    BY <1>a, <1>f, <2>2 DEF InputsStand, InputsSpent, RestKept, W!Removing
  <2> QED
    BY <1>b, <2>1, <2>3 DEF Stands
<1>2. Makes(c)'
  BY <1>a, <1>b, <1>d, <1>e, <1>f DEF Makes, New
<1>3. \A u : ~ Announces(c, u)
  BY <1>b DEF Announces
<1>4. tokenEvents' \subseteq 1..Len(worth') /\ tokenEvents' \cap spent \subseteq tokenEvents
  BY <1>a, <1>d, <1>e
<1> QED
  BY <1>a, <1>b, <1>c, <1>d, <1>e, <1>f, <1>1, <1>2, <1>3, <1>4, CallMoves

LEMMA SwapSucceedsKeeps ==
  ASSUME Sound, NEW s \in Sends, W!SwapSucceeds(s)
  PROVE  Sound'
<1> DEFINE l == local[s]
           used == W!ToSet(l.inputs)
<1>a. /\ W!Goto(s, "swap", "delete") /\ spent' = spent \cup used
      /\ UNCHANGED <<list, len, pendingDeletions, eosed, loading, working, below,
                     toDelete, tokenEvents, deletionEvents, worth, owned>>
      /\ tokensMu' = tokensMu /\ s \in W!Caller /\ s \notin Receives
  BY Callers DEF W!SwapSucceeds, W!MintTakes, W!listVars, W!loaderVars, W!eventVars
<1>b. /\ CallsHold' /\ walletPc[s] = "swap" /\ walletPc'[s] = "delete"
      /\ \A d \in W!Caller : d # s => walletPc'[d] = walletPc[d]
  BY <1>a, HoldsStill
<1>c. /\ InputsStand(s) /\ l.at = 1 /\ l.inputs \in Seq(W!Token)
      /\ Len(l.inputs) \in Nat /\ l.kept \in Seq(W!Token)
      /\ l.token \in W!Token \cup {None} /\ len \in Nat
  BY <1>a, <1>b, LocalHas DEF Sound, WalletTypes, ChosenStand, Stands
<1>d. PICK change : local' = [local EXCEPT ![s] =
           [inputs |-> l.inputs, at |-> 1, last |-> len, kept |-> l.kept,
            change |-> change, token |-> l.token]]
  <2> DEFINE change == W!Total(l.inputs) - Amounts[s] - Fee
  <2>1. local' = [local EXCEPT ![s].last = len, ![s].change = change]
    BY DEF W!SwapSucceeds
  <2> HIDE DEF change
  <2>2. LocalTypes(s)
    BY <1>a DEF Sound, WalletTypes
  <2>3. l = [inputs |-> l.inputs, at |-> l.at, last |-> l.last, kept |-> l.kept,
             change |-> l.change, token |-> l.token]
    BY <2>2 DEF LocalTypes
  <2>4. local' = [local EXCEPT ![s] = [l EXCEPT !.last = len, !.change = change]]
    BY <1>a, <2>1 DEF Sound, WalletTypes
  <2> HIDE DEF l
  <2>5. [l EXCEPT !.last = len, !.change = change] =
          [inputs |-> l.inputs, at |-> l.at, last |-> len, kept |-> l.kept,
           change |-> change, token |-> l.token]
    <3> DEFINE x == [l EXCEPT !.last = len, !.change = change]
    <3>1. x \in [inputs : {l.inputs}, at : {l.at}, last : {len}, kept : {l.kept},
                 change : {change}, token : {l.token}]
      BY <2>3
    <3> HIDE DEF x
    <3>2. x = [inputs |-> l.inputs, at |-> l.at, last |-> len, kept |-> l.kept,
               change |-> change, token |-> l.token]
      BY <3>1
    <3> QED
      BY <3>2 DEF x
  <2> QED
    BY <1>c, <2>4, <2>5 DEF l
<1> HIDE DEF l
<1>e. /\ local' \in [W!Caller -> {local'[d] : d \in W!Caller}]
      /\ \A d \in W!Caller : d # s => local'[d] = local[d]
      /\ LocalTypes(s)'
      /\ local'[s] = [inputs |-> l.inputs, at |-> 1, last |-> len, kept |-> l.kept,
                      change |-> change, token |-> l.token]
  BY <1>a, <1>c, <1>d, LocalOn
<1>f. \A t : t \in used <=> \E i \in 1..Len(l.inputs) : l.inputs[i] = t
  BY <1>c, LenProperties DEF W!ToSet
<1>g. /\ ~ W!Removing /\ ~ W!Removing' /\ Real = len /\ Real' = len
      /\ Len(l.inputs) <= len
      /\ \A i \in 1..Len(l.inputs) : l.inputs[i] = list[i]
  BY <1>a, <1>c DEF InputsStand, W!Removing, Real, l
<1> HIDE DEF used
<1>h. used \subseteq owned /\ owned \subseteq 1..Len(worth)
  <2>1. ASSUME NEW t \in used PROVE t \in owned
    <3>1. PICK i \in 1..Len(l.inputs) : l.inputs[i] = t
      BY <1>f
    <3>2. i \in 1..Real /\ list[i] = t
      BY <3>1, <1>c, <1>g
    <3> QED
      BY <3>2 DEF Sound, Listed
  <2> QED
    BY <2>1 DEF Sound, WalletTypes
<1>1. WalletTypes'
  <2>1. pendingDeletions' \in Seq(spent') /\ toDelete' \in Seq(spent')
    BY <1>a, SeqMonotonic DEF Sound, WalletTypes
  <2>2. spent' \subseteq 1..Len(worth)
    BY <1>a, <1>h DEF Sound, WalletTypes
  <2>3. \A d \in W!Caller : LocalTypes(d)'
    BY <1>e DEF Sound, WalletTypes, LocalTypes
  <2> QED
    BY <1>a, <1>e, <2>1, <2>2, <2>3 DEF Sound, WalletTypes
<1>3. LoadersWork'
  BY <1>a DEF Sound, LoadersWork
<1>4. RemovalsApart'
  BY <1>a, <1>g DEF Sound, RemovalsApart
<1>5. Listed'
  BY <1>a, <1>g DEF Sound, Listed
<1>i. \A d \in Sends : d # s => ~ SendHas(d)
  BY <1>b, OneSends DEF SendHas
<1>6. ChosenStand'
  <2>1. InputsStand(s)'
    BY <1>a, <1>e, <1>g DEF InputsStand
  <2>2. InputsSpent(s)'
    BY <1>a, <1>c, <1>e, <1>f, <1>g DEF InputsSpent
  <2>3. Stands(s)'
    BY <1>b, <2>1, <2>2 DEF Stands
  <2>4. ASSUME NEW d \in Sends, d # s PROVE Stands(d)'
    BY <1>b, <1>e, <1>i, <2>4, Callers DEF Sound, ChosenStand, Stands, SendHas
  <2> QED
    BY <2>3, <2>4 DEF ChosenStand
<1>7. MadeIsNew'
  BY <1>a, <1>b, <1>e, <1>h DEF Sound, MadeIsNew, Makes, New
<1>j. \A t \in used : Announcing(t)'
  BY <1>b, <1>e, <1>f DEF Announcing, Announces
<1>k. \A t : ~ Announcing(t)
  BY <1>b, <1>i DEF Announcing, Announces, SendHas
<1>8. SpentGoes'
  <2> SUFFICES ASSUME NEW p \in 1..Real, list[p] \in spent'
      PROVE  Pursued(list[p])' \/ Announcing(list[p])' \/ Sought(p)'
    BY <1>a, <1>g DEF SpentGoes
  <2>1. CASE list[p] \in used
    BY <2>1, <1>a, <1>j DEF Announcing
  <2>2. CASE list[p] \notin used
    <3>1. Pursued(list[p]) \/ Sought(p)
      BY <2>2, <1>a, <1>k DEF Sound, SpentGoes
    <3>2. Pursued(list[p]) => Pursued(list[p])'
      BY <1>a DEF Pursued
    <3>3. Sought(p) => Sought(p)'
      BY <1>a DEF Sought
    <3> QED
      BY <3>1, <3>2, <3>3
  <2> QED
    BY <2>1, <2>2
<1>9. SpentAwaited'
  <2>1. \A t : Pursued(t) => Pursued(t)'
    BY <1>a DEF Pursued
  <2>2. \A t : Arrives(t)' => Arrives(t)
    BY <1>a DEF Arrives
  <2> QED
    BY <1>a, <1>j, <1>k, <2>1, <2>2 DEF Sound, SpentAwaited
<1> QED
  BY <1>b, <1>1, <1>3, <1>4, <1>5, <1>6, <1>7, <1>8, <1>9 DEF Sound

LEMMA StoreChangeKeeps ==
  ASSUME Sound, causes' = {}, NEW s \in Sends, W!StoreChange(s)
  PROVE  Sound'
<1> DEFINE k == Len(local[s].inputs)
           kept == local[s].kept
           t == local[s].token
<1>a. /\ W!Goto(s, "store", "history")
      /\ list' = Append(kept, t) /\ len' = Len(kept) + 1
      /\ owned' = owned \cup {t}
      /\ UNCHANGED <<pendingDeletions, eosed, loading, working, below, toDelete,
                     local, tokenEvents, deletionEvents, worth, spent>>
      /\ tokensMu' = tokensMu /\ s \in W!Caller /\ s \notin Receives
  BY Callers DEF W!StoreChange, W!loaderVars, W!eventVars, W!mintVars
<1>b. /\ CallsHold' /\ walletPc[s] = "store" /\ walletPc'[s] = "history"
      /\ \A d \in W!Caller : d # s => walletPc'[d] = walletPc[d]
  BY <1>a, HoldsStill
<1>c. /\ InputsStand(s) /\ InputsSpent(s) /\ RestKept(s)
      /\ t \in 1..Len(worth) /\ t \in W!Token /\ t \notin owned /\ t \notin spent
      /\ kept \in Seq(W!Token) /\ k \in Nat /\ len \in Nat
  <2>1. InputsStand(s) /\ InputsSpent(s) /\ RestKept(s)
    BY <1>b DEF Sound, ChosenStand, Stands
  <2>2. t \in 1..Len(worth) /\ t \notin SpentBefore /\ t \notin owned
    BY <1>a, <1>b DEF Sound, MadeIsNew, Makes, New
  <2>3. t \notin spent
    BY <2>2 DEF Sound, MadeIsNew
  <2>4. kept \in Seq(W!Token) /\ k \in Nat /\ len \in Nat
    BY <1>a, LocalHas DEF Sound, WalletTypes
  <2> QED
    BY <2>1, <2>2, <2>3, <2>4, TokensOfWorth
<1>d. /\ k <= len /\ Len(kept) = len - k
      /\ \A i \in 1..(len - k) : kept[i] = list[k + i]
      /\ \A i \in 1..k : list[i] \in spent
      /\ ~ W!Removing /\ ~ W!Removing'
  BY <1>a, <1>c DEF InputsStand, InputsSpent, RestKept, W!Removing
<1> HIDE DEF k, kept, t
<1>e. /\ list' \in Seq(W!Token) /\ len' = len - k + 1 /\ len' = Len(list')
      /\ list'[len - k + 1] = t
      /\ \A i \in 1..(len - k) : list'[i] = list[k + i]
  <2>1. /\ list' \in Seq(W!Token) /\ Len(list') = Len(kept) + 1
        /\ \A i \in 1..Len(kept) : list'[i] = kept[i]
        /\ list'[Len(kept) + 1] = t
    BY <1>a, <1>c, AppendProperties
  <2> QED
    BY <2>1, <1>a, <1>c, <1>d
<1>f. Real = len /\ Real' = len - k + 1 /\ len' \in Nat
  BY <1>c, <1>d, <1>e DEF Real
<1>g. /\ \A p, q \in 1..len : list[p] = list[q] => p = q
      /\ \A p \in 1..len : list[p] \in owned
      /\ \A u \in owned \ spent : \E p \in 1..len : list[p] = u
  BY <1>f DEF Sound, Listed
(* What is in the list now was further up in it, but for the new token.     *)
<1>h. ASSUME NEW p \in 1..(len - k + 1)
      PROVE  \/ p = len - k + 1 /\ list'[p] = t
             \/ p \in 1..(len - k) /\ k + p \in 1..len /\ list'[p] = list[k + p]
  BY <1>c, <1>d, <1>e
<1>1. WalletTypes'
  <2>1. owned' \subseteq 1..Len(worth)
    BY <1>a, <1>c DEF Sound, WalletTypes
  <2>2. len' \in 0..Len(list')
    BY <1>e, <1>f
  <2> QED
    BY <1>a, <1>e, <2>1, <2>2, SMTT(30) DEF Sound, WalletTypes, LocalTypes
<1>3. LoadersWork'
  BY <1>a DEF Sound, LoadersWork
<1>4. RemovalsApart'
  BY <1>a, <1>d DEF Sound, RemovalsApart
<1>5. Listed'
  <2>1. ASSUME NEW p \in 1..(len - k + 1), NEW q \in 1..(len - k + 1),
               list'[p] = list'[q]
        PROVE  p = q
    <3>1. CASE p = len - k + 1 /\ list'[p] = t
      BY <3>1, <2>1, <1>c, <1>g, <1>h
    <3>2. CASE p \in 1..(len - k) /\ k + p \in 1..len /\ list'[p] = list[k + p]
      <4>1. CASE q = len - k + 1 /\ list'[q] = t
        BY <3>2, <4>1, <2>1, <1>c, <1>g
      <4>2. CASE q \in 1..(len - k) /\ k + q \in 1..len /\ list'[q] = list[k + q]
        <5>1. k + p = k + q
          BY <3>2, <4>2, <2>1, <1>g
        <5> QED
          BY <5>1, <3>2, <4>2, <1>c
      <4> QED
        BY <4>1, <4>2, <1>h
    <3> QED
      BY <3>1, <3>2, <1>h
  <2>2. \A p \in 1..(len - k + 1) : list'[p] \in owned'
    BY <1>a, <1>g, <1>h
  <2>3. ASSUME NEW u \in owned' \ spent
        PROVE  \E p \in 1..(len - k + 1) : list'[p] = u
    <3>1. CASE u = t
      BY <3>1, <1>c, <1>d, <1>e
    <3>2. CASE u \in owned \ spent
      <4>1. PICK p \in 1..len : list[p] = u
        BY <3>2, <1>g
      <4>2. p > k
        BY <3>2, <4>1, <1>c, <1>d
      <4>3. p - k \in 1..(len - k) /\ k + (p - k) = p
        BY <4>2, <4>1, <1>c, <1>d
      <4>4. list'[p - k] = u
        BY <4>1, <4>3, <1>e
      <4>5. p - k \in 1..(len - k + 1)
        BY <4>3, <1>c, <1>d
      <4> QED
        BY <4>4, <4>5
    <3> QED
      BY <3>1, <3>2, <1>a
  <2> QED
    BY <1>a, <1>f, <2>1, <2>2, <2>3 DEF Listed
<1>i. \A d \in Sends : d # s => ~ SendHas(d)
  BY <1>b, OneSends DEF SendHas
<1>6. ChosenStand'
  <2>1. Stands(s)'
    BY <1>b DEF Stands
  <2>2. ASSUME NEW d \in Sends, d # s PROVE Stands(d)'
    BY <1>a, <1>b, <1>i, <2>2, Callers DEF Sound, ChosenStand, Stands, SendHas
  <2> QED
    BY <2>1, <2>2 DEF ChosenStand
<1>7. MadeIsNew'
  <2>1. Makes(s)'
    BY <1>a, <1>b DEF Makes
  <2>2. ASSUME NEW d \in W!Caller, d # s PROVE Makes(d)'
    BY <1>a, <1>b, <1>i, <2>2 DEF Sound, MadeIsNew, Makes, New, SendHas
  <2>3. spent \subseteq owned' \cup SpentBefore
    BY <1>a DEF Sound, MadeIsNew
  <2> QED
    BY <1>a, <2>1, <2>2, <2>3 DEF MadeIsNew
<1>j. \A u : ~ Announcing(u)
  BY <1>b, <1>i DEF Announcing, Announces, SendHas
<1>8. SpentGoes'
  <2> SUFFICES ASSUME NEW p \in 1..(len - k + 1), list'[p] \in spent
      PROVE  Pursued(list[p])' \/ Sought(p)'
    BY <1>a, <1>f DEF SpentGoes
  <2>1. p \in 1..(len - k) /\ k + p \in 1..len /\ list'[p] = list[k + p]
    BY <1>c, <1>h
  <2>2. Pursued(list[k + p]) \/ Sought(k + p)
    BY <2>1, <1>f, <1>j DEF Sound, SpentGoes
  <2>3. Pursued(list[k + p]) => Pursued(list[p])'
    BY <1>a, <2>1 DEF Pursued
  <2>4. ASSUME Sought(k + p) PROVE Sought(p)'
    <3>1. PICK l \in W!Loader : /\ loading[l] \in {"remove", "cut"}
             /\ working[l] = list[k + p] /\ k + p <= below[l]
      BY <2>4 DEF Sought
    <3>2. below[l] \in Nat
      BY DEF Sound, WalletTypes
    <3>3. p <= below[l]
      BY <2>1, <3>1, <3>2, <1>c
    <3> QED
      BY <1>a, <2>1, <3>1, <3>3 DEF Sought
  <2> QED
    BY <2>2, <2>3, <2>4
<1>9. SpentAwaited'
  <2>1. \A u : Pursued(u) => Pursued(u)'
    BY <1>a DEF Pursued
  <2>2. \A u : Arrives(u)' => Arrives(u)
    BY <1>a DEF Arrives
  <2> QED
    BY <1>a, <1>j, <2>1, <2>2 DEF Sound, SpentAwaited
<1> QED
  BY <1>b, <1>1, <1>3, <1>4, <1>5, <1>6, <1>7, <1>8, <1>9 DEF Sound

LEMMA AppendReceivedKeeps ==
  ASSUME Sound, causes' = {}, NEW r \in Receives, W!AppendReceived(r)
  PROVE  Sound'
<1> DEFINE t == local[r].token
<1>a. /\ W!Goto(r, "append", "done") /\ walletPc[r] = "append"
      /\ tokensMu = None /\ W!AppendToken(t)
      /\ owned' = owned \cup {t} /\ t \notin owned
      /\ ~ W!Removing /\ ~ W!Removing'
      /\ local' = [local EXCEPT ![r] = W!NoLocal]
      /\ UNCHANGED <<pendingDeletions, eosed, loading, working, below, toDelete,
                     tokenEvents, deletionEvents, worth, spent, tokensMu>>
      /\ r \in W!Caller /\ r \notin Sends
  BY Callers DEF W!AppendReceived, W!Goto, W!Torn, W!Removing, W!loaderVars, W!eventVars,
     W!mintVars
<1>b. /\ CallsHold' /\ walletPc'[r] = "done"
      /\ \A d \in W!Caller : d # r => walletPc'[d] = walletPc[d]
  <2>1. walletPc'[r] = "done"
    BY <1>a DEF W!Goto, Sound, CallsHold
  <2>2. ~ SendHas(r)'
    BY <2>1 DEF SendHas
  <2> QED
    BY <1>a, <2>1, <2>2, HoldsOn
<1>c. /\ t \in 1..Len(worth) /\ t \notin spent
      /\ \A s \in Sends : ~ SendHas(s)
  <2>1. t \in 1..Len(worth) /\ t \notin SpentBefore
    BY <1>a DEF Sound, MadeIsNew, Makes, New
  <2> QED
    BY <1>a, <2>1, OneSends DEF Sound, MadeIsNew
<1> HIDE DEF t
<1>d. /\ list' \in Seq(W!Token) /\ len' \in 0..Len(list') /\ len' = len + 1
      /\ list'[len + 1] = t /\ len \in Nat
      /\ \A p \in 1..len : list'[p] = list[p]
      /\ Real = len /\ Real' = len + 1
      /\ Listed'
  <2>1. \A p \in 1..len : list[p] # t
    BY <1>a DEF Sound, Listed, Real
  <2> QED
    BY <1>a, <1>c, <2>1, ListGrows
<1>e. /\ local' \in [W!Caller -> {local'[d] : d \in W!Caller}]
      /\ \A d \in W!Caller : d # r => local'[d] = local[d]
      /\ LocalTypes(r)'
  BY <1>a, NothingLeft
<1>1. WalletTypes'
  <2>1. owned' \subseteq 1..Len(worth)
    BY <1>a, <1>c DEF Sound, WalletTypes
  <2>2. \A d \in W!Caller : LocalTypes(d)'
    BY <1>e DEF Sound, WalletTypes, LocalTypes
  <2> QED
    BY <1>a, <1>d, <1>e, <2>1, <2>2 DEF Sound, WalletTypes
<1>3. LoadersWork'
  BY <1>a DEF Sound, LoadersWork
<1>4. RemovalsApart'
  BY <1>a DEF Sound, RemovalsApart
<1>6. ChosenStand'
  <2> SUFFICES ASSUME NEW s \in Sends PROVE Stands(s)'
    BY DEF ChosenStand
  <2>1. s # r /\ s \in W!Caller
    BY <1>a, Callers
  <2>2. walletPc'[s] = walletPc[s] /\ local'[s] = local[s] /\ ~ SendHas(s)
    BY <1>b, <1>c, <1>e, <2>1
  <2> QED
    BY <2>2 DEF Sound, ChosenStand, Stands, SendHas
<1>7. MadeIsNew'
  <2>1. Makes(r)'
    BY <1>a, <1>b DEF Makes
  <2>2. ASSUME NEW d \in W!Caller, d # r PROVE Makes(d)'
    BY <1>a, <1>b, <1>c, <1>e, <2>2 DEF Sound, MadeIsNew, Makes, New, SendHas
  <2>3. spent \subseteq owned' \cup SpentBefore
    BY <1>a DEF Sound, MadeIsNew
  <2> QED
    BY <1>a, <2>1, <2>2, <2>3 DEF MadeIsNew
<1>j. \A u : ~ Announcing(u)
  BY <1>c DEF Announcing, Announces, SendHas
<1>8. SpentGoes'
  <2> SUFFICES ASSUME NEW p \in 1..(len + 1), list'[p] \in spent
      PROVE  Pursued(list[p])' \/ Sought(p)'
    BY <1>a, <1>d DEF SpentGoes
  <2>1. p \in 1..len /\ list'[p] = list[p]
    BY <1>c, <1>d
  <2>2. Pursued(list[p]) \/ Sought(p)
    BY <2>1, <1>d, <1>j DEF Sound, SpentGoes
  <2>3. Pursued(list[p]) => Pursued(list[p])'
    BY <1>a, <2>1 DEF Pursued
  <2>4. Sought(p) => Sought(p)'
    BY <1>a, <2>1 DEF Sought
  <2> QED
    BY <2>2, <2>3, <2>4
<1>9. SpentAwaited'
  <2>1. \A u : Pursued(u) => Pursued(u)'
    BY <1>a DEF Pursued
  <2>2. \A u : Arrives(u)' => Arrives(u)
    BY <1>a DEF Arrives
  <2> QED
    BY <1>a, <1>j, <2>1, <2>2 DEF Sound, SpentAwaited
<1> QED
  BY <1>b, <1>d, <1>1, <1>3, <1>4, <1>6, <1>7, <1>8, <1>9 DEF Sound

LEMMA WalletInit == W!Init => Sound
<1> SUFFICES ASSUME W!Init PROVE Sound
  OBVIOUS
<1>a. PICK start \in WalletStarts :
        /\ walletPc = [c \in W!Caller |-> IF c \in start.calls THEN "idle" ELSE "done"]
        /\ tokenEvents = start.tokens
        /\ deletionEvents = start.tokens \cap SpentBefore
  BY DEF W!Init
<1>b. /\ list = <<>> /\ len = 0 /\ worth = StoredWorth /\ spent = SpentBefore
      /\ pendingDeletions = <<>> /\ eosed = FALSE /\ tokensMu = None
      /\ loading = [l \in W!Loader |-> "wait"]
      /\ working = [l \in W!Loader |-> None]
      /\ below = [l \in W!Loader |-> 0] /\ toDelete = <<>>
      /\ local = [c \in W!Caller |-> W!NoLocal] /\ owned = {}
  BY DEF W!Init
<1>c. /\ StoredTokens \in Nat /\ MaxToken \in Nat /\ StoredTokens <= MaxToken
      /\ StoredWorth \in [1..StoredTokens -> Nat] /\ SpentBefore \subseteq 1..StoredTokens
      /\ start.tokens \subseteq 1..StoredTokens
  BY WalletingAssumption DEF W!WalletAssumption
<1>d. ~ W!Removing /\ Real = 0
  BY <1>b DEF W!Removing, Real
<1>e. /\ worth \in Seq({worth[i] : i \in DOMAIN worth}) /\ Len(worth) = StoredTokens
  <2> DEFINE values == {StoredWorth[i] : i \in DOMAIN StoredWorth}
  <2>1. StoredWorth \in [1..StoredTokens -> values]
    BY <1>c
  <2> HIDE DEF values
  <2>2. StoredWorth \in Seq(values) /\ Len(StoredWorth) = StoredTokens
    BY <1>c, <2>1, SeqDef
  <2> QED
    BY <1>b, <2>2 DEF values
<1>1. WalletTypes
  <2>1. /\ <<>> \in Seq(W!Token) /\ <<>> \in Seq(spent) /\ Len(<<>>) = 0
    OBVIOUS
  <2>2. \A c \in W!Caller : LocalTypes(c)
    BY <1>b, <2>1 DEF LocalTypes, W!NoLocal
  <2>3. local \in [W!Caller -> {local[c] : c \in W!Caller}]
    BY <1>b
  <2>4. /\ tokenEvents \subseteq 1..Len(worth) /\ deletionEvents \subseteq spent
        /\ spent \subseteq 1..Len(worth) /\ SpentBefore \subseteq spent
        /\ owned \subseteq 1..Len(worth) /\ Len(worth) \in StoredTokens..MaxToken
    BY <1>a, <1>b, <1>c, <1>e
  <2>5. /\ working \in [W!Loader -> W!Token \cup {None}]
        /\ below \in [W!Loader -> Nat]
        /\ list \in Seq(W!Token) /\ len \in 0..Len(list)
        /\ pendingDeletions \in Seq(spent) /\ toDelete \in Seq(spent)
    BY <1>b, <2>1
  <2> QED
    BY <1>e, <2>2, <2>3, <2>4, <2>5 DEF WalletTypes
<1>2. CallsHold
  BY <1>a, <1>b, Callers DEF CallsHold, Holds, SendHas
<1>3. LoadersWork
  BY <1>b DEF LoadersWork, W!Loader
<1>4. RemovalsApart
  BY <1>b, <1>d DEF RemovalsApart
<1>5. Listed
  BY <1>b, <1>d DEF Listed
<1>6. ChosenStand
  BY <1>a, <1>b, Callers DEF ChosenStand, Stands, W!NoLocal
<1>7. MadeIsNew
  BY <1>a, <1>b DEF MadeIsNew, Makes
<1>8. SpentGoes
  BY <1>d DEF SpentGoes
<1>9. SpentAwaited
  BY <1>a, <1>b DEF SpentAwaited, Arrives, Pursued, W!Loader
<1> QED
  BY <1>1, <1>2, <1>3, <1>4, <1>5, <1>6, <1>7, <1>8, <1>9 DEF Sound

LEMMA LoadingKeeps ==
  ASSUME Sound, causes' = {}, ~ W!Panicked', W!Loading
  PROVE  Sound'
<1>1. ASSUME NEW l \in W!Loader, W!OutOfRange(l) PROVE FALSE
  <2>1. loading' = [loading EXCEPT ![l] = "panic"] /\ DOMAIN loading = W!Loader
    BY <1>1 DEF W!OutOfRange, Sound, LoadersWork
  <2> QED
    BY <2>1 DEF W!Panicked
<1>2. ASSUME NEW l \in W!Loader, W!Removals(l) PROVE Sound'
  BY <1>1, <1>2, LookAtKeeps, MoveLastKeeps, CutLastKeeps, RemovedKeeps DEF W!Removals
<1> QED
  BY <1>2, RangePendingKeeps, NextPendingKeeps, ForgetPendingKeeps, AddTokenKeeps,
     ReplaceTokenKeeps, KeepDeletionKeeps DEF W!Loading

LEMMA SendingKeeps ==
  ASSUME Sound, causes' = {}, NEW s \in Sends,
         W!SwapFails(s) \/ W!AnswerLost(s) \/ W!ChangeFails(s) \/ W!PublishChange(s)
         \/ W!PublishHistory(s)
  PROVE  Sound'
<1>1. CASE W!SwapFails(s)
  BY <1>1, EndsKeeps
     DEF W!SwapFails, W!listVars, W!loaderVars, W!eventVars, W!mintVars
<1>2. CASE W!AnswerLost(s)
  BY <1>2 DEF W!AnswerLost
<1>3. CASE W!ChangeFails(s)
  BY <1>3, EndsKeeps
     DEF W!ChangeFails, W!listVars, W!loaderVars, W!eventVars, W!mintVars
<1>4. CASE W!PublishChange(s)
  BY <1>4, Callers, PublishTokenKeeps DEF W!PublishChange
<1>5. CASE W!PublishHistory(s)
  BY <1>5, EndsKeeps
     DEF W!PublishHistory, W!listVars, W!loaderVars, W!eventVars, W!mintVars
<1> QED
  BY <1>1, <1>2, <1>3, <1>4, <1>5

LEMMA CallsKeep ==
  ASSUME Sound, causes' = {}, W!Calls
  PROVE  Sound'
<1>1. ASSUME NEW r \in Receives, W!PublishReceived(r) PROVE Sound'
  BY <1>1, Callers, PublishTokenKeeps DEF W!PublishReceived
<1> QED
  BY <1>1, SendingKeeps, SwapSucceedsKeeps, ReadUsedKeeps, AnnounceKeeps,
     KeepRestKeeps, StoreChangeKeeps, AppendReceivedKeeps DEF W!Calls

LEMMA RequestsKeep ==
  ASSUME Sound, causes' = {}, W!Requests
  PROVE  Sound'
<1>1. ASSUME NEW s \in Sends, W!NotEnough(s) PROVE Sound'
  <2>1. s \in W!Caller
    BY Callers
  <2> QED
    BY <1>1, <2>1, NotEnoughKeeps
<1>2. ASSUME NEW r \in Receives, NEW to \in {"publish", "failed"}, W!ReceiveSwaps(r, to)
      PROVE  Sound'
  BY <1>2, Callers, NotEnoughKeeps
<1> QED
  BY <1>1, <1>2, ChooseKeeps, ReadTokenKeeps, ReadDeletionKeeps, EoseKeeps
     DEF W!Requests

(* What has upset the books is not forgotten.                               *)
LEMMA CausesStay == W!Next => causes \subseteq causes'
<1>1. W!Loading => causes \subseteq causes'
  BY DEF W!Loading, W!RangePending, W!NextPending, W!ForgetPending, W!AddToken,
     W!ReplaceToken, W!KeepDeletion, W!Removals, W!LookAt, W!MoveLast, W!CutLast,
     W!Removed, W!OutOfRange
<1>2. W!Calls => causes \subseteq causes'
  BY DEF W!Calls, W!SwapSucceeds, W!SwapFails, W!AnswerLost, W!ReadUsed, W!Announce,
     W!KeepRest, W!ChangeFails, W!PublishChange, W!PublishToken, W!StoreChange,
     W!PublishHistory, W!PublishReceived, W!AppendReceived
<1>3. W!Requests => causes \subseteq causes'
  BY DEF W!Requests, W!Choose, W!NotEnough, W!ReceiveSwaps, W!ReadToken,
     W!ReadDeletion, W!Eose
<1> QED
  BY <1>1, <1>2, <1>3 DEF W!Next

LEMMA WalletNextKeeps == WalletInv /\ [W!Next]_(W!vars) => WalletInv'
<1>1. ASSUME WalletInv, W!Next PROVE WalletInv'
  <2> SUFFICES ASSUME causes' = {}, ~ W!Panicked' PROVE Sound'
    BY DEF WalletInv
  <2>1. Sound
    BY <1>1, CausesStay DEF WalletInv, W!Next
  <2> QED
    BY <1>1, <2>1, LoadingKeeps, CallsKeep, RequestsKeep DEF W!Next
<1>2. ASSUME WalletInv, UNCHANGED W!vars PROVE WalletInv'
  <2>1. UNCHANGED <<list, len, pendingDeletions, eosed, loading, working, below,
                    toDelete, walletPc, local, tokenEvents, deletionEvents, worth,
                    spent, walletMu, tokensMu, owned, causes>>
    BY <1>2 DEF W!vars, W!listVars, W!loaderVars, W!callVars, W!eventVars, W!mintVars
  <2>2. W!Panicked' = W!Panicked /\ W!Removing' = W!Removing /\ Real' = Real
    BY <2>1 DEF W!Panicked, W!Removing, Real
  <2> SUFFICES ASSUME Sound PROVE Sound'
    BY <1>2, <2>1, <2>2 DEF WalletInv
  <2>3. WalletTypes' /\ CallsHold' /\ LoadersWork' /\ RemovalsApart' /\ Listed'
    BY <2>1, <2>2 DEF Sound, WalletTypes, LocalTypes, CallsHold, Holds, SendHas,
       LoadersWork, RemovalsApart, Listed
  <2>4. ChosenStand' /\ MadeIsNew'
    BY <2>1, <2>2 DEF Sound, ChosenStand, Stands, InputsStand, InputsSpent, RestKept,
       MadeIsNew, Makes, New
  <2>5. SpentGoes' /\ SpentAwaited'
    BY <2>1, <2>2 DEF Sound, SpentGoes, SpentAwaited, Pursued, Announcing, Announces,
       Sought, Arrives
  <2> QED
    BY <2>3, <2>4, <2>5 DEF Sound
<1> QED
  BY <1>1, <1>2

(* While nothing has upset the books of the wallet - no list changed under  *)
(* somebody's hands, no deletion too early, no answer of the mint lost - a  *)
(* spent token in its list has a deletion on its way, every other token that *)
(* it knows of is there once, and what a Send chose is where it was         *)
(* (nip60/wallet.go:128, send.go:112), for any calls, tokens and amounts.   *)
THEOREM WalletInvariant == W!Spec => []WalletInv
<1>1. W!Init => WalletInv
  BY WalletInit DEF WalletInv
<1> QED
  BY <1>1, WalletNextKeeps, PTL DEF W!Spec

(* Then, once the wallet is stable, its calls are settled and everything    *)
(* published has come back, it has what it owns and has not spent, once,    *)
(* and nothing else (nip60/wallet.go:186, send.go:151, receive.go:149).     *)
THEOREM WalletIsBalanced == W!Spec => []W!Balanced
<1>1. WalletInv => W!Balanced
  <2> SUFFICES ASSUME WalletInv, W!Quiet, causes = {}, NEW t \in 1..Len(worth)
      PROVE  W!Cardinality({i \in 1..len : list[i] = t}) =
               IF t \in owned \ spent THEN 1 ELSE 0
    BY DEF W!Balanced
  <2>1. /\ \A l \in W!Loader : loading[l] \in {"wait", "stable"}
        /\ loading["eose"] = "stable" /\ deletionEvents = {}
        /\ \A c \in W!Caller : walletPc[c] \in {"idle", "done", "failed"}
    BY DEF W!Quiet, W!Settled
  <2>2. Sound
    BY <2>1 DEF WalletInv, W!Panicked
  <2>3. Real = len
    BY <2>1 DEF Real, W!Removing
  <2>4. \A p \in 1..len : list[p] \notin spent
    <3> SUFFICES ASSUME NEW p \in 1..len, list[p] \in spent PROVE FALSE
      OBVIOUS
    <3>1. ~ Pursued(list[p])
      BY <2>1, <2>2 DEF Pursued
    <3>2. ~ Announcing(list[p])
      BY <2>1, Callers DEF Announcing, Announces
    <3>3. ~ Sought(p)
      BY <2>1 DEF Sought
    <3> QED
      BY <2>2, <2>3, <3>1, <3>2, <3>3 DEF Sound, SpentGoes
  <2> DEFINE places == {i \in 1..len : list[i] = t}
  <2>5. W!Cardinality(places) = Cardinality(places)
    BY DEF W!Cardinality, Cardinality
  <2>6. CASE t \in owned \ spent
    <3>1. PICK p \in 1..len : list[p] = t
      BY <2>2, <2>3, <2>6 DEF Sound, Listed
    <3>2. places = {p}
      BY <2>2, <2>3, <3>1 DEF Sound, Listed
    <3> HIDE DEF places
    <3>3. Cardinality(places) = 1
      BY <3>2, FS_Singleton
    <3> QED
      BY <2>5, <2>6, <3>3 DEF places
  <2>7. CASE t \notin owned \ spent
    <3>1. places = {}
      BY <2>2, <2>3, <2>4, <2>7 DEF Sound, Listed
    <3> HIDE DEF places
    <3>2. Cardinality(places) = 0
      BY <3>1, FS_EmptySet
    <3> QED
      BY <2>5, <2>7, <3>2 DEF places
  <2> QED
    BY <2>6, <2>7
<1> QED
  BY <1>1, WalletInvariant, PTL
--------------------------------------------------------------------------------
(***************************************************************************)
(* The locks of the wallet, whatever has upset its books: w.Mutex is held   *)
(* by the deletions' and the events' goroutine while they handle an event,  *)
(* tokensMu by a Send, and nobody who holds one waits for another who       *)
(* waits for it, unless LockedUp.                                           *)
(***************************************************************************)
Handler == {"deletions", "events"}

LocksHeld ==
  /\ CallsHold
  /\ tokensMu \in Sends \cup {None}
  /\ loading \in [W!Loader -> {"wait", "range", "next", "add", "replaces", "keep",
       "remove", "cut", "stable", "panic"}]
  /\ loading["eose"] \notin {"add", "replaces", "keep"}
  /\ loading["deletions"] \notin {"range", "next", "add", "replaces", "stable"}
  /\ loading["events"] \notin {"range", "next", "stable"}
  /\ walletMu \in Handler \cup {None}
  /\ \A l \in Handler : walletMu = l <=> loading[l] # "wait"

(* A goroutine at these lines has a next step, whatever it finds; but to    *)
(* add a token to the list it waits for tokensMu.                           *)
HandlerGoesOn(l) ==
  \/ loading[l] \in {"replaces", "keep", "remove", "cut"}
  \/ loading[l] = "add" /\ tokensMu = None

(* So has a Send; but to publish it waits for w.Mutex.                      *)
SendGoesOn(s) ==
  \/ walletPc[s] \in {"swap", "delete", "store"}
  \/ walletPc[s] \in {"announce", "change", "history"} /\ walletMu = None

MutexMoves == walletMu \in Handler /\ HandlerGoesOn(walletMu)
TokensMuMoves == tokensMu \in Sends /\ SendGoesOn(tokensMu)

(* A lock that is taken is with somebody who can go on, or who waits for    *)
(* the other lock, which is with somebody who can.                          *)
LocksComeFree ==
  ~ W!Panicked /\ ~ W!LockedUp =>
    /\ walletMu # None => MutexMoves \/ TokensMuMoves
    /\ tokensMu # None => TokensMuMoves \/ MutexMoves
--------------------------------------------------------------------------------
LEMMA LockNames ==
  /\ \A l \in Handler : l \in W!Loader /\ l # None /\ l # "eose"
  /\ \A l \in W!Loader : l = "eose" \/ l \in Handler
  /\ "eose" \in W!Loader /\ "deletions" # "events"
BY WalletingAssumption DEF W!WalletAssumption, W!Loader, Handler

LEMMA LocksStart == W!Init => LocksHeld
BY LockNames, Callers
   DEF W!Init, LocksHeld, CallsHold, Holds, SendHas, Handler, W!Loader

(* A step of a goroutine that handles an event takes w.Mutex with the event *)
(* and gives it back when it waits for the next.                            *)
LEMMA HandlerKeepsLocks ==
  ASSUME LocksHeld, NEW l \in Handler,
         NEW to \in {"wait", "add", "replaces", "keep", "remove", "cut", "panic"},
         to \in {"add", "replaces"} => l = "events",
         loading' = [loading EXCEPT ![l] = to],
         loading[l] = "wait" => walletMu = None,
         walletMu' = IF to = "wait" THEN None ELSE l,
         UNCHANGED <<walletPc, tokensMu>>
  PROVE  LocksHeld'
<1>1. walletMu \in {None, l}
  BY LockNames DEF LocksHeld
<1>2. \A m \in W!Loader : loading'[m] = IF m = l THEN to ELSE loading[m]
  BY DEF LocksHeld
<1>3. \A m \in Handler : walletMu' = m <=> loading'[m] # "wait"
  BY <1>1, <1>2, LockNames DEF LocksHeld
<1>4. /\ loading' \in [W!Loader -> {"wait", "range", "next", "add", "replaces", "keep",
                         "remove", "cut", "stable", "panic"}]
      /\ loading'["eose"] \notin {"add", "replaces", "keep"}
      /\ loading'["deletions"] \notin {"range", "next", "add", "replaces", "stable"}
      /\ loading'["events"] \notin {"range", "next", "stable"}
  BY <1>2, LockNames DEF LocksHeld, Handler
<1>5. CallsHold'
  BY DEF LocksHeld, CallsHold, Holds, SendHas
<1>6. tokensMu' \in Sends \cup {None} /\ walletMu' \in Handler \cup {None}
  BY DEF LocksHeld
<1> QED
  BY <1>3, <1>4, <1>5, <1>6 DEF LocksHeld

(* The goroutine of the EOSE takes no lock.                                 *)
LEMMA EoseKeepsLocks ==
  ASSUME LocksHeld,
         NEW to \in {"wait", "range", "next", "remove", "cut", "stable", "panic"},
         loading' = [loading EXCEPT !["eose"] = to],
         UNCHANGED <<walletPc, tokensMu, walletMu>>
  PROVE  LocksHeld'
<1>1. \A m \in W!Loader : loading'[m] = IF m = "eose" THEN to ELSE loading[m]
  BY DEF LocksHeld
<1>2. \A m \in Handler : walletMu' = m <=> loading'[m] # "wait"
  BY <1>1, LockNames DEF LocksHeld
<1>3. /\ loading' \in [W!Loader -> {"wait", "range", "next", "add", "replaces", "keep",
                         "remove", "cut", "stable", "panic"}]
      /\ loading'["eose"] \notin {"add", "replaces", "keep"}
      /\ loading'["deletions"] \notin {"range", "next", "add", "replaces", "stable"}
      /\ loading'["events"] \notin {"range", "next", "stable"}
  BY <1>1, LockNames DEF LocksHeld, Handler
<1>4. CallsHold'
  BY DEF LocksHeld, CallsHold, Holds, SendHas
<1> QED
  BY <1>2, <1>3, <1>4 DEF LocksHeld

(* The lines that a Send passes between the two ends of its lock.           *)
SendLines == {"swap", "delete", "announce", "change", "store", "history"}

(* A Send takes tokensMu with the first of them and gives it back with the  *)
(* last.                                                                    *)
LEMMA SendKeepsLocks ==
  ASSUME LocksHeld, NEW s \in Sends, NEW to \in SendLines \cup {"done", "failed"},
         walletPc' = [walletPc EXCEPT ![s] = to],
         walletPc[s] \in SendLines \/ tokensMu = None,
         tokensMu' = IF to \in SendLines THEN s ELSE None,
         UNCHANGED <<loading, walletMu>>
  PROVE  LocksHeld'
<1>1. \A c \in W!Caller : walletPc'[c] = IF c = s THEN to ELSE walletPc[c]
  BY DEF LocksHeld, CallsHold
<1>2. tokensMu \in {None, s}
  BY Callers DEF LocksHeld, CallsHold, Holds, SendHas, SendLines
<1>3. ASSUME NEW c \in W!Caller PROVE Holds(c)'
  <2>1. Holds(c) /\ walletPc'[c] = IF c = s THEN to ELSE walletPc[c]
    BY <1>1 DEF LocksHeld, CallsHold
  <2>2. CASE c = s
    BY <1>2, <2>1, <2>2, Callers DEF Holds, SendHas, SendLines
  <2>3. CASE c # s
    BY <1>2, <2>1, <2>3, Callers DEF Holds, SendHas
  <2> QED
    BY <2>2, <2>3
<1>4. walletPc' \in [W!Caller -> {"idle", "swap", "delete", "announce", "change",
                      "store", "history", "publish", "append", "done", "failed"}]
  BY DEF LocksHeld, CallsHold, SendLines
<1> QED
  BY <1>3, <1>4 DEF LocksHeld, CallsHold

LEMMA ReceiveKeepsLocks ==
  ASSUME LocksHeld, NEW c \in W!Caller, NEW to \in {"publish", "append", "done", "failed"},
         to \in {"publish", "append"} => c \in Receives,
         walletPc' = [walletPc EXCEPT ![c] = to], walletPc[c] \notin SendLines,
         UNCHANGED <<loading, walletMu, tokensMu>>
  PROVE  LocksHeld'
<1>1. \A d \in W!Caller : walletPc'[d] = IF d = c THEN to ELSE walletPc[d]
  BY DEF LocksHeld, CallsHold
<1>2. ASSUME NEW d \in W!Caller PROVE Holds(d)'
  <2>1. Holds(d) /\ walletPc'[d] = IF d = c THEN to ELSE walletPc[d]
    BY <1>1 DEF LocksHeld, CallsHold
  <2>2. CASE d = c
    <3>1. walletPc'[d] = to /\ to \notin SendLines /\ walletPc[d] \notin SendLines
      BY <2>1, <2>2 DEF SendLines
    <3>2. d \in Sends => to \notin {"publish", "append"}
      BY <2>2, Callers
    <3> QED
      BY <2>1, <3>1, <3>2 DEF Holds, SendHas, SendLines
  <2>3. CASE d # c
    BY <2>1, <2>3 DEF Holds, SendHas
  <2> QED
    BY <2>2, <2>3
<1>3. walletPc' \in [W!Caller -> {"idle", "swap", "delete", "announce", "change",
                      "store", "history", "publish", "append", "done", "failed"}]
  BY DEF LocksHeld, CallsHold
<1> QED
  BY <1>2, <1>3 DEF LocksHeld, CallsHold
--------------------------------------------------------------------------------
LEMMA RemovalKeepsLocks ==
  ASSUME LocksHeld, NEW l \in W!Loader, W!Removals(l) \/ W!KeepDeletion(l)
  PROVE  LocksHeld'
<1>1. /\ l = "eose" \/ l \in Handler
      /\ l \in Handler /\ loading[l] # "wait" => walletMu = l
      /\ l = "eose" => loading[l] # "keep"
      /\ l # "eose" <=> l \in Handler
  BY LockNames DEF LocksHeld
<1>2. ASSUME W!LookAt(l) PROVE LocksHeld'
  BY <1>2 DEF W!LookAt, W!callVars, LocksHeld, CallsHold, Holds, SendHas
<1>3. ASSUME W!MoveLast(l) \/ W!CutLast(l) \/ W!OutOfRange(l) PROVE LocksHeld'
  <2>1. /\ loading[l] \in {"remove", "cut"}
        /\ \E to \in {"cut", "remove", "panic"} : loading' = [loading EXCEPT ![l] = to]
        /\ UNCHANGED <<walletPc, tokensMu, walletMu>>
    BY <1>3 DEF W!MoveLast, W!CutLast, W!OutOfRange, W!Here, W!Loads, W!callVars
  <2> QED
    BY <1>1, <2>1, HandlerKeepsLocks, EoseKeepsLocks
<1>4. ASSUME W!Removed(l) PROVE LocksHeld'
  <2>1. CASE l = "eose"
    BY <1>4, <2>1, EoseKeepsLocks DEF W!Removed, W!callVars
  <2>2. CASE l # "eose"
    BY <1>1, <1>4, <2>2, HandlerKeepsLocks DEF W!Removed, W!callVars
  <2> QED
    BY <2>1, <2>2
<1>5. ASSUME W!KeepDeletion(l) PROVE LocksHeld'
  BY <1>1, <1>5, HandlerKeepsLocks DEF W!KeepDeletion, W!Loads, W!callVars
<1> QED
  BY <1>2, <1>3, <1>4, <1>5 DEF W!Removals

LEMMA LoadingKeepsLocks ==
  ASSUME LocksHeld, W!Loading
  PROVE  LocksHeld'
<1>1. ASSUME W!RangePending \/ W!NextPending \/ W!ForgetPending PROVE LocksHeld'
  BY <1>1, EoseKeepsLocks
     DEF W!RangePending, W!NextPending, W!ForgetPending, W!Loads, W!callVars
<1>2. "events" \in Handler /\ (loading["events"] # "wait" => walletMu = "events")
  BY DEF LocksHeld, Handler
<1>3. ASSUME W!AddToken PROVE LocksHeld'
  <2>1. /\ loading["events"] = "add" /\ UNCHANGED <<walletPc, tokensMu>>
        /\ \E to \in {"replaces", "wait"} :
             /\ loading' = [loading EXCEPT !["events"] = to]
             /\ walletMu' = IF to = "wait" THEN None ELSE walletMu
    BY <1>3 DEF W!AddToken, W!Loads, W!callVars
  <2> QED
    BY <1>2, <2>1, HandlerKeepsLocks
<1>4. ASSUME W!ReplaceToken PROVE LocksHeld'
  <2>1. /\ loading["events"] = "replaces" /\ UNCHANGED <<walletPc, tokensMu, walletMu>>
        /\ \E to \in {"remove", "keep"} : loading' = [loading EXCEPT !["events"] = to]
    BY <1>4 DEF W!ReplaceToken, W!HandleDeletion, W!Loads, W!callVars
  <2> QED
    BY <1>2, <2>1, HandlerKeepsLocks
<1> QED
  BY <1>1, <1>3, <1>4, RemovalKeepsLocks DEF W!Loading

LEMMA CallsKeepLocks ==
  ASSUME LocksHeld, W!Calls
  PROVE  LocksHeld'
<1>1. ASSUME NEW s \in Sends, walletPc[s] \in SendLines PROVE tokensMu = s
  BY <1>1, Callers DEF LocksHeld, CallsHold, Holds, SendHas, SendLines
<1>2. ASSUME NEW s \in Sends,
             W!SwapSucceeds(s) \/ W!ReadUsed(s) \/ W!Announce(s) \/ W!KeepRest(s)
             \/ W!PublishChange(s) \/ W!StoreChange(s)
      PROVE  LocksHeld'
  <2>1. /\ walletPc[s] \in SendLines /\ UNCHANGED <<loading, walletMu, tokensMu>>
        /\ \E to \in SendLines : walletPc' = [walletPc EXCEPT ![s] = to]
    BY <1>2 DEF W!SwapSucceeds, W!ReadUsed, W!Announce, W!KeepRest, W!PublishChange,
                W!PublishToken, W!StoreChange, W!Goto, W!loaderVars, SendLines
  <2> QED
    BY <1>1, <2>1, SendKeepsLocks
<1>3. ASSUME NEW s \in Sends,
             W!SwapFails(s) \/ W!AnswerLost(s) \/ W!ChangeFails(s) \/ W!PublishHistory(s)
      PROVE  LocksHeld'
  <2>1. /\ walletPc[s] \in SendLines /\ UNCHANGED <<loading, walletMu>>
        /\ tokensMu' = None
        /\ \E to \in {"failed", "done"} : walletPc' = [walletPc EXCEPT ![s] = to]
    BY <1>3 DEF W!SwapFails, W!AnswerLost, W!ChangeFails, W!PublishHistory, W!Ends,
                W!Goto, W!loaderVars, SendLines
  <2>2. \A to \in {"failed", "done"} : to \notin SendLines
    BY DEF SendLines
  <2> QED
    BY <2>1, <2>2, SendKeepsLocks
<1>4. ASSUME NEW r \in Receives, W!PublishReceived(r) \/ W!AppendReceived(r)
      PROVE  LocksHeld'
  <2>1. /\ walletPc[r] \notin SendLines /\ UNCHANGED <<loading, walletMu, tokensMu>>
        /\ \E to \in {"append", "done"} : walletPc' = [walletPc EXCEPT ![r] = to]
    BY <1>4 DEF W!PublishReceived, W!PublishToken, W!AppendReceived, W!Goto,
                W!loaderVars, SendLines
  <2> QED
    BY <2>1, Callers, ReceiveKeepsLocks
<1> QED
  BY <1>2, <1>3, <1>4 DEF W!Calls

LEMMA RequestsKeepLocks ==
  ASSUME LocksHeld, W!Requests
  PROVE  LocksHeld'
<1>1. ASSUME NEW s \in Sends, W!Choose(s) PROVE LocksHeld'
  <2>1. /\ tokensMu = None /\ tokensMu' = s /\ UNCHANGED <<loading, walletMu>>
        /\ walletPc' = [walletPc EXCEPT ![s] = "swap"]
    BY <1>1 DEF W!Choose, W!Goto, W!loaderVars
  <2>2. "swap" \in SendLines
    BY DEF SendLines
  <2> QED
    BY <2>1, <2>2, SendKeepsLocks
<1>2. ASSUME NEW c \in W!Caller, NEW to \in {"publish", "failed"},
             to = "publish" => c \in Receives,
             W!Goto(c, "idle", to), UNCHANGED <<loading, walletMu, tokensMu>>
      PROVE  LocksHeld'
  <2>1. walletPc[c] \notin SendLines /\ walletPc' = [walletPc EXCEPT ![c] = to]
    BY <1>2 DEF W!Goto, SendLines
  <2> QED
    BY <1>2, <2>1, ReceiveKeepsLocks
<1>3. ASSUME NEW s \in Sends, W!NotEnough(s) PROVE LocksHeld'
  BY <1>2, <1>3, Callers DEF W!NotEnough, W!loaderVars
<1>4. ASSUME NEW r \in Receives, NEW to \in {"publish", "failed"}, W!ReceiveSwaps(r, to)
      PROVE  LocksHeld'
  BY <1>2, <1>4, Callers DEF W!ReceiveSwaps, W!loaderVars
<1>5. ASSUME NEW t \in W!Token, W!ReadToken(t) PROVE LocksHeld'
  <2>1. /\ walletMu = None /\ walletMu' = "events" /\ UNCHANGED <<walletPc, tokensMu>>
        /\ loading' = [loading EXCEPT !["events"] = "add"]
    BY <1>5 DEF W!ReadToken, W!Loads, W!callVars
  <2> QED
    BY <2>1, HandlerKeepsLocks DEF Handler
<1>6. ASSUME NEW t \in W!Token, W!ReadDeletion(t) PROVE LocksHeld'
  <2>1. /\ walletMu = None /\ walletMu' = "deletions"
        /\ UNCHANGED <<walletPc, tokensMu>>
        /\ \E to \in {"remove", "keep"} : loading' = [loading EXCEPT !["deletions"] = to]
    BY <1>6 DEF W!ReadDeletion, W!HandleDeletion, W!Loads, W!callVars
  <2> QED
    BY <2>1, HandlerKeepsLocks DEF Handler
<1>7. ASSUME W!Eose PROVE LocksHeld'
  BY <1>7, EoseKeepsLocks DEF W!Eose, W!Loads, W!callVars
<1> QED
  BY <1>1, <1>3, <1>4, <1>5, <1>6, <1>7 DEF W!Requests

LEMMA LocksStep == LocksHeld /\ [W!Next]_(W!vars) => LocksHeld'
<1>1. LocksHeld /\ W!Next => LocksHeld'
  BY LoadingKeepsLocks, CallsKeepLocks, RequestsKeepLocks DEF W!Next
<1>2. LocksHeld /\ UNCHANGED W!vars => LocksHeld'
  BY DEF W!vars, W!loaderVars, W!callVars, LocksHeld, CallsHold, Holds, SendHas
<1> QED
  BY <1>1, <1>2

LEMMA LocksFree == LocksHeld => LocksComeFree
<1> SUFFICES ASSUME LocksHeld, ~ W!Panicked, ~ W!LockedUp
    PROVE  /\ walletMu # None => MutexMoves \/ TokensMuMoves
           /\ tokensMu # None => TokensMuMoves \/ MutexMoves
  BY DEF LocksComeFree
<1>1. ASSUME walletMu # None PROVE MutexMoves \/ (walletMu = "events" /\
        loading["events"] = "add" /\ tokensMu # None)
  <2>1. walletMu \in Handler /\ walletMu \in W!Loader /\ loading[walletMu] # "wait"
    BY <1>1, LockNames DEF LocksHeld
  <2>2. loading[walletMu] # "panic"
    BY <2>1 DEF W!Panicked
  <2> QED
    BY <2>1, <2>2 DEF LocksHeld, MutexMoves, HandlerGoesOn, Handler
<1>2. ASSUME tokensMu # None PROVE TokensMuMoves \/ (tokensMu \in Sends /\ walletMu # None
        /\ walletPc[tokensMu] \in {"announce", "change", "history"})
  <2>1. tokensMu \in Sends /\ tokensMu \in W!Caller
    BY <1>2, Callers DEF LocksHeld
  <2>2. Holds(tokensMu)
    BY <2>1 DEF LocksHeld, CallsHold
  <2>3. SendHas(tokensMu)
    BY <2>1, <2>2 DEF Holds, SendHas
  <2> QED
    BY <2>1, <2>3 DEF TokensMuMoves, SendGoesOn, SendHas
<1> QED
  BY <1>1, <1>2 DEF W!LockedUp

(* w.Mutex is with the goroutine that handles an event, tokensMu with the   *)
(* Send between its choice of tokens and its return, and nobody else        *)
(* (nip60/wallet.go:161, send.go:63), for any calls and tokens, and whether *)
(* or not something has upset the books.                                    *)
THEOREM LocksAreHeld == W!Spec => []LocksHeld
<1> QED
  BY LocksStart, LocksStep, PTL DEF W!Spec

(* Nobody waits for a lock of the wallet in vain: it is with somebody who   *)
(* can go on, or who waits for one who can - but for the one deadlock, and  *)
(* a panic (wallet.go:161, 186, send.go:63, 112, 151, 171).                 *)
THEOREM OnlyOneDeadlock == W!Spec => []LocksComeFree
BY LocksAreHeld, LocksFree, PTL
--------------------------------------------------------------------------------
(***************************************************************************)
(* The composition.                                                        *)
(***************************************************************************)

LEMMA SameCardinality ==
  ASSUME NEW set PROVE S!Cardinality(set) = SP!Cardinality(set)
BY DEF S!Cardinality, SP!Cardinality

(* The two names of the machine of a NegentropySync are about the same      *)
(* steps.                                                                   *)
LEMMA SameSync ==
  /\ SP!SyncAssumption
  /\ S!Init => SP!Init
  /\ S!Next => SP!Next
  /\ UNCHANGED syncVars => UNCHANGED SP!vars
<1>1. SP!SyncAssumption
  BY SyncingAssumption DEF S!SyncAssumption, SP!SyncAssumption, S!SyncCall,
    SP!SyncCall, S!Dir, SP!Dir
<1>2. S!Init => SP!Init
  BY DEF S!Init, SP!Init, S!Blank, SP!Blank, S!Dir, SP!Dir
<1>3. S!Next => SP!Next
  <2>1. S!ReadMessage => SP!ReadMessage
    <3>1. \A set : S!Cardinality(set) = SP!Cardinality(set)
      BY SameCardinality
    <3>2. \A ids, k : S!FirstOf(ids, k) = SP!FirstOf(ids, k)
      BY <3>1 DEF S!FirstOf, SP!FirstOf
    <3> SUFFICES ASSUME S!ReadMessage PROVE SP!ReadMessage
      OBVIOUS
    <3> DEFINE Reports(part) ==
          /\ left' = [d \in S!Dir |-> left[d] \ part[d]]
          /\ \/ pending' = part /\ UNCHANGED repeats
             \/ /\ repeats < call.repeats
                /\ repeats' = repeats + 1
                /\ \E d \in S!Dir : \E i \in call.needs[d] \ left[d] :
                     pending' = [part EXCEPT ![d] = @ \cup {i}]
        Of(ups, downs) ==
          [d \in S!Dir |-> S!FirstOf(left[d], IF d = "up" THEN ups ELSE downs)]
        OfP(ups, downs) ==
          [d \in S!Dir |-> SP!FirstOf(left[d], IF d = "up" THEN ups ELSE downs)]
    <3>3. PICK ups \in 0..S!Cardinality(left["up"]),
               downs \in 0..S!Cardinality(left["down"]) : Reports(Of(ups, downs))
      BY DEF S!ReadMessage
    <3>4. Of(ups, downs) = OfP(ups, downs)
      BY <3>2
    <3>5. /\ ups \in 0..SP!Cardinality(left["up"])
          /\ downs \in 0..SP!Cardinality(left["down"])
      BY <3>1
    <3> HIDE DEF Of
    <3>6. Reports(OfP(ups, downs))
      BY <3>3, <3>4
    <3> QED
      BY <3>5, <3>6 DEF S!ReadMessage, SP!ReadMessage, S!Dir, SP!Dir, S!poolVars,
         SP!poolVars
  <2>2. \A d \in S!Dir : S!Push(d) => SP!Push(d)
    BY DEF S!Push, SP!Push, S!relayVars, SP!relayVars, S!poolVars, SP!poolVars,
           S!Dir, SP!Dir
  <2>3. S!EndMessage \/ S!ReadError \/ S!SendError =>
          SP!EndMessage \/ SP!ReadError \/ SP!SendError
    BY DEF S!EndMessage, SP!EndMessage, S!ReadError, SP!ReadError, S!SendError,
           SP!SendError, S!relayVars, SP!relayVars, S!poolVars,
           SP!poolVars, S!Dir, SP!Dir
  <2>4. S!Open \/ S!Succeed => SP!Open \/ SP!Succeed
    BY DEF S!Open, SP!Open, S!Succeed, SP!Succeed, S!AllDone, SP!AllDone,
           S!relayVars, SP!relayVars, S!poolVars, SP!poolVars, S!Dir,
           SP!Dir
  <2>5. \A d \in S!Dir : S!Grab(d) => SP!Grab(d)
    BY DEF S!Grab, SP!Grab, S!InUse, SP!InUse, S!Blank, SP!Blank, S!relayVars,
           SP!relayVars, S!poolVars, SP!poolVars, S!Dir, SP!Dir
  <2>6. \A d \in S!Dir : S!Collect(d) => SP!Collect(d)
    BY SameCardinality DEF S!Collect, SP!Collect, S!IsNew, SP!IsNew, S!Task, SP!Task, S!relayVars,
           SP!relayVars, S!poolVars, SP!poolVars, S!Dir, SP!Dir
  <2>7. \A d \in S!Dir : S!CollectRest(d) => SP!CollectRest(d)
    BY SameCardinality DEF S!CollectRest, SP!CollectRest, S!Task, SP!Task, S!relayVars,
           SP!relayVars, S!poolVars, SP!poolVars, S!Dir, SP!Dir
  <2>8. \A t : S!Query(t) \/ S!QueryFails(t) \/ S!ReportError(t) =>
          SP!Query(t) \/ SP!QueryFails(t) \/ SP!ReportError(t)
    BY DEF S!Query, SP!Query, S!QueryFails, SP!QueryFails, S!ReportError,
           SP!ReportError, S!TaskGoes, SP!TaskGoes, S!IdsIn, SP!IdsIn,
           S!relayVars, SP!relayVars, S!poolVars, SP!poolVars, S!Dir,
           SP!Dir
  <2>9. \A t : S!GivebackReads(t) \/ S!GivebackWrites(t) =>
          SP!GivebackReads(t) \/ SP!GivebackWrites(t)
    BY DEF S!GivebackReads, SP!GivebackReads, S!GivebackWrites, SP!GivebackWrites,
           S!InUse, SP!InUse, S!Blank, SP!Blank, S!relayVars,
           SP!relayVars, S!poolVars, SP!poolVars, S!Dir, SP!Dir
  <2> QED
    BY <2>1, <2>2, <2>3, <2>4, <2>5, <2>6, <2>7, <2>8, <2>9
       DEF S!Next, SP!Next, S!Step, SP!Step, S!Returned, SP!Returned,
           S!HandlerStep, SP!HandlerStep, S!CollectorStep,
           SP!CollectorStep, S!TaskStep, SP!TaskStep, S!Dir, SP!Dir
<1>4. UNCHANGED syncVars => UNCHANGED SP!vars
  BY DEF syncVars, SP!vars
<1> QED
  BY <1>1, <1>2, <1>3, <1>4

(* Whoever takes a step, it is one of the signer's client or leaves that    *)
(* client alone, and the same of the sync.                                  *)
LEMMA StepsApart ==
  ASSUME [MCNext]_allVars
  PROVE  [Next]_vars /\ [SP!Next]_(SP!vars)
BY SameSync DEF MCNext, allVars, Bunkers, Reconciles, Syncs, Wallets

(* A call returns the answer to its own request, whatever else the clients  *)
(* do (nip46/client.go:246).                                                *)
THEOREM ClientsAnswerOwn == MCSpec => []OwnAnswer
<1>1. MCInit => Init
  BY DEF MCInit
<1>2. [MCNext]_allVars => [Next]_vars
  BY StepsApart
<1>3. Spec => []OwnAnswer
  BY AnswersAreOwn
<1> QED
  BY <1>1, <1>2, <1>3, PTL DEF MCSpec, Spec

(* A NegentropySync that returns without an error has asked for every id,   *)
(* once, whatever else the clients do (nip77/nip77.go:77).                  *)
THEOREM ClientsSyncEveryId == MCSpec => []SyncIsComplete
<1>1. MCInit => SP!Init
  BY SameSync DEF MCInit
<1>2. [MCNext]_allVars => [SP!Next]_(SP!vars)
  BY StepsApart
<1>3. SP!Spec => []SP!SyncIsComplete
  BY SameSync, SP!SyncMovesEveryId
<1>4. SP!SyncIsComplete => SyncIsComplete
  BY DEF SyncIsComplete, S!SyncIsComplete, SP!SyncIsComplete
<1> QED
  BY <1>1, <1>2, <1>3, <1>4, PTL DEF MCSpec, SP!Spec

(* So it has whatever the other clients do.                                 *)
THEOREM ClientsKeepBalance == MCSpec => []Balanced
<1>1. MCInit => W!Init
  BY DEF MCInit
<1>2. [MCNext]_allVars => [W!Next]_(W!vars)
  BY DEF MCNext, allVars, walletVars, Bunkers, Reconciles, Syncs, Wallets, WalletNext,
     W!Progress, W!Next, W!vars, W!listVars, W!loaderVars, W!callVars, W!eventVars,
     W!mintVars
<1>3. W!Balanced => Balanced
  BY DEF Balanced
<1> QED
  BY <1>1, <1>2, <1>3, WalletIsBalanced, PTL DEF MCSpec, W!Spec

(* Nor do the other clients take part in who waits for whom at the wallet.  *)
THEOREM ClientsOnlyOneDeadlock == MCSpec => []LocksComeFree
<1>1. MCInit => LocksHeld
  BY LocksStart DEF MCInit
<1>2. [MCNext]_allVars => [W!Next]_(W!vars)
  BY DEF MCNext, allVars, walletVars, Bunkers, Reconciles, Syncs, Wallets, WalletNext,
     W!Progress, W!Next, W!vars, W!listVars, W!loaderVars, W!callVars, W!eventVars,
     W!mintVars
<1> QED
  BY <1>1, <1>2, LocksStep, LocksFree, PTL DEF MCSpec
--------------------------------------------------------------------------------
(***************************************************************************)
(* The reconciliation.                                                      *)
(***************************************************************************)
(* A range of a message; where one starts, after a message has begun at p,  *)
(* and where the message ends.                                              *)
MessageRange ==
  [mode : {"skip", "fingerprint", "idlist"}, bound : 1..N!Infinite,
   items : SUBSET N!Item]

From(m, p, k) == IF k = 1 THEN p ELSE m[k - 1].bound

Until(m, p) == IF m = <<>> THEN p ELSE m[Len(m)].bound

(* The ranges follow each other.                                            *)
Ordered(m, p) ==
  /\ \A k \in 1..Len(m) : p <= m[k].bound
  /\ \A j, k \in 1..Len(m) : j < k => m[j].bound <= m[k].bound

(* A list is all that side s has in the range, a fingerprint is of nothing  *)
(* that it has elsewhere.                                                   *)
Told(r, lower, s) ==
  /\ r.mode = "idlist" => r.items = N!Between(s, lower, r.bound)
  /\ r.mode = "fingerprint" => r.items \subseteq N!Between(s, lower, r.bound)

Truthful(m, p, s) ==
  /\ m \in Seq(MessageRange)
  /\ Ordered(m, p)
  /\ \A k \in 1..Len(m) : Told(m[k], From(m, p, k), s)

ReconcileTypes ==
  /\ has \in [N!Side -> SUBSET N!Item]
  /\ turn \in N!Side
  /\ prevBound \in 0..N!Infinite
  /\ skipping \in BOOLEAN /\ done \in BOOLEAN

(* A range that is not skipped when it is read: i is in it, and the reader  *)
(* does not have what the fingerprint is of.                                *)
Covers(r, lower, i, reader) ==
  /\ lower <= i /\ i < r.bound
  /\ r.mode # "skip"
  /\ r.mode = "fingerprint" => r.items # N!Between(reader, lower, r.bound)

Covered(i, m, p, reader) ==
  \E k \in 1..Len(m) : Covers(m[k], From(m, p, k), i, reader)

(* One side has i and the other has not.                                    *)
Differs(i) == (i \in has["client"]) # (i \in has["server"])

Sender == IF turn = "client" THEN "server" ELSE "client"

Beyond(s, x) == \E y \in has[s] : x <= y

Nothing(r) == r.mode = "fingerprint" /\ r.items = {}

(* Only a message that was cut off has a fingerprint of nothing, at its end: *)
(* what was cut off, or what the list before it has, is where its sender     *)
(* has something.                                                           *)
Late(m, p, k, s) ==
  \/ Beyond(s, From(m, p, k))
  \/ k > 1 /\ s = "server" /\ m[k - 1].mode = "idlist" /\ m[k - 1].items # {}

NothingIsLast ==
  /\ \A k \in 1..Len(input) : Nothing(input[k]) =>
       /\ input[k].bound = N!Infinite
       /\ k = 1 => Beyond(Sender, Until(output, 0))
       /\ k # 1 => Late(input, prevBound, k, Sender)
  /\ \A k \in 1..Len(output) : Nothing(output[k]) =>
       output[k].bound = N!Infinite /\ Late(output, 0, k, turn)

(* What is written ends where reading is, or where the skip that is due     *)
(* begins.                                                                  *)
WrittenSoFar ==
  input # <<>> =>
    /\ N!Size(output) <= FrameLimit[turn]
    /\ Until(output, 0) <= prevBound
    /\ skipping => prevBound # 0
    /\ ~ skipping => Until(output, 0) = prevBound

Reported ==
  /\ haves \subseteq has["client"] \ has["server"]
  /\ haveNots \subseteq has["server"] \ has["client"]

Outstanding(i) ==
  \/ i \in (has["client"] \ has["server"]) \ haves
  \/ i \in (has["server"] \ has["client"]) \ haveNots

(* A difference that is not reported yet is not lost.                       *)
NothingLost ==
  \A i \in N!Item : Outstanding(i) =>
    Covered(i, input, prevBound, turn) \/ Covered(i, output, 0, Sender)

ReconcileInv ==
  /\ ReconcileTypes
  /\ Truthful(input, prevBound, Sender)
  /\ Truthful(output, 0, turn)
  /\ WrittenSoFar
  /\ NothingIsLast
  /\ Reported
  /\ NothingLost
  /\ done => input = <<>> /\ output = <<>>

(***************************************************************************)
(* The reconciliation: the items of a side in order, and what a large range *)
(* is split into.                                                           *)
(***************************************************************************)
Upto(set, i) == {j \in set : j <= i}

(* The place of an element in the order of a finite set of numbers.         *)
LEMMA Places ==
  ASSUME NEW set \in SUBSET Nat, IsFiniteSet(set)
  PROVE  /\ Cardinality(set) \in Nat
         /\ \A i \in set : Cardinality(Upto(set, i)) \in 1..Cardinality(set)
         /\ \A i, j \in set : i < j =>
              Cardinality(Upto(set, i)) < Cardinality(Upto(set, j))
<1>1. \A i : /\ IsFiniteSet(Upto(set, i)) /\ Cardinality(Upto(set, i)) \in Nat
             /\ Cardinality(Upto(set, i)) <= Cardinality(set)
  BY FS_Subset, FS_CardinalityType DEF Upto
<1>2. Cardinality(set) \in Nat
  BY FS_CardinalityType
<1>3. ASSUME NEW i \in set PROVE Cardinality(Upto(set, i)) # 0
  <2>1. i \in Upto(set, i)
    BY DEF Upto
  <2> QED
    BY <1>1, <2>1, FS_EmptySet
<1>4. ASSUME NEW i \in set, NEW j \in set, i < j
      PROVE  Cardinality(Upto(set, i)) < Cardinality(Upto(set, j))
  <2>a. i \in Nat /\ j \in Nat /\ set \subseteq Nat
    OBVIOUS
  <2>c. \A k \in set : k <= i => k <= j
    BY <1>4, <2>a
  <2>1. Upto(set, i) \in SUBSET Upto(set, j)
    BY <2>c DEF Upto
  <2>b. j \in Upto(set, j) /\ j \notin Upto(set, i)
    BY <1>4, <2>a DEF Upto
  <2>2. /\ Cardinality(Upto(set, i)) <= Cardinality(Upto(set, j))
        /\ Cardinality(Upto(set, i)) # Cardinality(Upto(set, j))
    BY <1>1, <2>1, <2>b, FS_Subset
  <2> QED
    BY <1>1, <2>2
<1> QED
  BY <1>1, <1>2, <1>3, <1>4

(* Sorted lists every element of a set, once, in order.                     *)
LEMMA SortedInOrder ==
  ASSUME NEW set \in SUBSET Nat, IsFiniteSet(set)
  PROVE  /\ N!Sorted(set) \in [1..Cardinality(set) -> set]
         /\ \A n \in 1..Cardinality(set) :
              Cardinality(Upto(set, N!Sorted(set)[n])) = n
         /\ \A i \in set : \E n \in 1..Cardinality(set) : N!Sorted(set)[n] = i
         /\ \A m, n \in 1..Cardinality(set) :
              m < n => N!Sorted(set)[m] < N!Sorted(set)[n]
<1> DEFINE size == Cardinality(set)
           place == [i \in set |-> Cardinality(Upto(set, i))]
<1>1. /\ size \in Nat
      /\ \A i \in set : Cardinality(Upto(set, i)) \in 1..size
      /\ \A i, j \in set : i < j => Cardinality(Upto(set, i)) < Cardinality(Upto(set, j))
  BY Places
<1>2. place \in [set -> 1..size]
  BY <1>1
<1>3. \A i, j \in set : place[i] = place[j] => i = j
  BY <1>1
<1>4. place \in Injection(set, 1..size)
  BY <1>2, <1>3 DEF Injection, IsInjective
<1>5. IsFiniteSet(1..size) /\ Cardinality(1..size) = size
  BY <1>1, FS_Interval
<1>6. place \in Surjection(set, 1..size)
  BY <1>4, <1>5, FS_Injection
<1>7. \A n \in 1..size : \E i \in set : Cardinality(Upto(set, i)) = n
  BY <1>6 DEF Surjection
<1> DEFINE at(n) == CHOOSE i \in set : Cardinality(Upto(set, i)) = n
<1>8. N!Sorted(set) = [n \in 1..size |-> at(n)]
  BY DEF N!Sorted, Upto, N!Cardinality, Cardinality
<1>9. \A n \in 1..size :
        /\ N!Sorted(set)[n] = at(n)
        /\ at(n) \in set /\ Cardinality(Upto(set, at(n))) = n
  BY <1>7, <1>8
<1> HIDE DEF at
<1>10. N!Sorted(set) \in [1..size -> set]
  BY <1>8, <1>9
<1>11. ASSUME NEW i \in set PROVE \E n \in 1..size : N!Sorted(set)[n] = i
  <2>1. place[i] \in 1..size
    BY <1>2
  <2>2. N!Sorted(set)[place[i]] = i
    BY <1>3, <1>9, <2>1
  <2> QED
    BY <2>1, <2>2
<1>12. ASSUME NEW m \in 1..size, NEW n \in 1..size, m < n
       PROVE  N!Sorted(set)[m] < N!Sorted(set)[n]
  <2>1. at(m) \in set /\ at(n) \in set /\ set \subseteq Nat
    BY <1>9
  <2>2. /\ ~ (at(n) < at(m))
        /\ at(n) # at(m)
    <3>1. /\ Cardinality(Upto(set, at(m))) = m
          /\ Cardinality(Upto(set, at(n))) = n
      BY <1>9
    <3>2. at(n) < at(m) =>
            Cardinality(Upto(set, at(n))) < Cardinality(Upto(set, at(m)))
      BY <1>1, <2>1
    <3> QED
      BY <1>1, <1>12, <3>1, <3>2
  <2>3. at(m) \in Nat /\ at(n) \in Nat
    BY <2>1
  <2>4. at(m) < at(n)
    BY <2>2, <2>3
  <2> QED
    BY <1>9, <2>4
<1> HIDE DEF size, place
<1> QED
  BY <1>9, <1>10, <1>11, <1>12 DEF size

(* Where the buckets of n elements end, b of them.                          *)
BucketEnd(n, b, i) == i * (n \div b) + IF i < n % b THEN i ELSE n % b

LEMMA BucketEnds ==
  ASSUME NEW n \in Nat, NEW b \in Nat \ {0}, 2 * b <= n
  PROVE  /\ BucketEnd(n, b, 0) = 0 /\ BucketEnd(n, b, b) = n
         /\ \A i \in 0..b : BucketEnd(n, b, i) \in 0..n
         /\ \A i, j \in 0..b : i < j => BucketEnd(n, b, i) < BucketEnd(n, b, j)
<1> DEFINE q == n \div b
           e == n % b
           extra(i) == IF i < e THEN i ELSE e
<1>1. q \in Nat /\ e \in 0..b-1 /\ n = b * q + e
  BY SMT
<1>2. q >= 1
  <2>1. ASSUME q = 0 PROVE FALSE
    <3>1. b * q = 0
      BY <2>1
    <3> QED
      BY <1>1, <3>1
  <2> QED
    BY <1>1, <2>1
<1>3. \A i : BucketEnd(n, b, i) = i * q + extra(i)
  BY DEF BucketEnd
<1> HIDE DEF q, e
<1>4. \A i \in 0..b : extra(i) \in Nat /\ extra(i) <= e /\ i * q \in Nat
  BY <1>1
<1>5. ASSUME NEW i \in 0..b, NEW j \in 0..b, i < j
      PROVE  i * q < j * q /\ extra(i) <= extra(j)
  <2>1. j * q = i * q + (j - i) * q
    BY <1>1, SMT
  <2>2. (j - i) * q >= 1
    BY <1>1, <1>2, <1>5, SMT
  <2>3. i * q \in Int /\ (j - i) * q \in Int /\ j * q \in Int
    BY <1>1
  <2>4. i * q < j * q
    BY <2>1, <2>2, <2>3
  <2> QED
    BY <1>1, <1>5, <2>4
<1> HIDE DEF extra
<1>6. ASSUME NEW i \in 0..b, NEW j \in 0..b, i < j
      PROVE  BucketEnd(n, b, i) < BucketEnd(n, b, j)
  <2>1. \A v, w, x, y \in Nat : v < x /\ w <= y => v + w < x + y
    OBVIOUS
  <2>2. i * q + extra(i) < j * q + extra(j)
    BY <1>4, <1>5, <1>6, <2>1
  <2> QED
    BY <1>3, <2>2
<1>7. BucketEnd(n, b, 0) = 0 /\ BucketEnd(n, b, b) = n
  BY <1>1, <1>3, SMT DEF extra
<1>8. ASSUME NEW i \in 0..b PROVE BucketEnd(n, b, i) \in 0..n
  <2>1. BucketEnd(n, b, i) \in Nat
    BY <1>3, <1>4
  <2>2. i # b => BucketEnd(n, b, i) < BucketEnd(n, b, b)
    BY <1>6
  <2> QED
    BY <1>7, <2>1, <2>2
<1> QED
  BY <1>6, <1>7, <1>8

LEMMA ReconcileSizes ==
  /\ MaxItem \in Nat /\ Buckets \in Nat \ {0}
  /\ N!Infinite \in Nat \ {0} /\ N!Item \subseteq 1..N!Infinite
  /\ \A s \in N!Side : FrameLimit[s] \in Nat
<1>1. /\ MaxItem \in Nat /\ Buckets \in Nat \ {0}
      /\ FrameLimit \in [N!Side -> Nat]
  BY ReconcileAssumption DEF N!ReconcileAssumption
<1> QED
  BY <1>1 DEF N!Infinite, N!Item

LEMMA BetweenIsFinite ==
  ASSUME ReconcileTypes, NEW s \in N!Side, NEW lower, NEW upper
  PROVE  /\ N!Between(s, lower, upper) \subseteq N!Item
         /\ N!Between(s, lower, upper) \in SUBSET Nat
         /\ IsFiniteSet(N!Between(s, lower, upper))
<1>1. N!Between(s, lower, upper) \subseteq N!Item
  BY DEF N!Between, ReconcileTypes
<1>2. IsFiniteSet(N!Item) /\ N!Item \subseteq Nat
  BY ReconcileSizes, FS_Interval DEF N!Item
<1> QED
  BY <1>1, <1>2, FS_Subset

(* A range of items is split into ranges that follow each other, each with  *)
(* what there is in it, and no fingerprint is of nothing.                   *)
LEMMA SplitRangeTells ==
  ASSUME ReconcileTypes, NEW s \in N!Side,
         NEW p \in 0..N!Infinite, NEW upper \in 1..N!Infinite, p <= upper,
         NEW m, m = N!SplitRange(N!Between(s, p, upper), upper)
  PROVE  /\ m \in Seq(MessageRange) /\ m # <<>>
         /\ Ordered(m, p) /\ Until(m, p) = upper
         /\ \A k \in 1..Len(m) :
              /\ m[k].mode \in {"idlist", "fingerprint"}
              /\ m[k].items = N!Between(s, From(m, p, k), m[k].bound)
              /\ m[k].mode = "fingerprint" => m[k].items # {}
<1> DEFINE T == N!Between(s, p, upper)
           n == Cardinality(T)
           sorted == N!Sorted(T)
           end(i) == BucketEnd(n, Buckets, i)
           nextBound(i) == IF i = Buckets THEN upper ELSE sorted[end(i) + 1]
           bucket(i) == {sorted[j] : j \in end(i - 1) + 1 .. end(i)}
<1>1. /\ T \subseteq N!Item /\ T \in SUBSET Nat /\ IsFiniteSet(T)
      /\ n \in Nat /\ Buckets \in Nat \ {0}
  BY BetweenIsFinite, FS_CardinalityType, ReconcileSizes
<1>2. \A x \in T : x \in 1..N!Infinite /\ p <= x /\ x < upper
  BY <1>1, ReconcileSizes DEF N!Between
<1>a. \A x : x \in T <=> x \in has[s] /\ p <= x /\ x < upper
  BY DEF N!Between
<1>b. has[s] \subseteq Nat
  BY ReconcileSizes DEF ReconcileTypes, N!Item
<1>3. m = IF n < Buckets * 2
          THEN <<N!RangeOf("idlist", upper, T)>>
          ELSE [i \in 1..Buckets |->
                  N!RangeOf("fingerprint", nextBound(i), bucket(i))]
  BY DEF N!SplitRange, BucketEnd, N!Cardinality, Cardinality
<1>4. /\ sorted \in [1..n -> T]
      /\ \A i \in T : \E j \in 1..n : sorted[j] = i
      /\ \A i, j \in 1..n : i < j => sorted[i] < sorted[j]
  BY <1>1, SortedInOrder
<1> HIDE DEF T, n, sorted
<1>5. CASE n < Buckets * 2
  <2>1. m = <<N!RangeOf("idlist", upper, T)>>
    BY <1>3, <1>5
  <2>2. N!RangeOf("idlist", upper, T) \in MessageRange
    BY <1>1 DEF N!RangeOf, MessageRange
  <2>3. m \in Seq(MessageRange) /\ Len(m) = 1 /\ m # <<>>
        /\ m[1] = N!RangeOf("idlist", upper, T)
    BY <2>1, <2>2
  <2>4. m[1].bound = upper /\ m[1].mode = "idlist" /\ m[1].items = T
    BY <2>3 DEF N!RangeOf
  <2>5. \A k \in 1..Len(m) : k = 1
    BY <2>3
  <2>6. Ordered(m, p) /\ Until(m, p) = upper
    BY <2>3, <2>4, <2>5 DEF Ordered, Until
  <2>7. m[1].items = N!Between(s, From(m, p, 1), m[1].bound)
    BY <2>4 DEF From, T
  <2> QED
    BY <2>3, <2>4, <2>5, <2>6, <2>7
<1>6. CASE ~ (n < Buckets * 2)
  <2>1. /\ end(0) = 0 /\ end(Buckets) = n
        /\ \A i \in 0..Buckets : end(i) \in 0..n
        /\ \A i, j \in 0..Buckets : i < j => end(i) < end(j)
    BY <1>1, <1>6, BucketEnds
  <2> HIDE DEF end
  <2>2. \A i \in 1..Buckets - 1 : end(i) + 1 \in 1..n
    <3>1. \A i \in 1..Buckets - 1 : end(i) < end(Buckets) /\ end(i) \in 0..n
      BY <1>1, <2>1
    <3> QED
      BY <1>1, <2>1, <3>1
  <2>3. \A i \in 1..Buckets - 1 :
          nextBound(i) = sorted[end(i) + 1] /\ nextBound(i) \in T
    BY <1>1, <1>4, <2>2
  <2>4. nextBound(Buckets) = upper
    OBVIOUS
  <2> HIDE DEF nextBound
  <2>5. \A i \in 1..Buckets :
          nextBound(i) \in 1..N!Infinite /\ p <= nextBound(i) /\ nextBound(i) <= upper
    <3>1. \A i \in 1..Buckets : i = Buckets \/ i \in 1..Buckets - 1
      BY <1>1
    <3> QED
      BY <1>2, <2>3, <2>4, <3>1
  <2>6. \A j, k \in 1..Buckets : j < k => nextBound(j) <= nextBound(k)
    <3> SUFFICES ASSUME NEW j \in 1..Buckets, NEW k \in 1..Buckets, j < k
                 PROVE  nextBound(j) <= nextBound(k)
      OBVIOUS
    <3>1. CASE k = Buckets
      BY <2>4, <2>5, <3>1
    <3>2. CASE k # Buckets
      <4>1. j \in 1..Buckets - 1 /\ k \in 1..Buckets - 1
        BY <1>1, <3>2
      <4>2. end(j) + 1 < end(k) + 1
        BY <1>1, <2>1
      <4>3. sorted[end(j) + 1] < sorted[end(k) + 1]
        BY <1>4, <2>2, <4>1, <4>2
      <4>4. nextBound(j) \in Nat /\ nextBound(k) \in Nat
        BY <1>1, <2>3, <4>1
      <4>5. nextBound(j) < nextBound(k)
        BY <2>3, <4>1, <4>3
      <4> QED
        BY <4>4, <4>5
    <3> QED
      BY <3>1, <3>2
  <2>7. /\ m = [i \in 1..Buckets |->
                  N!RangeOf("fingerprint", nextBound(i), bucket(i))]
    BY <1>3, <1>6
  <2>8. \A i \in 1..Buckets : bucket(i) \subseteq T /\ bucket(i) # {}
    <3> SUFFICES ASSUME NEW i \in 1..Buckets
                 PROVE  bucket(i) \subseteq T /\ bucket(i) # {}
      OBVIOUS
    <3>1. /\ i - 1 \in 0..Buckets /\ i \in 0..Buckets
          /\ end(i - 1) \in 0..n /\ end(i) \in 0..n /\ end(i - 1) < end(i)
      BY <1>1, <2>1
    <3>2. end(i) \in end(i - 1) + 1 .. end(i)
      BY <1>1, <3>1
    <3>3. \A j \in end(i - 1) + 1 .. end(i) : j \in 1..n
      BY <1>1, <3>1
    <3> QED
      BY <1>4, <3>2, <3>3
  <2>9. \A i \in 1..Buckets :
          N!RangeOf("fingerprint", nextBound(i), bucket(i)) \in MessageRange
    <3> HIDE DEF bucket
    <3> QED
      BY <1>1, <2>5, <2>8 DEF N!RangeOf, MessageRange
  <2>10. /\ m \in Seq(MessageRange) /\ Len(m) = Buckets
         /\ \A k \in 1..Buckets :
              /\ m[k].mode = "fingerprint" /\ m[k].bound = nextBound(k)
              /\ m[k].items = bucket(k)
    <3> HIDE DEF bucket
    <3>1. m \in [1..Buckets -> MessageRange]
      BY <2>7, <2>9
    <3>2. m \in Seq(MessageRange) /\ Len(m) = Buckets
      BY <1>1, <3>1
    <3>3. \A k \in 1..Buckets :
            m[k] = N!RangeOf("fingerprint", nextBound(k), bucket(k))
      BY <2>7
    <3> QED
      BY <3>2, <3>3 DEF N!RangeOf
  <2>11. m # <<>> /\ Ordered(m, p) /\ Until(m, p) = upper
    <3>1. m # <<>>
      BY <1>1, <2>10
    <3>2. Ordered(m, p)
      BY <2>5, <2>6, <2>10 DEF Ordered
    <3> QED
      BY <1>1, <2>4, <2>10, <3>1, <3>2 DEF Until
  <2>12. ASSUME NEW k \in 1..Buckets
         PROVE  bucket(k) = N!Between(s, From(m, p, k), m[k].bound)
    <3>0. /\ k - 1 \in 0..Buckets /\ k \in 0..Buckets
          /\ end(k - 1) \in 0..n /\ end(k) \in 0..n /\ end(k - 1) < end(k)
          /\ n \in Nat
      BY <1>1, <2>1
    <3>1. ASSUME NEW j \in 1..n
          PROVE  /\ j <= end(k) <=> sorted[j] < nextBound(k)
                 /\ end(k - 1) + 1 <= j <=> From(m, p, k) <= sorted[j]
      <4>1. sorted[j] \in T /\ sorted[j] \in Nat
        BY <1>1, <1>4
      <4>2. j <= end(k) <=> sorted[j] < nextBound(k)
        <5>1. CASE k = Buckets
          BY <1>2, <2>1, <2>4, <4>1, <5>1
        <5>2. CASE k # Buckets
          <6>1. k \in 1..Buckets - 1
            BY <1>1, <5>2
          <6>2. /\ nextBound(k) = sorted[end(k) + 1] /\ nextBound(k) \in Nat
                /\ end(k) + 1 \in 1..n
            BY <1>1, <2>2, <2>3, <6>1
          <6>3. j < end(k) + 1 => sorted[j] < nextBound(k)
            BY <1>4, <6>2
          <6>4. end(k) + 1 < j => nextBound(k) < sorted[j]
            BY <1>4, <6>2
          <6>5. end(k) + 1 = j => nextBound(k) = sorted[j]
            BY <6>2
          <6> QED
            BY <3>0, <4>1, <6>2, <6>3, <6>4, <6>5
        <5> QED
          BY <5>1, <5>2
      <4>3. end(k - 1) + 1 <= j <=> From(m, p, k) <= sorted[j]
        <5>1. CASE k = 1
          BY <1>2, <2>1, <4>1, <5>1 DEF From
        <5>2. CASE k # 1
          <6>1. k - 1 \in 1..Buckets - 1
            BY <1>1, <5>2
          <6>2. /\ From(m, p, k) = sorted[end(k - 1) + 1]
                /\ From(m, p, k) \in Nat
                /\ end(k - 1) + 1 \in 1..n
            <7>1. From(m, p, k) = m[k - 1].bound
              BY <5>2 DEF From
            <7>2. m[k - 1].bound = nextBound(k - 1)
              BY <1>1, <2>10, <6>1
            <7> QED
              BY <1>1, <2>2, <2>3, <6>1, <7>1, <7>2
          <6>3. j < end(k - 1) + 1 => sorted[j] < From(m, p, k)
            BY <1>4, <6>2
          <6>4. end(k - 1) + 1 < j => From(m, p, k) < sorted[j]
            BY <1>4, <6>2
          <6>5. end(k - 1) + 1 = j => From(m, p, k) = sorted[j]
            BY <6>2
          <6> QED
            BY <3>0, <4>1, <6>2, <6>3, <6>4, <6>5
        <5> QED
          BY <5>1, <5>2
      <4> QED
        BY <4>2, <4>3
    <3>2. ASSUME NEW x \in bucket(k)
          PROVE  x \in N!Between(s, From(m, p, k), m[k].bound)
      <4>1. PICK j \in end(k - 1) + 1 .. end(k) : x = sorted[j]
        BY <3>2
      <4>2. j \in 1..n
        BY <3>0
      <4>3. /\ sorted[j] < nextBound(k) /\ From(m, p, k) <= sorted[j]
            /\ sorted[j] \in T
        BY <1>4, <3>0, <3>1, <4>1, <4>2
      <4>4. sorted[j] \in has[s] /\ m[k].bound = nextBound(k)
        BY <1>a, <2>10, <4>3
      <4> QED
        BY <4>1, <4>3, <4>4 DEF N!Between
    <3>3. ASSUME NEW x \in N!Between(s, From(m, p, k), m[k].bound)
          PROVE  x \in bucket(k)
      <4>1. /\ x \in has[s] /\ x \in Nat /\ From(m, p, k) <= x /\ x < nextBound(k)
        BY <1>b, <2>10 DEF N!Between
      <4>2. p <= From(m, p, k) /\ From(m, p, k) \in Nat /\ p \in Nat
        <5>1. CASE k = 1
          BY <5>1 DEF From
        <5>2. CASE k # 1
          <6>1. k - 1 \in 1..Buckets
            BY <1>1, <5>2
          <6> QED
            BY <2>5, <2>10, <5>2, <6>1 DEF From
        <5> QED
          BY <5>1, <5>2
      <4>3. nextBound(k) <= upper /\ nextBound(k) \in Nat /\ upper \in Nat
        BY <2>5
      <4>4. x \in T
        BY <1>a, <4>1, <4>2, <4>3
      <4>5. PICK j \in 1..n : sorted[j] = x
        BY <1>4, <4>4
      <4>6. j <= end(k) /\ end(k - 1) + 1 <= j
        BY <3>1, <4>1, <4>5
      <4>7. j \in end(k - 1) + 1 .. end(k)
        BY <3>0, <4>6
      <4> QED
        BY <4>5, <4>7
    <3> QED
      BY <3>2, <3>3
  <2> HIDE DEF bucket
  <2> QED
    BY <2>8, <2>10, <2>11, <2>12
<1> QED
  BY <1>5, <1>6

LEMMA OrderedTypes ==
  ASSUME NEW m \in Seq(MessageRange), NEW p \in 0..N!Infinite
  PROVE  /\ Len(m) \in Nat
         /\ \A k \in 1..Len(m) :
              /\ m[k] \in MessageRange
              /\ m[k].bound \in 1..N!Infinite /\ m[k].items \subseteq N!Item
              /\ From(m, p, k) \in 0..N!Infinite
              /\ m[k].bound \in Nat /\ From(m, p, k) \in Nat
         /\ Until(m, p) \in 0..N!Infinite /\ Until(m, p) \in Nat
         /\ m # <<>> => Len(m) >= 1 /\ Until(m, p) = m[Len(m)].bound
<1>1. Len(m) \in Nat /\ \A k \in 1..Len(m) : m[k] \in MessageRange
  BY LenProperties, ElementOfSeq
<1>2. \A k \in 1..Len(m) : m[k].bound \in 1..N!Infinite /\ m[k].items \subseteq N!Item
  BY <1>1 DEF MessageRange
<1>3. 1..N!Infinite \subseteq 0..N!Infinite
  BY ReconcileSizes
<1>4. \A k \in 1..Len(m) : From(m, p, k) \in 0..N!Infinite
  <2>1. \A k \in 1..Len(m) : k = 1 \/ k - 1 \in 1..Len(m)
    BY <1>1
  <2> QED
    BY <1>2, <1>3, <2>1 DEF From
<1>5. m # <<>> => Len(m) >= 1 /\ Len(m) \in 1..Len(m)
  BY <1>1, EmptySeq
<1>6. Until(m, p) \in 0..N!Infinite
  BY <1>2, <1>3, <1>5 DEF Until
<1>7. 1..N!Infinite \subseteq Nat /\ 0..N!Infinite \subseteq Nat
  BY ReconcileSizes
<1> QED
  BY <1>1, <1>2, <1>4, <1>5, <1>6, <1>7 DEF Until

(* What lies within a message lies in one of its ranges.                    *)
LEMMA OrderedCovers ==
  ASSUME NEW m \in Seq(MessageRange), NEW p \in 0..N!Infinite,
         NEW i \in Nat, p <= i, i < Until(m, p)
  PROVE  \E k \in 1..Len(m) : From(m, p, k) <= i /\ i < m[k].bound
<1> DEFINE beyond == {k \in 1..Len(m) : i < m[k].bound}
<1>1. Len(m) \in Nat /\ \A k \in 1..Len(m) : m[k].bound \in Nat
  BY OrderedTypes
<1>2. m # <<>>
  BY ReconcileSizes DEF Until
<1>3. Len(m) \in beyond
  BY <1>1, <1>2, OrderedTypes
<1>4. PICK k \in beyond : \A j \in beyond : k <= j
  <2>1. beyond \in SUBSET Nat /\ beyond # {}
    BY <1>1, <1>3
  <2> HIDE DEF beyond
  <2> QED
    BY <2>1, FirstOfNats
<1>5. From(m, p, k) <= i
  <2>1. CASE k = 1
    BY <2>1 DEF From
  <2>2. CASE k # 1
    <3>1. k - 1 \in 1..Len(m) /\ ~ (k <= k - 1)
      BY <1>1, <2>2
    <3>2. k - 1 \notin beyond
      BY <1>4, <3>1
    <3>3. ~ (i < m[k - 1].bound)
      BY <3>1, <3>2
    <3> QED
      BY <1>1, <2>2, <3>1, <3>3 DEF From
  <2> QED
    BY <2>1, <2>2
<1> QED
  BY <1>5

(* One message after another.                                               *)
LEMMA Joined ==
  ASSUME NEW a \in Seq(MessageRange), NEW b \in Seq(MessageRange),
         NEW p \in 0..N!Infinite
  PROVE  /\ a \o b \in Seq(MessageRange)
         /\ Len(a \o b) = Len(a) + Len(b)
         /\ \A k \in 1..Len(a) :
              (a \o b)[k] = a[k] /\ From(a \o b, p, k) = From(a, p, k)
         /\ \A k \in 1..Len(b) :
              /\ (a \o b)[Len(a) + k] = b[k]
              /\ From(a \o b, p, Len(a) + k) = From(b, Until(a, p), k)
         /\ Until(a \o b, p) = Until(b, Until(a, p))
<1> DEFINE c == a \o b
<1>1. /\ c \in Seq(MessageRange) /\ Len(c) = Len(a) + Len(b)
      /\ \A i \in 1 .. Len(a) + Len(b) :
           c[i] = IF i <= Len(a) THEN a[i] ELSE b[i - Len(a)]
  BY ConcatProperties
<1>2. Len(a) \in Nat /\ Len(b) \in Nat
  BY LenProperties
<1>3. (a = <<>> <=> Len(a) = 0) /\ (b = <<>> <=> Len(b) = 0)
  BY <1>2, EmptySeq
<1> HIDE DEF c
<1>4. \A k \in 1..Len(a) : c[k] = a[k]
  BY <1>1, <1>2
<1>5. ASSUME NEW k \in 1..Len(b) PROVE c[Len(a) + k] = b[k]
  <2>1. /\ Len(a) + k \in 1..Len(a) + Len(b) /\ ~ (Len(a) + k <= Len(a))
        /\ Len(a) + k - Len(a) = k
    BY <1>2
  <2> QED
    BY <1>1, <2>1
<1>6. ASSUME NEW k \in 1..Len(a) PROVE From(c, p, k) = From(a, p, k)
  <2>1. k = 1 \/ k - 1 \in 1..Len(a)
    BY <1>2
  <2> QED
    BY <1>4, <2>1 DEF From
<1>7. ASSUME NEW k \in 1..Len(b)
      PROVE  From(c, p, Len(a) + k) = From(b, Until(a, p), k)
  <2>1. CASE k = 1 /\ Len(a) = 0
    BY <1>3, <2>1 DEF From, Until
  <2>2. CASE k = 1 /\ Len(a) # 0
    <3>1. Len(a) + 1 # 1 /\ Len(a) + 1 - 1 = Len(a) /\ Len(a) \in 1..Len(a)
      BY <1>2, <2>2
    <3>2. Until(a, p) = a[Len(a)].bound
      BY <1>3, <2>2 DEF Until
    <3> QED
      BY <1>4, <2>2, <3>1, <3>2 DEF From
  <2>3. CASE k # 1
    <3>1. /\ Len(a) + k # 1 /\ Len(a) + k - 1 = Len(a) + (k - 1)
          /\ k - 1 \in 1..Len(b)
      BY <1>2, <2>3
    <3>2. c[Len(a) + (k - 1)] = b[k - 1]
      BY <1>5, <3>1
    <3> QED
      BY <2>3, <3>1, <3>2 DEF From
  <2> QED
    BY <2>1, <2>2, <2>3
<1>8. Until(c, p) = Until(b, Until(a, p))
  <2>1. c = <<>> <=> Len(c) = 0
    BY <1>1, EmptySeq
  <2>2. CASE Len(b) = 0
    <3>1. Len(c) = Len(a) /\ (Len(a) # 0 => Len(a) \in 1..Len(a))
      BY <1>1, <1>2, <2>2
    <3> QED
      BY <1>3, <1>4, <2>1, <2>2, <3>1 DEF Until
  <2>3. CASE Len(b) # 0
    <3>1. Len(b) \in 1..Len(b) /\ Len(c) # 0 /\ Len(c) = Len(a) + Len(b)
      BY <1>1, <1>2, <2>3
    <3> QED
      BY <1>3, <1>5, <2>1, <2>3, <3>1 DEF Until
  <2> QED
    BY <2>2, <2>3
<1> QED
  BY <1>1, <1>4, <1>5, <1>6, <1>7, <1>8 DEF c

LEMMA OrderedUntil ==
  ASSUME NEW m \in Seq(MessageRange), NEW p \in 0..N!Infinite, Ordered(m, p)
  PROVE  /\ p <= Until(m, p)
         /\ \A k \in 1..Len(m) : From(m, p, k) <= m[k].bound
                                 /\ m[k].bound <= Until(m, p) /\ p <= From(m, p, k)
<1>1. Len(m) \in Nat /\ (m # <<>> <=> Len(m) # 0)
  BY LenProperties, EmptySeq
<1>2. \A k \in 1..Len(m) : m[k].bound \in Nat /\ p <= m[k].bound
  BY OrderedTypes DEF Ordered
<1>3. p \in Nat /\ p <= p
  BY ReconcileSizes
<1>4. p <= Until(m, p)
  <2>1. Len(m) # 0 => Len(m) \in 1..Len(m)
    BY <1>1
  <2> QED
    BY <1>1, <1>2, <1>3, <2>1 DEF Until
<1>5. ASSUME NEW k \in 1..Len(m)
      PROVE  /\ From(m, p, k) <= m[k].bound /\ m[k].bound <= Until(m, p)
             /\ p <= From(m, p, k)
  <2>1. m[k].bound <= Until(m, p)
    <3>1. Len(m) # 0 /\ Len(m) \in 1..Len(m) /\ (k = Len(m) \/ k < Len(m))
      BY <1>1
    <3>2. Until(m, p) = m[Len(m)].bound
      BY <1>1, <3>1 DEF Until
    <3>3. k < Len(m) => m[k].bound <= m[Len(m)].bound
      BY <3>1 DEF Ordered
    <3> QED
      BY <1>2, <3>1, <3>2, <3>3
  <2>2. From(m, p, k) <= m[k].bound /\ p <= From(m, p, k)
    <3>1. CASE k = 1
      BY <1>2, <1>3, <3>1 DEF From
    <3>2. CASE k # 1
      <4>1. k - 1 \in 1..Len(m) /\ k - 1 < k
        BY <1>1, <3>2
      <4>2. m[k - 1].bound <= m[k].bound
        BY <4>1 DEF Ordered
      <4> QED
        BY <1>2, <3>2, <4>1, <4>2 DEF From
    <3> QED
      BY <3>1, <3>2
  <2> QED
    BY <2>1, <2>2
<1> QED
  BY <1>4, <1>5

LEMMA JoinedTruthful ==
  ASSUME NEW a, NEW b, NEW p \in 0..N!Infinite, NEW s,
         Truthful(a, p, s), Truthful(b, Until(a, p), s)
  PROVE  Truthful(a \o b, p, s)
<1> DEFINE c == a \o b
           u == Until(a, p)
<1>1. a \in Seq(MessageRange) /\ b \in Seq(MessageRange)
  BY DEF Truthful
<1>2. Len(a) \in Nat /\ Len(b) \in Nat
  BY <1>1, LenProperties
<1>3. /\ c \in Seq(MessageRange) /\ Len(c) = Len(a) + Len(b)
      /\ \A k \in 1..Len(a) : c[k] = a[k] /\ From(c, p, k) = From(a, p, k)
      /\ \A k \in 1..Len(b) :
           c[Len(a) + k] = b[k] /\ From(c, p, Len(a) + k) = From(b, u, k)
  BY <1>1, Joined
<1>4. /\ u \in 0..N!Infinite /\ p <= u
      /\ \A k \in 1..Len(a) : a[k].bound <= u /\ p <= a[k].bound
      /\ \A k \in 1..Len(b) : u <= b[k].bound
  BY <1>1, OrderedTypes, OrderedUntil DEF Truthful, Ordered
<1>5. /\ \A k \in 1..Len(a) : a[k].bound \in Nat
      /\ \A k \in 1..Len(b) : b[k].bound \in Nat
      /\ u \in Nat /\ p \in Nat
  <2>1. u \in Nat
    BY <1>1, OrderedTypes
  <2>2. p \in Nat
    BY ReconcileSizes
  <2> QED
    BY <1>1, <2>1, <2>2, OrderedTypes
<1> HIDE DEF c, u
<1>6. ASSUME NEW k \in 1..Len(c)
      PROVE  k \in 1..Len(a) \/ \E j \in 1..Len(b) : k = Len(a) + j
  <2>1. k \in 1..Len(a) \/ k - Len(a) \in 1..Len(b)
    BY <1>2, <1>3
  <2>2. k = Len(a) + (k - Len(a))
    BY <1>2, <1>3
  <2> QED
    BY <2>1, <2>2
<1>7. ASSUME NEW k \in 1..Len(c)
      PROVE  p <= c[k].bound /\ Told(c[k], From(c, p, k), s)
  <2>1. CASE k \in 1..Len(a)
    BY <1>3, <1>4, <2>1 DEF Truthful
  <2>2. ASSUME NEW j \in 1..Len(b), k = Len(a) + j
        PROVE  p <= c[k].bound /\ Told(c[k], From(c, p, k), s)
    <3>1. c[k] = b[j] /\ From(c, p, k) = From(b, u, j) /\ u <= b[j].bound
      BY <1>3, <1>4, <2>2
    <3>2. p <= b[j].bound
      BY <1>4, <1>5, <3>1
    <3> QED
      BY <3>1, <3>2 DEF Truthful, u
  <2> QED
    BY <1>6, <2>1, <2>2
<1>8. ASSUME NEW j \in 1..Len(c), NEW k \in 1..Len(c), j < k
      PROVE  c[j].bound <= c[k].bound
  <2>1. CASE k \in 1..Len(a)
    <3>1. j \in 1..Len(a)
      BY <1>2, <1>3, <1>8, <2>1
    <3> QED
      BY <1>3, <1>8, <2>1, <3>1 DEF Truthful, Ordered
  <2>2. CASE j \in 1..Len(a) /\ k \notin 1..Len(a)
    <3>1. PICK i \in 1..Len(b) : k = Len(a) + i
      BY <1>6, <2>2
    <3>2. c[j].bound <= u /\ u <= c[k].bound /\ c[j].bound \in Nat /\ c[k].bound \in Nat
      BY <1>3, <1>4, <1>5, <2>2, <3>1
    <3> QED
      BY <1>5, <3>2
  <2>3. CASE j \notin 1..Len(a) /\ k \notin 1..Len(a)
    <3>1. PICK i \in 1..Len(b) : k = Len(a) + i
      BY <1>6, <2>3
    <3>2. PICK h \in 1..Len(b) : j = Len(a) + h
      BY <1>6, <2>3
    <3>3. h < i
      BY <1>2, <1>8, <3>1, <3>2
    <3>4. b[h].bound <= b[i].bound
      BY <3>3 DEF Truthful, Ordered
    <3> QED
      BY <1>3, <3>1, <3>2, <3>4
  <2> QED
    BY <2>1, <2>2, <2>3
<1>9. Truthful(c, p, s)
  BY <1>3, <1>7, <1>8 DEF Truthful, Ordered
<1> QED
  BY <1>9 DEF c

LEMMA JoinedCovers ==
  ASSUME NEW a \in Seq(MessageRange), NEW b \in Seq(MessageRange),
         NEW p \in 0..N!Infinite, NEW i, NEW reader,
         Covered(i, a, p, reader) \/ Covered(i, b, Until(a, p), reader)
  PROVE  Covered(i, a \o b, p, reader)
<1>1. Len(a) \in Nat /\ Len(b) \in Nat
  BY LenProperties
<1>2. /\ Len(a \o b) = Len(a) + Len(b)
      /\ \A k \in 1..Len(a) :
           (a \o b)[k] = a[k] /\ From(a \o b, p, k) = From(a, p, k)
      /\ \A k \in 1..Len(b) :
           /\ (a \o b)[Len(a) + k] = b[k]
           /\ From(a \o b, p, Len(a) + k) = From(b, Until(a, p), k)
  BY Joined
<1>3. ASSUME Covered(i, a, p, reader) PROVE Covered(i, a \o b, p, reader)
  <2>1. PICK k \in 1..Len(a) : Covers(a[k], From(a, p, k), i, reader)
    BY <1>3 DEF Covered
  <2>2. k \in 1..Len(a \o b)
    BY <1>1, <1>2
  <2> QED
    BY <1>2, <2>1, <2>2 DEF Covered
<1>4. ASSUME Covered(i, b, Until(a, p), reader) PROVE Covered(i, a \o b, p, reader)
  <2>1. PICK k \in 1..Len(b) : Covers(b[k], From(b, Until(a, p), k), i, reader)
    BY <1>4 DEF Covered
  <2>2. Len(a) + k \in 1..Len(a \o b)
    BY <1>1, <1>2
  <2> QED
    BY <1>2, <2>1, <2>2 DEF Covered
<1> QED
  BY <1>3, <1>4

LEMMA SingleRange ==
  ASSUME NEW r \in MessageRange, NEW p \in 0..N!Infinite, p <= r.bound, NEW s,
         Told(r, p, s)
  PROVE  /\ <<r>> \in Seq(MessageRange) /\ Len(<<r>>) = 1 /\ <<r>>[1] = r
         /\ Truthful(<<r>>, p, s) /\ Until(<<r>>, p) = r.bound
         /\ From(<<r>>, p, 1) = p
         /\ \A i, reader : Covers(r, p, i, reader) => Covered(i, <<r>>, p, reader)
<1>1. <<r>> \in Seq(MessageRange) /\ Len(<<r>>) = 1 /\ <<r>>[1] = r /\ <<r>> # <<>>
  OBVIOUS
<1> DEFINE m == <<r>>
<1> HIDE DEF m
<1>2. m \in Seq(MessageRange) /\ Len(m) = 1 /\ m[1] = r /\ m # <<>>
  BY <1>1 DEF m
<1>3. \A k \in 1..Len(m) : k = 1
  BY <1>2
<1>4. From(m, p, 1) = p /\ Until(m, p) = r.bound
  BY <1>2 DEF From, Until
<1>5. r.bound <= r.bound
  BY ReconcileSizes DEF MessageRange
<1>6. Ordered(m, p)
  BY <1>2, <1>3, <1>5 DEF Ordered
<1>7. Truthful(m, p, s)
  BY <1>2, <1>3, <1>4, <1>6 DEF Truthful
<1>8. 1 \in 1..Len(m)
  BY <1>2
<1>9. \A i, reader : Covers(r, p, i, reader) => Covered(i, m, p, reader)
  BY <1>2, <1>4, <1>8 DEF Covered
<1> QED
  BY <1>2, <1>4, <1>7, <1>9 DEF m

LEMMA TailRanges ==
  ASSUME NEW m \in Seq(MessageRange), m # <<>>, NEW p \in 0..N!Infinite
  PROVE  /\ Head(m) = m[1] /\ Head(m) \in MessageRange /\ 1 \in 1..Len(m)
         /\ Tail(m) \in Seq(MessageRange) /\ Len(Tail(m)) = Len(m) - 1
         /\ From(m, p, 1) = p
         /\ \A k \in 1..Len(Tail(m)) :
              /\ k + 1 \in 1..Len(m)
              /\ Tail(m)[k] = m[k + 1]
              /\ From(Tail(m), Head(m).bound, k) = From(m, p, k + 1)
<1>1. /\ Head(m) \in MessageRange /\ Head(m) = m[1]
      /\ Tail(m) \in Seq(MessageRange) /\ Len(Tail(m)) = Len(m) - 1
      /\ \A i \in 1..Len(Tail(m)) : Tail(m)[i] = m[i + 1]
  BY HeadTailProperties
<1>2. Len(m) \in Nat /\ Len(m) >= 1
  BY OrderedTypes
<1>3. ASSUME NEW k \in 1..Len(Tail(m))
      PROVE  k + 1 \in 1..Len(m) /\ From(Tail(m), Head(m).bound, k) = From(m, p, k + 1)
  <2>1. k + 1 \in 1..Len(m) /\ k + 1 # 1 /\ k + 1 - 1 = k
    BY <1>1, <1>2
  <2>2. CASE k = 1
    BY <1>1, <2>2 DEF From
  <2>3. CASE k # 1
    <3>1. k - 1 \in 1..Len(Tail(m)) /\ k - 1 + 1 = k
      BY <1>1, <1>2, <2>3
    <3> QED
      BY <1>1, <2>1, <2>3, <3>1 DEF From
  <2> QED
    BY <2>1, <2>2, <2>3
<1> QED
  BY <1>1, <1>2, <1>3 DEF From

LEMMA TailTruthful ==
  ASSUME NEW m, NEW p \in 0..N!Infinite, NEW s, Truthful(m, p, s), m # <<>>
  PROVE  /\ Truthful(Tail(m), Head(m).bound, s)
         /\ Head(m) \in MessageRange /\ Told(Head(m), p, s)
         /\ p <= Head(m).bound /\ Head(m).bound \in 1..N!Infinite
         /\ Head(m).bound \in Nat
<1>1. m \in Seq(MessageRange) /\ Ordered(m, p)
  BY DEF Truthful
<1>2. /\ Head(m) = m[1] /\ Head(m) \in MessageRange /\ 1 \in 1..Len(m)
      /\ Tail(m) \in Seq(MessageRange) /\ Len(Tail(m)) = Len(m) - 1
      /\ From(m, p, 1) = p
      /\ \A k \in 1..Len(Tail(m)) :
           /\ k + 1 \in 1..Len(m)
           /\ Tail(m)[k] = m[k + 1]
           /\ From(Tail(m), Head(m).bound, k) = From(m, p, k + 1)
  BY <1>1, TailRanges
<1>3. Ordered(Tail(m), Head(m).bound)
  <2>1. \A k \in 1..Len(Tail(m)) : 1 < k + 1
    OBVIOUS
  <2>2. \A j, k \in 1..Len(Tail(m)) : j < k => j + 1 < k + 1
    OBVIOUS
  <2> QED
    BY <1>1, <1>2, <2>1, <2>2 DEF Ordered
<1>4. Truthful(Tail(m), Head(m).bound, s)
  BY <1>2, <1>3 DEF Truthful
<1>5. Head(m).bound \in 1..N!Infinite
  BY <1>2 DEF MessageRange
<1>6. Head(m).bound \in Nat
  BY <1>5, ReconcileSizes
<1> QED
  BY <1>1, <1>2, <1>4, <1>5, <1>6 DEF Truthful, Ordered

(* What a message covers is covered by its first range, or lies beyond it   *)
(* and is covered by the rest.                                              *)
LEMMA TailCovers ==
  ASSUME NEW m, NEW p \in 0..N!Infinite, NEW s, Truthful(m, p, s), m # <<>>,
         NEW i \in Nat, NEW reader, Covered(i, m, p, reader)
  PROVE  \/ Covers(Head(m), p, i, reader)
         \/ /\ Covered(i, Tail(m), Head(m).bound, reader)
            /\ Head(m).bound <= i
<1>1. m \in Seq(MessageRange)
  BY DEF Truthful
<1>2. /\ Head(m) = m[1] /\ 1 \in 1..Len(m)
      /\ Tail(m) \in Seq(MessageRange) /\ Len(Tail(m)) = Len(m) - 1
      /\ From(m, p, 1) = p
      /\ \A k \in 1..Len(Tail(m)) :
           /\ k + 1 \in 1..Len(m)
           /\ Tail(m)[k] = m[k + 1]
           /\ From(Tail(m), Head(m).bound, k) = From(m, p, k + 1)
  BY <1>1, TailRanges
<1>3. PICK k \in 1..Len(m) : Covers(m[k], From(m, p, k), i, reader)
  BY DEF Covered
<1>4. CASE k = 1
  BY <1>2, <1>3, <1>4
<1>5. CASE k # 1
  <2>1. k - 1 \in 1..Len(Tail(m)) /\ k - 1 + 1 = k
    BY <1>1, <1>2, <1>5, LenProperties
  <2>2. Covers(Tail(m)[k - 1], From(Tail(m), Head(m).bound, k - 1), i, reader)
    BY <1>2, <1>3, <2>1
  <2>3. Covered(i, Tail(m), Head(m).bound, reader)
    BY <2>1, <2>2 DEF Covered
  <2>4. m[1].bound <= m[k - 1].bound
    <3>1. k - 1 = 1 \/ 1 < k - 1
      BY <2>1
    <3>2. k - 1 \in 1..Len(m)
      BY <1>1, <1>2, <2>1, LenProperties
    <3>a. m[1].bound \in Nat
      BY <1>1, <1>2, OrderedTypes, Zenon
    <3>3. m[1].bound \in Nat /\ m[1].bound <= m[1].bound
      BY <3>a
    <3> QED
      BY <1>2, <3>1, <3>2, <3>3 DEF Truthful, Ordered
  <2>5. From(m, p, k) = m[k - 1].bound /\ From(m, p, k) <= i
    BY <1>3, <1>5 DEF From, Covers
  <2>6. /\ m[1].bound \in Nat /\ m[k - 1].bound \in Nat
        /\ m[k - 1].bound <= i /\ i < m[k].bound /\ m[k].bound \in Nat
    <3>1. k - 1 \in 1..Len(m)
      BY <1>1, <1>2, <2>1, LenProperties
    <3> QED
      BY <1>1, <1>2, <1>3, <2>5, <3>1, OrderedTypes DEF Covers
  <2>7. m[1].bound <= i
    BY <2>4, <2>6
  <2> QED
    BY <1>2, <2>3, <2>7
<1> QED
  BY <1>4, <1>5

(* A range that says exactly what one side has in it covers a difference.   *)
LEMMA ExactCovers ==
  ASSUME NEW s \in N!Side, NEW reader \in N!Side, s # reader, NEW i, Differs(i),
         NEW r, NEW lower, lower <= i, i < r.bound, r.mode # "skip",
         r.items = N!Between(s, lower, r.bound)
  PROVE  Covers(r, lower, i, reader)
<1>1. (i \in has[s]) # (i \in has[reader])
  BY DEF Differs, N!Side
<1>2. (i \in N!Between(s, lower, r.bound)) # (i \in N!Between(reader, lower, r.bound))
  BY <1>1 DEF N!Between
<1> QED
  BY <1>2 DEF Covers

LEMMA SplitRangeCovers ==
  ASSUME ReconcileTypes, NEW s \in N!Side, NEW reader \in N!Side, s # reader,
         NEW p \in 0..N!Infinite, NEW upper \in 1..N!Infinite, p <= upper,
         NEW m, m = N!SplitRange(N!Between(s, p, upper), upper)
  PROVE  /\ Truthful(m, p, s) /\ m # <<>> /\ Until(m, p) = upper
         /\ \A k \in 1..Len(m) :
              /\ m[k].mode # "skip"
              /\ m[k].mode = "fingerprint" => m[k].items # {}
         /\ \A i \in Nat : p <= i /\ i < upper /\ Differs(i) => Covered(i, m, p, reader)
<1>1. /\ m \in Seq(MessageRange) /\ m # <<>>
      /\ Ordered(m, p) /\ Until(m, p) = upper
      /\ \A k \in 1..Len(m) :
           /\ m[k].mode \in {"idlist", "fingerprint"}
           /\ m[k].items = N!Between(s, From(m, p, k), m[k].bound)
           /\ m[k].mode = "fingerprint" => m[k].items # {}
  BY SplitRangeTells
<1>2. Truthful(m, p, s)
  BY <1>1 DEF Truthful, Told
<1>3. ASSUME NEW i \in Nat, p <= i, i < upper, Differs(i)
      PROVE  Covered(i, m, p, reader)
  <2>1. PICK k \in 1..Len(m) : From(m, p, k) <= i /\ i < m[k].bound
    BY <1>1, <1>3, OrderedCovers
  <2>2. Covers(m[k], From(m, p, k), i, reader)
    BY <1>1, <1>3, <2>1, ExactCovers
  <2> QED
    BY <2>2 DEF Covered
<1> QED
  BY <1>1, <1>2, <1>3

(* What a message weighs.                                                   *)
LEMMA SizeIsFinite ==
  ASSUME NEW m \in Seq(MessageRange)
  PROVE  /\ IsFiniteSet(N!Listed(m)) /\ IsFiniteSet(N!Fingerprints(m))
         /\ N!Listed(m) \subseteq (1..Len(m)) \X N!Item
         /\ N!Fingerprints(m) \subseteq 1..Len(m)
         /\ N!Size(m) = Cardinality(N!Listed(m)) + Cardinality(N!Fingerprints(m))
         /\ Cardinality(N!Listed(m)) \in Nat
         /\ Cardinality(N!Fingerprints(m)) \in Nat
         /\ N!Size(m) \in Nat
<1>1. Len(m) \in Nat /\ DOMAIN m = 1..Len(m)
  BY LenProperties
<1>2. \A k \in 1..Len(m) : m[k].items \subseteq N!Item
  <2>1. \A k \in 1..Len(m) : m[k] \in MessageRange
    BY ElementOfSeq
  <2> QED
    BY <2>1 DEF MessageRange
<1>3. N!Listed(m) \subseteq (1..Len(m)) \X N!Item
  BY <1>1, <1>2 DEF N!Listed
<1>4. N!Fingerprints(m) \subseteq 1..Len(m)
  BY <1>1 DEF N!Fingerprints
<1>5. IsFiniteSet(N!Item)
  BY ReconcileSizes, FS_Interval DEF N!Item
<1>6. IsFiniteSet((1..Len(m)) \X N!Item) /\ IsFiniteSet(1..Len(m))
  <2>1. IsFiniteSet(1..Len(m))
    BY <1>1, FS_Interval
  <2> QED
    BY <1>5, <2>1, FS_Product
<1>7. IsFiniteSet(N!Listed(m)) /\ IsFiniteSet(N!Fingerprints(m))
  BY <1>3, <1>4, <1>6, FS_Subset
<1>8. N!Size(m) = Cardinality(N!Listed(m)) + Cardinality(N!Fingerprints(m))
  BY DEF N!Size, N!Cardinality, Cardinality
<1>9. /\ Cardinality(N!Listed(m)) \in Nat /\ Cardinality(N!Fingerprints(m)) \in Nat
  BY <1>7, FS_CardinalityType
<1> QED
  BY <1>3, <1>4, <1>7, <1>8, <1>9

(* A set and its image under a function that tells its elements apart.      *)
LEMMA ImageSize ==
  ASSUME NEW set, IsFiniteSet(set), NEW f, f \in [set -> {f[x] : x \in set}],
         \A x, y \in set : f[x] = f[y] => x = y
  PROVE  /\ IsFiniteSet({f[x] : x \in set})
         /\ Cardinality({f[x] : x \in set}) = Cardinality(set)
<1> DEFINE image == {f[x] : x \in set}
<1>1. f \in Surjection(set, image)
  BY DEF Surjection
<1>2. f \in Injection(set, image)
  BY DEF Injection, IsInjective
<1> QED
  BY <1>1, <1>2, FS_Surjection

LEMMA DisjointSize ==
  ASSUME NEW a, NEW b, IsFiniteSet(a), IsFiniteSet(b), a \cap b = {}
  PROVE  Cardinality(a \cup b) = Cardinality(a) + Cardinality(b)
<1>1. /\ Cardinality(a \cup b) = Cardinality(a) + Cardinality(b) - Cardinality(a \cap b)
      /\ Cardinality(a \cap b) = 0
  BY FS_Union, FS_EmptySet
<1> QED
  BY <1>1, FS_CardinalityType

LEMMA JoinedSize ==
  ASSUME NEW a \in Seq(MessageRange), NEW b \in Seq(MessageRange)
  PROVE  N!Size(a \o b) = N!Size(a) + N!Size(b)
<1> DEFINE c == a \o b
           n == Len(a)
<1>1. /\ c \in Seq(MessageRange) /\ Len(c) = n + Len(b)
      /\ \A k \in 1..n : c[k] = a[k]
      /\ \A k \in 1..Len(b) : c[n + k] = b[k]
  <2>1. 0 \in 0..N!Infinite
    BY ReconcileSizes
  <2> QED
    BY <2>1, Joined
<1>2. n \in Nat /\ Len(b) \in Nat
  BY LenProperties
<1>3. DOMAIN a = 1..n /\ DOMAIN b = 1..Len(b) /\ DOMAIN c = 1..Len(c)
  BY <1>1, LenProperties
<1> HIDE DEF c, n
<1>4. \A k \in 1..Len(c) : k \in 1..n \/ \E j \in 1..Len(b) : k = n + j
  <2>1. \A k \in 1..Len(c) : k \in 1..n \/ k - n \in 1..Len(b)
    BY <1>1, <1>2
  <2>2. \A k \in 1..Len(c) : k = n + (k - n)
    BY <1>1, <1>2
  <2> QED
    BY <2>1, <2>2
<1>5. /\ \A k \in 1..n : k \in 1..Len(c)
      /\ \A k \in 1..Len(b) : n + k \in 1..Len(c) /\ n + k \notin 1..n
  BY <1>1, <1>2
<1> DEFINE moved(x) == <<n + x[1], x[2]>>
           listed == [x \in N!Listed(b) |-> moved(x)]
           prints == [k \in N!Fingerprints(b) |-> n + k]
           listedTo == {listed[x] : x \in N!Listed(b)}
           printsTo == {prints[k] : k \in N!Fingerprints(b)}
<1>6. /\ IsFiniteSet(N!Listed(a)) /\ IsFiniteSet(N!Listed(b))
      /\ IsFiniteSet(N!Fingerprints(a)) /\ IsFiniteSet(N!Fingerprints(b))
      /\ N!Listed(a) \subseteq (1..n) \X N!Item
      /\ N!Listed(b) \subseteq (1..Len(b)) \X N!Item
      /\ N!Fingerprints(a) \subseteq 1..n /\ N!Fingerprints(b) \subseteq 1..Len(b)
  BY SizeIsFinite DEF n
<1>7. N!Listed(c) = N!Listed(a) \cup listedTo
  <2>1. ASSUME NEW x \in N!Listed(c) PROVE x \in N!Listed(a) \cup listedTo
    <3>1. PICK k \in 1..Len(c) :
            c[k].mode = "idlist" /\ \E i \in c[k].items : x = <<k, i>>
      BY <1>3 DEF N!Listed
    <3>2. PICK i \in c[k].items : x = <<k, i>>
      BY <3>1
    <3>3. CASE k \in 1..n
      <4>1. k \in DOMAIN a /\ a[k].mode = "idlist" /\ i \in a[k].items
        BY <1>1, <1>3, <3>1, <3>3
      <4>2. x \in N!Listed(a)
        BY <3>2, <4>1 DEF N!Listed
      <4> QED
        BY <4>2
    <3>4. ASSUME NEW j \in 1..Len(b), k = n + j PROVE x \in listedTo
      <4>1. <<j, i>> \in N!Listed(b)
        BY <1>1, <1>3, <3>1, <3>2, <3>4 DEF N!Listed
      <4>2. listed[<<j, i>>] = x
        BY <3>2, <3>4, <4>1
      <4> QED
        BY <4>1, <4>2
    <3> QED
      BY <1>4, <3>3, <3>4
  <2>2. ASSUME NEW x \in N!Listed(a) PROVE x \in N!Listed(c)
    <3>1. PICK k \in 1..n :
            a[k].mode = "idlist" /\ \E i \in a[k].items : x = <<k, i>>
      BY <1>3 DEF N!Listed
    <3> QED
      BY <1>1, <1>3, <1>5, <3>1 DEF N!Listed
  <2>3. ASSUME NEW x \in listedTo PROVE x \in N!Listed(c)
    <3>1. PICK y \in N!Listed(b) : x = moved(y)
      BY <2>3
    <3>2. PICK k \in 1..Len(b) :
            b[k].mode = "idlist" /\ \E i \in b[k].items : y = <<k, i>>
      BY <1>3 DEF N!Listed
    <3>3. PICK i \in b[k].items : y = <<k, i>>
      BY <3>2
    <3>4. x = <<n + k, i>> /\ c[n + k] = b[k] /\ n + k \in 1..Len(c)
      BY <1>1, <1>5, <3>1, <3>3
    <3> QED
      BY <1>3, <3>2, <3>3, <3>4 DEF N!Listed
  <2> QED
    BY <2>1, <2>2, <2>3
<1>8. N!Fingerprints(c) = N!Fingerprints(a) \cup printsTo
  <2>1. ASSUME NEW k \in N!Fingerprints(c) PROVE k \in N!Fingerprints(a) \cup printsTo
    <3>1. k \in 1..Len(c) /\ c[k].mode = "fingerprint"
      BY <1>3 DEF N!Fingerprints
    <3>2. CASE k \in 1..n
      BY <1>1, <1>3, <3>1, <3>2 DEF N!Fingerprints
    <3>3. ASSUME NEW j \in 1..Len(b), k = n + j PROVE k \in printsTo
      <4>1. j \in N!Fingerprints(b)
        BY <1>1, <1>3, <3>1, <3>3 DEF N!Fingerprints
      <4> QED
        BY <3>3, <4>1
    <3> QED
      BY <1>4, <3>1, <3>2, <3>3
  <2>2. ASSUME NEW k \in N!Fingerprints(a) PROVE k \in N!Fingerprints(c)
    BY <1>1, <1>3, <1>5 DEF N!Fingerprints
  <2>3. ASSUME NEW k \in printsTo PROVE k \in N!Fingerprints(c)
    <3>1. PICK j \in N!Fingerprints(b) : k = n + j
      BY <2>3
    <3>2. j \in 1..Len(b) /\ b[j].mode = "fingerprint"
      BY <1>3 DEF N!Fingerprints
    <3> QED
      BY <1>1, <1>3, <1>5, <3>1, <3>2 DEF N!Fingerprints
  <2> QED
    BY <2>1, <2>2, <2>3
<1>9. IsFiniteSet(listedTo) /\ Cardinality(listedTo) = Cardinality(N!Listed(b))
  <2>1. listed \in [N!Listed(b) -> listedTo]
    OBVIOUS
  <2>2. \A x \in N!Listed(b) : x[1] \in Nat /\ x = <<x[1], x[2]>>
    BY <1>6
  <2>3. ASSUME NEW x \in N!Listed(b), NEW y \in N!Listed(b), listed[x] = listed[y]
        PROVE  x = y
    <3>1. n + x[1] = n + y[1] /\ x[2] = y[2]
      BY <2>3
    <3>2. x[1] = y[1]
      BY <1>2, <2>2, <3>1
    <3> QED
      BY <2>2, <3>1, <3>2
  <2> HIDE DEF listed
  <2> QED
    BY <1>6, <2>1, <2>3, ImageSize, ZenonT(60)
<1>10. IsFiniteSet(printsTo) /\ Cardinality(printsTo) = Cardinality(N!Fingerprints(b))
  <2>1. prints \in [N!Fingerprints(b) -> printsTo]
    OBVIOUS
  <2>2. ASSUME NEW x \in N!Fingerprints(b), NEW y \in N!Fingerprints(b), prints[x] = prints[y]
        PROVE  x = y
    <3>1. n + x = n + y
      BY <2>2
    <3> QED
      BY <1>2, <1>6, <3>1
  <2> HIDE DEF prints
  <2> QED
    BY <1>6, <2>1, <2>2, ImageSize, ZenonT(60)
<1>11. N!Listed(a) \cap listedTo = {}
  <2>1. \A x \in N!Listed(a) : x[1] \in 1..n
    BY <1>6
  <2>2. \A x \in listedTo : x[1] \notin 1..n
    <3>1. \A y \in N!Listed(b) : y[1] \in 1..Len(b)
      BY <1>6
    <3> QED
      BY <1>5, <3>1
  <2> HIDE DEF listedTo
  <2> QED
    BY <2>1, <2>2
<1>12. N!Fingerprints(a) \cap printsTo = {}
  BY <1>5, <1>6
<1> HIDE DEF listedTo, printsTo
<1>13. /\ Cardinality(N!Listed(c)) = Cardinality(N!Listed(a)) + Cardinality(N!Listed(b))
       /\ Cardinality(N!Fingerprints(c)) =
            Cardinality(N!Fingerprints(a)) + Cardinality(N!Fingerprints(b))
  BY <1>6, <1>7, <1>8, <1>9, <1>10, <1>11, <1>12, DisjointSize
<1>14. \A p, q, r, s \in Nat : (p + q) + (r + s) = (p + r) + (q + s)
  OBVIOUS
<1>15. N!Size(c) = N!Size(a) + N!Size(b)
  BY <1>1, <1>13, <1>14, SizeIsFinite
<1> QED
  BY <1>15 DEF c

(* One range by itself.                                                     *)
LEMMA SingleSize ==
  ASSUME NEW r \in MessageRange
  PROVE  /\ r.mode = "skip" => N!Size(<<r>>) = 0
         /\ r.mode = "idlist" => N!Size(<<r>>) = Cardinality(r.items)
<1> DEFINE m == <<r>>
<1>1. /\ m \in Seq(MessageRange) /\ DOMAIN m = {1} /\ m[1] = r
  OBVIOUS
<1>2. N!Size(m) = Cardinality(N!Listed(m)) + Cardinality(N!Fingerprints(m))
  BY <1>1, SizeIsFinite
<1>a. IsFiniteSet(N!Item) /\ r.items \subseteq N!Item
  BY ReconcileSizes, FS_Interval DEF N!Item, MessageRange
<1> HIDE DEF m
<1>b. IsFiniteSet(r.items)
  BY <1>a, FS_Subset
<1>3. r.mode # "fingerprint" => Cardinality(N!Fingerprints(m)) = 0
  <2>1. r.mode # "fingerprint" => N!Fingerprints(m) = {}
    BY <1>1 DEF N!Fingerprints
  <2> QED
    BY <2>1, FS_EmptySet
<1>4. r.mode = "skip" => Cardinality(N!Listed(m)) = 0
  <2>1. r.mode = "skip" => N!Listed(m) = {}
    BY <1>1 DEF N!Listed
  <2> QED
    BY <2>1, FS_EmptySet
<1>5. ASSUME r.mode = "idlist" PROVE Cardinality(N!Listed(m)) = Cardinality(r.items)
  <2> DEFINE f == [i \in r.items |-> <<1, i>>]
             image == {f[i] : i \in r.items}
  <2>1. N!Listed(m) = {<<1, i>> : i \in r.items}
    BY <1>1, <1>5 DEF N!Listed
  <2>2. image = {<<1, i>> : i \in r.items}
    OBVIOUS
  <2>3. f \in [r.items -> image]
    OBVIOUS
  <2>4. \A i, j \in r.items : f[i] = f[j] => i = j
    OBVIOUS
  <2> HIDE DEF f
  <2>5. Cardinality(image) = Cardinality(r.items)
    BY <1>b, <2>3, <2>4, ImageSize
  <2> QED
    BY <2>1, <2>2, <2>5
<1>6. r.mode = "idlist" => Cardinality(r.items) \in Nat
  BY <1>b, FS_CardinalityType
<1> QED
  BY <1>2, <1>3, <1>4, <1>5, <1>6 DEF m

LEMMA JoinedLate ==
  ASSUME NEW a \in Seq(MessageRange), NEW b \in Seq(MessageRange),
         NEW p \in 0..N!Infinite, NEW s, NEW k \in 1..Len(a), Late(a, p, k, s)
  PROVE  Late(a \o b, p, k, s)
<1>1. \A j \in 1..Len(a) :
        (a \o b)[j] = a[j] /\ From(a \o b, p, j) = From(a, p, j)
  BY Joined
<1>2. k > 1 => k - 1 \in 1..Len(a)
  BY LenProperties
<1> QED
  BY <1>1, <1>2 DEF Late

LEMMA ReconcileBasics ==
  ASSUME ReconcileInv
  PROVE  /\ input \in Seq(MessageRange) /\ output \in Seq(MessageRange)
         /\ turn \in N!Side /\ Sender \in N!Side /\ turn # Sender
         /\ prevBound \in 0..N!Infinite /\ prevBound \in Nat
         /\ 0 \in 0..N!Infinite /\ N!Item \subseteq Nat
         /\ Until(output, 0) \in 0..N!Infinite /\ Until(output, 0) \in Nat
         /\ N!Infinite \in 1..N!Infinite /\ N!Infinite \in Nat
         /\ FrameLimit[turn] \in Nat
         /\ \A s \in N!Side : has[s] \subseteq N!Item
         /\ \A i \in N!Item : i < N!Infinite
<1>1. input \in Seq(MessageRange) /\ output \in Seq(MessageRange)
  BY DEF ReconcileInv, Truthful
<1>2. turn \in N!Side /\ Sender \in N!Side /\ turn # Sender
  BY DEF ReconcileInv, ReconcileTypes, N!Side, Sender
<1>3. /\ prevBound \in 0..N!Infinite /\ prevBound \in Nat /\ 0 \in 0..N!Infinite
      /\ N!Item \subseteq Nat /\ N!Infinite \in 1..N!Infinite /\ N!Infinite \in Nat
  BY ReconcileSizes DEF ReconcileInv, ReconcileTypes
<1>4. Until(output, 0) \in 0..N!Infinite /\ Until(output, 0) \in Nat
  BY <1>1, <1>3, OrderedTypes
<1>5. \A s \in N!Side : has[s] \subseteq N!Item
  BY DEF ReconcileInv, ReconcileTypes
<1>6. \A i \in N!Item : i < N!Infinite
  BY ReconcileSizes DEF N!Item, N!Infinite
<1>7. FrameLimit[turn] \in Nat
  BY <1>2, ReconcileSizes
<1> QED
  BY <1>1, <1>2, <1>3, <1>4, <1>5, <1>6, <1>7

(* A turn of the loop that is not the last one.                             *)
LEMMA TurnContinues ==
  ASSUME ReconcileInv, input # <<>>, has' = has, turn' = turn, ~ done',
         ReconcileTypes', Reported',
         input' = Tail(input), prevBound' = Head(input).bound,
         NEW add, output' = output \o add,
         Truthful(add, Until(output, 0), turn),
         N!Size(output') <= FrameLimit[turn],
         Until(output', 0) <= prevBound',
         ~ skipping' => Until(output', 0) = prevBound',
         \A k \in 1..Len(add) : ~ Nothing(add[k]),
         Head(input).mode = "idlist" /\ turn = "client" => add = <<>>,
         \A i \in N!Item : Outstanding(i)' =>
           /\ Outstanding(i)
           /\ Covers(Head(input), prevBound, i, turn) =>
                Covered(i, add, Until(output, 0), Sender)
  PROVE  ReconcileInv'
<1>1. /\ input \in Seq(MessageRange) /\ output \in Seq(MessageRange)
      /\ prevBound \in 0..N!Infinite /\ prevBound \in Nat /\ 0 \in 0..N!Infinite
      /\ Until(output, 0) \in Nat /\ N!Item \subseteq Nat
      /\ Sender \in N!Side /\ has[Sender] \subseteq N!Item
  BY ReconcileBasics
<1>2. Sender' = Sender
  BY DEF Sender
<1>3. /\ Truthful(input', prevBound', Sender) /\ Told(Head(input), prevBound, Sender)
      /\ prevBound' \in 1..N!Infinite
  BY <1>1, TailTruthful DEF ReconcileInv
<1>4. add \in Seq(MessageRange) /\ Len(add) \in Nat
  BY LenProperties DEF Truthful
<1>5. Truthful(output', 0, turn)
  BY <1>1, JoinedTruthful DEF ReconcileInv
<1>6. /\ Head(input) = input[1] /\ 1 \in 1..Len(input)
      /\ From(input, prevBound, 1) = prevBound
      /\ \A k \in 1..Len(input') :
           /\ k + 1 \in 1..Len(input)
           /\ input'[k] = input[k + 1]
           /\ From(input', prevBound', k) = From(input, prevBound, k + 1)
  BY <1>1, TailRanges
<1>7. Until(output', 0) \in Nat /\ prevBound' \in Nat
  <2>1. output' \in Seq(MessageRange)
    BY <1>5 DEF Truthful
  <2>2. prevBound' \in Nat
    BY <1>3, ReconcileSizes
  <2> QED
    BY <1>1, <2>1, <2>2, OrderedTypes
<1>8. ASSUME NEW i \in N!Item, Outstanding(i)'
      PROVE  Covered(i, input', prevBound', turn) \/ Covered(i, output', 0, Sender)
  <2>1. Covered(i, input, prevBound, turn) \/ Covered(i, output, 0, Sender)
    BY <1>8 DEF ReconcileInv, NothingLost
  <2>2. CASE Covered(i, output, 0, Sender)
    BY <1>1, <1>4, <2>2, JoinedCovers
  <2>3. CASE Covered(i, input, prevBound, turn)
    <3>1. \/ Covers(Head(input), prevBound, i, turn)
          \/ Covered(i, input', prevBound', turn)
      BY <1>1, <2>3, TailCovers DEF ReconcileInv
    <3>2. Covers(Head(input), prevBound, i, turn) =>
            Covered(i, add, Until(output, 0), Sender)
      BY <1>8
    <3>3. Covered(i, add, Until(output, 0), Sender) => Covered(i, output', 0, Sender)
      BY <1>1, <1>4, JoinedCovers
    <3> QED
      BY <3>1, <3>2, <3>3
  <2> QED
    BY <2>1, <2>2, <2>3
<1>9. ASSUME NEW k \in 1..Len(input'), Nothing(input'[k])
      PROVE  /\ input'[k].bound = N!Infinite
             /\ k = 1 => Beyond(Sender, Until(output', 0))
             /\ k # 1 => Late(input', prevBound', k, Sender)
  <2>1. /\ k + 1 \in 1..Len(input) /\ input'[k] = input[k + 1] /\ k + 1 # 1
        /\ From(input', prevBound', k) = From(input, prevBound, k + 1)
    BY <1>6
  <2>2. input'[k].bound = N!Infinite /\ Late(input, prevBound, k + 1, Sender)
    BY <1>9, <2>1 DEF ReconcileInv, NothingIsLast
  <2>3. ASSUME k = 1 PROVE Beyond(Sender, Until(output', 0))
    <3>1. From(input, prevBound, k + 1) = prevBound' /\ input[k + 1 - 1] = Head(input)
      BY <1>6, <2>3 DEF From
    <3>2. CASE Beyond(Sender, prevBound')
      <4>1. PICK y \in has[Sender] : prevBound' <= y
        BY <3>2 DEF Beyond
      <4>a. y \in Nat
        BY <1>1
      <4>2. Until(output', 0) <= y
        BY <1>7, <4>1, <4>a
      <4> QED
        BY <4>2 DEF Beyond
    <3>3. CASE Sender = "server" /\ Head(input).mode = "idlist" /\ Head(input).items # {}
      <4>1. turn = "client" /\ add = <<>>
        BY <3>3 DEF Sender
      <4>2. output' = output
        BY <1>1, <4>1, ConcatEmptySeq
      <4>3. PICK y \in has[Sender] : prevBound <= y
        BY <1>3, <3>3 DEF Told, N!Between
      <4>4. Until(output, 0) <= prevBound
        BY DEF ReconcileInv, WrittenSoFar
      <4>a. y \in Nat
        BY <1>1
      <4>5. Until(output, 0) <= y
        BY <1>1, <4>3, <4>4, <4>a
      <4> QED
        BY <4>2, <4>5 DEF Beyond
    <3> QED
      BY <2>2, <3>1, <3>2, <3>3 DEF Late
  <2>4. ASSUME k # 1 PROVE Late(input', prevBound', k, Sender)
    <3>1. k - 1 \in 1..Len(input')
      BY <2>4
    <3>2. input'[k - 1] = input[k - 1 + 1] /\ k - 1 + 1 = k /\ k + 1 - 1 = k
      BY <1>6, <3>1
    <3> QED
      BY <2>1, <2>2, <2>4, <3>2 DEF Late
  <2> QED
    BY <2>2, <2>3, <2>4
<1>10. ASSUME NEW k \in 1..Len(output'), Nothing(output'[k])
       PROVE  output'[k].bound = N!Infinite /\ Late(output', 0, k, turn)
  <2>1. /\ Len(output) \in Nat /\ Len(output') = Len(output) + Len(add)
        /\ \A j \in 1..Len(output) : output'[j] = output[j]
        /\ \A j \in 1..Len(add) : output'[Len(output) + j] = add[j]
    BY <1>1, <1>4, Joined, LenProperties
  <2>2. k \in 1..Len(output)
    <3>1. ASSUME k \notin 1..Len(output) PROVE FALSE
      <4>1. k - Len(output) \in 1..Len(add) /\ k = Len(output) + (k - Len(output))
        BY <1>4, <2>1, <3>1
      <4>2. output'[k] = add[k - Len(output)]
        BY <2>1, <4>1
      <4> QED
        BY <1>10, <4>1, <4>2
    <3> QED
      BY <3>1
  <2>3. output[k].bound = N!Infinite /\ Late(output, 0, k, turn)
    BY <1>10, <2>1, <2>2 DEF ReconcileInv, NothingIsLast
  <2> QED
    BY <1>1, <1>4, <2>1, <2>2, <2>3, JoinedLate
<1>11. (Truthful(input, prevBound, Sender))' /\ (Truthful(output, 0, turn))'
  BY <1>2, <1>3, <1>5 DEF Truthful, Told, N!Between
<1>12. WrittenSoFar'
  BY <1>3 DEF WrittenSoFar
<1>13. NothingIsLast'
  BY <1>2, <1>9, <1>10 DEF NothingIsLast, Late, Beyond
<1>14. NothingLost'
  BY <1>2, <1>8 DEF NothingLost, Covered, Covers, N!Between
<1> QED
  BY <1>11, <1>12, <1>13, <1>14 DEF ReconcileInv

(* The turn in which a message gets too long.                               *)
LEMMA TurnCutsOff ==
  ASSUME ReconcileInv, has' = has, turn' = turn, ~ done', ReconcileTypes',
         prevBound' = prevBound, haves' = haves, haveNots' = haveNots,
         input' = <<>>,
         NEW add, NEW upper \in 1..N!Infinite, NEW last,
         last = N!RangeOf("fingerprint", N!Infinite,
                          N!Between(turn, upper, N!Infinite)),
         output' = (output \o add) \o <<last>>,
         Truthful(add, Until(output, 0), turn),
         Until(output \o add, 0) <= upper,
         \A k \in 1..Len(add) : ~ Nothing(add[k]),
         last.items = {} =>
           \/ Beyond(turn, Until(output \o add, 0))
           \/ /\ turn = "server" /\ add # <<>>
              /\ add[Len(add)].mode = "idlist" /\ add[Len(add)].items # {},
         \A i \in N!Item :
           Outstanding(i) /\ Covered(i, input, prevBound, turn) =>
             \/ Covered(i, add, Until(output, 0), Sender)
             \/ Covers(last, Until(output \o add, 0), i, Sender)
  PROVE  ReconcileInv'
<1> DEFINE c == output \o add
           u == Until(c, 0)
<1>1. /\ output \in Seq(MessageRange) /\ 0 \in 0..N!Infinite
      /\ N!Infinite \in 1..N!Infinite /\ N!Infinite \in Nat
      /\ turn \in N!Side /\ N!Item \subseteq Nat
      /\ prevBound \in 0..N!Infinite /\ prevBound \in Nat
  BY ReconcileBasics
<1>2. Sender' = Sender
  BY DEF Sender
<1>3. add \in Seq(MessageRange) /\ Len(add) \in Nat /\ Len(output) \in Nat
  BY <1>1, LenProperties DEF Truthful
<1>4. Truthful(c, 0, turn) /\ c \in Seq(MessageRange)
  BY <1>1, <1>3, Joined, JoinedTruthful DEF ReconcileInv
<1>5. u \in 0..N!Infinite /\ u \in Nat
  BY <1>1, <1>4, OrderedTypes
<1>6. /\ last \in MessageRange /\ last.bound = N!Infinite
      /\ last.items = N!Between(turn, upper, N!Infinite)
      /\ last.mode = "fingerprint"
  <2>1. N!Between(turn, upper, N!Infinite) \subseteq N!Item
    BY <1>1, BetweenIsFinite DEF ReconcileInv
  <2> QED
    BY <1>1, <2>1 DEF MessageRange, N!RangeOf
<1> HIDE DEF c, u
<1>7. Told(last, u, turn)
  <2>1. upper \in Nat /\ u <= upper
    BY <1>1 DEF c, u
  <2>2. has[turn] \subseteq Nat
    BY <1>1, ReconcileBasics
  <2>3. \A i \in has[turn] : upper <= i => u <= i
    BY <1>5, <2>1, <2>2
  <2> QED
    BY <1>6, <2>3 DEF Told, N!Between
<1> DEFINE d == <<last>>
<1>8. /\ d \in Seq(MessageRange) /\ Len(d) = 1 /\ d[1] = last
      /\ Truthful(d, u, turn) /\ From(d, u, 1) = u
      /\ \A i, reader : Covers(last, u, i, reader) => Covered(i, d, u, reader)
  <2>1. u <= last.bound
    BY <1>1, <1>5, <1>6
  <2> QED
    BY <1>5, <1>6, <1>7, <2>1, SingleRange
<1>9. output' = c \o d
  BY DEF c
<1> HIDE DEF d
<1>a. Truthful(output', 0, turn)
  BY <1>1, <1>4, <1>8, <1>9, JoinedTruthful DEF u
<1>10. ASSUME NEW i \in N!Item, Outstanding(i)
       PROVE  Covered(i, output', 0, Sender)
  <2>1. Covered(i, input, prevBound, turn) \/ Covered(i, output, 0, Sender)
    BY <1>10 DEF ReconcileInv, NothingLost
  <2>2. \/ Covered(i, output, 0, Sender) \/ Covered(i, add, Until(output, 0), Sender)
        \/ Covers(last, u, i, Sender)
    BY <1>10, <2>1 DEF c, u
  <2>3. Covered(i, c, 0, Sender) \/ Covered(i, d, u, Sender)
    <3>1. \/ Covered(i, output, 0, Sender)
          \/ Covered(i, add, Until(output, 0), Sender) => Covered(i, c, 0, Sender)
      BY <1>1, <1>3, JoinedCovers DEF c
    <3>2. Covered(i, output, 0, Sender) => Covered(i, c, 0, Sender)
      BY <1>1, <1>3, JoinedCovers DEF c
    <3> QED
      BY <1>8, <2>2, <3>1, <3>2
  <2> QED
    BY <1>1, <1>4, <1>8, <1>9, <2>3, JoinedCovers DEF u
<1>11. ASSUME NEW k \in 1..Len(output'), Nothing(output'[k])
       PROVE  output'[k].bound = N!Infinite /\ Late(output', 0, k, turn)
  <2>1. /\ Len(c) = Len(output) + Len(add)
        /\ \A j \in 1..Len(output) : c[j] = output[j]
        /\ \A j \in 1..Len(add) : c[Len(output) + j] = add[j]
    BY <1>1, <1>3, Joined DEF c
  <2>2. /\ Len(output') = Len(c) + 1
        /\ \A j \in 1..Len(c) : output'[j] = c[j]
        /\ output'[Len(c) + 1] = last
        /\ From(output', 0, Len(c) + 1) = u
    <3>1. /\ Len(output') = Len(c) + Len(d)
          /\ \A j \in 1..Len(c) :
               output'[j] = c[j] /\ From(output', 0, j) = From(c, 0, j)
          /\ \A j \in 1..Len(d) :
               /\ output'[Len(c) + j] = d[j]
               /\ From(output', 0, Len(c) + j) = From(d, Until(c, 0), j)
      <4>1. c \in Seq(MessageRange) /\ d \in Seq(MessageRange) /\ 0 \in 0..N!Infinite
        BY <1>1, <1>4, <1>8
      <4>2. /\ Len(c \o d) = Len(c) + Len(d)
            /\ \A j \in 1..Len(c) :
                 (c \o d)[j] = c[j] /\ From(c \o d, 0, j) = From(c, 0, j)
            /\ \A j \in 1..Len(d) :
                 /\ (c \o d)[Len(c) + j] = d[j]
                 /\ From(c \o d, 0, Len(c) + j) = From(d, Until(c, 0), j)
        BY <4>1, Joined, Zenon
      <4> QED
        BY <1>9, <4>2, Zenon
    <3>2. 1 \in 1..Len(d)
      BY <1>8
    <3> QED
      BY <1>8, <3>1, <3>2 DEF u
  <2>3. CASE k = Len(c) + 1
    <3>1. output'[k] = last /\ last.items = {}
      BY <1>11, <2>2, <2>3 DEF Nothing
    <3>2. CASE Beyond(turn, u)
      BY <1>6, <2>2, <2>3, <3>1, <3>2 DEF Late
    <3>3. CASE /\ turn = "server" /\ add # <<>>
               /\ add[Len(add)].mode = "idlist" /\ add[Len(add)].items # {}
      <4>1. Len(add) \in 1..Len(add)
        BY <1>3, <3>3, EmptySeq
      <4>2. /\ k - 1 = Len(output) + Len(add) /\ k - 1 \in 1..Len(c) /\ k > 1
        BY <1>3, <2>1, <2>3, <4>1
      <4>3. output'[k - 1] = add[Len(add)]
        BY <2>1, <2>2, <4>1, <4>2
      <4> QED
        BY <1>6, <3>1, <3>3, <4>2, <4>3 DEF Late
    <3> QED
      BY <3>1, <3>2, <3>3 DEF c, u
  <2>4. CASE k # Len(c) + 1
    <3>a. Len(c) \in Nat
      BY <1>3, <2>1
    <3>b. k \in 1..Len(c)
      BY <2>2, <2>4, <3>a
    <3>1. k \in 1..Len(c) /\ output'[k] = c[k]
      BY <2>2, <3>b
    <3>2. k \in 1..Len(output)
      <4>1. ASSUME k \notin 1..Len(output) PROVE FALSE
        <5>1. k - Len(output) \in 1..Len(add) /\ k = Len(output) + (k - Len(output))
          BY <1>3, <2>1, <3>1, <4>1
        <5>2. c[k] = add[k - Len(output)]
          BY <2>1, <5>1
        <5> QED
          BY <1>11, <3>1, <5>1, <5>2
      <4> QED
        BY <4>1
    <3>3. output[k].bound = N!Infinite /\ Late(output, 0, k, turn)
      BY <1>11, <2>1, <3>1, <3>2 DEF ReconcileInv, NothingIsLast
    <3>4. Late(c, 0, k, turn)
      BY <1>1, <1>3, <3>2, <3>3, JoinedLate DEF c
    <3> QED
      BY <1>1, <1>4, <1>8, <1>9, <2>1, <3>1, <3>2, <3>3, <3>4, JoinedLate
  <2> QED
    BY <2>3, <2>4
<1>12. Truthful(<<>>, prevBound, Sender) /\ Len(<<>>) = 0
  BY DEF Truthful, Ordered
<1>13. (Truthful(input, prevBound, Sender))' /\ (Truthful(output, 0, turn))'
  BY <1>2, <1>a, <1>12 DEF Truthful, Told, N!Between
<1>14. NothingIsLast'
  BY <1>11, <1>12 DEF NothingIsLast, Late, Beyond
<1>15. NothingLost'
  BY <1>2, <1>10, ZenonT(60) DEF NothingLost, Covered, Covers, N!Between, Outstanding
<1>16. WrittenSoFar' /\ Reported'
  BY DEF WrittenSoFar, Reported, ReconcileInv
<1> QED
  BY <1>13, <1>14, <1>15, <1>16 DEF ReconcileInv

LEMMA NothingWeighs == N!Size(<<>>) = 0
<1>1. <<>> \in Seq(MessageRange)
  OBVIOUS
<1>2. N!Listed(<<>>) = {} /\ N!Fingerprints(<<>>) = {}
  BY DEF N!Listed, N!Fingerprints
<1> DEFINE m == <<>>
<1> HIDE DEF m
<1>3. /\ N!Size(m) = Cardinality(N!Listed(m)) + Cardinality(N!Fingerprints(m))
      /\ N!Listed(m) = {} /\ N!Fingerprints(m) = {}
  BY <1>1, <1>2, SizeIsFinite DEF m
<1>4. N!Size(m) = 0
  BY <1>3, FS_EmptySet
<1> QED
  BY <1>4 DEF m

LEMMA NothingIsTruthful ==
  ASSUME NEW p \in 0..N!Infinite, NEW s
  PROVE  Truthful(<<>>, p, s) /\ Until(<<>>, p) = p /\ Len(<<>>) = 0
BY DEF Truthful, Ordered, Until

(* The skip that is due leads from what is written to what is read.         *)
LEMMA FinishSkipTells ==
  ASSUME ReconcileInv, input # <<>>, NEW f, f = N!FinishSkip
  PROVE  /\ Truthful(f, Until(output, 0), turn) /\ f \in Seq(MessageRange)
         /\ Until(f, Until(output, 0)) = prevBound
         /\ N!Size(f) = 0
         /\ \A k \in 1..Len(f) : ~ Nothing(f[k])
<1>1. /\ prevBound \in 0..N!Infinite /\ prevBound \in Nat
      /\ Until(output, 0) \in 0..N!Infinite /\ Until(output, 0) \in Nat
      /\ N!Infinite \in Nat
  BY ReconcileBasics
<1>2. /\ Until(output, 0) <= prevBound
      /\ skipping => prevBound # 0
      /\ ~ skipping => Until(output, 0) = prevBound
  BY DEF ReconcileInv, WrittenSoFar
<1>3. CASE skipping
  <2> DEFINE r == N!RangeOf("skip", prevBound, {})
  <2>1. f = <<r>>
    BY <1>3 DEF N!FinishSkip
  <2>2. prevBound \in 1..N!Infinite
    BY <1>1, <1>2, <1>3
  <2>3. r \in MessageRange /\ r.bound = prevBound /\ r.mode = "skip"
    BY <2>2 DEF MessageRange, N!RangeOf
  <2> HIDE DEF r
  <2>4. Told(r, Until(output, 0), turn)
    BY <2>3 DEF Told
  <2>5. /\ f \in Seq(MessageRange) /\ Len(f) = 1 /\ f[1] = r
        /\ Truthful(f, Until(output, 0), turn) /\ Until(f, Until(output, 0)) = r.bound
    BY <1>1, <1>2, <2>1, <2>3, <2>4, SingleRange
  <2>6. N!Size(f) = 0
    BY <2>1, <2>3, SingleSize
  <2>7. \A k \in 1..Len(f) : k = 1
    BY <2>5
  <2> QED
    BY <2>3, <2>5, <2>6, <2>7 DEF Nothing
<1>4. CASE ~ skipping
  <2>1. f = <<>>
    BY <1>4 DEF N!FinishSkip
  <2>2. /\ Truthful(f, Until(output, 0), turn) /\ Until(f, Until(output, 0)) = prevBound
        /\ Len(f) = 0 /\ N!Size(f) = 0
    BY <1>1, <1>2, <1>4, <2>1, NothingIsTruthful, NothingWeighs
  <2> QED
    BY <2>2 DEF Truthful
<1> QED
  BY <1>3, <1>4 DEF ReconcileInv, ReconcileTypes

LEMMA OutstandingDiffers ==
  ASSUME NEW i, Outstanding(i)
  PROVE  Differs(i)
BY DEF Outstanding, Differs

(* A turn that adds nothing to what is written.                             *)
LEMMA SkipTurn ==
  ASSUME ReconcileInv, input # <<>>, has' = has, turn' = turn, done' = FALSE,
         skipping' = TRUE, Reported',
         N!WriteOutput(output, <<>>, Head(input).bound),
         \A i \in N!Item : Outstanding(i)' =>
           Outstanding(i) /\ ~ Covers(Head(input), prevBound, i, turn)
  PROVE  ReconcileInv'
<1>1. /\ output \in Seq(MessageRange)
      /\ prevBound \in 0..N!Infinite /\ prevBound \in Nat /\ N!Infinite \in Nat
      /\ Until(output, 0) \in 0..N!Infinite /\ Until(output, 0) \in Nat
      /\ FrameLimit[turn] \in Nat
  BY ReconcileBasics
<1>2. /\ N!Size(output) <= FrameLimit[turn] /\ Until(output, 0) <= prevBound
      /\ N!Size(output) \in Nat
  BY <1>1, SizeIsFinite DEF ReconcileInv, WrittenSoFar
<1>3. ~ (N!Size(output) + N!Size(<<>>) > FrameLimit[turn])
  BY <1>1, <1>2, NothingWeighs
<1>4. /\ output' = output \o <<>> /\ input' = Tail(input)
      /\ prevBound' = Head(input).bound
  BY <1>3 DEF N!WriteOutput
<1>5. output' = output
  BY <1>1, <1>4, ConcatEmptySeq
<1>6. prevBound <= prevBound' /\ prevBound' \in 1..N!Infinite
  BY <1>1, <1>4, TailTruthful DEF ReconcileInv
<1>7. prevBound' \in 0..N!Infinite /\ Until(output', 0) <= prevBound'
  BY <1>1, <1>2, <1>5, <1>6
<1>8. ReconcileTypes'
  BY <1>7 DEF ReconcileInv, ReconcileTypes
<1> DEFINE add == <<>>
<1>9. Truthful(add, Until(output, 0), turn) /\ \A k \in 1..Len(add) : ~ Nothing(add[k])
  BY <1>1, NothingIsTruthful
<1>10. Head(input).mode = "idlist" /\ turn = "client" => add = <<>>
  OBVIOUS
<1>11. output' = output \o add
  BY <1>4
<1>12. /\ ~ done' /\ N!Size(output') <= FrameLimit[turn]
       /\ ~ skipping' => Until(output', 0) = prevBound'
  BY <1>2, <1>5
<1> HIDE DEF add
<1>13. \A i \in N!Item : Outstanding(i)' =>
         /\ Outstanding(i)
         /\ Covers(Head(input), prevBound, i, turn) =>
              Covered(i, add, Until(output, 0), Sender)
  OBVIOUS
<1> QED
  BY <1>4, <1>7, <1>8, <1>9, <1>10, <1>11, <1>12, <1>13, TurnContinues

LEMMA ReadSkipKeeps ==
  ASSUME ReconcileInv, N!ReadSkip
  PROVE  ReconcileInv'
<1>1. /\ input # <<>> /\ has' = has /\ turn' = turn /\ done' = FALSE
      /\ skipping' = TRUE /\ haves' = haves /\ haveNots' = haveNots
      /\ N!WriteOutput(output, <<>>, Head(input).bound)
      /\ Head(input).mode = "skip"
  BY DEF N!ReadSkip, N!Reads, ReconcileInv, ReconcileTypes
<1>2. Reported' /\ \A i \in N!Item : Outstanding(i)' => Outstanding(i)
  BY <1>1 DEF ReconcileInv, Reported, Outstanding
<1>3. \A i : ~ Covers(Head(input), prevBound, i, turn)
  BY <1>1 DEF Covers
<1> QED
  BY <1>1, <1>2, <1>3, SkipTurn

LEMMA ReadSameFingerprintKeeps ==
  ASSUME ReconcileInv, N!ReadSameFingerprint
  PROVE  ReconcileInv'
<1>1. /\ input # <<>> /\ has' = has /\ turn' = turn /\ done' = FALSE
      /\ skipping' = TRUE /\ haves' = haves /\ haveNots' = haveNots
      /\ N!WriteOutput(output, <<>>, Head(input).bound)
      /\ Head(input).mode = "fingerprint" /\ Head(input).items = N!Ours
  BY DEF N!ReadSameFingerprint, N!Reads, ReconcileInv, ReconcileTypes
<1>2. Reported' /\ \A i \in N!Item : Outstanding(i)' => Outstanding(i)
  BY <1>1 DEF ReconcileInv, Reported, Outstanding
<1>3. \A i : ~ Covers(Head(input), prevBound, i, turn)
  BY <1>1 DEF Covers, N!Ours
<1> QED
  BY <1>1, <1>2, <1>3, SkipTurn

(* The client finds all that differs in a list.                             *)
LEMMA ClientReadsIdListKeeps ==
  ASSUME ReconcileInv, N!ClientReadsIdList
  PROVE  ReconcileInv'
<1>1. /\ input # <<>> /\ has' = has /\ turn' = turn /\ done' = FALSE
      /\ turn = "client" /\ skipping' = TRUE
      /\ haves' = haves \cup (N!Ours \ Head(input).items)
      /\ haveNots' = haveNots \cup (Head(input).items \ N!Ours)
      /\ N!WriteOutput(output, <<>>, Head(input).bound)
      /\ Head(input).mode = "idlist"
  BY DEF N!ClientReadsIdList, N!Reads, ReconcileInv, ReconcileTypes
<1>2. Head(input).items = N!Between("server", prevBound, Head(input).bound)
  <2>1. Sender = "server" /\ prevBound \in 0..N!Infinite
    BY <1>1, ReconcileBasics DEF Sender
  <2> QED
    BY <1>1, <2>1, TailTruthful DEF ReconcileInv, Told
<1>3. N!Ours = N!Between("client", prevBound, Head(input).bound)
  BY <1>1 DEF N!Ours
<1>4. Reported'
  BY <1>1, <1>2, <1>3 DEF ReconcileInv, Reported, N!Between
<1>5. ASSUME NEW i \in N!Item, Outstanding(i)'
      PROVE  Outstanding(i) /\ ~ Covers(Head(input), prevBound, i, turn)
  <2>1. Outstanding(i)
    BY <1>1, <1>5 DEF Outstanding
  <2>2. ASSUME Covers(Head(input), prevBound, i, turn) PROVE FALSE
    <3>1. prevBound <= i /\ i < Head(input).bound
      BY <2>2 DEF Covers
    <3> QED
      BY <1>1, <1>2, <1>3, <1>5, <3>1 DEF Outstanding, N!Between
  <2> QED
    BY <2>1, <2>2
<1> QED
  BY <1>1, <1>4, <1>5, SkipTurn

LEMMA SplitOfNothing ==
  ASSUME NEW upper \in 1..N!Infinite
  PROVE  N!Size(N!SplitRange({}, upper)) = 0
<1>1. Cardinality({}) = 0 /\ N!Cardinality({}) = Cardinality({})
  BY FS_EmptySet DEF N!Cardinality, Cardinality
<1>2. 0 < Buckets * 2
  BY ReconcileSizes
<1>3. N!SplitRange({}, upper) = <<N!RangeOf("idlist", upper, {})>>
  BY <1>1, <1>2 DEF N!SplitRange
<1> DEFINE r == N!RangeOf("idlist", upper, {})
<1>4. r \in MessageRange /\ r.mode = "idlist" /\ r.items = {}
  BY DEF MessageRange, N!RangeOf
<1> HIDE DEF r
<1>5. N!Size(<<r>>) = 0
  BY <1>1, <1>4, SingleSize
<1> QED
  BY <1>3, <1>5 DEF r

LEMMA WithinReading ==
  ASSUME ReconcileInv, input # <<>>, NEW i \in N!Item,
         Covered(i, input, prevBound, turn)
  PROVE  /\ prevBound <= i
         /\ Covers(Head(input), prevBound, i, turn) \/ Head(input).bound <= i
<1>1. /\ prevBound \in 0..N!Infinite /\ prevBound \in Nat /\ N!Item \subseteq Nat
  BY ReconcileBasics
<1>2. Covers(Head(input), prevBound, i, turn) \/ Head(input).bound <= i
  BY <1>1, TailCovers DEF ReconcileInv
<1>3. /\ prevBound <= Head(input).bound /\ Head(input).bound \in Nat
  BY <1>1, TailTruthful DEF ReconcileInv
<1>4. Covers(Head(input), prevBound, i, turn) => prevBound <= i
  BY DEF Covers
<1> QED
  BY <1>1, <1>2, <1>3, <1>4

(* If the message is cut off where a fingerprint differs, the one that is   *)
(* sent instead starts earlier than what it is of. It still does not pass   *)
(* for the reader's own: that would leave what differs here unnoticed.      *)
LEMMA CutOffDiffers ==
  ASSUME ReconcileInv, input # <<>>, Head(input).mode = "fingerprint",
         NEW i \in N!Item, Outstanding(i), Covered(i, input, prevBound, turn)
  PROVE  N!Between(turn, Head(input).bound, N!Infinite) #
           N!Between(Sender, Until(output, 0), N!Infinite)
<1> DEFINE r == Head(input)
           b == Head(input).bound
           u == Until(output, 0)
<1>1. /\ input \in Seq(MessageRange) /\ prevBound \in 0..N!Infinite /\ prevBound \in Nat
      /\ N!Item \subseteq Nat /\ u \in Nat /\ N!Infinite \in Nat
      /\ turn \in N!Side /\ Sender \in N!Side /\ turn # Sender
      /\ \A s \in N!Side : has[s] \subseteq N!Item
      /\ \A j \in N!Item : j < N!Infinite
  BY ReconcileBasics
<1>2. /\ Told(r, prevBound, Sender) /\ prevBound <= b /\ b \in Nat
  BY <1>1, TailTruthful DEF ReconcileInv
<1>3. u <= prevBound
  BY DEF ReconcileInv, WrittenSoFar
<1>4. prevBound <= i /\ (Covers(r, prevBound, i, turn) \/ b <= i)
  BY WithinReading
<1>5. (i \in has[turn]) # (i \in has[Sender])
  BY <1>1, OutstandingDiffers DEF Differs, N!Side
<1>6. i \in Nat /\ u <= i /\ i < N!Infinite
  BY <1>1, <1>3, <1>4
<1>7. CASE b <= i
  BY <1>5, <1>6, <1>7 DEF N!Between
<1>8. CASE Covers(r, prevBound, i, turn) /\ r.items # {}
  <2>1. PICK y \in r.items : y \in N!Between(Sender, prevBound, b)
    BY <1>2, <1>8 DEF Told
  <2>2. y \in has[Sender] /\ y \in Nat /\ y < N!Infinite /\ prevBound <= y /\ y < b
    BY <1>1, <2>1 DEF N!Between
  <2>3. u <= y /\ ~ (b <= y)
    BY <1>1, <1>2, <1>3, <2>2
  <2> QED
    BY <2>2, <2>3 DEF N!Between
<1>9. CASE Covers(r, prevBound, i, turn) /\ r.items = {}
  <2>1. r = input[1] /\ 1 \in 1..Len(input)
    BY <1>1, TailRanges
  <2>2. b = N!Infinite /\ Beyond(Sender, u)
    BY <1>9, <2>1 DEF ReconcileInv, NothingIsLast, Nothing
  <2>3. PICK y \in has[Sender] : u <= y
    BY <2>2 DEF Beyond
  <2>4. y \in Nat /\ y < N!Infinite /\ ~ (b <= y)
    BY <1>1, <2>2
  <2> QED
    BY <2>3, <2>4 DEF N!Between
<1> QED
  BY <1>4, <1>7, <1>8, <1>9

LEMMA ReadOtherFingerprintKeeps ==
  ASSUME ReconcileInv, N!ReadOtherFingerprint
  PROVE  ReconcileInv'
<1> DEFINE b == Head(input).bound
           u == Until(output, 0)
           f == N!FinishSkip
           split == N!SplitRange(N!Ours, b)
<1>1. /\ input # <<>> /\ has' = has /\ turn' = turn /\ done' = FALSE
      /\ skipping' = FALSE /\ haves' = haves /\ haveNots' = haveNots
      /\ N!WriteOutput(output, f \o split, b)
      /\ Head(input).mode = "fingerprint"
  BY DEF N!ReadOtherFingerprint, N!Reads, ReconcileInv, ReconcileTypes
<1>2. /\ input \in Seq(MessageRange) /\ output \in Seq(MessageRange)
      /\ prevBound \in 0..N!Infinite /\ prevBound \in Nat
      /\ N!Item \subseteq Nat /\ u \in Nat /\ N!Infinite \in Nat
      /\ u \in 0..N!Infinite /\ 0 \in 0..N!Infinite
      /\ turn \in N!Side /\ Sender \in N!Side /\ turn # Sender
      /\ FrameLimit[turn] \in Nat
      /\ \A s \in N!Side : has[s] \subseteq N!Item
      /\ \A i \in N!Item : i < N!Infinite
  BY ReconcileBasics
<1>3. /\ prevBound <= b /\ b \in 1..N!Infinite /\ b \in Nat
  BY <1>1, <1>2, TailTruthful DEF ReconcileInv
<1>4. u <= prevBound /\ N!Size(output) <= FrameLimit[turn] /\ N!Size(output) \in Nat
  BY <1>1, <1>2, SizeIsFinite DEF ReconcileInv, WrittenSoFar
<1>5. /\ Truthful(f, u, turn) /\ f \in Seq(MessageRange)
      /\ Until(f, u) = prevBound /\ N!Size(f) = 0
      /\ \A k \in 1..Len(f) : ~ Nothing(f[k])
  BY <1>1, FinishSkipTells
<1>6. /\ Truthful(split, prevBound, turn) /\ Until(split, prevBound) = b
      /\ \A k \in 1..Len(split) : ~ Nothing(split[k])
      /\ \A i \in Nat : prevBound <= i /\ i < b /\ Differs(i) =>
           Covered(i, split, prevBound, Sender)
  <2>1. split = N!SplitRange(N!Between(turn, prevBound, b), b)
    BY DEF N!Ours
  <2> HIDE DEF split, b
  <2> QED
    BY <1>2, <1>3, <2>1, SplitRangeCovers DEF ReconcileInv, Nothing
<1>7. split \in Seq(MessageRange)
  BY <1>6 DEF Truthful
<1> HIDE DEF f, split, u
<1> DEFINE add == f \o split
<1>8. /\ Truthful(add, u, turn) /\ add \in Seq(MessageRange)
      /\ Until(output \o add, 0) = b
      /\ N!Size(add) = N!Size(split) /\ N!Size(split) \in Nat
      /\ N!Size(output \o add) = N!Size(output) + N!Size(add)
  <2>1. add \in Seq(MessageRange) /\ Until(add, u) = b
    BY <1>2, <1>5, <1>6, <1>7, Joined
  <2>2. Truthful(add, u, turn)
    BY <1>2, <1>5, <1>6, JoinedTruthful
  <2>3. N!Size(add) = N!Size(split) /\ N!Size(split) \in Nat
    BY <1>5, <1>7, JoinedSize, SizeIsFinite
  <2> HIDE DEF add
  <2>4. Until(output \o add, 0) = b
    BY <1>2, <2>1, Joined DEF u
  <2> QED
    BY <1>2, <2>1, <2>2, <2>3, <2>4, JoinedSize
<1>9. \A k \in 1..Len(add) : ~ Nothing(add[k])
  <2> SUFFICES ASSUME NEW k \in 1..Len(add) PROVE ~ Nothing(add[k])
    OBVIOUS
  <2>1. /\ Len(add) = Len(f) + Len(split) /\ Len(f) \in Nat /\ Len(split) \in Nat
        /\ add[k] = IF k <= Len(f) THEN f[k] ELSE split[k - Len(f)]
    BY <1>5, <1>7, ConcatProperties, LenProperties
  <2> HIDE DEF add
  <2>2. k \in 1..Len(f) \/ (~ (k <= Len(f)) /\ k - Len(f) \in 1..Len(split))
    BY <2>1
  <2> QED
    BY <1>5, <1>6, <2>1, <2>2
<1>10. ASSUME NEW i \in N!Item, Outstanding(i), Covers(Head(input), prevBound, i, turn)
       PROVE  Covered(i, add, u, Sender)
  <2>1. Covered(i, split, prevBound, Sender)
    BY <1>2, <1>6, <1>10, OutstandingDiffers DEF Covers
  <2> QED
    BY <1>2, <1>5, <1>7, <2>1, JoinedCovers
<1> HIDE DEF add
<1>11. /\ Reported' /\ \A i \in N!Item : Outstanding(i)' => Outstanding(i)
  BY <1>1 DEF ReconcileInv, Reported, Outstanding
<1>12. CASE ~ (N!Size(output) + N!Size(add) > FrameLimit[turn])
  <2>1. output' = output \o add /\ input' = Tail(input) /\ prevBound' = b
    BY <1>1, <1>12 DEF N!WriteOutput, add
  <2>2. N!Size(output') <= FrameLimit[turn]
    BY <1>2, <1>4, <1>8, <1>12, <2>1
  <2>3. Until(output', 0) = prevBound' /\ Until(output', 0) <= prevBound'
    BY <1>3, <1>8, <2>1
  <2>4. ReconcileTypes'
    <3>1. prevBound' \in 0..N!Infinite
      BY <1>2, <1>3, <2>1
    <3> QED
      BY <1>1, <3>1 DEF ReconcileInv, ReconcileTypes
  <2> QED
    BY <1>1, <1>8, <1>9, <1>10, <1>11, <2>1, <2>2, <2>3, <2>4, TurnContinues DEF u
<1>13. CASE N!Size(output) + N!Size(add) > FrameLimit[turn]
  <2> DEFINE last == N!RangeOf("fingerprint", N!Infinite, N!Between(turn, b, N!Infinite))
             none == <<>>
  <2>1. output' = output \o <<last>> /\ input' = <<>> /\ prevBound' = prevBound
    BY <1>1, <1>13 DEF N!WriteOutput, add
  <2>2. /\ Truthful(none, u, turn) /\ output \o none = output
        /\ \A k \in 1..Len(none) : ~ Nothing(none[k])
    BY <1>2, NothingIsTruthful, ConcatEmptySeq
  <2>3. /\ last.bound = N!Infinite /\ last.mode = "fingerprint"
        /\ last.items = N!Between(turn, b, N!Infinite)
    BY DEF N!RangeOf
  <2>4. Beyond(turn, u)
    <3>1. N!Ours # {}
      <4>1. ASSUME N!Ours = {} PROVE FALSE
        <5>1. N!Size(split) = 0
          BY <1>3, <4>1, SplitOfNothing DEF split
        <5> QED
          BY <1>2, <1>4, <1>8, <1>13, <5>1
      <4> QED
        BY <4>1
    <3>2. PICK y \in N!Ours : TRUE
      BY <3>1
    <3>3. y \in has[turn] /\ prevBound <= y
      BY <3>2 DEF N!Ours, N!Between
    <3>4. y \in Nat
      BY <1>2, <3>3
    <3>5. u <= y
      BY <1>2, <1>4, <3>3, <3>4
    <3> QED
      BY <3>3, <3>5 DEF Beyond
  <2>5. ASSUME NEW i \in N!Item, Outstanding(i), Covered(i, input, prevBound, turn)
        PROVE  Covers(last, u, i, Sender)
    <3>1. prevBound <= i /\ i \in Nat /\ i < N!Infinite
      BY <1>1, <1>2, <2>5, WithinReading
    <3>2. u <= i
      BY <1>2, <1>4, <3>1
    <3>3. N!Between(turn, b, N!Infinite) # N!Between(Sender, u, N!Infinite)
      BY <1>1, <2>5, CutOffDiffers DEF u
    <3> QED
      BY <2>3, <3>1, <3>2, <3>3 DEF Covers
  <2>6. u <= b
    BY <1>2, <1>3, <1>4
  <2>7. ReconcileTypes'
    BY <1>1, <2>1 DEF ReconcileInv, ReconcileTypes
  <2>8. output' = (output \o none) \o <<last>>
    BY <2>1, <2>2
  <2>9. Until(output \o none, 0) = u
    BY <2>2 DEF u
  <2> HIDE DEF none
  <2>10. /\ ~ done' /\ Until(output \o none, 0) <= b
         /\ last.items = {} => Beyond(turn, Until(output \o none, 0))
         /\ \A i \in N!Item :
              Outstanding(i) /\ Covered(i, input, prevBound, turn) =>
                Covers(last, Until(output \o none, 0), i, Sender)
    BY <1>1, <2>4, <2>5, <2>6, <2>9
  <2>11. last = N!RangeOf("fingerprint", N!Infinite, N!Between(turn, b, N!Infinite))
    OBVIOUS
  <2> HIDE DEF last, b
  <2> QED
    BY <1>1, <1>3, <2>1, <2>2, <2>7, <2>8, <2>10, <2>11, TurnCutsOff DEF u
<1> QED
  BY <1>12, <1>13

(* As many of a set as there is room for: those before the one that has no  *)
(* room any more.                                                           *)
LEMMA RoomIsFilled ==
  ASSUME NEW set \in SUBSET Nat, IsFiniteSet(set),
         NEW room \in Nat, room < Cardinality(set)
  PROVE  /\ N!Sorted(set)[room + 1] \in set
         /\ Cardinality({i \in set : i < N!Sorted(set)[room + 1]}) = room
<1> DEFINE e == N!Sorted(set)[room + 1]
<1>1. Cardinality(set) \in Nat /\ room + 1 \in 1..Cardinality(set)
  BY FS_CardinalityType
<1>2. e \in set /\ Cardinality(Upto(set, e)) = room + 1
  BY <1>1, SortedInOrder
<1> HIDE DEF e
<1>3. e \in Upto(set, e) /\ IsFiniteSet(Upto(set, e))
  <2>1. e \in Nat /\ Upto(set, e) \in SUBSET set
    BY <1>2 DEF Upto
  <2> QED
    BY <1>2, <2>1, FS_Subset DEF Upto
<1>4. {i \in set : i < e} = Upto(set, e) \ {e}
  <2>1. \A i \in set : i < e <=> i <= e /\ i # e
    BY <1>2
  <2> QED
    BY <2>1 DEF Upto
<1>5. Cardinality(Upto(set, e) \ {e}) = room
  <2>1. Cardinality(Upto(set, e) \ {e}) = Cardinality(Upto(set, e)) - 1
    BY <1>3, FS_RemoveElement
  <2> QED
    BY <1>2, <2>1
<1> QED
  BY <1>2, <1>4, <1>5 DEF e

LEMMA ServerReadsIdListKeeps ==
  ASSUME ReconcileInv, N!ServerReadsIdList
  PROVE  ReconcileInv'
<1> DEFINE b == Head(input).bound
           u == Until(output, 0)
           f == N!FinishSkip
           ours == N!Ours
           room == (FrameLimit[turn] + 1) - N!Size(output)
           fits == Cardinality(ours) <= room
           endBound == IF fits THEN b ELSE N!Sorted(ours)[room + 1]
           listed == {i \in ours : i < endBound}
           r == N!RangeOf("idlist", endBound, listed)
           last == N!RangeOf("fingerprint", N!Infinite,
                             N!Between(turn, endBound, N!Infinite))
<1>1. /\ input # <<>> /\ has' = has /\ turn' = turn /\ done' = FALSE
      /\ skipping' = FALSE /\ haves' = haves /\ haveNots' = haveNots
      /\ turn = "server"
      /\ Head(input).mode = "idlist"
  BY DEF N!ServerReadsIdList, N!Reads, ReconcileInv, ReconcileTypes
<1>2. N!WriteOutput(output \o f \o <<r>>, <<>>, endBound)
  BY DEF N!ServerReadsIdList, N!Cardinality, Cardinality
<1>3. /\ input \in Seq(MessageRange) /\ output \in Seq(MessageRange)
      /\ prevBound \in 0..N!Infinite /\ prevBound \in Nat
      /\ N!Item \subseteq Nat /\ u \in Nat /\ N!Infinite \in Nat
      /\ u \in 0..N!Infinite /\ 0 \in 0..N!Infinite
      /\ turn \in N!Side /\ Sender \in N!Side /\ turn # Sender
      /\ FrameLimit[turn] \in Nat
      /\ \A s \in N!Side : has[s] \subseteq N!Item
      /\ \A i \in N!Item : i < N!Infinite
  BY ReconcileBasics
<1>4. /\ prevBound <= b /\ b \in 1..N!Infinite /\ b \in Nat
  BY <1>1, <1>3, TailTruthful DEF ReconcileInv
<1>5. u <= prevBound /\ N!Size(output) <= FrameLimit[turn] /\ N!Size(output) \in Nat
  BY <1>1, <1>3, SizeIsFinite DEF ReconcileInv, WrittenSoFar
<1>6. /\ Truthful(f, u, turn) /\ f \in Seq(MessageRange)
      /\ Until(f, u) = prevBound /\ N!Size(f) = 0
      /\ \A k \in 1..Len(f) : ~ Nothing(f[k])
  BY <1>1, FinishSkipTells
<1>7. /\ ours = N!Between(turn, prevBound, b)
      /\ ours \subseteq N!Item /\ ours \in SUBSET Nat /\ IsFiniteSet(ours)
      /\ Cardinality(ours) \in Nat
      /\ \A i \in ours : prevBound <= i /\ i < b /\ i \in N!Item
  <2>1. ours = N!Between(turn, prevBound, b)
    BY DEF N!Ours
  <2>2. ours \subseteq N!Item /\ ours \in SUBSET Nat /\ IsFiniteSet(ours)
    BY <1>3, <2>1, BetweenIsFinite DEF ReconcileInv
  <2>3. Cardinality(ours) \in Nat
    BY <2>2, FS_CardinalityType
  <2> QED
    BY <2>1, <2>2, <2>3 DEF N!Between
<1> HIDE DEF ours, f, u, b
<1>8. room \in Nat
  BY <1>3, <1>5
<1> HIDE DEF room
<1>9. ~ fits => /\ N!Sorted(ours)[room + 1] \in ours
                /\ Cardinality({i \in ours : i < N!Sorted(ours)[room + 1]}) = room
  <2>1. ~ fits => room < Cardinality(ours)
    BY <1>7, <1>8
  <2> QED
    BY <1>7, <1>8, <2>1, RoomIsFilled
<1>10. /\ endBound \in Nat /\ prevBound <= endBound /\ endBound <= b
       /\ endBound \in 1..N!Infinite
       /\ fits => endBound = b
       /\ ~ fits => Cardinality(listed) = room
  <2>1. CASE fits
    BY <1>4, <2>1
  <2>2. CASE ~ fits
    <3>1. /\ endBound \in ours /\ Cardinality(listed) = room
      BY <1>9, <2>2
    <3> HIDE DEF endBound, listed
    <3>2. endBound \in N!Item /\ prevBound <= endBound /\ endBound < b
      BY <1>7, <3>1
    <3>3. endBound \in 1..N!Infinite /\ endBound \in Nat
      BY <3>2, ReconcileSizes
    <3>4. endBound <= b
      BY <1>4, <3>2, <3>3
    <3> QED
      BY <2>2, <3>1, <3>2, <3>3, <3>4
  <2> QED
    BY <2>1, <2>2
<1> HIDE DEF endBound, fits
<1>11. listed = N!Between(turn, prevBound, endBound) /\ listed \subseteq N!Item
       /\ IsFiniteSet(listed) /\ Cardinality(listed) \in Nat
  <2>1. \A i \in Nat : i < endBound => i < b
    BY <1>4, <1>10
  <2>2. has[turn] \subseteq Nat
    BY <1>3
  <2>3. listed = N!Between(turn, prevBound, endBound)
    BY <1>7, <2>1, <2>2 DEF N!Between
  <2>4. listed \in SUBSET ours
    OBVIOUS
  <2> QED
    BY <1>7, <2>3, <2>4, FS_Subset, FS_CardinalityType
<1> HIDE DEF listed
<1>12. /\ r \in MessageRange /\ r.mode = "idlist" /\ r.bound = endBound
       /\ r.items = listed
  BY <1>10, <1>11 DEF MessageRange, N!RangeOf
<1>13. /\ last.bound = N!Infinite /\ last.mode = "fingerprint"
       /\ last.items = N!Between(turn, endBound, N!Infinite)
  BY DEF N!RangeOf
<1> DEFINE one == <<r>>
           add == f \o one
<1>w. N!WriteOutput(output \o f \o one, <<>>, endBound)
  BY <1>2
<1> HIDE DEF r
<1>14. Told(r, prevBound, turn)
  BY <1>11, <1>12 DEF Told
<1>15. /\ one \in Seq(MessageRange) /\ Len(one) = 1 /\ one[1] = r
       /\ Truthful(one, prevBound, turn) /\ Until(one, prevBound) = endBound
       /\ \A i, reader : Covers(r, prevBound, i, reader) =>
            Covered(i, one, prevBound, reader)
       /\ N!Size(one) = Cardinality(listed)
  BY <1>3, <1>10, <1>12, <1>14, SingleRange, SingleSize
<1> HIDE DEF one
<1>16. /\ Truthful(add, u, turn) /\ add \in Seq(MessageRange)
       /\ Until(output \o add, 0) = endBound
       /\ N!Size(output \o add) = N!Size(output) + Cardinality(listed)
       /\ output \o f \o one = output \o add
  <2>1. add \in Seq(MessageRange) /\ Until(add, u) = endBound
    BY <1>3, <1>6, <1>15, Joined
  <2>2. Truthful(add, u, turn)
    BY <1>3, <1>6, <1>15, JoinedTruthful
  <2>3. N!Size(add) = Cardinality(listed)
    BY <1>6, <1>11, <1>15, JoinedSize
  <2>4. output \o f \o one = output \o add
    BY <1>3, <1>6, <1>15, ConcatAssociative, SMTT(30)
  <2> HIDE DEF add
  <2>5. Until(output \o add, 0) = endBound
    BY <1>3, <2>1, Joined DEF u
  <2> QED
    BY <1>3, <2>1, <2>2, <2>3, <2>4, <2>5, JoinedSize
<1>17. /\ \A k \in 1..Len(add) : ~ Nothing(add[k])
       /\ add # <<>> /\ add[Len(add)] = r
  <2>1. /\ Len(add) = Len(f) + 1 /\ Len(f) \in Nat
        /\ \A k \in 1..Len(f) + 1 : add[k] = IF k <= Len(f) THEN f[k] ELSE one[k - Len(f)]
    BY <1>6, <1>15, ConcatProperties, LenProperties, SMTT(30)
  <2> HIDE DEF add
  <2>2. \A k \in 1..Len(f) + 1 :
          k \in 1..Len(f) \/ (~ (k <= Len(f)) /\ k - Len(f) = 1)
    BY <2>1
  <2>3. ~ Nothing(r)
    BY <1>12 DEF Nothing
  <2>4. \A k \in 1..Len(add) : ~ Nothing(add[k])
    BY <1>6, <1>15, <2>1, <2>2, <2>3
  <2>5. add[Len(add)] = r /\ Len(add) # 0
    BY <1>15, <2>1
  <2> QED
    BY <1>16, <2>4, <2>5, EmptySeq
<1>18. ASSUME NEW i \in N!Item, prevBound <= i, i < endBound
       PROVE  Covered(i, add, u, Sender)
  <2>1. Covers(r, prevBound, i, Sender)
    BY <1>12, <1>18 DEF Covers
  <2> QED
    BY <1>3, <1>6, <1>15, <2>1, JoinedCovers
<1> HIDE DEF add
<1>19. /\ Reported' /\ \A i \in N!Item : Outstanding(i)' => Outstanding(i)
  BY <1>1 DEF ReconcileInv, Reported, Outstanding
<1> DEFINE long == N!Size(output \o add) + N!Size(<<>>) > FrameLimit[turn]
<1>20. ~ long => fits /\ N!Size(output \o add) <= FrameLimit[turn]
  <2>1. N!Size(output \o add) = N!Size(output) + Cardinality(listed) /\ N!Size(<<>>) = 0
    BY <1>16, NothingWeighs
  <2>2. ~ fits => Cardinality(listed) = (FrameLimit[turn] + 1) - N!Size(output)
    BY <1>10 DEF room
  <2> QED
    BY <1>3, <1>5, <1>11, <2>1, <2>2
<1>21. long => listed # {}
  <2>1. N!Size(output \o add) = N!Size(output) + Cardinality(listed) /\ N!Size(<<>>) = 0
    BY <1>16, NothingWeighs
  <2>2. listed = {} => Cardinality(listed) = 0
    BY FS_EmptySet
  <2> QED
    BY <1>3, <1>5, <2>1, <2>2
<1>22. CASE ~ long
  <2>1. /\ output' = (output \o add) \o <<>> /\ input' = Tail(input)
        /\ prevBound' = b
    BY <1>w, <1>16, <1>22 DEF N!WriteOutput, b
  <2>2. output' = output \o add
    <3>1. output \o add \in Seq(MessageRange)
      BY <1>3, <1>16, ConcatProperties
    <3> QED
      BY <2>1, <3>1, ConcatEmptySeq
  <2>3. endBound = b /\ N!Size(output') <= FrameLimit[turn]
    BY <1>10, <1>20, <1>22, <2>2
  <2>4. Until(output', 0) = prevBound' /\ Until(output', 0) <= prevBound'
    BY <1>4, <1>16, <2>1, <2>2, <2>3
  <2>5. ReconcileTypes'
    <3>1. prevBound' \in 0..N!Infinite
      BY <1>3, <1>4, <2>1
    <3> QED
      BY <1>1, <3>1 DEF ReconcileInv, ReconcileTypes
  <2>6. ASSUME NEW i \in N!Item, Covers(Head(input), prevBound, i, turn)
        PROVE  Covered(i, add, u, Sender)
    BY <1>18, <2>3, <2>6 DEF Covers, b
  <2>7. Head(input).mode = "idlist" /\ turn = "client" => add = <<>>
    BY <1>1
  <2> HIDE DEF long
  <2> QED
    BY <1>1, <1>16, <1>17, <1>19, <2>1, <2>2, <2>3, <2>4, <2>5, <2>6, <2>7,
       TurnContinues DEF u, b
<1>23. CASE long
  <2>1. /\ output' = (output \o add) \o <<last>> /\ input' = <<>>
        /\ prevBound' = prevBound
    BY <1>w, <1>16, <1>23 DEF N!WriteOutput
  <2>2. ASSUME NEW i \in N!Item, Outstanding(i), Covered(i, input, prevBound, turn)
        PROVE  Covered(i, add, u, Sender) \/ Covers(last, endBound, i, Sender)
    <3>1. prevBound <= i /\ i \in Nat /\ i < N!Infinite
      BY <1>1, <1>3, <2>2, WithinReading
    <3>2. CASE i < endBound
      BY <1>18, <3>1, <3>2
    <3>3. CASE ~ (i < endBound)
      <4>1. endBound <= i
        BY <1>10, <3>1, <3>3
      <4> QED
        BY <1>3, <1>13, <2>2, <3>1, <4>1, ExactCovers, OutstandingDiffers
    <3> QED
      BY <3>2, <3>3
  <2>3. ReconcileTypes'
    BY <1>1, <2>1 DEF ReconcileInv, ReconcileTypes
  <2>4. listed # {}
    BY <1>21, <1>23
  <2>5. /\ ~ done' /\ Until(output \o add, 0) <= endBound
        /\ last.items = {} =>
             \/ Beyond(turn, Until(output \o add, 0))
             \/ /\ turn = "server" /\ add # <<>>
                /\ add[Len(add)].mode = "idlist" /\ add[Len(add)].items # {}
        /\ \A i \in N!Item :
             Outstanding(i) /\ Covered(i, input, prevBound, turn) =>
               \/ Covered(i, add, Until(output, 0), Sender)
               \/ Covers(last, Until(output \o add, 0), i, Sender)
    <3> HIDE DEF last
    <3>1. endBound <= endBound
      BY <1>10
    <3> QED
      BY <1>1, <1>12, <1>16, <1>17, <2>2, <2>4, <3>1 DEF u
  <2>6. last = N!RangeOf("fingerprint", N!Infinite, N!Between(turn, endBound, N!Infinite))
    OBVIOUS
  <2> HIDE DEF last, long
  <2> QED
    BY <1>1, <1>10, <1>16, <1>17, <2>1, <2>3, <2>5, <2>6, TurnCutsOff DEF u
<1> QED
  BY <1>22, <1>23

LEMMA SendAnswerKeeps ==
  ASSUME ReconcileInv, N!SendAnswer
  PROVE  ReconcileInv'
<1>1. /\ input = <<>> /\ input' = output /\ output' = <<>> /\ prevBound' = 0
      /\ has' = has /\ haves' = haves /\ haveNots' = haveNots
      /\ done' = FALSE /\ skipping' = FALSE
      /\ turn' = Sender /\ Sender' = turn
  BY DEF N!SendAnswer, Sender, ReconcileInv, ReconcileTypes, N!Side
<1>2. /\ output \in Seq(MessageRange) /\ 0 \in 0..N!Infinite
      /\ turn \in N!Side /\ Sender \in N!Side
      /\ \A s \in N!Side : has[s] \subseteq N!Item
      /\ N!Item \subseteq Nat
  BY ReconcileBasics
<1>3. /\ Truthful(<<>>, 0, Sender) /\ Until(<<>>, 0) = 0 /\ Len(<<>>) = 0
      /\ N!Size(<<>>) = 0
  BY <1>2, NothingIsTruthful, NothingWeighs
<1>4. ReconcileTypes'
  BY <1>1, <1>2 DEF ReconcileInv, ReconcileTypes
<1>5. (Truthful(input, prevBound, Sender))'
  BY <1>1 DEF ReconcileInv, Truthful, Told, N!Between
<1>6. (Truthful(output, 0, turn))'
  BY <1>1, <1>3 DEF Truthful, Told, N!Between
<1>7. WrittenSoFar'
  <2>1. FrameLimit[Sender] \in Nat
    BY <1>2, ReconcileSizes
  <2> QED
    BY <1>1, <1>3, <2>1 DEF WrittenSoFar
<1>8. NothingIsLast'
  <2>1. ASSUME NEW k \in 1..Len(output), Nothing(output[k])
        PROVE  /\ output[k].bound = N!Infinite
               /\ k = 1 => Beyond(turn, 0)
               /\ k # 1 => Late(output, 0, k, turn)
    <3>1. output[k].bound = N!Infinite /\ Late(output, 0, k, turn)
      BY <2>1 DEF ReconcileInv, NothingIsLast
    <3>2. k = 1 => Beyond(turn, 0)
      BY <3>1 DEF Late, From
    <3> QED
      BY <3>1, <3>2
  <2> QED
    BY <1>1, <1>3, <2>1 DEF NothingIsLast, Late, Beyond
<1>9. NothingLost'
  <2>1. ASSUME NEW i \in N!Item, Outstanding(i)
        PROVE  Covered(i, output, 0, Sender)
    <3>1. ~ Covered(i, input, prevBound, turn)
      BY <1>1, <1>3 DEF Covered
    <3> QED
      BY <2>1, <3>1 DEF ReconcileInv, NothingLost
  <2> QED
    BY <1>1, <2>1 DEF NothingLost, Outstanding, Covered, Covers, N!Between
<1>10. Reported' /\ ~ done'
  BY <1>1 DEF ReconcileInv, Reported
<1> QED
  BY <1>4, <1>5, <1>6, <1>7, <1>8, <1>9, <1>10 DEF ReconcileInv

LEMMA FinishKeeps ==
  ASSUME ReconcileInv, N!Finish
  PROVE  ReconcileInv'
BY DEF N!Finish, ReconcileInv, ReconcileTypes, Truthful, Told, WrittenSoFar,
       NothingIsLast, Late, Beyond, Reported, NothingLost, Outstanding, Covered,
       Covers, N!Between, Sender

LEMMA ReconcileStutters ==
  ASSUME ReconcileInv, UNCHANGED N!vars
  PROVE  ReconcileInv'
BY SMTT(30) DEF N!vars, ReconcileInv, ReconcileTypes, Truthful, Told, WrittenSoFar,
       NothingIsLast, Late, Beyond, Reported, NothingLost, Outstanding, Covered,
       Covers, N!Between, Sender

(* The first message tells of all that the client has.                      *)
LEMMA ReconcileStarts ==
  ASSUME N!Init
  PROVE  ReconcileInv
<1> DEFINE T == N!Between("client", 0, N!Infinite)
<1>1. /\ has \in [N!Side -> SUBSET N!Item] /\ turn = "server" /\ prevBound = 0
      /\ skipping = FALSE /\ output = <<>> /\ haves = {} /\ haveNots = {}
      /\ done = FALSE /\ input = N!SplitRange(has["client"], N!Infinite)
  BY DEF N!Init
<1>2. 0 \in 0..N!Infinite /\ N!Infinite \in 1..N!Infinite /\ 0 <= N!Infinite
      /\ \A i \in N!Item : 0 <= i /\ i < N!Infinite /\ i \in Nat
  BY ReconcileSizes DEF N!Item, N!Infinite
<1>3. "client" \in N!Side /\ "server" \in N!Side
  BY DEF N!Side
<1>4. ReconcileTypes /\ Sender = "client"
  BY <1>1, <1>2, <1>3 DEF ReconcileTypes, Sender
<1>5. T = has["client"]
  BY <1>1, <1>2, <1>3 DEF N!Between
<1> HIDE DEF T
<1>6. input = N!SplitRange(T, N!Infinite)
  BY <1>1, <1>5
<1>7. /\ Truthful(input, 0, "client")
      /\ \A k \in 1..Len(input) : ~ Nothing(input[k])
      /\ \A i \in Nat : 0 <= i /\ i < N!Infinite /\ Differs(i) =>
           Covered(i, input, 0, "server")
  BY <1>2, <1>3, <1>4, <1>6, SplitRangeCovers, SMTT(30) DEF T, Nothing
<1>8. Truthful(output, 0, turn) /\ Len(output) = 0 /\ Until(output, 0) = 0
      /\ N!Size(output) = 0
  BY <1>1, <1>2, NothingIsTruthful, NothingWeighs
<1>9. WrittenSoFar
  <2>1. FrameLimit[turn] \in Nat
    BY <1>1, <1>3, ReconcileSizes
  <2> QED
    BY <1>1, <1>8, <2>1 DEF WrittenSoFar
<1>10. NothingIsLast
  BY <1>7, <1>8 DEF NothingIsLast
<1>11. NothingLost
  BY <1>1, <1>2, <1>7, OutstandingDiffers DEF NothingLost
<1> QED
  BY <1>1, <1>4, <1>7, <1>8, <1>9, <1>10, <1>11 DEF ReconcileInv, Reported

LEMMA ReconcileStep ==
  ASSUME ReconcileInv, [N!Next]_N!vars
  PROVE  ReconcileInv'
BY ReadSkipKeeps, ReadSameFingerprintKeeps, ReadOtherFingerprintKeeps,
   ClientReadsIdListKeeps, ServerReadsIdListKeeps, SendAnswerKeeps, FinishKeeps,
   ReconcileStutters DEF N!Next

(* The client reports nothing but true differences, and all of them before  *)
(* it is done.                                                              *)
LEMMA ReconcileFinds ==
  ASSUME ReconcileInv
  PROVE  N!DifferenceFound
<1>1. /\ haves \subseteq has["client"] \ has["server"]
      /\ haveNots \subseteq has["server"] \ has["client"]
  BY DEF ReconcileInv, Reported
<1>2. ASSUME done, NEW i \in N!Item PROVE ~ Outstanding(i)
  <2>1. input = <<>> /\ output = <<>> /\ Len(<<>>) = 0
    BY <1>2 DEF ReconcileInv
  <2> QED
    BY <2>1 DEF ReconcileInv, NothingLost, Covered
<1>3. \A i : i \in has["client"] \/ i \in has["server"] => i \in N!Item
  BY ReconcileBasics DEF N!Side
<1> QED
  BY <1>1, <1>2, <1>3 DEF N!DifferenceFound, Outstanding

LEMMA ReconcileTyped ==
  ASSUME ReconcileInv
  PROVE  N!TypeOK
<1>1. /\ input \in Seq(MessageRange) /\ output \in Seq(MessageRange)
  BY ReconcileBasics
<1>2. \A i : i \in has["client"] \/ i \in has["server"] => i \in N!Item
  BY ReconcileBasics DEF N!Side
<1> QED
  BY <1>1, <1>2 DEF ReconcileInv, ReconcileTypes, Reported, N!TypeOK, MessageRange

(* The inductive invariant, and what the reconciliation is for, for any     *)
(* storages, number of buckets and frame limits.                            *)
THEOREM ReconcileInvariant == N!Spec => []ReconcileInv
<1>1. N!Init => ReconcileInv
  BY ReconcileStarts
<1>2. ReconcileInv /\ [N!Next]_N!vars => ReconcileInv'
  BY ReconcileStep
<1> QED
  BY <1>1, <1>2, PTL DEF N!Spec

(* Messages consist of ranges that end within the order of the items (the   *)
(* type invariant of Negentropy).                                           *)
THEOREM ReconcileTypesHold == N!Spec => []N!TypeOK
BY ReconcileInvariant, ReconcileTyped, PTL

(* Haves and HaveNots report nothing but true differences, and when they    *)
(* are closed they have reported every one, wherever a message of either    *)
(* side was cut off.                                                        *)
THEOREM ReconcileFindsDifference == N!Spec => []N!DifferenceFound
BY ReconcileInvariant, ReconcileFinds, PTL

(* ... among the other clients.                                             *)
THEOREM ClientsFindDifference == MCSpec => []DifferenceFound
<1>1. MCInit => ReconcileInv
  BY ReconcileStarts DEF MCInit
<1>2. ReconcileInv /\ [MCNext]_allVars => ReconcileInv'
  <2>1. [MCNext]_allVars => [N!Next]_N!vars
    BY DEF MCNext, allVars, Bunkers, Reconciles, Syncs, Wallets, reconcileVars,
           N!vars
  <2> QED
    BY <2>1, ReconcileStep
<1>3. ReconcileInv => DifferenceFound
  BY ReconcileFinds DEF DifferenceFound
<1> QED
  BY <1>1, <1>2, <1>3, PTL DEF MCSpec
================================================================================
