------------------------------- MODULE Bunker -------------------------------
(***************************************************************************)
(* The client of a remote signer (nip46/client.go): calls to RPC, each     *)
(* with a goroutine for every relay that carries its request, and the one  *)
(* loop that reads the signer's responses and dispatches them by id.       *)
(*                                                                         *)
(* A request is the call that made it, a response says which call it       *)
(* answers and is found by that call's id. The signer and the relays owe   *)
(* nothing: responses come late, twice, in any order, or not at all. Those *)
(* that the dispatcher has not read queue up outside this module, but for  *)
(* one.                                                                    *)
(* Encryption is left out, and so is the check of the event that SignEvent *)
(* gets back. The relays are alike: the goroutines of a call are counted.  *)
(***************************************************************************)
EXTENDS Naturals

CONSTANTS
  Call,          \* the calls made
  KeyCall,       \* those of GetPublicKey, which keeps the answer
  Relays,        \* how many bunker.relays there are
  MaxSerial,     \* bound: ids given out
  MaxResponses,  \* bound: responses that reach the client
  None

ASSUME CallAssumption == KeyCall \subseteq Call /\ None \notin Call
ASSUME CountAssumption ==
  Relays \in Nat /\ MaxSerial \in Nat /\ MaxResponses \in Nat

Id == 1..MaxSerial
Response == [to : Call, kind : {"result", "error", "auth_url"}]

VARIABLES
  serial,        \* bunker.serial
  listeners,     \* bunker.listeners: whose respWaiter an id leads to;
                 \* bunker.expectingAuth has the same ids
  keyKept,       \* getPublicKeyResponse: whose answer it is
  pc,            \* progress of each call
  id,            \* the id of its request
  ctxDone,       \* calls whose context is done
  respWaiter,    \* its channel, with room for one response
  outcome,       \* how the call ended
  answer,        \* whose answer it returned
  connecting,    \* how many of its goroutines are in EnsureRelay
  publishing,    \* how many are connected and have not published
  signer,        \* requests that reached the signer
  arriving,      \* the response that the dispatcher reads next
  received,      \* how many responses have reached the client
  dispatcher,    \* progress of the dispatcher
  resp,          \* the response it works on
  target         \* the call whose respWaiter it has loaded

vars == <<serial, listeners, keyKept, pc, id, ctxDone,
          respWaiter, outcome, answer, connecting, publishing, signer, arriving,
          received, dispatcher, resp, target>>

callVars == <<pc, outcome, answer>>
carriers == <<connecting, publishing>>
signerVars == <<signer, arriving, received>>
dispatcherVars == <<dispatcher, resp, target>>

TypeOK ==
  /\ serial \in 0..MaxSerial
  /\ listeners \in [Id -> Call \cup {None}]
  /\ keyKept \in Call \cup {None}
  /\ pc \in [Call -> {"idle", "spawned", "connect", "wait", "keep", "done"}]
  /\ id \in [Call -> 0..MaxSerial]
  /\ ctxDone \subseteq Call
  /\ respWaiter \in [Call -> Response \cup {None}]
  /\ outcome \in [Call -> {"none", "kept", "result", "error", "context",
                           "unconnected"}]
  /\ answer \in [Call -> Call \cup {None}]
  /\ connecting \in [Call -> 0..Relays]
  /\ publishing \in [Call -> 0..Relays]
  /\ signer \subseteq Call
  /\ arriving \in Response \cup {None}
  /\ received \in 0..MaxResponses
  /\ dispatcher \in {"read", "send", "stopped"}
  /\ resp \in Response \cup {None}
  /\ target \in Call \cup {None}

Init ==
  /\ serial = 0
  /\ listeners = [i \in Id |-> None]
  /\ keyKept = None
  /\ pc = [c \in Call |-> "idle"]
  /\ id = [c \in Call |-> 0]
  /\ ctxDone = {}
  /\ respWaiter = [c \in Call |-> None]
  /\ outcome = [c \in Call |-> "none"]
  /\ answer = [c \in Call |-> None]
  /\ connecting = [c \in Call |-> 0]
  /\ publishing = [c \in Call |-> 0]
  /\ signer = {}
  /\ arriving = None
  /\ received = 0
  /\ dispatcher = "read"
  /\ resp = None
  /\ target = None

Goto(c, from, to) == pc[c] = from /\ pc' = [pc EXCEPT ![c] = to]

(* The call has its result, or none, and its deferred function deletes the  *)
(* entries of both maps, which the dispatcher could have read before.       *)
Returns(c, from, how, whose) ==
  /\ Goto(c, from, IF c \in KeyCall THEN "keep" ELSE "done")
  /\ outcome' = [outcome EXCEPT ![c] = how]
  /\ answer' = [answer EXCEPT ![c] = whose]
  /\ listeners' = [listeners EXCEPT ![id[c]] = None]

-----------------------------------------------------------------------------
(***************************************************************************)
(* A call.                                                                 *)
(***************************************************************************)

(* Mutation: the increment is not atomic, and two calls may both make it.   *)
NextSerialRaces == serial' \in {serial, serial + 1} \ {0}

(* serial.Add(1).                                                           *)
NextSerial == serial' = serial + 1

(* GetPublicKey was answered before.                                        *)
ReturnKept(c) ==
  /\ c \in KeyCall /\ keyKept # None
  /\ Goto(c, "idle", "done")
  /\ outcome' = [outcome EXCEPT ![c] = "kept"]
  /\ answer' = [answer EXCEPT ![c] = keyKept]
  /\ UNCHANGED <<serial, listeners, keyKept, id, ctxDone, respWaiter, carriers,
                 signerVars, dispatcherVars>>

(* An id, the channel and the maps' entries for it, and the goroutines:     *)
(* nobody else knows the id before they run.                                *)
Request(c) ==
  /\ c \in KeyCall => keyKept = None
  /\ serial < MaxSerial
  /\ Goto(c, "idle", "spawned")
  /\ NextSerial
  /\ id' = [id EXCEPT ![c] = serial']
  /\ listeners' = [listeners EXCEPT ![serial'] = c]
  /\ connecting' = [connecting EXCEPT ![c] = Relays]
  /\ UNCHANGED <<keyKept, ctxDone, respWaiter, outcome, answer, publishing,
                 signerVars, dispatcherVars>>

(* The call gets to its first select.                                       *)
AwaitRelay(c) ==
  /\ Goto(c, "spawned", "connect")
  /\ UNCHANGED <<serial, listeners, keyKept, id, ctxDone, respWaiter, outcome,
                 answer, carriers, signerVars, dispatcherVars>>

ConnectGivesUp(c) ==
  /\ c \in ctxDone
  /\ Returns(c, "connect", "unconnected", None)
  /\ UNCHANGED <<serial, keyKept, id, ctxDone, respWaiter, carriers,
                 signerVars, dispatcherVars>>

WaitGivesUp(c) ==
  /\ c \in ctxDone
  /\ Returns(c, "wait", "context", None)
  /\ UNCHANGED <<serial, keyKept, id, ctxDone, respWaiter, carriers,
                 signerVars, dispatcherVars>>

TakeResponse(c) ==
  /\ respWaiter[c] # None
  /\ Returns(c, "wait", respWaiter[c].kind, respWaiter[c].to)
  /\ respWaiter' = [respWaiter EXCEPT ![c] = None]
  /\ UNCHANGED <<serial, keyKept, id, ctxDone, carriers, signerVars,
                 dispatcherVars>>

(* GetPublicKey stores what it got, which is nothing after an error.        *)
KeepKey(c) ==
  /\ Goto(c, "keep", "done")
  /\ keyKept' = IF outcome[c] = "result" THEN answer[c] ELSE None
  /\ UNCHANGED <<serial, listeners, id, ctxDone, respWaiter, outcome, answer,
                 carriers, signerVars, dispatcherVars>>

(* The context of a call that has not returned is cancelled.                *)
CancelContext(c) ==
  /\ pc[c] \in {"spawned", "connect", "wait"}
  /\ c \notin ctxDone
  /\ ctxDone' = ctxDone \cup {c}
  /\ UNCHANGED <<serial, listeners, keyKept, callVars, id, respWaiter, carriers,
                 signerVars, dispatcherVars>>

-----------------------------------------------------------------------------
(***************************************************************************)
(* The goroutines of a call, one for each relay.                           *)
(***************************************************************************)
CannotConnect(c) ==
  /\ connecting[c] > 0
  /\ connecting' = [connecting EXCEPT ![c] = @ - 1]
  /\ UNCHANGED <<serial, listeners, keyKept, callVars, id, ctxDone, respWaiter,
                 publishing, signerVars, dispatcherVars>>

(* EnsureRelay succeeds. The send on hasWorked has a default: it is lost    *)
(* unless the call is at its first select.                                  *)
SignalWorked(c) ==
  /\ connecting[c] > 0
  /\ connecting' = [connecting EXCEPT ![c] = @ - 1]
  /\ publishing' = [publishing EXCEPT ![c] = @ + 1]
  /\ pc' = IF pc[c] = "connect" THEN [pc EXCEPT ![c] = "wait"] ELSE pc
  /\ UNCHANGED <<serial, listeners, keyKept, outcome, answer, id, ctxDone,
                 respWaiter, signerVars, dispatcherVars>>

(* Nobody looks at whether the request gets through: if not, it is one that *)
(* the signer does not answer.                                              *)
PublishRequest(c) ==
  /\ publishing[c] > 0
  /\ publishing' = [publishing EXCEPT ![c] = @ - 1]
  /\ signer' = signer \cup {c}
  /\ UNCHANGED <<serial, listeners, keyKept, callVars, id, ctxDone, respWaiter,
                 connecting, arriving, received, dispatcherVars>>

-----------------------------------------------------------------------------
(***************************************************************************)
(* The signer's responses, and the loop that dispatches them.              *)
(***************************************************************************)
Respond(c, kind) ==
  /\ c \in signer
  /\ dispatcher # "stopped"
  /\ received < MaxResponses
  /\ received' = received + 1
  /\ arriving = None
  /\ arriving' = [to |-> c, kind |-> kind]
  /\ UNCHANGED <<serial, listeners, keyKept, callVars, id, ctxDone, respWaiter,
                 carriers, signer, dispatcherVars>>

(* The loop goes on to the next response.                                   *)
NextResponse == dispatcher' = "read" /\ resp' = None /\ target' = None

(* onAuth is told of an auth_url while its id is expecting one.             *)
ReadAuthUrl ==
  /\ dispatcher = "read" /\ arriving # None
  /\ arriving.kind = "auth_url"
  /\ arriving' = None
  /\ UNCHANGED <<serial, listeners, keyKept, callVars, id, ctxDone, respWaiter,
                 carriers, signer, received, dispatcherVars>>

(* The channel is loaded now, and used in another step.                     *)
ReadResponse ==
  /\ dispatcher = "read" /\ arriving # None
  /\ arriving.kind # "auth_url"
  /\ arriving' = None
  /\ LET listener == listeners[id[arriving.to]] IN
       IF listener # None
       THEN dispatcher' = "send" /\ resp' = arriving /\ target' = listener
       ELSE NextResponse
  /\ UNCHANGED <<serial, listeners, keyKept, callVars, id, ctxDone, respWaiter,
                 carriers, signer, received>>

(* Mutation: the send waits until there is room.                            *)
SendResponseWaits ==
  /\ dispatcher = "send"
  /\ respWaiter[target] = None
  /\ NextResponse
  /\ respWaiter' = [respWaiter EXCEPT ![target] = resp]
  /\ UNCHANGED <<serial, listeners, keyKept, callVars, id, ctxDone, carriers,
                 signerVars>>

(* A response for which there is no room is dropped. The call it is for may *)
(* have returned since its channel was loaded.                              *)
SendResponse ==
  /\ dispatcher = "send"
  /\ NextResponse
  /\ respWaiter' = [respWaiter EXCEPT ![target] = IF @ = None THEN resp ELSE @]
  /\ UNCHANGED <<serial, listeners, keyKept, callVars, id, ctxDone, carriers,
                 signerVars>>

(* The client's context ends its subscription, and with it the loop.        *)
StopDispatcher ==
  /\ dispatcher = "read"
  /\ dispatcher' = "stopped"
  /\ arriving' = None
  /\ UNCHANGED <<serial, listeners, keyKept, callVars, id, ctxDone, respWaiter,
                 carriers, signer, received, resp, target>>

-----------------------------------------------------------------------------
CallStep(c) ==
  \/ ReturnKept(c) \/ Request(c) \/ AwaitRelay(c) \/ ConnectGivesUp(c)
  \/ WaitGivesUp(c) \/ TakeResponse(c) \/ KeepKey(c)

CarrierStep(c) == CannotConnect(c) \/ SignalWorked(c) \/ PublishRequest(c)

DispatcherStep ==
  ReadAuthUrl \/ ReadResponse \/ SendResponse

Next ==
  \/ \E c \in Call :
       \/ CallStep(c)
       \/ CancelContext(c)
       \/ CarrierStep(c)
       \/ \E kind \in {"result", "error", "auth_url"} : Respond(c, kind)
  \/ DispatcherStep
  \/ StopDispatcher

Spec == Init /\ [][Next]_vars

(***************************************************************************)
(* Goroutines run: those of a call that was begun, and the dispatcher.     *)
(* onAuth returns, and EnsureRelay, by a timeout if need be. Nothing here  *)
(* goes on for ever, so that it is fair to each of them if one of them     *)
(* takes a step while one can.                                             *)
(***************************************************************************)
Progress ==
  \/ \E c \in Call : (pc[c] # "idle" /\ CallStep(c)) \/ CarrierStep(c)
  \/ DispatcherStep

FairSpec == Spec /\ WF_vars(Progress)

-----------------------------------------------------------------------------
(* A call returns the answer to its own request, however late and however   *)
(* often the signer answers others, and whoever has given up meanwhile; the *)
(* public key that is kept is the answer to such a request.                 *)
OwnAnswer ==
  \A c \in Call : answer[c] # None =>
    IF outcome[c] = "kept" THEN answer[c] \in KeyCall ELSE answer[c] = c

(* A response that is on its way to the call c.                             *)
Arriving(c) ==
  \/ arriving # None /\ arriving.to = c /\ arriving.kind # "auth_url"
  \/ dispatcher = "send" /\ target = c
  \/ respWaiter[c] # None

(* A call ends with its context, and a call that waits for a response ends  *)
(* with the first that comes, however many the signer sends to others, who  *)
(* may have gone.                                                           *)
CallEnds ==
  \A c \in Call :
    c \in ctxDone \/ (pc[c] = "wait" /\ Arriving(c))
      ~> pc[c] = "done" \/ dispatcher = "stopped"
=============================================================================
