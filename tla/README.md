# A formal model of go-nostr

TLA+ specifications of the concurrent core of this library and of the elliptic curve
library that checks its signatures, model-checked with TLC, and theorems about six
of the concurrent components, checked by TLAPS.

go-nostr is a client library for nostr relays. A program opens websocket
connections to relays (`Relay`), opens subscriptions on them (`Subscription`),
publishes events and waits for their `OK`, and mostly does so through a pool
(`SimplePool`) that spreads a call over many relays. On top are remote signers
(nip46), a Cashu wallet (nip60, nip61), set reconciliation (nip77), an SDK that
loads and caches lists and profiles (sdk/), and many small packages of pure
functions. A vendored C library, libsecp256k1, signs
and verifies if the program is built with it. Nothing in the core is a sequential
program: one subscription is served by five kinds of goroutine, one connection by three that tear each other
down, one call of the pool by one or two per relay.

## Inventory

### Relay connection (relay.go, connection.go)

*State*: the websocket `Connection` and `ConnectionError` under `closeMutex`;
`connectionContext` with its cancel function, nil after the first `close()`; the
unbuffered `writeQueue`; `Subscriptions` and `okCallbacks`, concurrent maps; the
newest NIP-42 challenge with its one-place notification channel; `authDone`.

*Operations*: `Connect` dials and spawns the write pump (writes, pings, cleanup)
and the read loop (EVENT, EOSE, CLOSED, OK, AUTH, COUNT); `Publish`, `Auth`,
`PerformAuth`, `Subscribe`, `Count`, `QueryEvents`, `QuerySync`, `Close`.

*Hard*: the pump, the read loop and `Close()` end each other, through one context
and one mutex; a call's wait ends by the OK, a deadline or the loss of the
connection; the read loop blocks wherever it hands something to another
goroutine over an unbuffered channel; AUTH may come before, during or after the
call that wants it.

*Correct if* every call returns and says what happened, every end of the
connection is noticed and leads to a complete teardown, and nobody uses a
connection that is gone.

### Subscription (subscription.go)

*State*: its context, the atomic flags `live` and `eosed`, `storedwg` that counts
the stored events on their way, the mutex `mu` around each use of `Events`, and
the channels `Events`, `EndOfStoredEvents` (buffered) and `ClosedReason`.

*Operations*: `Fire`, `dispatchEvent`, `dispatchEose`, `handleClosed` (each spawns
a goroutine), `start` (waits for the context), `unsub` (run by `start`, by a
CLOSED, by the write pump's exit and by the user), `Close`.

*Hard*: channels that are closed while goroutines send on them; an order (stored
events, then EOSE) that has to be restored among goroutines; four goroutines in
`unsub()` at once; a context that ends at any moment.

*Correct if* it keeps what its consumer is promised, whatever interleaves: module
`SubscriptionContract`.

### SimplePool (pool.go, helpers.go)

*State*: `Relays` by normalised url, named mutexes, the penalty box; for each call
the counters of goroutines still running, of relays not yet EOSEd, and the ids
already seen.

*Operations*: `EnsureRelay`; `PublishMany`; `SubscribeMany` and
`SubscribeManyNotifyEose` (`subMany`), which reconnect for ever;
`FetchMany` and `FetchManyReplaceable`, which end with the EOSEs; `QuerySingle`,
`BatchedSubManyEose`, `CountMany`, `Paginator`.

*Hard*: channels closed by the last of many goroutines; counters that must go
down exactly once for each relay, along every way out; duplicates among relays;
reconnection and AUTH in the middle of a subscription; one dial for many callers.

*Correct if* an event goes out once and is not missed, the channels are closed
exactly once and only when nobody uses them, and a url has one connection.

### Remote signing client (nip46/client.go)

*State*: a serial number; `listeners` and `expectingAuth`, concurrent maps from a
request's id to the channel its caller waits at; the kept answer to `get_public_key`.

*Operations*: `RPC` sends a request through a goroutine per relay, waits for one of
them to have connected, then for the response; `GetPublicKey` keeps its answer; one
goroutine of `NewBunker` reads the responses, calls `onAuth` for an `auth_url`, and
hands each result to the call of its id.

*Hard*: responses that come late, twice or never, for calls that gave up, and one
goroutine that must go on for the others.

*Correct if* a call returns the answer to its own request, and ends.

### Negentropy (nip77)

*State*: for each side a sealed vector of items, the bound it has got to, the message
it writes; for the client the differences found. In `NegentropySync` two channels of
ids, a collector per direction, a pool of id lists, a goroutine per list.

*Operations*: `Reconcile` reads a message range by range and writes the answer;
`NegentropySync` runs it in the handler of a relay's messages and moves the events.

*Hard*: messages cut off at a frame limit in the middle of a range; which side owes what
afterwards; who drains the channels; a pool whose `giveback` does not lock.

*Correct if* exactly the differences are found, each is moved once, and the call ends.

### Cashu wallet (nip60)

*State*: `Tokens`, a slice under `tokensMu`; `pendingDeletions` and the local `eosed`, in part
under `w.Mutex`, which also guards publishing; history, mints and a key.

*Operations*: `loadWallet` starts a goroutine for token events, one for deletions and one
that waits for the EOSEs; `Send`, `Receive`, `PayBolt11` swap tokens at a mint, publish what became
of them through a callback and change the list; what is published comes back as an event.

*Hard*: deletions before tokens and tokens before deletions; removals that move tokens in
place, without the lock that the spender holds; two mutexes taken in both orders; a mint's
answer that is lost.

*Correct if* the list has what the user owns, once, and no call waits for ever.

### libsecp256k1 (libsecp256k1/, signature_libsecp256k1.go)

*State*: none between calls but a blinded context. Field elements are five limbs with
room for carries, bounded by a *magnitude* that only test builds check; points are
Jacobian, tables of multiples share a z coordinate, scalars are split in halves.

*Operations*: field, scalar and group arithmetic; multiplication in variable and
constant time, of the generator, of many points; keys, tweaks, key pairs, ECDSA and
Schnorr signatures; `Event.Sign` and `Event.CheckSignature` on top.

*Hard*: bounds that hold only because of the order of additions before them; formulas with
exceptional cases; scratch memory planned ahead; x coordinates beyond the group order;
tweaks that end in zero or infinity.

*Correct if* each result is what its definition says for every representation of its
operands, and both sides of a tweak or a signature agree.

### The rest

| Part | State and interaction | Hard |
|---|---|---|
| Remote signers, nip46 | sessions by client key; over the pool | sessions shared by requests |
| Nutzaps, nip61 | none; over the wallet | |
| SDK loaders and lists | batches, caches, locks by key | batching by time or by number, refreshes of cached lists |
| SDK hints and outbox | relays by public key with scores | unlocked reads, scores |
| Keyers | none of their own | delegation |
| Event, filter, tags, nip10, nip22, nip27, nip29 ... | none | pure functions |
| Encryption, encodings, HTTP clients, generated code | none | not for a model checker |

`PROJECT.json` lists every part with its sources and status, and the hazards of
the code line by line.

## Modules

| Module | Models | Lines of source |
|---|---|---|
| `Subscription` | one subscription from `PrepareSubscription` to the closing of `Events`, and the read loop and write pump as far as they touch it | subscription.go, relay.go |
| `SubscriptionContract` | abstract: what a subscription promises its consumer | comments at subscription.go:21-34, 49-51, 87 |
| `Relay` | one connection: pump, pings, read loop, `close()`, and the calls `Publish`, `PerformAuth`, `Auth`, `Count` | relay.go |
| `SubMany` | `subMany`: a goroutine per relay, EOSE watchers, two shared channels | pool.go:436-603 |
| `Fetch` | `FetchMany` and `FetchManyReplaceable` | pool.go:331-434, 606-717 |
| `Pool` | `EnsureRelay`, named locks and penalty box, under `PublishMany` | pool.go:108-285, helpers.go |
| `Bunker` | the NIP-46 client: calls, the goroutines that carry their requests, the dispatcher of responses | nip46/client.go |
| `Negentropy` | set reconciliation between a client and a server | nip77/negentropy |
| `NegentropySync` | what is done with the differences: handler, collectors, id lists, moving of events | nip77/nip77.go, idlistpool.go |
| `Wallet` | the Cashu wallet: its list of tokens between the relays, `Send` and `Receive` | nip60/wallet.go, send.go, receive.go |
| `Field5x52` | field elements as five limbs | field_5x52_impl.h, field_5x52_int128_impl.h |
| `FieldRegister` | abstract: the element such a register holds | field_impl.h |
| `FieldElement` | field elements as a value and a magnitude | field_impl.h |
| `Group`, `PointRegister` | points in affine and Jacobian form; an accumulator under any sequence of operations | group_impl.h |
| `Scalar` | scalars and their splitting | scalar_impl.h, scalar_4x64_impl.h |
| `Ecmult`, `EcmultConst`, `EcmultGen` | tables, wNAF, Strauss, Pippenger; constant time; the comb for the generator | ecmult_impl.h, ecmult_const_impl.h, ecmult_gen_impl.h |
| `EcmultMulti`, `Products` | batches and their scratch memory; products of products | ecmult_impl.h, scratch_impl.h |
| `Keys` | the operations on keys and signatures | secp256k1.c, eckey_impl.h, ecdsa_impl.h, modules/ |
| `KeySides`, `EventSignature` | a key pair whose sides are tweaked apart; an event that is signed, travels, and is checked | the same, signature_libsecp256k1.go |
| `Subscription_proofs`, `Relay_proofs`, `Fetch_proofs`, `Pool_proofs`, `NegentropySync_proofs` | theorems about these modules, for all values of their constants | |
| `Field5x52_proofs` | theorems about `Field5x52` with the sizes of the code | |
| `MCSimplePool_proofs`, `MCClients_proofs` | theorems about `SubMany`, `Bunker`, `Wallet` and `Negentropy`, and of the components together | |
| `MC...` | the instances for TLC | |

The Go modules meet at one place: a `Subscription` is used by `SubMany` and `Fetch` as
`SubscriptionContract` specifies it (events come out until it is over, the EOSE
after the stored events, a reason before the end), and `Subscription` is checked
to implement that contract. So the pool's modules do not repeat the goroutines of
a subscription. In the same way `Relay` shows that calls return, which `Pool`
assumes of `Publish` and `PerformAuth`. `NegentropySync` is told the differences that
`Negentropy` shows are found, part by part.

The C modules are stacked as the code is. `Field5x52` is checked to implement
`FieldRegister`, an element's value for its limbs; everything above is written over
`FieldElement`, which carries the magnitude along and records, in `ok`, whether every check
that a test build makes would pass. `Group` is built on it, `Ecmult` on `Group` and `Scalar`,
`Keys` on `EcmultGen`.

### How state and actions correspond to the code

A goroutine is a program counter (`pc`, `closing`, `closePc`, `dispatch`, `pump`,
`reader`), its values named for the place where it stands. One action is the code
from one such place to the next: it reaches over what no other goroutine can
observe in between, and is split wherever the code releases a lock, waits, or
reads a shared variable that it later acts upon. The variables carry the names of
the fields.

*Subscription.* `CheckConnection`, `SetLive`, `WriteReq` and `WriteReqFails` are
`Subscribe` and `Fire`. `UnsubCancel`, `UnsubCas`, `CloseIfConnected`, `WriteClose`
or `WriteCloseFails`, `UnsubDelete` are `unsub()` and `Close()` line by line, for
each of the four goroutines in `Closer`. `DispatchEvent`, `DispatchEose`,
`HandleClosed` are the read loop's calls; `EventLocks`, `ConsumerTakes` and
`EventGivesUp` the goroutine of one event; `EoseSends` that of the EOSE;
`ClosedSendsReason` and `ClosedClearsLive` that of a CLOSED. `mu` is the event
whose goroutine holds `sub.mu`; `start()` takes and releases it within one step.
`stored` is a history variable. `Init` lets the connection be in any condition,
for `PrepareSubscription` does not look at it.

*Relay.* A `Caller` is one call made by one goroutine. `WriteSucceeds` is the
rendezvous with the pump and the write; `WriteFails` the error of the write, or
`Write` finding the connection done. `ReadOk` runs the callback; `PublishCtxDone`
and `PublishConnDone` are the two cases of the select in `publish`, both free to
be taken when both are ready. `close()` is three steps, `CloseCancels`,
`CloseChecks`, `CloseSocket`, with `closeMutex` held from the first on.
`PingFails` stands for a ping that fails, on a dead socket or because the read loop
does not get to the pong; a third failure in a row (`MaxPings`) closes the relay.
The subscriptions, which the pump's cleanup unsubscribes, are in `Subscription`.

*SubMany.* `Init` is the state after the loop over `urls`; `Repeats` counts the
entries the loop skipped. The runs set it to 0: `pending` counts a repeated url in
and never out, so with a repeated url `events` is never closed, which TLC shows
as a violation of `WaitersReleased` if `Repeats` is 1. `CountOff`, `ReadPending`, `CloseEvents` and `CountEose`
are the deferred function, in four steps because other goroutines count off in
between. `Sweep` forgets one id that is old enough; ages are abstracted, so any id
may be. Rewriting `Since` (pool.go:547) changes what events match and is left out.

*Fetch.* The variable `call` says which of the two calls is running: their
goroutines are the same, the duplicate check (`Fresh`) and the use of an event
(`HandOver`) are not. `stored`, `passedBy` and `endedBy` are history variables.

*Pool.* A connection is a number, `relays` the map of them; a relay whose
connection ended stays in the map, as in the code. `SweepPenaltyBox` is one round
of the penalty box's goroutine. The branch of `EnsureRelay` that reads the penalty
box needs a nil in `Relays`, which nothing stores, and so has no action.

*Negentropy.* One action is one turn of the loop in `reconcileAux`, on the side whose
`turn` it is; `SendAnswer` hands the message over and `Finish` closes the client's
channels. A bound is the item it stands before, and a fingerprint the set it is
computed from. `WriteOutput` has the two ends of a turn: what it wrote is added to
the message, or the message is too long and one fingerprint stands for the rest.

*Bunker.* `Request` is `RPC` up to its select, `AwaitRelay` and `TakeResponse` are the two
waits, `ConnectGivesUp` and `WaitGivesUp` their other cases. The goroutines of a call are
counted in `connecting` and `publishing`; `SignalWorked` hands the signal to a call that
waits for it, and to nobody otherwise. `ReadResponse` and `SendResponse` are apart, for the
call may give up in between.

*NegentropySync.* `ReadMessage` is the handler up to the ids, `Push` each send into a
channel, `EndMessage` and `SendError` its ends. `Grab` holds the pool's lock;
`GivebackReads` and `GivebackWrites` are the two halves of an append that does not.
`aliased` records that a list in use was handed out. It can be: with four ids in one
direction and lists of one id, two lists given back at once leave one of them in the pool
twice, its ids get overwritten before they are queried, and the call returns nil.
`SyncIsComplete` is about the other calls.

*Wallet.* `array` and `len` are the slice `w.Tokens`: removals, appends and the loop of `Send` work on
the array under it, so that each sees the half-done work of the others. `removeDeletedToken` is
`LookAt` for each position, `MoveLast` and `CutLast`, its two assignments; `OutOfRange` is the
panic of an index that is gone by then. `Loads` steps belong to the three goroutines of
`loadWallet`, the actions from `Choose` to `PublishHistory` to `Send`. `causes` is a history variable
with what TLC shows to upset the books, each by itself: a removal half done while the list is
used (`torn`) or while a `Send` goes by its positions (`moved`); a deletion carried out before its token
arrived (`overtaken`) or kept after the kept ones were gone through (`missed`); a token appended by
`Receive` though its event had come back (`echo`); an answer of the mint that was lost (`answerLost`).
`Balanced` is about the wallets that none of them has met. The change token does not name the
tokens it replaces, as in the code: send.go:142 appends to the `Deleted` of a copy.

*Field5x52.* An action is a call of a field function on one register; every sum and product
wraps at its machine word (`U64`, `U128`), as in C, so one that overflows gives a wrong
element. *PointRegister* does
the same for the group functions. *EcmultMulti*: one action per step of
`secp256k1_ecmult_multi_var`, from the choice of an algorithm over the batches to the
memory given back; the callback may refuse any term. *KeySides*: the secret side is
tweaked first and `todo` is what the public side has still to follow. *EventSignature*:
between `Sign` and `CheckSignature` the event's content, key and signature may be replaced.
Hashes and nonces are constant functions, chosen by the run; a byte string of 32 bytes is a
number of `ScalarBits` bits, so that numbers beyond the order exist.

Payloads, filters, middlewares, logging and the length of sleeps are
abstracted everywhere.

## Runs

Every variable in the configurations is a model value or a small set from the
`MC` module of the run. Four runs look at several machines that share no state: their
initial states choose a `subject`, which alone takes steps, and the others stay at one
initial state. So a state count is a sum, not a product.

| Run | Question | Instance |
|---|---|---|
| `Sub_contract` | `NoSendOnClosed`, `EoseAfterStored`, `OneClose`, does it implement the contract (`KeepsContract`, its liveness included), `CancelledIsClosed`, `DisconnectEnds`, `EosePassedOn` | 2 events, 2 EOSEs, cancellation from `SetLive` on |
| `Sub_early_cancel` | the same safety if the context may end at any moment: violated | 2 events |
| `Relay_calls` | no nil connection is closed, success is success, callbacks are who waits, calls return, teardown completes, a break is noticed, a challenge wakes `PerformAuth` | any 2 of a `Publish`, a `PerformAuth`, a `Count`; 1 answer to each; 1 challenge |
| `Relay_publish_lost` | does a nil error mean accepted? violated | 1 `Publish` |
| `SimplePool` | `subMany`: counters, no send after close, no duplicates, waiters are released (`EoseCountedOnce`, `NoSendAfterClose`, `EmittedOnce`, `WaitersReleased`) | 2 relays, one of which may be subscribed to twice, 1 event |
| | fetches: `FetchedOnce`, `NothingMissed`, `FetchEnds` | 2 relays, 2 events, one of them on both relays, an AUTH |
| | `PublishMany`: `OneSharedConnection`, `PublishManyEnds` | 3 entries, 2 urls on one mutex, 3 dials, 1 round of the penalty box |
| `SubMany_double_close` | is `events` closed once? violated | 2 relays |
| `Fetch_stale` | does the newest version win? violated | 2 relays, 2 events, `FetchManyReplaceable` |
| `Pool_penalty` | is the penalty served? violated | 4 entries, 3 urls |
| `Clients` | NIP-46: `OwnAnswer`, `CallEnds` | 2 calls, 1 relay, 3 responses |
| | reconciliation: does the client end with exactly the differences (`DifferenceFound`), and end (`Terminates`)? | every pair of sets of 6 items, 2 buckets, both sides' messages cut off at 4 |
| | `NegentropySync`: `SyncIsComplete`, `SyncEnds` | 5 calls: full lists, a rest, both; one direction, whose counterpart overflows; enough lists for two to be given back at once |
| | the wallet: `Balanced`, `CallsSettle` | a `Send` or a `Receive` at a wallet with two tokens, one of which replaces the other, or both at an empty one |
| `Wallet_deadlock` | do pending operations end? violated | a `Send`, two tokens |
| `Secp_arithmetic` | limbs: `LimbsHold`, `HoldsElement` (the refinement) | bases 44 and 22, words of 352, up to 3 operations |
| | points: `StandsForPoint` | the curve of 97 points modulo 103, up to 3 operations |
| | products by every algorithm: `ProductIsRight` | the same curve |
| | sums: `SumIsRight`, `MemoryIsPlanned` included | 6 terms, 28 sizes of scratch memory |
| `Secp_keys` | `SidesAgree`, `PairFollows`, `EcdsaHolds`, `VerdictIsRight` | the same curve, up to 2 tweaks, bytes from 0 to 127 |

Deadlock is not checked: a connection that is closed, a subscription that ended
and a call that returned really stop.

### Bounds, and why they are enough

Two events are what it takes for one to hold `mu` while another waits, and for one
to be stored and one not. A second EOSE is the first repeated one. Two calls are
what it takes for one to disturb another in the queue, the callbacks or the read
loop. Two pings that fail in a row close the relay in `Relay_calls` (`MaxPings = 2`):
a third adds only waiting. Two relays are what it takes for one to be
the last, and a relay subscribed to twice for a second EOSE, or an AUTH, to meet
what the first left behind. A CLOSED has the reason `auth-required` there, after which
the code may go on; one with another reason ends the relay as a lost subscription does, and
is in `SubMany_double_close`. In `PublishMany` two entries want one relay and a third
shares only its mutex. `MaxDials` and `MaxSubs` cut off only
further attempts: dialling and subscribing may fail instead at every moment.

Two calls and three responses are what it takes in `Bunker` for one call to get its answer
twice, or too late, while the other waits; one relay per call is enough, since the
goroutines of a call meet only in the signal, which one of them already may lose.
In `Negentropy` a range splits from four items on (`Buckets = 2` where the code has
16), so six items make splits on either side; a message may weigh four ids, which
is the least at which a split always fits, as it does in the code (31 ids in 4096
bytes), and the server's lists, the client's fingerprints and both sides' last
ranges get cut. In `NegentropySync` channels of one place fill with the second id, and four
lists of one id are what it takes for two to be given back at once and handed out again.

In `Wallet` two tokens are what it takes for a removal to move one; token 2, which leaves change when
it is spent, says that it replaces token 1, which is spent. Two calls to `Send` exclude each
other by `tokensMu` from start to end, so one is enough. Once something has upset the books the
run begins nothing new, and only lets what has begun come to its end.

The curve y^2 = x^3 + 5 modulo 103 has a prime number of points, 97, less than the field
has elements, a cube root of one on either side, and no point with y = 0, like secp256k1: so the
endomorphism, the degenerate additions (points P and Q with y(P) = -y(Q), x(P) # x(Q)) and x
coordinates beyond the order all exist, though in the real curve nobody will meet the last
by chance. The magnitudes are the real ones (32, and 8 before a multiplication). The limbs are
narrowed together with the machine word, so that a limb of a magnitude too many overflows
it. The tables are computed as the generators of the precomputed files compute them, and
used by the same code. What the bounds leave out in the modules with proofs is
covered by them.

### Fairness

Weak fairness for every goroutine's own steps: the Go scheduler runs what can run.
In `Relay` also for the deadline of a call that waits for an answer, since
`publish` sets one of seconds if its context has none (relay.go:445) and
`countInternal` likewise; for `PingFails`, the ticker. In `SubMany` and `Fetch` for
the end of a subscription that was cancelled or CLOSED, which `KeepsContract`
shows of `Subscription`.

`Subscription`, `Fetch`, `Pool`, `Bunker`, `Negentropy`, `NegentropySync` and `Wallet` have no step that can go on for
ever: every behaviour of theirs is finite. For such a machine it is the same whether each
goroutine is fair or the program as a whole is, because a goroutine that can run can be put
off only as long as others do. Their fairness is therefore that of one formula, `Progress`,
the steps that the program takes by itself. A goroutine that starves for a mutex of `Pool`
is covered by the same argument.

Properties of the form `[]<>(must => ended)` say, of machines that stop, that
where they stop nobody is left waiting: `WaitersReleased`, `FetchEnds`, `PublishManyEnds`.

Nothing is assumed of relays (that they answer, or send EOSE), of the consumer of
a channel (that it reads), or of the caller (that it cancels), except where the
property says so: `EosePassedOn` and, for a call that was not cancelled, `FetchEnds`
assume a consumer that keeps reading. `CancelledIsClosed` is about a context that ends after
`Fire` returned. `CallEnds` assumes that a caller's `onAuth` returns. `SyncEnds` excepts the
one case in which `NegentropySync` hangs: ids of a direction it was not asked for fill their
channel (`Overflows`). `TeardownCompletes` assumes that the read loop is not stuck for ever on a count
that nobody takes any more, because that can happen (relay.go:368): a `Count`
whose deadline passes while the loop has its answer in hand leaves the loop
blocked, and with it the teardown that a cancelled parent context should cause.

## Findings

Each is a run that TLC finds violated, with its counterexample, against the quoted
line; see `findings` in `PROJECT.json`.

- `Sub_early_cancel`: a context that ends before `Fire` sets `live` lets `Events` be
  closed first, and an event is then sent on it, against the comment at
  subscription.go:87.
- `Relay_publish_lost`: `Publish` returns nil if the connection is lost before the OK
  (relay.go:481); `Auth` takes that for success.
- `SubMany_double_close`: two goroutines may both close `events` (pool.go:474).
- `Fetch_stale`: `FetchManyReplaceable` may return an older version (pool.go:423).
- `Pool_penalty`: the penalty box never keeps a relay from being dialled
  (pool.go:182).
- `Wallet_deadlock`: a token event that arrives during a `Send` leaves both waiting for each
  other's mutex (wallet.go:186, send.go:151), and `Close` (wallet.go:228) with them.

## Proofs

Eight modules hold proofs. Each theorem follows from an inductive invariant, of which the
initial states are shown to have it and every action to keep it, by one lemma or step for each
action that could disturb it; temporal logic does the rest.

`Subscription_proofs` proves, for every set of events, every bound on repeated
EOSEs and every set of stages at which the context may end:

- `TypeCorrect`: `TypeOK`;
- `EoseIsLast`: `EoseAfterStored`, the EOSE comes out after the stored events;
- `SingleEose`: at most one goroutine sends on `EndOfStoredEvents`;
- `SingleClose`: at most one CLOSE is written;
- `NothingLostEarly`: events are lost only when the subscription is over;

and, with the assumption `NoEarlyCancel` (the context does not end before `Fire` set
`live`; without it `Sub_early_cancel` is a counterexample):

- `SendSafety`: `NoSendOnClosed`;
- `ImplementsContract`: every behaviour is one of `SubscriptionContract!Spec`, by the
  refinement mapping at the end of `Subscription`.

None of these is inductive. The invariant they follow from, `SubInv`, says who may
be where and why. `CancelFirst`: a goroutine in `unsub()` has cancelled the context.
`Origins`: which goroutine can be at which place, and what brought it there.
`ReqKnown`: the relay has the REQ exactly when `Fire` succeeded, and nothing arrives
before. `LiveCause`: after `Fire`, a subscription that is not live was cancelled or
CLOSED; without it an event dropped because `live` is false could be an event lost
for no reason. `MutexHeld`: the goroutine that sends is the one that holds `mu`.
`StoredCounted`: `storedwg` counts exactly the stored events still on their way,
which is why the EOSE is last. `CloseToken`: `live`, a goroutine on its way to write
a CLOSE, and a CLOSE written exclude each other: the compare-and-swap hands over
one token. `SendSafety` needs one part more, `EndedForGood`: once `start()` has
passed its own `unsub()`, `live` stays false, which is where `NoEarlyCancel` is
used. Each part has a lemma with one step for each action that could disturb it;
the theorems combine them by temporal logic. The assumptions are those named in
`Subscription`: `None` is no event, `MaxEose` is a natural number, and `CancelStages`
are stages.

`Relay_proofs`, for any set of calls:

- `CloseIsSafe`: `NoNilClose`. `ClosingInv` adds that whoever is past the check of `close()`
  holds `closeMutex`, which the pump needs to set `Connection` to nil.
- `CallbacksMatch` and `SuccessIsEarned`: `CallbacksMatchWaits` and
  `SuccessMeansAcceptedOrLost`, under `OwnEvents` (no two `Publish` calls of one event at once).
  `CallsInvariant` is about where each call is: an entry of `okCallbacks` leads back to the call
  that made it (`CallbacksLeadHome`), and a result that was set has the cause it names
  (`ResultsStand`). Without `OwnEvents` the second call replaces the entry of the first.

`Fetch_proofs`, under `FetchAssumption`, what the module's comment says of its constants (and
that `None` is not a pair of a relay and a number, which `passedBy` holds):

- `FetchEmitsOnce`: an event is emitted at most once. The invariant `OnePlace`: an event that
  passed the duplicate check is among what one relay's subscription delivered, held by one
  goroutine, or emitted.
- `FetchTypesHold`: `TypeOK`.
- `FetchMissesNothing`: `NothingMissed`. A stored event may be discarded by a relay's goroutine
  because another relay's had it first, so that what one relay owes the caller depends on what
  became of the other. `MissInv` follows `passedBy`, the subscription that let the event pass on
  behalf of all (`Remembered`: what is not fresh any more has one). As long as it is the current
  subscription of its relay, and may not lose anything (`Intact`), the event is out or on its way
  to be (`OnItsWay`); and once it has sent its EOSE nothing of it is still arriving. A goroutine
  that returned after an EOSE had one (`EndsFit`).

`Pool_proofs`: `ConnectionIsShared`, which is `OneSharedConnection`, under `PoolAssumption`, for
any number of entries, urls and mutexes. `ConnInvariant`: who is between looking at the map and
storing into it holds the mutex of its url (`LocksHeld`), a live connection is the one the map
holds (`LiveIsKept`), and who dials does so because the map's connection is dead
(`DialsForDead`).

`NegentropySync_proofs`, for any ids, calls, room in the channels and number of lists but
zero (`SyncAssumption`):

- `SyncTypesHold`: `TypeOK`;
- `SyncMovesEveryId`: `SyncIsComplete`.

`SyncInv` follows an id. `Reporting`: an id of the difference is not yet reported, about to be,
in its direction's channel, or seen by its collector, and a collector returns only when all were
reported and its channel is empty. `OnePlace`: an id that was seen is in the collector's list, in
the list of one task that has not sent its query, or was asked for, once; unless something
failed, after which the call does not return `nil`. What a list holds stays what it was as long
as it is with one collector or with one task (`OneUser`), which is so until the pool hands out a
list twice: the history variable `aliased` of `SyncIsComplete`. `ListsKnown`: lists that are
handed round were made. Each is stated for all directions at once, since the two collectors draw
on one pool.

`MCSimplePool_proofs`, for any set of relays and events and any number of repeated urls:

- `EosesCounted` and `NoLateSend`, of `SubMany`: `EoseCountedOnce` and `NoSendAfterClose`.
  `CountersInvariant` says that `pending` is the number of goroutines that have not counted
  themselves off plus that of the repeated urls (`PendingCounts`); so once it is zero, and
  somebody may be closing `events`, all are gone.
- `EmittedOnceAlways`, of `SubMany`: `EmittedOnce`, from an `OnePlace` as in `Fetch_proofs`.
- `SubscriptionsAreExact`, `FetchesEmitOnce`, `FetchesMissNothing` and `PoolSharesConnection`
  say the same of the pool as a whole, where subscriptions, fetches and connections take steps
  in any order: `MCSpec`, which the run `SimplePool` checks. A step of the composition is a step
  of one part and leaves the variables of the others alone; so it is a step or a stutter of
  each, and what holds of each part by itself holds of the composition.

`MCClients_proofs`:

- `AnswersAreOwn`, of `Bunker`: `OwnAnswer`, for any number of calls, relays and responses.
  `BunkerInvariant`: an id is given out once (`IdsGivenOnce`), and from the request over the
  response in the air to the channel of the call, every step leads back to the call that made
  the request (`LeadsHome`).
- `WalletIsBalanced`, of `Wallet`: `Balanced`, under `WalletAssumption`, for any calls, tokens,
  amounts and fee. `WalletInvariant` says what holds as long as `causes` is empty and nothing has
  panicked. The list has each known token that is not spent, once (`Listed`); a removal that is half done
  has given up its last place, and what stands there is further down or to be removed
  (`RemovalsApart`). Of a spent token in the list (`SpentGoes`), either the deletion is on its way
  - from the relays, kept by a goroutine, in `pendingDeletions`, among what the eose goroutine has
  left (`Pursued`) - or a `Send` will announce it yet (`Announcing`), or a removal looks for it
  and has not passed its place (`Sought`): removals and `Send` only move tokens down the list, and
  a removal goes down as well, so that no token gets behind it. Until the EOSE this holds of
  spent tokens that have yet to come into the list too (`SpentAwaited`). What a `Send` chose is the beginning of
  the list until it puts `updatedTokens` in its place (`ChosenStand`). Each of the six causes breaks
  one of these parts at the step that adds it.
- `OnlyOneDeadlock`, of `Wallet`: the safety part of `CallsSettle`, whatever has upset the
  books. `LocksComeFree` says of each of the two locks that who holds it can go on, or waits
  for the other lock, whose holder can; where "can go on" lists the lines from which there is a
  next step whatever the wallet finds (`HandlerGoesOn`, `SendGoesOn`). The exceptions are those
  of `CallsSettle`, `LockedUp` and a panic; so the deadlock that the run `Wallet_deadlock`
  shows is the only one. The invariant `LocksHeld` (the theorem `LocksAreHeld`) says who holds
  which lock at which line. That everybody goes on who can is fairness, and that part of
  `CallsSettle` stays with TLC.
- `ReconcileFindsDifference`, of `Negentropy`: `DifferenceFound`, and `ReconcileTypesHold`, its
  `TypeOK`, under `ReconcileAssumption`, for any storages, number of buckets and frame limits.
  `ReconcileInvariant` looks at the two messages, the one that is read and the one that is
  written. What a message says of its sender is true (`Truthful`): a list has exactly the
  sender's items of its range, and a fingerprint is of items of its range. It may be of fewer
  than all: the fingerprint that stands for the rest of a message that was cut off begins, for
  its reader, where the output ends, but is of the items behind the range that was being read.
  Of a difference that is not reported yet (`Outstanding`) the invariant says that some range
  of either message covers it (`NothingLost`): the range is not skipped, and if it is a
  fingerprint it is of a set other than the reader's items there (`Covers`). The one way in
  which that could fail is a late fingerprint of nothing met by a reader who has nothing there.
  `NothingIsLast` excludes it: a fingerprint of nothing stands only at the end of the order,
  and only where its sender still has an item or has just listed some. `WrittenSoFar` says that
  the output ends where reading is, or where the skip that is due begins. Whether a list the
  server answers with fits is decided by counting (`JoinedSize`, `RoomIsFilled`); one that does
  not fit leaves a fingerprint that begins with the first item left out. The lower bound of
  `ReconcileAssumption` on the frame limits is needed for `Terminates` only.
- `ClientsAnswerOwn`, `ClientsSyncEveryId`, `ClientsKeepBalance`, `ClientsFindDifference` and
  `ClientsOnlyOneDeadlock`: `OwnAnswer`, `SyncIsComplete`, `Balanced`, `DifferenceFound` and
  `LocksComeFree` of the clients together, the specification of the run `Clients`, by the same
  argument as above. The instance of `NegentropySync_proofs` that the second needs counts with
  its own copy of `Cardinality` (`SameCardinality`).

`Field5x52_proofs`, for limbs as large as those of the code, where TLC can only take small
ones. `Sizes` says what the argument needs of them, and `SizesOfTheCode` that 2^52, 2^48, 2^64
and 0x1000003D1 have it; `RegisterAssumption` that the registers to start from and the second
operands pass `secp256k1_fe_verify` (which also says that those of magnitude 0 are zero) and that the factors of `mul_int` and the addends of
`add_int` are at most 32 and 0x7FFF, as field.h asks. The run evaluates it for its own registers.

- `FieldInvariant`: the limbs are within the bounds of the magnitude (`Holds`), and if the
  register claims to be normalized they are the canonical ones. Per operation, one lemma says
  what it leaves of the bounds and what it does to the value: `NormalizeWeakIs`, `NormalizeIs`,
  `NegateIs`, `AddIs`, `MulIntIs`, `AddIntIs`, `HalfIs`, `MulInnerIs`, `SqrInnerIs`. So U64 and
  U128 never take anything away but where the code drops a carry on purpose.
- `MulInnerIs` is the largest: what each of the two accumulators passes on, keeps and gets
  folded back (`PassesOn`) adds up, column by column (`FoldedBack`), to the product of the
  values less a multiple of P, while no accumulator exceeds its two words (`Acc`, `Col`,
  `CarryIn`, `Folded`). The square has the same columns (`SqrColumnsAre`).
- `BoundsHold` and `AnswersHold` (together `LimbsAlwaysHold`): `LimbsInBounds` and `AnswersAgree`.
- `LimbsHoldElement`: the specification implies `HoldsElement`, so a register of limbs
  implements `FieldRegister`, step by step. The product that `FieldElement` computes digit by
  digit is a recursive function; `ByDigits` shows that its equation has a solution, the product
  modulo P, and by the least digit where two differ, no other.

Only model-checked:

- liveness under fairness, that of `KeepsContract` included, and whatever needs `ENABLED`, which
  are out of TLAPS's reach;
- the C modules except `Field5x52`: their algorithms are recursive operators, for which the prover
  has no backend; and the group formulas of `PointRegister`, which need the laws of the curve.

`TypeOK` of `Subscription`, `Fetch`, `NegentropySync` and `Negentropy` is proved; the other modules' type
invariants are parts of the invariants above where a proof needs them.

## Not modelled, and the plan

Not for a model: hashing, encryption and encodings, generated code, single HTTP requests,
external databases, formatting.

Of libsecp256k1 the model covers what a 64-bit build runs for `Event.Sign` and
`Event.CheckSignature`, and the rest of the public functions on keys. Half of the library's
lines are precomputed tables, which a model computes and does not list, or the same
arithmetic again for 32-bit words, struct-based 128-bit integers and the toy group of the
library's own tests. Left out of what a 64-bit build runs: the inversion (modinv64_impl.h) and
the Jacobi symbol, given by what they are; the limbs of scalars; SHA-256 and the derivation of nonces;
byte strings and DER.

Next, in this order:

1. `QueryEvents`, `BatchedSubManyEose`, `CountMany` and `Paginator`, which complete
   relay.go, pool.go and paginator.go.
2. The limbs of scalars and the modular inversion, as further registers beside `Field5x52`.
3. The SDK: `Dataloader` (sdk/dataloader), `ListFetch` (fetchGenericList with cache
   and locks), `Hints` (sdk/hints/memoryh).
4. NIP-46: the signers and their sessions. NIP-77: `FetchIDsOnly`.
5. NIP-60: `PayBolt11` and the swaps over lightning; the history.
6. Pure functions, each against a reference definition over bounded inputs: filter
   matching, tag helpers, thread roots (nip10, nip22), group metadata (nip29).

Theorems worth proving next: for `Relay` and `SubMany` what `OnlyOneDeadlock` is for `Wallet`, the
part of `CallsReturn` and `WaitersReleased` that says who can go on whenever somebody waits.
