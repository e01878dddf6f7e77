------------------------------ MODULE KeySides ------------------------------
(***************************************************************************)
(* A secret key and the public key that should belong to it go through the *)
(* same tweaks, the secret one on one side and the public one on another,  *)
(* later: `todo` is what the public side still has to do.                  *)
(***************************************************************************)
EXTENDS Keys

CONSTANTS
  Secrets, Tweaks, Digests,     \* inputs, as bytes
  Seeds,                        \* what a seed makes of blinding: [f, b]
  MaxTweaks                     \* bound: tweaks of one key

VARIABLES
  context,               \* ecmult_gen_ctx of the signing context
  secretKey, publicKey,  \* the key on either side
  todo,
  keypair,               \* a keypair made of the secret ...
  internal,              \* ... the x-only key it was tweaked from, and how
  tweaked,               \* number of tweaks of the secret side
  lastSig                \* the last ECDSA signature, of what and for whom

sideVars == <<context, secretKey, publicKey, todo, keypair, internal,
              tweaked, lastSig>>

NoInternal == [xonly |-> Cleared, tweak |-> 0]
NoEcdsa    == [sig |-> NoSignature, digest |-> 0, by |-> Cleared]

SideInit ==
  /\ context = Unblinded
  /\ secretKey \in Secrets
  /\ publicKey = Cleared
  /\ todo = <<[op |-> "create", tweak |-> 0]>>
  /\ keypair = NoPair /\ internal = NoInternal
  /\ tweaked = 0
  /\ lastSig = NoEcdsa

Doing(op) == todo # <<>> /\ Head(todo).op = op

(* secp256k1_context_randomize, before the key is made. *)
ContextRandomize(seed) ==
  /\ Doing("create") /\ tweaked = 0
  /\ context = Unblinded
  /\ context' = Blind(context, seed.f, seed.b)
  /\ UNCHANGED <<secretKey, publicKey, todo, keypair, internal, tweaked,
                 lastSig>>

(* The secret side starts once the public one has its key. *)
TweakSecret(op, tweak, out) ==
  /\ ~Doing("create")
  /\ tweaked < MaxTweaks
  /\ tweaked' = tweaked + 1
  /\ secretKey' = out.sec
  /\ todo' = Append(todo, [op |-> op, tweak |-> tweak])
  /\ UNCHANGED <<context, publicKey, keypair, internal, lastSig>>

NegateSecret      == TweakSecret("negate", 0, SeckeyNegate(secretKey))
AddToSecret(t)    == TweakSecret("add", t, SeckeyTweakAdd(secretKey, t))
MultiplySecret(t) == TweakSecret("mul", t, SeckeyTweakMul(secretKey, t))

(* The public side does what is next. *)
PublicTakes(out) ==
  /\ todo' = Tail(todo)
  /\ publicKey' = out.pub
  /\ UNCHANGED <<context, secretKey, keypair, internal, tweaked, lastSig>>

CreatePublic   == /\ Doing("create")
                  /\ PublicTakes(PubkeyCreate(context, secretKey))
NegatePublic   == Doing("negate") /\ PublicTakes(PubkeyNegate(publicKey))
AddToPublic    == /\ Doing("add")
                  /\ PublicTakes(PubkeyTweakAdd(publicKey, Head(todo).tweak))
MultiplyPublic == /\ Doing("mul")
                  /\ PublicTakes(PubkeyTweakMul(publicKey, Head(todo).tweak))

(* Combining the key with that of the tweak is another way to add it.       *)
CombinePublic ==
  /\ Doing("add")
  /\ IsLoadable(publicKey)
  /\ LET other == PubkeyCreate(context, Head(todo).tweak)
     IN other.ret /\ PublicTakes(PubkeyCombine(<<publicKey, other.pub>>))

MakePair ==
  /\ keypair = NoPair /\ todo = <<>>
  /\ keypair' = KeypairCreate(context, secretKey).pair
  /\ internal' = NoInternal
  /\ UNCHANGED <<context, secretKey, publicKey, todo, tweaked, lastSig>>

TweakPair(t) ==
  /\ tweaked < MaxTweaks
  /\ tweaked' = tweaked + 1
  /\ keypair # NoPair
  /\ internal' = [xonly |-> KeypairXonlyPub(keypair).xonly, tweak |-> t]
  /\ keypair' = KeypairXonlyTweakAdd(keypair, t).pair
  /\ UNCHANGED <<context, secretKey, publicKey, todo, lastSig>>

SignEcdsa(m) ==
  /\ todo = <<>>
  /\ lastSig' = [sig |-> EcdsaSign(context, secretKey, m).sig, digest |-> m,
                 by |-> publicKey]
  /\ UNCHANGED <<context, secretKey, publicKey, todo, keypair, internal,
                 tweaked>>

SideNext ==
  \/ \E seed \in Seeds : ContextRandomize(seed)
  \/ NegateSecret
  \/ \E t \in Tweaks : AddToSecret(t) \/ MultiplySecret(t)
  \/ CreatePublic \/ NegatePublic \/ AddToPublic \/ MultiplyPublic
  \/ CombinePublic
  \/ MakePair
  \/ \E t \in Tweaks : TweakPair(t)
  \/ \E m \in Digests : SignEcdsa(m)

SideSpec == SideInit /\ [][SideNext]_sideVars
----------------------------------------------------------------------------
BelongsTo(key, s) ==
  IF SetSeckey(s).valid THEN <<key.x, key.y>> = Multiples[s]
  ELSE key = Cleared

(* A stored key survives its way through each of its serializations.        *)
RoundTrips ==
  publicKey # Cleared =>
    LET short == SerializeCompressed(publicKey)
    IN /\ ParseCompressed(short.x, short.odd).pub = publicKey
       /\ ParseUncompressed(publicKey.x, publicKey.y).pub = publicKey
       /\ XonlyParse(publicKey.x).pub = XonlyFromPubkey(publicKey).xonly

(* When both sides have gone through the same tweaks they hold the two      *)
(* halves of one key, or both gave up at the same tweak: a sum of zero, a   *)
(* factor of zero, a tweak that is no scalar; and blinding never shows.     *)
(* Every key on the way survives its serializations.                        *)
SidesAgree ==
  /\ todo = <<>> => BelongsTo(publicKey, secretKey)
  /\ RoundTrips

(* A keypair's halves belong together whatever tweaks it took, which start  *)
(* from the even one of the two keys with its x; anyone who has the x-only  *)
(* key can make the tweak's result, or check it, and fails when the owner   *)
(* does.                                                                    *)
PairFollows ==
  LET owned == keypair # NoPair
  IN /\ BelongsTo(keypair.pk, keypair.sk)
     /\ internal # NoInternal =>
          XonlyTweakAdd(internal.xonly, internal.tweak)
            = Outcome(owned, keypair.pk)
     /\ internal # NoInternal /\ owned =>
          \A odd \in BOOLEAN :
            XonlyTweakAddCheck(keypair.pk.x, odd, internal.xonly,
                               internal.tweak)
              <=> odd = KeypairXonlyPub(keypair).odd

(* The ECDSA signature made with one half is accepted with the other, also  *)
(* when the x of its point exceeds the order, which is next to impossible   *)
(* at full size; its other form, with -s, is refused until normalized.      *)
EcdsaHolds ==
  lastSig.by # Cleared =>
    LET other == [lastSig.sig EXCEPT !.s = SNegate(@)]
    IN /\ EcdsaVerify(lastSig.sig, lastSig.digest, lastSig.by)
       /\ ~EcdsaVerify(other, lastSig.digest, lastSig.by)
       /\ EcdsaNormalize(other) = [ret |-> TRUE, sig |-> lastSig.sig]
       /\ ~EcdsaNormalize(lastSig.sig).ret
=============================================================================
