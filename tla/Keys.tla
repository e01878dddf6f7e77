-------------------------------- MODULE Keys --------------------------------
(***************************************************************************)
(* The operations on keys and signatures (secp256k1.c, eckey_impl.h,       *)
(* ecdsa_impl.h, modules/extrakeys, modules/schnorrsig).  Each operator is *)
(* one call: `ret` is what it returns, the other fields what it writes.    *)
(*                                                                         *)
(* Numbers of ScalarBits bits stand for strings of 32 bytes, and hashes    *)
(* are constants: all that matters of them is that both sides compute the  *)
(* same.                                                                   *)
(***************************************************************************)
EXTENDS EcmultGen

CONSTANTS
  Challenge(_, _, _),    \* of r, the x of the key, and the message
  Nonce(_, _, _, _),     \* of the secret, the x of the key, message and aux
  NonceEcdsa(_, _, _)    \* of the secret, the message and a counter

Bytes == 0..2^ScalarBits-1

(* A public key as it is stored, all zeros where there is none. *)
Cleared == [x |-> 0, y |-> 0]

PubkeySave(ge)  == [x |-> ge.x.v, y |-> ge.y.v]
PubkeyLoad(pub) == SetXY(Canonical(pub.x), Canonical(pub.y))
IsLoadable(pub) == pub.x # 0

Outcome(ret, pub) == [ret |-> ret, pub |-> IF ret THEN pub ELSE Cleared]

----------------------------------------------------------------------------
(* Secret keys.  An unusable result is written as zero. *)
SecretOutcome(ret, s) == [ret |-> ret, sec |-> IF ret THEN s ELSE 0]

SeckeyNegate(sec) ==
  LET key == SetSeckey(sec) IN SecretOutcome(key.valid, SNegate(key.s))

SeckeyTweakAdd(sec, tweak) ==
  LET Of(key, term, s) ==
        SecretOutcome(key.valid /\ ~term.overflow /\ s # 0, s)
  IN Of(SetSeckey(sec), SetBytes(tweak),
        SAdd(SetSeckey(sec).s, SetBytes(tweak).s))

(* Mutation: a factor that is no scalar is reduced to one. *)
SeckeyTweakMulReduced(sec, tweak) ==
  LET Of(key, factor) ==
        SecretOutcome(key.valid /\ factor.s # 0, SMul(key.s, factor.s))
  IN Of(SetSeckey(sec), SetBytes(tweak))

SeckeyTweakMul(sec, tweak) ==
  LET Of(key, factor) ==
        SecretOutcome(key.valid /\ ~factor.overflow /\ factor.s # 0,
                      SMul(key.s, factor.s))
  IN Of(SetSeckey(sec), SetBytes(tweak))

----------------------------------------------------------------------------
(* Public keys. *)

(* secp256k1_ec_pubkey_create_helper: an invalid secret is replaced by one, *)
(* so that the multiplication takes place all the same.                     *)
UsableSecret(sec) == IF SetSeckey(sec).valid THEN SetSeckey(sec).s ELSE 1

CreateHelper(ctx, sec) ==
  [ret |-> SetSeckey(sec).valid, sk |-> UsableSecret(sec),
   pk |-> SetGej(MultiplyGen(ctx, UsableSecret(sec)))]

(* What a call stores that made a key or failed to. *)
KeyOutcome(made) == Outcome(made.ret, PubkeySave(made.pk))

PubkeyCreate(ctx, sec) == KeyOutcome(CreateHelper(ctx, sec))

PubkeyNegate(pub) ==
  Outcome(IsLoadable(pub), PubkeySave(GeNeg(PubkeyLoad(pub))))

(* secp256k1_eckey_pubkey_tweak_add behind its helper *)
FinitePoint(ret, pt) == [ret |-> ret /\ ~pt.inf, pk |-> SetGej(pt)]

TweakAddHelper(pk, tweak) ==
  FinitePoint(~SetBytes(tweak).overflow,
              Multiply(GejSetGe(pk), 1, SetBytes(tweak).s))

PubkeyTweakAdd(pub, tweak) ==
  IF IsLoadable(pub) THEN KeyOutcome(TweakAddHelper(PubkeyLoad(pub), tweak))
  ELSE Outcome(FALSE, Cleared)

PubkeyTweakMul(pub, tweak) ==
  IF SetBytes(tweak).overflow \/ ~IsLoadable(pub) \/ SetBytes(tweak).s = 0
  THEN Outcome(FALSE, Cleared)
  ELSE KeyOutcome([ret |-> TRUE,
                   pk |-> SetGej(Multiply(GejSetGe(PubkeyLoad(pub)),
                                          SetBytes(tweak).s, 0))])

(* One addition after the other, in constant time. *)
PubkeyCombine(pubs) ==
  LET upTo[i \in 0..Len(pubs)] ==
        IF i = 0 THEN GejInfinity
        ELSE GejAddGe(upTo[i - 1], PubkeyLoad(pubs[i])).r
  IN KeyOutcome(FinitePoint(TRUE, upTo[Len(pubs)]))

(* secp256k1_eckey_pubkey_parse, of a compressed key ...                    *)
ParseCompressed(x, odd) ==
  LET Lifted(res) == Outcome(x < P /\ res.found, PubkeySave(res.ge))
  IN Lifted(SetXoVar(Canonical(x), odd))

(* ... and of both coordinates. *)
ParseUncompressed(x, y) ==
  LET Of(ge) == Outcome(x < P /\ y < P /\ IsValidVar(ge), PubkeySave(ge))
  IN Of(SetXY(Canonical(x), Canonical(y)))

SerializeCompressed(pub) == [x |-> pub.x, odd |-> pub.y % 2 = 1]

----------------------------------------------------------------------------
(* Keys that are only an x, standing for the point with an even y.          *)
EvenY(ge) ==
  [ge |-> IF IsOdd(ge.y) THEN [ge EXCEPT !.y = Negate(@, 1)] ELSE ge,
   odd |-> IsOdd(ge.y)]

XonlyParse(x) == ParseCompressed(x, FALSE)

XonlyFromPubkey(pub) ==
  [xonly |-> PubkeySave(EvenY(PubkeyLoad(pub)).ge),
   odd |-> EvenY(PubkeyLoad(pub)).odd]

XonlyTweakAdd(xonly, tweak) == PubkeyTweakAdd(xonly, tweak)

(* Whether x, with this parity, is what the tweak makes of the key.         *)
XonlyTweakAddCheck(x, odd, xonly, tweak) ==
  LET Is(made) ==
        made.ret /\ made.pk.x.v = x /\ IsOdd(Normalize(made.pk.y)) = odd
  IN Is(TweakAddHelper(PubkeyLoad(xonly), tweak))

NoPair == [sk |-> 0, pk |-> Cleared]

PairOutcome(made) ==
  [ret |-> made.ret,
   pair |-> IF made.ret THEN [sk |-> made.sk, pk |-> PubkeySave(made.pk)]
            ELSE NoPair]

KeypairCreate(ctx, sec) ==
  PairOutcome(CreateHelper(ctx, sec))

(* A pair that cannot be loaded is replaced by the one of secret 1.         *)
KeypairLoad(pair) ==
  LET Of(ret) == [ret |-> ret, sk |-> IF ret THEN pair.sk ELSE 1,
                  pk |-> IF ret THEN PubkeyLoad(pair.pk) ELSE Generator]
  IN Of(IsLoadable(pair.pk) /\ SetSeckey(pair.sk).valid)

KeypairXonlyPub(pair) == XonlyFromPubkey(pair.pk)

(* Mutation: the secret stays that of the odd key. *)
SecretAsLoaded(load) == load.sk

(* The secret of the key with the even y. *)
EvenSecret(load) == IF IsOdd(load.pk.y) THEN SNegate(load.sk) ELSE load.sk

KeypairXonlyTweakAdd(pair, tweak) ==
  LET load == KeypairLoad(pair)
      Tweaked(sec, res) == [ret |-> load.ret /\ sec.ret /\ res.ret,
                            sk |-> sec.sec, pk |-> res.pk]
  IN PairOutcome(Tweaked(SeckeyTweakAdd(EvenSecret(load), tweak),
                         TweakAddHelper(EvenY(load.pk).ge, tweak)))
----------------------------------------------------------------------------
(* Schnorr signatures. *)
NoSignature == [r |-> 0, s |-> 0]

(* k, the point of k, and the challenge give the signature. *)
SchnorrSigned(ret, sk, x, m, k, r) ==
  [ret |-> ret,
   sig |-> IF ret
           THEN [r |-> r.x.v,
                 s |-> SAdd(SMul(SetBytes(Challenge(r.x.v, x, m)).s, sk),
                            IF IsOdd(Normalize(r.y)) THEN SNegate(k) ELSE k)]
           ELSE NoSignature]

SchnorrSign(ctx, pair, m, aux) ==
  LET load  == KeypairLoad(pair)
      sk    == EvenSecret(load)
      nonce == SetBytes(Nonce(sk, load.pk.x.v, m, aux)).s
      ret   == load.ret /\ nonce # 0
      With(k) == SchnorrSigned(ret, sk, load.pk.x.v, m, k,
                               SetGej(MultiplyGen(ctx, k)))
  IN With(IF ret THEN nonce ELSE 1)

(* Mutation: either of the points with that x will do. *)
IsEitherPoint(r, x) == ~r.inf /\ Equal(Canonical(x), r.x)

(* The even point with the signature's r as its x *)
IsNoncePoint(r, x) ==
  ~r.inf /\ ~IsOdd(Normalize(r.y)) /\ Equal(Canonical(x), r.x)

SchnorrVerify(sig, m, xonly) ==
  LET e == SetBytes(Challenge(sig.r, xonly.x, m)).s
  IN /\ sig.r < P
     /\ ~SetBytes(sig.s).overflow
     /\ IsLoadable(xonly)
     /\ IsNoncePoint(SetGejVar(Multiply(GejSetGe(PubkeyLoad(xonly)),
                                        SNegate(e), sig.s)), sig.r)
----------------------------------------------------------------------------
(* ECDSA signatures. *)

(* secp256k1_ecdsa_sig_sign: s is brought to the lower half.                *)
LowS(r, s) == [ret |-> r # 0 /\ s # 0,
               sig |-> [r |-> r, s |-> IF IsHigh(s) THEN SNegate(s) ELSE s]]

EcdsaSigSign(ctx, sec, m, nonce) ==
  LET Of(r) == LowS(r, SMul(SInverse(nonce), SAdd(SMul(r, sec), m)))
  IN Of(SetBytes(SetGej(MultiplyGen(ctx, nonce)).x.v).s)

(* secp256k1_ecdsa_sign_inner: another nonce until one is usable. *)
RECURSIVE EcdsaSignFrom(_, _, _, _)
EcdsaSignFrom(ctx, sec, m, count) ==
  LET nonce == SetSeckey(NonceEcdsa(sec, m, count))
      Kept(made) == IF made.ret THEN made.sig
                    ELSE EcdsaSignFrom(ctx, sec, m, count + 1)
  IN Kept(IF nonce.valid THEN EcdsaSigSign(ctx, sec, SetBytes(m).s, nonce.s)
          ELSE [ret |-> FALSE, sig |-> NoSignature])

EcdsaSign(ctx, sec, m) ==
  [ret |-> SetSeckey(sec).valid,
   sig |-> IF SetSeckey(sec).valid
           THEN EcdsaSignFrom(ctx, SetSeckey(sec).s, m, 0)
           ELSE NoSignature]

(* Mutation: r is compared as it is. *)
HasReducedX(r, pt) == ~pt.inf /\ EqXVar(Canonical(r), pt)

(* secp256k1_ecdsa_sig_verify: r may be the x of the point less the order.  *)
HasX(r, pt) ==
  /\ ~pt.inf
  /\ \/ EqXVar(Canonical(r), pt)
     \/ r < P - N /\ EqXVar(Add(Canonical(r), Canonical(N)), pt)

EcdsaSigVerify(sig, pk, m) ==
  LET sn == SInverse(sig.s)
  IN /\ sig.r # 0 /\ sig.s # 0
     /\ HasX(sig.r, Multiply(GejSetGe(pk), SMul(sn, sig.r), SMul(sn, m)))

EcdsaVerify(sig, m, pub) ==
  /\ ~IsHigh(sig.s)
  /\ IsLoadable(pub)
  /\ EcdsaSigVerify(sig, PubkeyLoad(pub), SetBytes(m).s)

EcdsaNormalize(sig) ==
  [ret |-> IsHigh(sig.s),
   sig |-> IF IsHigh(sig.s) THEN [sig EXCEPT !.s = SNegate(@)] ELSE sig]
=============================================================================
