--------------------------- MODULE EventSignature ---------------------------
(***************************************************************************)
(* Signing an event and checking its signature through libsecp256k1        *)
(* (signature_libsecp256k1.go).  Between the two the event travels: what   *)
(* arrives may have been changed or made up.                               *)
(***************************************************************************)
EXTENDS Keys

CONSTANTS
  SecretKeys,            \* as the caller spells them: any 32 bytes
  Contents,
  Randoms,               \* what rand.Read gives
  Forgeries,             \* signatures [r, s] that may arrive ...
  OtherKeys,             \* ... and x-only keys
  Hash(_, _)             \* of Serialize: the x of the key, and the content

VARIABLES
  event,                 \* PubKey, content, Sig
  signer,                \* history: the secret that signed it, or 0
  verdict                \* what CheckSignature says of it

eventVars == <<event, signer, verdict>>

(* secp256k1_context_create, by init(); nothing in the package randomizes it. *)
globalSecp256k1Context == Unblinded

NoEvent == [pubkey |-> 0, content |-> 0, sig |-> NoSignature]

EventInit ==
  /\ event = NoEvent
  /\ signer = 0
  /\ verdict = "none"

(* Event.Sign: the key pair, its x-only key as PubKey, then the signature   *)
(* of the hash, which covers PubKey.  On an error the event keeps its       *)
(* signature, and may already have the new PubKey.                          *)
Signed(secret, x, content, out) ==
  /\ event' = [pubkey |-> x, content |-> content,
               sig |-> IF out.ret THEN out.sig ELSE event.sig]
  /\ signer' = IF out.ret THEN secret ELSE 0

SignedWith(made, x, secret, content, random) ==
  /\ made.ret
  /\ Signed(secret, x, content,
            SchnorrSign(globalSecp256k1Context, made.pair, Hash(x, content), random))

SignedBy(made, secret, content, random) ==
  SignedWith(made, KeypairXonlyPub(made.pair).xonly.x, secret, content, random)

Sign(secret, content, random) ==
  /\ event = NoEvent
  /\ SignedBy(KeypairCreate(globalSecp256k1Context, secret), secret, content, random)
  /\ UNCHANGED verdict

(* The event with another signature, or with another key. *)
Tamper(pubkey, sig) ==
  /\ event # NoEvent /\ verdict = "none" /\ signer # 0
  /\ event' = [event EXCEPT !.pubkey = pubkey, !.sig = sig]
  /\ event' # event
  /\ signer' = 0
  /\ UNCHANGED verdict

(* Event.CheckSignature *)
CheckSignature ==
  LET key == XonlyParse(event.pubkey)
  IN /\ event # NoEvent /\ verdict = "none"
     /\ verdict' = IF ~key.ret THEN "error"
                   ELSE IF SchnorrVerify(event.sig,
                             Hash(event.pubkey, event.content), key.pub)
                        THEN "valid" ELSE "invalid"
     /\ UNCHANGED <<event, signer>>

EventNext ==
  \/ \E secret \in SecretKeys, content \in Contents, random \in Randoms :
       Sign(secret, content, random)
  \/ \E sig \in Forgeries \cup {event.sig},
        pubkey \in OtherKeys \cup {event.pubkey} : Tamper(pubkey, sig)
  \/ CheckSignature

EventSpec == EventInit /\ [][EventNext]_eventVars
----------------------------------------------------------------------------
(* An event that was signed is found valid, whichever of the two keys with  *)
(* its x the secret belongs to, and whichever of the two points the nonce   *)
(* gave.                                                                    *)
SignedIsValid == signer # 0 => verdict \in {"none", "valid"}

(* The verdict is that of the equation: the point s * G - e * P, P being    *)
(* the one with an even y, has an even y and the signature's r as its x.    *)
VerdictOfEquation ==
  verdict # "none" =>
    LET keys == {pt \in OnCurve : pt[1] = event.pubkey /\ pt[2] % 2 = 0}
        e    == Challenge(event.sig.r, event.pubkey,
                          Hash(event.pubkey, event.content)) % N
        R(pt) == Plus(MultipleOf(event.sig.s % N, PointOf(Generator)),
                      MultipleOf((N - e) % N, pt))
    IN /\ verdict = "error" <=> keys = {}
       /\ verdict = "valid" <=>
            /\ event.sig.s < N
            /\ \E pt \in keys : /\ R(pt) # NoPoint
                                /\ R(pt)[1] = event.sig.r
                                /\ R(pt)[2] % 2 = 0

(* Both: what was signed is valid, and only what solves the equation is.    *)
VerdictIsRight == SignedIsValid /\ VerdictOfEquation
=============================================================================
