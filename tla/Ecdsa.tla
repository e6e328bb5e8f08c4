-------------------------------- MODULE Ecdsa --------------------------------
(***************************************************************************)
(* p256_ecdsa_sign_sha256 and p256_ecdsa_verify_sha256 of p256.rs.  The    *)
(* candidates that RFC 6979 draws with HMAC are any values here, so that   *)
(* every rejection in the loop happens; MaxRejected bounds how many.       *)
(***************************************************************************)
EXTENDS Curve

CONSTANTS
    Hashes,      \* the message hashes looked at
    MaxRejected

SignatureAssumptions == Hashes \subseteq Uint /\ MaxRejected \in Nat

VARIABLES
    private,    \* the private scalar
    hash,       \* the message hash, of the signature or of a claim
    r, s,       \* the signature
    rejected,   \* candidates rejected so far
    state       \* "signing", "signed", "error", "claimed", "good" or "bad"

vars == <<private, hash, r, s, rejected, state>>

Scalars == 0..(N - 1)

SMul(a, b) == (a * b) % N
SAdd(a, b) == (a + b) % N

\* ecdsa_hash_scalar
HashScalar(h) == h % N

PublicKey == Multiply(Generator, private)

\* next_scalar: zero and values from the order up are drawn again.
IsNonce(candidate) == candidate # 0 /\ candidate < N

\* Scalar::new(nonce_x)
NonceR(nonce) == Multiply(Generator, nonce)[1] % N

SignatureS(nonce) ==
    SMul(Invert(nonce, N), SAdd(HashScalar(hash), SMul(private, NonceR(nonce))))

\* A candidate that ends the loop.
Usable(candidate) ==
    IsNonce(candidate) /\ NonceR(candidate) # 0 /\ SignatureS(candidate) # 0

\* Mutant: numbers from the order up are let through.
InRangeNotZero(a) == a # 0

\* from_components
InRange(a) == a # 0 /\ a < N

Verifies(public) ==
    LET inverse == Invert(s, N)
        point   == AddPoint(Multiply(Generator, SMul(HashScalar(hash), inverse)),
                            Multiply(public, SMul(r, inverse)))
    IN public # Infinity /\ point # Infinity /\ point[1] % N = r

\* A signature is made, or one comes from elsewhere.
Init ==
    /\ private \in Scalars /\ hash \in Hashes /\ rejected = 0
    /\ \/ state = "signing" /\ r = 0 /\ s = 0
       \/ state = "claimed" /\ private # 0 /\ r \in 0..(N + 1) /\ s \in 0..(N + 1)

RefuseZero ==
    /\ state = "signing" /\ private = 0 /\ state' = "error"
    /\ UNCHANGED <<private, hash, r, s, rejected>>

Sign(candidate) ==
    /\ state = "signing" /\ private # 0 /\ Usable(candidate)
    /\ r' = NonceR(candidate) /\ s' = SignatureS(candidate)
    /\ state' = "signed"
    /\ UNCHANGED <<private, hash, rejected>>

\* reject_candidate, after which another one is drawn.
Reject(candidate) ==
    /\ state = "signing" /\ private # 0 /\ ~Usable(candidate)
    /\ rejected < MaxRejected /\ rejected' = rejected + 1
    /\ UNCHANGED <<private, hash, r, s, state>>

Verify ==
    /\ state = "claimed"
    /\ state' = IF InRange(r) /\ InRange(s) /\ Verifies(PublicKey)
                THEN "good" ELSE "bad"
    /\ UNCHANGED <<private, hash, r, s, rejected>>

Next ==
    \/ RefuseZero \/ Verify
    \/ \E candidate \in Uint : Sign(candidate) \/ Reject(candidate)

Spec == Init /\ [][Next]_vars

-----------------------------------------------------------------------------
(* Properties.                                                             *)

\* Whatever nonce is drawn, the signature is in range and verifies with the
\* public key of the private scalar.
SignatureVerifies ==
    state = "signed" => InRange(r) /\ InRange(s) /\ Verifies(PublicKey)

\* A signature is accepted exactly if it is in range and some nonce gives it: no other pair of
\* numbers passes, and none that the holder of the key could have made, with
\* a nonce point whose x is above the order too, is refused.
VerifiesOnlySignatures ==
    state \in {"good", "bad"} =>
        (state = "good" <=>
            /\ r \in 1..(N - 1) /\ s \in 1..(N - 1)
            /\ \E nonce \in 1..(N - 1) :
                  /\ NonceR(nonce) = r
                  /\ (s * nonce - HashScalar(hash) - private * r) % N = 0)
=============================================================================
