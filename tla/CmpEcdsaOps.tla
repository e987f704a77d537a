---------------------------- MODULE CmpEcdsaOps ----------------------------
(***************************************************************************)
(* cmp_ecdsa_signing_service: what the online and the offline ECDSA        *)
(* services have in common, computed over the curve of GFpCurve.  Every    *)
(* player holds an additive share x of the key.  For each signature the    *)
(* players draw k and gamma and turn the products k*gamma and k*x into     *)
(* sums by pairwise multiplications (MTA).                                 *)
(*                                                                         *)
(* The secrets drawn for one signature are named by <<player, serial>>,    *)
(* and a request carries only that name: its ciphertexts and commitments   *)
(* are functions of it.  A zero-knowledge proof is the statement it proves *)
(* together with the aad it is bound to: the modules on MTA and the proofs *)
(* say when a verifier accepts.                                            *)
(***************************************************************************)
EXTENDS GFpCurve, TLC, Functions

CONSTANTS
    Players,            \* players_info of the key: numbers
    Share0,             \* the key shares that setup left, one per player
    MaxDrawn(_),        \* bound: secrets drawn by a player
    Draw(_, _, _, _),   \* a random scalar: of a player, a serial, the player it
                        \* is meant for (0: none) and a use
    Hash(_, _, _),      \* SHA-256 of R, a public key and a message, as a scalar
    Message(_),         \* message of a transaction, a scalar
    Derivation(_),      \* what its derivation path adds to the key, 0 if empty
    PositiveR(_)        \* whether its flags have POSITIVE_R

ASSUME CmpAssumption ==
    /\ IsFiniteSet(Players) /\ Players \subseteq Nat
    /\ Share0 \in [Players -> Scalars]
    /\ \A p \in Players : MaxDrawn(p) \in Nat

VARIABLES
    share,      \* private key share of a player
    epoch,      \* history: the refreshes that went into it, in order
    drawn,      \* serials used by a player
    msgs        \* every message a handler returned

EmptyMap == [x \in {} |-> x]
Without(m, ks) == [x \in DOMAIN m \ ks |-> m[x]]
Put(m, k, v) == [x \in DOMAIN m \cup {k} |-> IF x = k THEN v ELSE m[x]]

Others(p) == Players \ {p}

SumOver(f) == FoldFunction(AddScalars, 0, f)
PointSum(f) == FoldFunction(AddPoints, Infinity, f)

PublicKey == GeneratorMul(SumOver(Share0))

\* players_info: fixed when the key is made; a refresh does not touch it.
PublicShare(p) == GeneratorMul(Share0[p])

\* derive_public_key_generic of the transaction's path.
DerivedKey(tx) == AddPoints(PublicKey, GeneratorMul(Derivation(tx)))

\* The uuid of a request or a transaction, a player and the key's seed.
Aad(uuid, p) == <<uuid, p>>

\* What the names stand for.
K(id) == Draw(id[1], id[2], 0, "k")
Gamma(id) == Draw(id[1], id[2], 0, "gamma")
Beta(id, q, use) == Draw(id[1], id[2], q, use)

Of(type, q) == {m \in msgs : m.type = type /\ m.from = q}

\* What a caller may hand to a handler: one message of a kind from every player,
\* of any request.
Batches(type) == {f \in [Players -> UNION {Of(type, q) : q \in Players}] :
                    \A q \in Players : f[q] \in Of(type, q)}

Return(p, type, body) ==
    msgs' = msgs \cup {[type |-> type, from |-> p, body |-> body]}

-----------------------------------------------------------------------------
\* create_mta_request.  pub holds, by other player, the request that was
\* answered and the GAMMA it revealed; open says that mta_request is set.
\* epoch is history: that of the share that went into chi.

NewData(p, n) ==
    LET id == <<p, n>>
    IN  [id |-> id, k |-> K(id), gamma |-> Gamma(id),
         delta |-> MulScalars(K(id), Gamma(id)), chi |-> 0,
         GAMMA |-> GeneratorMul(Gamma(id)), open |-> TRUE, pub |-> EmptyMap,
         R |-> Infinity, epoch |-> <<>>]

MtaRequest(uuid, data) == [aad |-> Aad(uuid, data.id[1]), id |-> data.id]

\* range_proof_diffie_hellman_zkpok_verify of a request.
RddhOk(uuid, q, request) == request.aad = Aad(uuid, q)

\* ack_mta_request: the hash of everything every player requested.
NoAck == EmptyMap
Ack(requests) == requests

\* create_mta_response: one pair of multiplications with each other player.
Mta(request, secret, beta) ==
    [request |-> request.id,
     alpha |-> AddScalars(MulScalars(K(request.id), secret), beta),
     secret |-> GeneratorMul(secret)]

MtaResponse(data, uuid, requests, i, x) ==
    LET p == data.id[1]
    IN  [aad |-> Aad(uuid, p), GAMMA |-> data.GAMMA,
         k_gamma |-> [q \in Others(p) |-> Mta(requests[q][i], data.gamma, Beta(data.id, q, "gamma"))],
         k_x |-> [q \in Others(p) |-> Mta(requests[q][i], x, Beta(data.id, q, "x"))]]

Responded(data, requests, i, e) ==
    LET p == data.id[1]
        betas(use) == SumOver([q \in Others(p) |-> Beta(data.id, q, use)])
    IN  [data EXCEPT !.delta = SubScalars(@, betas("gamma")),
                     !.chi = SubScalars(@, betas("x")), !.epoch = e,
                     !.pub = [q \in Others(p) |-> [id |-> requests[q][i].id, GAMMA |-> Infinity]]]

\* verify_block_and_get_delta: GAMMA opens the commitment of the request, and
\* both answers were made from this player's open request, with the secret
\* behind GAMMA and with the public share of the key.
ResponseOk(data, uuid, responses, i) ==
    LET p == data.id[1]
    IN  /\ data.open
        /\ DOMAIN data.pub = Others(p)
        /\ \A q \in Others(p) : LET resp == responses[q][i] IN
            /\ resp.aad = Aad(uuid, q)
            /\ resp.GAMMA = GeneratorMul(Gamma(data.pub[q].id))
            /\ resp.k_gamma[p].request = data.id /\ resp.k_gamma[p].secret = resp.GAMMA
            /\ resp.k_x[p].request = data.id /\ resp.k_x[p].secret = PublicShare(q)

VerifiedDropsChi(data, responses, i) ==
    LET p == data.id[1]
        Resp(q) == responses[q][i]
    IN  [data EXCEPT
            !.delta = AddScalars(@, SumOver([q \in Others(p) |-> Resp(q).k_gamma[p].alpha])),
            !.GAMMA = AddPoints(@, PointSum([q \in Others(p) |-> Resp(q).GAMMA])),
            !.pub = [q \in Others(p) |-> [id |-> data.pub[q].id, GAMMA |-> Resp(q).GAMMA]],
            !.open = FALSE]

\* alphas into delta and chi, the other GAMMAs into GAMMA, the request cleared.
Verified(data, responses, i) ==
    LET p == data.id[1]
    IN  [VerifiedDropsChi(data, responses, i) EXCEPT
            !.chi = AddScalars(@, SumOver([q \in Others(p) |-> responses[q][i].k_x[p].alpha]))]

\* delta and DELTA = k * GAMMA, with the proof that they share k.
Deltas(data, uuid) ==
    [aad |-> Aad(uuid, data.id[1]), id |-> data.id, base |-> data.GAMMA,
     delta |-> data.delta, DELTA |-> PointMul(data.GAMMA, data.k)]

\* calc_R: every proof holds for this player's GAMMA, and g^delta is the sum of
\* the DELTAs; R = delta^-1 * GAMMA.
SumDelta(data, deltas, i) ==
    AddScalars(data.delta, SumOver([q \in Others(data.id[1]) |-> deltas[q][i].delta]))

CalcROk(data, uuid, deltas, i) ==
    LET p == data.id[1]
    IN  /\ DOMAIN data.pub = Others(p)
        /\ \A q \in Others(p) : LET d == deltas[q][i] IN
            /\ d.aad = Aad(uuid, q)
            /\ d.id = data.pub[q].id
            /\ d.base = data.GAMMA
        /\ Verify(SumDelta(data, deltas, i),
                  AddPoints(PointMul(data.GAMMA, data.k),
                            PointSum([q \in Others(p) |-> deltas[q][i].DELTA])))
        /\ SumDelta(data, deltas, i) # 0

CalcR(data, deltas, i) ==
    PointMul(data.GAMMA, ScalarInverse(SumDelta(data, deltas, i)))

-----------------------------------------------------------------------------
\* Signatures

\* The most significant bit of the scalar's width is clear (secp256k1).
IsPositive(a) == a < 2 ^ (Width - 1)

\* How many times R is added until the projection is positive.
Counter(R, tx) ==
    IF ~PositiveR(tx) THEN 1
    ELSE CHOOSE c \in 1 .. Order : /\ IsPositive(Projection(PointMul(R, c)))
                                   /\ \A d \in 1 .. c - 1 : ~IsPositive(Projection(PointMul(R, d)))

PartialSNoDelta(k, chi, x, r, tx) ==
    AddScalars(k * Message(tx), r * AddScalars(k * x, chi))

\* s = k(m + r * delta) + r(k * x + chi)
PartialS(k, chi, x, r, tx) ==
    AddScalars(k * AddScalars(Message(tx), r * Derivation(tx)), r * AddScalars(k * x, chi))

\* The v of a recoverable signature.
RecoveryId(R) == (IF Overflow(R) THEN 2 ELSE 0) + (IF IsOddPoint(R) THEN 1 ELSE 0)

\* One player's share of s under R, times the inverse of scale.
PartialSig(k, chi, x, R, scale, tx) ==
    [r |-> Projection(R), v |-> RecoveryId(R),
     s |-> MulScalars(PartialS(k, chi, x, Projection(R), tx), ScalarInverse(scale))]

MakePositiveKeepsV(sig) == IF IsPositive(sig.s) THEN sig ELSE [sig EXCEPT !.s = Abs(@)]

\* make_sig_s_positive: negating s flips its parity, and that of R's y.
MakePositive(sig) ==
    IF IsPositive(sig.s) THEN sig
    ELSE [sig EXCEPT !.s = Abs(@),
                     !.v = IF Abs(sig.s) % 2 = sig.s % 2 THEN @
                           ELSE IF @ % 2 = 0 THEN @ + 1 ELSE @ - 1]

-----------------------------------------------------------------------------
\* ECDSA, as the standard defines it.

EcdsaVerify(Q, m, sig) ==
    /\ sig.r \in Scalars \ {0} /\ sig.s \in Scalars \ {0}
    /\ LET w == ScalarInverse(sig.s)
           P == AddPoints(GeneratorMul(m * w), PointMul(Q, sig.r * w))
       IN  P # Infinity /\ P[2] % Order = sig.r

\* The public key recovered from a signature and its v.
EcdsaRecover(m, sig) ==
    LET R == <<2 + (sig.v % 2), sig.r + (IF sig.v >= 2 THEN Order ELSE 0)>>
        w == ScalarInverse(sig.r)
    IN  AddPoints(PointMul(R, sig.s * w), GeneratorMul((Order - m) * w))

GoodSignature(tx, sig) ==
    /\ EcdsaVerify(DerivedKey(tx), Message(tx), sig)
    /\ EcdsaRecover(Message(tx), sig) = DerivedKey(tx)
    /\ 2 * sig.s < Order
=============================================================================
