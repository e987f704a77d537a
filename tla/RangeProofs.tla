----------------------------- MODULE RangeProofs -----------------------------
(***************************************************************************)
(* common/crypto/zero_knowledge_proof/range_proofs.c.  A proof is a        *)
(* commitment, a challenge e and an answer.  e comes from a hash of the    *)
(* statement and the commitment, so it is a number fixed after them: every *)
(* definition takes it as a parameter.  The group of the elliptic curve is *)
(* of prime order GroupOrder and written additively, a point by its        *)
(* logarithm.  Sizes in bytes are sizes in bits here.                      *)
(***************************************************************************)
EXTENDS LogGroup, Paillier, RingPedersen, DamgardFujisaki

CONSTANTS ScalarBits,     \* sizeof(elliptic_curve256_scalar_t), ZKPOK_L_SIZE
          EpsilonBits,    \* ZKPOK_EPSILON_SIZE
          LBits, NuBits,  \* ZKPOK_OPTIM_L_SIZE, ZKPOK_OPTIM_NU_SIZE
          KappaBits       \* ZKPOK_OPTIM_KAPPA_SIZE

ASSUME RangeAssumption ==
  /\ {ScalarBits, EpsilonBits, LBits, NuBits, KappaBits} \subseteq Nat \ {0}
  /\ GroupOrder < 2^ScalarBits

\* The challenge is drawn again until it is below the order.
Challenges == 0..(GroupOrder - 1)
DrawChallenge(stream) == SelectSeq(stream, LAMBDA v : v < GroupOrder)[1]

\* The bound of the random number that hides the secret.
AlphaBound == 2^(ScalarBits + EpsilonBits)

-----------------------------------------------------------------------------
\* range_proof_paillier_exponent_zkpok_generate: the ciphertext Enc(x; rho)
\* holds the logarithm x of the point X, and x is in range.
\* coins: alpha, mu, gamma and the unit r.
ExponentCommit(ring, pk, x, coins) ==
  [S |-> RingCommit(ring, x, coins.mu),
   D |-> EncryptWith(pk, coins.r, coins.alpha),
   Y |-> coins.alpha % GroupOrder,
   T |-> RingCommit(ring, coins.alpha, coins.gamma)]

ExponentRespond(pk, x, rho, coins, e) ==
  [z1 |-> e * x + coins.alpha,
   z2 |-> MulMod(PowMod(rho, e, pk.n), coins.r, pk.n),
   z3 |-> e * coins.mu + coins.gamma]

\* range_proof_paillier_encrypt_with_exponent_zkpok_generate: encrypt, then
\* prove; rho must be a unit.
ExponentProve(ring, pk, x, rho, coins, e) ==
  [ciphertext |-> Encrypt(pk, rho, x), commit |-> ExponentCommit(ring, pk, x, coins),
   answer |-> ExponentRespond(pk, x, rho, coins, e)]

\* exponent_zkpok_serialized_size_internal: each number has a fixed width.
ExponentWidths(ringN, paillierN) ==
  LET ringBits == BitLength(ringN)
      paillierBits == BitLength(paillierN)
  IN  [S |-> ringBits, D |-> 2 * paillierBits, Y |-> ScalarBits, T |-> ringBits,
       z1 |-> EpsilonBits + ScalarBits + 1, z2 |-> paillierBits,
       z3 |-> EpsilonBits + ScalarBits + ringBits + 1]

\* serialize_exponent_zkpok, deserialize_exponent_zkpok: what arrives of the
\* numbers sent.  A number wider than its place arrives as 0.
Arrives(numbers, widths) ==
  [f \in DOMAIN numbers |-> IF BitLength(numbers[f]) <= widths[f] THEN numbers[f] ELSE 0]
ExponentSerialize(ring, pk, proof) ==
  LET widths == ExponentWidths(ring.n, pk.n)
  IN  [sizes |-> <<BitLength(ring.n), BitLength(pk.n)>>,
       ciphertext |-> proof.ciphertext,
       commit |-> Arrives(proof.commit, widths), answer |-> Arrives(proof.answer, widths)]
ExponentDeserializable(ring, pk, buffer) == buffer.sizes = <<BitLength(ring.n), BitLength(pk.n)>>

\* The checks the verifiers of this family share.
CiphertextsAreUnits(pk, c, D) == IsCoprimeFast(D, pk.n) /\ IsCoprimeFast(c, pk.n)
InRange(z1) == BitLength(z1) <= ScalarBits + EpsilonBits
EncryptionHolds(pk, c, D, answer, e) ==
  EncryptWith(pk, answer.z2, answer.z1) = MulMod(PowMod(c, e, pk.n2), D, pk.n2)
CommitmentHolds(ring, commit, answer, e) ==
  RingCommit(ring, answer.z1, answer.z3)
    = MulMod(PowMod(commit.S, e, ring.n), commit.T, ring.n)
PointHolds(X, Y, z1, e) == (e * X + Y) % GroupOrder = z1 % GroupOrder

\* range_proof_exponent_zkpok_verify.
ExponentVerify(ring, pk, X, proof, e) ==
  /\ CiphertextsAreUnits(pk, proof.ciphertext, proof.commit.D)
  /\ InRange(proof.answer.z1)
  /\ EncryptionHolds(pk, proof.ciphertext, proof.commit.D, proof.answer, e)
  /\ CommitmentHolds(ring, proof.commit, proof.answer, e)
  /\ PointHolds(X, proof.commit.Y, proof.answer.z1, e)

\* range_proof_exponent_zkpok_batch_verify.  status is carried from one proof
\* to the next; the loop leaves at the first check that fails, except at the
\* last check, whose result is only stored.  Where an encryption cannot be
\* computed the loop leaves with the status it has.
BatchStep(ring, pk, X, proof, e, status) ==
  LET left(s) == [status |-> s, left |-> TRUE]
  IN  CASE ~CiphertextsAreUnits(pk, proof.ciphertext, proof.commit.D)
             \/ ~InRange(proof.answer.z1) -> left("failed")
        [] OTHER ->
             IF Failed(EncryptWith(pk, proof.answer.z2, proof.answer.z1)) THEN left(status)
             ELSE IF \/ ~EncryptionHolds(pk, proof.ciphertext, proof.commit.D, proof.answer, e)
                     \/ ~CommitmentHolds(ring, proof.commit, proof.answer, e)
             THEN left("failed")
             ELSE [left |-> FALSE,
                   status |-> IF PointHolds(X, proof.commit.Y, proof.answer.z1, e)
                              THEN "success" ELSE "failed"]

BatchVerify(ring, pk, points, proofs, es) ==
  LET loop[i \in 0..Len(proofs)] ==
        IF i = 0 THEN [status |-> "unknown", left |-> FALSE]
        ELSE IF loop[i - 1].left THEN loop[i - 1]
        ELSE BatchStep(ring, pk, points[i], proofs[i], es[i], loop[i - 1].status)
  IN  loop[Len(proofs)].status

-----------------------------------------------------------------------------
\* range_proof_diffie_hellman_zkpok: X = g^(ab + x) for A = g^a, B = g^b.
\* coins has beta besides those of the exponent proof.
DhCommit(ring, pk, x, a, coins) ==
  [S |-> RingCommit(ring, x, coins.mu),
   D |-> EncryptWith(pk, coins.r, coins.alpha),
   Z |-> coins.beta,
   Y |-> (a * coins.beta + coins.alpha) % GroupOrder,
   T |-> RingCommit(ring, coins.alpha, coins.gamma)]
DhPoint(x, a, b) == (a * b + x) % GroupOrder

DhRespond(pk, x, b, rho, coins, e) ==
  [z1 |-> e * x + coins.alpha,
   z2 |-> MulMod(PowMod(rho, e, pk.n), coins.r, pk.n),
   z3 |-> e * coins.mu + coins.gamma,
   w |-> (e * b + coins.beta) % GroupOrder]

DhProve(ring, pk, x, a, b, rho, coins, e) ==
  [ciphertext |-> Encrypt(pk, rho, x), commit |-> DhCommit(ring, pk, x, a, coins),
   answer |-> DhRespond(pk, x, b, rho, coins, e)]

DhWidths(ringN, paillierN) ==
  LET base == ExponentWidths(ringN, paillierN)
  IN  [f \in DOMAIN base \cup {"Z", "w"} |-> IF f \in DOMAIN base THEN base[f] ELSE ScalarBits]
DhSerialize(ring, pk, proof) ==
  [sizes |-> <<BitLength(ring.n), BitLength(pk.n)>>, ciphertext |-> proof.ciphertext,
   commit |-> Arrives(proof.commit, DhWidths(ring.n, pk.n)),
   answer |-> Arrives(proof.answer, DhWidths(ring.n, pk.n))]

\* range_proof_diffie_hellman_zkpok_verify; z1 = 2^(...) itself is in range.
DhVerify(ring, pk, X, A, B, proof, e) ==
  /\ CiphertextsAreUnits(pk, proof.ciphertext, proof.commit.D)
  /\ proof.answer.z1 <= AlphaBound
  /\ EncryptionHolds(pk, proof.ciphertext, proof.commit.D, proof.answer, e)
  /\ CommitmentHolds(ring, proof.commit, proof.answer, e)
  /\ (proof.answer.w * A + proof.answer.z1) % GroupOrder = (e * X + proof.commit.Y) % GroupOrder
  /\ (e * B + proof.commit.Z) % GroupOrder = proof.answer.w % GroupOrder

-----------------------------------------------------------------------------
\* range_proof_paillier_large_factors_zkp: neither factor of n is small.
\* coins: alpha, beta, mu, sigma, lambda, r, x, y.
FactorsCommit(ring, p, q, coins) ==
  LET Q == RingCommit(ring, q, coins.sigma)
  IN  [P |-> RingCommit(ring, p, coins.mu), Q |-> Q,
       A |-> RingCommit(ring, coins.alpha, coins.x), B |-> RingCommit(ring, coins.beta, coins.y),
       T |-> MulMod(PowMod(Q, coins.alpha, ring.n), PowMod(ring.t, coins.r, ring.n), ring.n),
       lambda |-> coins.lambda]

FactorsRespond(p, q, coins, e) ==
  [z1 |-> e * p + coins.alpha, z2 |-> e * q + coins.beta,
   w1 |-> e * coins.mu + coins.x, w2 |-> e * coins.sigma + coins.y,
   v |-> e * (coins.lambda - coins.sigma * p) + coins.r]

\* paillier_large_factors_zkp_serialized_size; BN_num_bytes(n) / 2 for z1, z2.
FactorsWidths(ringN, paillierN) ==
  LET ringBits == BitLength(ringN)
      paillierBits == BitLength(paillierN)
      slack == ScalarBits + EpsilonBits
  IN  [lambda |-> ScalarBits + ringBits + paillierBits,
       z |-> slack + paillierBits \div 2, w |-> slack + ringBits,
       v |-> slack + ringBits + paillierBits]

\* serialize_paillier_large_factors_zkp refuses a number that is too wide; a
\* negative v loses its sign.
FactorsSerialize(ringN, paillierN, commit, answer) ==
  LET widths == FactorsWidths(ringN, paillierN)
      size(x) == BitLength(IF x < 0 THEN -x ELSE x)
  IN  IF \/ size(commit.lambda) > widths.lambda
         \/ size(answer.z1) > widths.z \/ size(answer.z2) > widths.z
         \/ size(answer.w1) > widths.w \/ size(answer.w2) > widths.w
         \/ size(answer.v) > widths.v
      THEN [ok |-> FALSE]
      ELSE [ok |-> TRUE, sizes |-> <<BitLength(ringN), BitLength(paillierN)>>, commit |-> commit,
            answer |-> [answer EXCEPT !.v = IF answer.v < 0 THEN -answer.v ELSE answer.v]]
FactorsDeserializable(ringN, paillierN, buffer) ==
  buffer.ok /\ buffer.sizes = <<BitLength(ringN), BitLength(paillierN)>>

\* range_proof_paillier_large_factors_zkp_verify.
FactorsVerify(ring, n, commit, answer, e) ==
  LET R == RingCommit(ring, n, commit.lambda)
      weighted(c, d) == MulMod(PowMod(c, e, ring.n), d, ring.n)
      widths == FactorsWidths(ring.n, n)
  IN  /\ RingCommit(ring, answer.z1, answer.w1) = weighted(commit.P, commit.A)
      /\ RingCommit(ring, answer.z2, answer.w2) = weighted(commit.Q, commit.B)
      /\ MulMod(PowMod(commit.Q, answer.z1, ring.n), PowMod(ring.t, answer.v, ring.n), ring.n)
           = weighted(R, commit.T)
      /\ BitLength(answer.z1) <= widths.z /\ BitLength(answer.z2) <= widths.z

-----------------------------------------------------------------------------
\* range_proof_paillier_large_factors_quadratic_zkp: the same claim, in the
\* squares modulo a safe prime d.
QuadraticBits(n) == BitLength(n) + 2 * LBits + 2 * NuBits + 4
Half(d) == d \div 2

\* range_proof_pailler_quadratic_generate_basis: g and h are squares of two
\* numbers expanded from the hash.
QuadraticBasis(d, hashed) == [g |-> MulMod(hashed[1], hashed[1], d), h |-> MulMod(hashed[2], hashed[2], d)]

Power2(a, x, b, y, d) == MulMod(PowMod(a, x, d), PowMod(b, y, d), d)

\* range_proof_pailler_quadratic_generate_setup, with the d it is given.
QuadraticSetupAllowed(n, d) == BitLength(d) >= QuadraticBits(n) /\ IsPrime(d) /\ IsPrime(Half(d))
QuadraticSetup(p, q, d, basis, r, s) ==
  [d |-> d, P |-> Power2(basis.g, p, basis.h, r, d), Q |-> Power2(basis.g, q, basis.h, s, d)]

\* z1 and z2 stay below n shifted right.
QuadraticLimit(n) == n \div 2^((BitLength(n) + 1) \div 2 - (LBits + NuBits))

\* ..._quadratic_zkp_generate.  coins: alpha, beta below the limit, sigma, rho,
\* mu below (d - 1) / 2.
QuadraticCommit(setup, basis, coins) ==
  [A |-> Power2(basis.g, coins.alpha, basis.h, coins.rho, setup.d),
   B |-> Power2(basis.g, coins.beta, basis.h, coins.sigma, setup.d),
   C |-> Power2(setup.Q, coins.alpha, basis.h, coins.mu, setup.d)]
QuadraticRespond(setup, p, q, r, s, coins, e) ==
  LET order == Half(setup.d)
  IN  [z1 |-> coins.alpha + e * p, z2 |-> coins.beta + e * q,
       lambda1 |-> (MulMod(e, r, order) + coins.rho) % order,
       lambda2 |-> (MulMod(e, s, order) + coins.sigma) % order,
       w |-> (coins.mu - MulMod(MulMod(s, p, order), e, order)) % order]

\* serialize_..._quadratic and its inverse: d, P, Q, A, B, C and the answer, each of
\* the size of d, z1 and z2 of their own size; a wider number is not written and
\* the proof not made.
QuadraticZBits(n) == (BitLength(n) + 1) \div 2 + LBits + NuBits
QuadraticWidth(n, d, f) == IF f \in {"z1", "z2"} THEN QuadraticZBits(n) ELSE BitLength(d)
QuadraticSerializable(n, setup, answer) ==
  \A f \in DOMAIN answer : BitLength(answer[f]) <= QuadraticWidth(n, setup.d, f)
QuadraticSerialize(setup, commit, answer) ==
  [size |-> BitLength(setup.d), setup |-> setup, commit |-> commit, answer |-> answer]
QuadraticProofBits(n, sizeOfD) == 9 * sizeOfD + 2 * QuadraticZBits(n)
QuadraticDeserializable(n, buffer, bufferBits) ==
  buffer.size > 0 /\ bufferBits >= QuadraticProofBits(n, buffer.size)

IsSquare(x, d) == PowMod(x, Half(d), d) = 1       \* BN_kronecker = 1 for a prime d

\* ..._quadratic_verify_setup.
QuadraticVerifySetup(n, setup) ==
  /\ BitLength(setup.d) >= QuadraticBits(n)
  /\ setup.d = 2 * Half(setup.d) + 1
  /\ IsPrime(setup.d) /\ IsPrime(Half(setup.d))
  /\ setup.P < setup.d /\ setup.Q < setup.d
  /\ IsSquare(setup.P, setup.d) /\ IsSquare(setup.Q, setup.d)

\* ..._quadratic_zkp_verify_internal.
QuadraticVerify(n, basis, setup, commit, answer, e) ==
  LET holds(a, x, b, y, c, f, k) == Power2(a, x, b, y, setup.d) = Power2(c, 1, f, k, setup.d)
  IN  /\ QuadraticVerifySetup(n, setup)
      /\ answer.z1 < QuadraticLimit(n) /\ answer.z2 < QuadraticLimit(n)
      /\ holds(basis.g, answer.z1, basis.h, answer.lambda1, commit.A, setup.P, e)
      /\ holds(basis.g, answer.z2, basis.h, answer.lambda2, commit.B, setup.Q, e)
      /\ holds(setup.Q, answer.z1, basis.h, answer.w, commit.C, basis.g, e * n)
=============================================================================
