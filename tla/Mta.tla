-------------------------------- MODULE Mta --------------------------------
(***************************************************************************)
(* common/cosigner/mta.cpp: a product of two players' secrets turned into  *)
(* a sum.  The requester encrypts k; the responder multiplies by x and     *)
(* adds a random beta under the encryption; the requester decrypts to      *)
(* k*x + beta.  The range proof of the response is checked one by one or   *)
(* in a batch.  mine is the verifier's Paillier key (public_key of the     *)
(* prover), other the prover's.                                            *)
(***************************************************************************)
EXTENDS RangeProofs

CONSTANTS BetaBits,      \* BETA_HIDING_FACTOR * secret_size
          SmallerBits    \* EPSILON_BYTES: how much shorter a residue may be

ASSUME MtaAssumption == {BetaBits, SmallerBits} \subseteq Nat

\* request: Enc(k) and Enc(gamma) under the requester's key, a Diffie-Hellman
\* range proof of the first and an exponent proof of the second for every
\* other player.
MtaRequestMessage(pk, k, rk, gamma, rg) ==
  [message |-> GetCiphertext(EncryptToCiphertext(pk, rk, k)),
   commitment |-> GetCiphertext(EncryptToCiphertext(pk, rg, gamma))]

\* answer_mta_request: the homomorphic part.  beta is below 2^BetaBits, r and
\* ry the randomness of its two encryptions.
MtaAnswer(mine, other, request, x, beta, r, ry) ==
  [message |-> Add(mine, Mul(mine, request, x), Encrypt(mine, r, beta)),
   commitment |-> Encrypt(other, ry, beta)]
MtaBetaShareOpposite(beta) == (-beta) % GroupOrder
MtaBetaShare(beta) == beta % GroupOrder

\* decrypt_mta_response: a plaintext above n/2 stands for a negative number.
MtaAlphaShare(key, response) ==
  LET alpha == DecryptCore(key, response)
  IN  IF alpha > key.n \div 2 THEN (alpha - key.n) % GroupOrder ELSE alpha % GroupOrder

-----------------------------------------------------------------------------
\* mta_range_generate_zkp.  coins: alpha, beta, r, ry, gamma, delta, mu, nu.
MtaCommit(ring, mine, other, x, y, request, coins) ==
  [A |-> MulMod(EncryptWith(mine, coins.r, coins.beta),
                PowMod(request, coins.alpha, mine.n2), mine.n2),
   By |-> EncryptWith(other, coins.ry, coins.beta),
   Bx |-> coins.alpha % GroupOrder,
   E |-> RingCommit(ring, coins.alpha, coins.gamma), S |-> RingCommit(ring, x, coins.mu),
   F |-> RingCommit(ring, coins.beta, coins.delta), T |-> RingCommit(ring, y, coins.nu)]

MtaRespond(mine, other, x, y, responseR, commitmentR, coins, e) ==
  [z1 |-> e * x + coins.alpha, z2 |-> e * y + coins.beta,
   z3 |-> e * coins.mu + coins.gamma, z4 |-> e * coins.nu + coins.delta,
   w |-> MulMod(PowMod(responseR, e, mine.n), coins.r, mine.n),
   wy |-> MulMod(PowMod(commitmentR, e, other.n), coins.ry, other.n)]

\* exponent_zkpok_serialized_size of mta.cpp.
MtaWidths(ringN, mineN, otherN) ==
  LET ring == BitLength(ringN)
      mineBits == BitLength(mineN)
      otherBits == BitLength(otherN)
  IN  [A |-> 2 * mineBits, Bx |-> ScalarBits, By |-> 2 * otherBits,
       E |-> ring, F |-> ring, S |-> ring, T |-> ring,
       z1 |-> EpsilonBits + ScalarBits + 1, z2 |-> EpsilonBits + BetaBits + 1,
       z3 |-> EpsilonBits + ScalarBits + ring + 1, z4 |-> EpsilonBits + ScalarBits + ring + 1,
       w |-> mineBits, wy |-> otherBits]

MtaSerialize(ring, mine, other, commit, answer) ==
  LET widths == MtaWidths(ring.n, mine.n, other.n)
  IN  [sizes |-> <<BitLength(ring.n), BitLength(other.n), BitLength(mine.n)>>,
       commit |-> Arrives(commit, widths), answer |-> Arrives(answer, widths)]

\* deserialize_mta_range_zkp refuses a residue much shorter than its modulus;
\* By is compared with the size of the verifier's key.
MtaDeserializable(ring, mine, other, buffer) ==
  LET long(x, bits) == BitLength(x) + SmallerBits >= bits
      commit == buffer.commit
  IN  /\ buffer.sizes = <<BitLength(ring.n), BitLength(other.n), BitLength(mine.n)>>
      /\ long(commit.A, 2 * BitLength(mine.n)) /\ long(commit.By, 2 * BitLength(mine.n))
      /\ \A f \in {"E", "F", "S", "T"} : long(commit[f], BitLength(ring.n))

-----------------------------------------------------------------------------
\* What both verifiers check of every response: range, then the point.
MtaInRange(answer) ==
  /\ BitLength(answer.z1) <= ScalarBits + EpsilonBits
  /\ BitLength(answer.z2) <= BetaBits + EpsilonBits
MtaPointHolds(X, commit, answer, e) == answer.z1 % GroupOrder = (commit.Bx + e * X) % GroupOrder
MtaUnits(mine, other, response, commit) ==
  /\ IsCoprimeFast(response.message, mine.n) /\ IsCoprimeFast(commit.A, mine.n)
  /\ IsCoprimeFast(response.commitment, other.n) /\ IsCoprimeFast(commit.By, other.n)

\* single_response_verifier::process_paillier.
SinglePaillier(mine, other, request, response, commit, answer, e) ==
  /\ MulMod(PowMod(request, answer.z1, mine.n2), EncryptWith(mine, answer.w, answer.z2), mine.n2)
       = MulMod(PowMod(response.message, e, mine.n2), commit.A, mine.n2)
  /\ EncryptWith(other, answer.wy, answer.z2)
       = MulMod(commit.By, PowMod(response.commitment, e, other.n2), other.n2)

\* single_response_verifier::process_ring_pedersen, with the trapdoor.
SinglePedersen(priv, commit, answer, e) ==
  LET holds(z, r, C, D) == PowMod(priv.t, TrapdoorExponent(priv, z, r), priv.n)
                             = MulMod(PowMod(C, e, priv.n), D, priv.n)
  IN  holds(answer.z1, answer.z3, commit.S, commit.E) /\ holds(answer.z2, answer.z4, commit.T, commit.F)

SingleVerify(priv, mine, other, request, response, X, commit, answer, e) ==
  /\ MtaInRange(answer) /\ MtaPointHolds(X, commit, answer, e)
  /\ MtaUnits(mine, other, response, commit)
  /\ ~Failed(EncryptWith(mine, answer.w, answer.z2))
  /\ ~Failed(EncryptWith(other, answer.wy, answer.z2))
  /\ SinglePaillier(mine, other, request, response, commit, answer, e)
  /\ SinglePedersen(priv, commit, answer, e)

-----------------------------------------------------------------------------
\* batch_response_verifier: products weighted by random exponents, each
\* compared once in verify.  acc: mtaRo, mtaB, commitmentRo, commitmentB (one
\* entry for each of BATCH_STATISTICAL_SECURITY repetitions), tExp, pedersenB.
\* gammas are the bytes drawn for one response: mta and commitment have one
\* for each repetition, ring one for each of the two terms.
BatchInit(repetitions) ==
  LET ones == [i \in 1..repetitions |-> 1]
  IN  [mtaRo |-> ones, mtaB |-> ones, commitmentRo |-> ones, commitmentB |-> ones,
       tExp |-> 0, pedersenB |-> 1]

\* Every repetition weighted by the first byte.
WeighByFirst(acc, b, gammas, m) ==
  [i \in DOMAIN acc |-> MulMod(acc[i], PowMod(b, gammas[1], m), m)]
Weigh(acc, b, gammas, m) == [i \in DOMAIN acc |-> MulMod(acc[i], PowMod(b, gammas[i], m), m)]

\* process_paillier: B = D^e C^-z1 A (1 - N z2), B' = Y^e By (1 - N z2).
BatchPaillier(acc, mine, other, request, response, commit, answer, e, gammas) ==
  LET power == MulMod(PowMod(InvMod(request, mine.n2), answer.z1, mine.n2),
                      PowMod(response.message, e, mine.n2), mine.n2)
      B == MulMod(MulMod(power, commit.A, mine.n2), 1 - mine.n * answer.z2, mine.n2)
      C == MulMod(MulMod(PowMod(response.commitment, e, other.n2), commit.By, other.n2),
                  1 - other.n * answer.z2, other.n2)
  IN  [acc EXCEPT !.mtaB = Weigh(@, B, gammas.mta, mine.n2),
                  !.mtaRo = Weigh(@, answer.w, gammas.mta, mine.n2),
                  !.commitmentB = Weigh(@, C, gammas.commitment, other.n2),
                  !.commitmentRo = Weigh(@, answer.wy, gammas.commitment, other.n2)]

\* process_ring_pedersen: two weighted terms of one exponent of t.
BatchPedersen(acc, priv, commit, answer, e, gammas) ==
  LET term(C, D, g) == Power2(C, g, D, MulMod(g, e, priv.phi), priv.n)
      t0 == TrapdoorExponent(priv, answer.z1, answer.z3) * gammas.ring[1]
      t1 == TrapdoorExponent(priv, answer.z2, answer.z4) * gammas.ring[2]
  IN  [acc EXCEPT !.tExp = @ + t0 + t1,
                  !.pedersenB = MulMod(MulMod(@, term(commit.E, commit.S, gammas.ring[1]), priv.n),
                                       term(commit.F, commit.T, gammas.ring[2]), priv.n)]

\* process: a response that fails a check of its own throws.
BatchProcessable(mine, other, response, X, commit, answer, e) ==
  /\ MtaInRange(answer) /\ MtaPointHolds(X, commit, answer, e)
  /\ MtaUnits(mine, other, response, commit)
BatchProcess(acc, priv, mine, other, request, response, commit, answer, e, gammas) ==
  BatchPedersen(BatchPaillier(acc, mine, other, request, response, commit, answer, e, gammas),
                priv, commit, answer, e, gammas)

\* verify: one comparison for each product.
BatchHolds(acc, priv, mine, other) ==
  /\ \A i \in DOMAIN acc.mtaRo : PowMod(acc.mtaRo[i], mine.n, mine.n2) = acc.mtaB[i]
  /\ \A i \in DOMAIN acc.commitmentRo :
       PowMod(acc.commitmentRo[i], other.n, other.n2) = acc.commitmentB[i]
  /\ PowMod(priv.t, acc.tExp % priv.phi, priv.n) = acc.pedersenB
=============================================================================
