------------------------- MODULE PaillierCommitment -------------------------
(***************************************************************************)
(* common/crypto/paillier_commitment/paillier_commitment.c: Paillier       *)
(* encryption whose randomness is a power of t, and the commitments        *)
(* sigma_0^v * rho^r of its key; and range_proofs.c:2597-3205, the proof   *)
(* that such a ciphertext holds the logarithm of a point.                  *)
(***************************************************************************)
EXTENDS RangeProofs, PaillierProofs

\* paillier_commitment_generate_private, for the primes = 3 and 7 mod 8, the
\* unit r and the exponent lambda drawn.
PcPublic(n, t, s) ==
  LET n2 == n * n
  IN  [n |-> n, n2 |-> n2, t |-> t, s |-> s, rho |-> PowMod(t, n, n2),
       sigma0 |-> MulMod(PowMod(s, n, n2), n + 1, n2)]
PcPrivate(p, q, t, s, lambda) ==
  LET n == p * q
      phi == n - p - q + 1
  IN  [pub |-> PcPublic(n, t, s), p |-> p, q |-> q, lambda |-> lambda, phi |-> phi,
       phiInv |-> InvMod(phi, n), p2 |-> p * p, q2 |-> q * q, q2InvP2 |-> InvMod(q * q, p * p)]
PcKey(p, q, lambda, r) ==
  LET n == p * q
      t == MulMod(r, r, n)
  IN  PcPrivate(p, q, t, PowMod(t, lambda, n), lambda)
PcKeyAllowed(p, q) == p % 8 = 3 /\ q % 8 = 7 /\ p # q /\ GcdOf(p * q - p - q + 1, p * q) = 1

\* Serialisation.  A reduced public key leaves rho and sigma_0 to the reader.
PcPublicSerialize(pub, reduced) ==
  LET size == Cells(pub.n)
      base == <<<<pub.n, size>>, <<pub.t, size>>, <<pub.s, size>>>>
  IN  <<size>> \o Write(IF reduced THEN base
                        ELSE base \o <<<<pub.rho, 2 * size>>, <<pub.sigma0, 2 * size>>>>)

PcPublicDeserialize(buffer, reduced, minCells, maxCells) ==
  LET size == Cell(buffer, 1)
      fields == ReadAll(buffer, 2, <<size, size, size, 2 * size, 2 * size>>)
      rebuilt == PcPublic(fields[1], fields[2], fields[3])
  IN  IF Len(buffer) < 1 + 3 * minCells THEN [n |-> 0]
      ELSE IF size < minCells \/ size > maxCells THEN [n |-> 0]
      ELSE IF Len(buffer) < 1 + (IF reduced THEN 3 ELSE 7) * size THEN [n |-> 0]
      ELSE IF reduced THEN rebuilt
      ELSE [rebuilt EXCEPT !.rho = fields[4], !.sigma0 = fields[5]]

\* The private key: p, q, lambda, then what it would cost to compute again.
\* lambda takes lambdaCells.
PcPrivateWidths(size, lambdaCells) ==
  <<size \div 2, size \div 2, lambdaCells, size, size, 2 * size, 2 * size, 2 * size, 2 * size>>
PcPrivateSerialize(priv, lambdaCells) ==
  LET size == Cells(priv.pub.n)
      widths == PcPrivateWidths(size, lambdaCells)
      values == <<priv.p, priv.q, priv.lambda, priv.pub.t, priv.pub.s, priv.pub.rho,
                  priv.pub.sigma0, priv.q2InvP2, priv.phiInv>>
  IN  <<size>> \o Write([k \in DOMAIN widths |-> <<values[k], widths[k]>>])

PcPrivateDeserialize(buffer, lambdaCells, maxCells) ==
  LET size == Cell(buffer, 1)
      widths == PcPrivateWidths(size, lambdaCells)
      v == ReadAll(buffer, 2, widths)
      priv == PcPrivate(v[1], v[2], v[4], v[5], v[3])
  IN  IF Len(buffer) < 1 \/ size > maxCells THEN [pub |-> [n |-> 0]]
      ELSE IF Len(buffer) < 1 + Total(widths) THEN [pub |-> [n |-> 0]]
      ELSE [priv EXCEPT !.pub.rho = v[6], !.pub.sigma0 = v[7], !.q2InvP2 = v[8], !.phiInv = v[9]]

-----------------------------------------------------------------------------
\* paillier_commitment_encrypt_openssl_fixed_power_internal.
PcEncryptFixed(pub, rPower, m) == MulMod(1 + pub.n * m, PowMod(pub.rho, rPower, pub.n2), pub.n2)

\* r_power is drawn until it is below n and prime to it.
PcPowerAllowed(pub, rPower, bits) ==
  /\ rPower < 2^bits /\ rPower < pub.n /\ IsCoprimeFast(rPower, pub.n)

PcEncrypt(pub, rPower, m) == IF m >= pub.n THEN InvalidPlain ELSE PcEncryptFixed(pub, rPower, m)

\* With the private key: the same number from its residues mod p^2 and q^2.
PcEncryptPrivate(priv, rPower, m) ==
  LET residue(m2) == MulMod(MulMod(priv.pub.n, m, m2) + 1, PowMod(priv.pub.rho, rPower, m2), m2)
  IN  CrtRecombine(residue(priv.p2), residue(priv.q2), priv.p2, priv.q2, priv.q2InvP2)

PcDecryptCore(priv, c) ==
  IF ~IsCoprimeFast(c, priv.pub.n) THEN InvalidCipher
  ELSE LET power == CrtModExp(c, priv.phi, priv.p2, priv.q2, priv.q2InvP2)
       IN  MulMod(PaillierL(power, priv.pub.n), priv.phiInv, priv.pub.n)

\* The plaintext is padded to the size of n: unlike paillier_decrypt, 0 has an encoding.
PcDecrypt(priv, c) ==
  IF Cells(c) > Cells(priv.pub.n2) THEN InvalidCipher ELSE PcDecryptCore(priv, c)

-----------------------------------------------------------------------------
\* Commitments; modifier is <<base, exponent>>, or << >> when there is none.
PcModify(commitment, modifier, m2) ==
  IF modifier = << >> THEN commitment
  ELSE MulMod(commitment, PowMod(modifier[1], modifier[2], m2), m2)

PcCommit(pub, v, r, modifier) ==
  PcModify(Power2(pub.sigma0, v, pub.rho, r, pub.n2), modifier, pub.n2)

PcCommitPrivate(priv, v, r, modifier) ==
  LET residue(m2) == PcModify(Power2(priv.pub.sigma0, v, priv.pub.rho, r, m2), modifier, m2)
  IN  CrtRecombine(residue(priv.p2), residue(priv.q2), priv.p2, priv.q2, priv.q2InvP2)

PcVerify(pub, v, modifier, commitment) ==
  PcCommit(pub, v, commitment.exponent, modifier) = commitment.value

\* Two lengths, then the commitment and the exponent.
PcCommitmentSerialize(pub, commitment, exponentCells) ==
  LET size == Cells(pub.n2)
  IN  <<size, exponentCells>> \o Pad(commitment.value, size) \o Pad(commitment.exponent, exponentCells)
PcCommitmentDeserialize(buffer, maxCells) ==
  LET widths == <<Cell(buffer, 1), Cell(buffer, 2)>>
      fields == ReadAll(buffer, 3, widths)
  IN  IF Len(buffer) < 2 THEN << >>
      ELSE IF widths[1] > maxCells \/ widths[2] > maxCells THEN << >>
      ELSE IF Len(buffer) < 2 + Total(widths) THEN << >>
      ELSE fields

-----------------------------------------------------------------------------
\* The proofs of the modulus are those of a Paillier key, and the one of s is
\* that of a Damgard-Fujisaki key of dimension 1.
AsPaillier(priv) ==
  [p |-> priv.p, q |-> priv.q, n |-> priv.pub.n, n2 |-> priv.pub.n2,
   lamda |-> priv.phi, mu |-> priv.phiInv]
AsDamgardFujisaki(priv) ==
  [n |-> priv.pub.n, t |-> priv.pub.t, s |-> <<priv.pub.s>>, p |-> priv.p, q |-> priv.q,
   lamda |-> <<priv.lambda>>, phi |-> priv.phi, qinvp |-> InvMod(priv.q, priv.p)]
AsDamgardFujisakiPublic(pub) == [n |-> pub.n, t |-> pub.t, s |-> <<pub.s>>]

PcGenerateBlum(priv, ys, bytes) == GenerateBlum(AsPaillier(priv), ys, bytes)
PcVerifyBlum(pub, ys, proof, required) == VerifyBlum(pub.n, ys, proof, required)

-----------------------------------------------------------------------------
\* range_proof_paillier_commitment_exponent_zkpok: D and the ciphertext are
\* encryptions by powers of rho, S and T commit to the plaintext and the power.
\* coins: alpha, power (lambda_p), mu, muP.
SmallGroupBits == 2 * LBits + NuBits
OptimEpsilonBits == LBits + NuBits
PcAlphaBound(secretBits) == 2^(secretBits + OptimEpsilonBits)

PcExponentCommit(df, priv, x, r, coins) ==
  [D |-> PcEncryptPrivate(priv, coins.power, coins.alpha),
   S |-> DfCommit(df, <<x, r>>, coins.mu),
   T |-> DfCommit(df, <<coins.alpha, coins.power>>, coins.muP),
   Y |-> coins.alpha % GroupOrder]
PcExponentRespond(x, r, coins, e) ==
  [z1 |-> e * x + coins.alpha, z2 |-> e * r + coins.power, z3 |-> e * coins.mu + coins.muP]
PcExponentProve(df, priv, x, r, coins, e) ==
  [ciphertext |-> PcEncryptPrivate(priv, r, x),
   commit |-> PcExponentCommit(df, priv, x, r, coins),
   answer |-> PcExponentRespond(x, r, coins, e)]
PcExponentAllowed(df, priv, x) == Len(df.s) >= 2 /\ x < priv.pub.n

\* range_proof_paillier_commitment_exponent_zkpok_verify.
PcExponentVerify(df, pub, X, proof, e) ==
  LET S == proof.commit.S
      answer == proof.answer
  IN  /\ IsCoprimeFast(proof.commit.D, pub.n) /\ IsCoprimeFast(proof.ciphertext, pub.n)
      /\ BitLength(answer.z1) <= KappaBits + NuBits + OptimEpsilonBits
      /\ BitLength(answer.z2) <= SmallGroupBits + OptimEpsilonBits
      /\ PcEncryptFixed(pub, answer.z2, answer.z1)
           = MulMod(PowMod(proof.ciphertext, e, pub.n2), proof.commit.D, pub.n2)
      /\ DfVerify(df, <<answer.z1, answer.z2>>, answer.z3,
                  MulMod(PowMod(S, e, df.n), proof.commit.T, df.n))
      /\ PointHolds(X, proof.commit.Y, answer.z1, e)
=============================================================================
