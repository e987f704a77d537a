-------------------------------- MODULE Vss --------------------------------
(***************************************************************************)
(* common/crypto/shamir_secret_sharing/verifiable_secret_sharing.c: a      *)
(* secret split among n players so that t of them reconstruct it, and the  *)
(* points by which a player verifies a share.  coefficients are the t - 1  *)
(* random numbers of the polynomial, drawn again while they are zero.      *)
(***************************************************************************)
EXTENDS LogGroup, FiniteSets

Refused(why) == [status |-> why]

\* access_mat: row i holds the powers of the i-th id.
Power(id, j) == LET power[k \in 0..j] == IF k = 0 THEN 1 ELSE (power[k - 1] * id) % GroupOrder
                IN  power[j]
AccessMatrix(ids, t) == [i \in DOMAIN ids |-> [j \in 1..t |-> Power(ids[i], j - 1)]]

\* create_shares: row times polynomial, and the points of shares and coefficients.
CreateShares(secret, coefficients, mat, ids) ==
  LET polynom == <<secret>> \o coefficients
      shares == [i \in DOMAIN ids |-> LinearCombination(polynom, mat[i])]
  IN  [status |-> Success, ids |-> ids, threshold |-> Len(polynom), shares |-> shares,
       proofs |-> [i \in DOMAIN ids |-> GeneratorMul(shares[i])],
       coefficientProofs |-> [j \in DOMAIN polynom |-> GeneratorMul(polynom[j])]]

\* verifiable_secret_sharing_split_impl.
SplitImpl(secret, coefficients, ids) ==
  IF secret >= GroupOrder THEN Refused("invalid secret")
  ELSE CreateShares(secret, coefficients, AccessMatrix(ids, Len(coefficients) + 1), ids)

Split(secret, coefficients, n) ==
  LET t == Len(coefficients) + 1
  IN  IF t < 1 \/ t > n THEN Refused(InvalidParameter)
      ELSE SplitImpl(secret, coefficients, [i \in 1..n |-> i])

SplitWithCustomIds(secret, coefficients, ids) ==
  IF Len(coefficients) + 1 > Len(ids) THEN Refused(InvalidParameter)
  ELSE IF \E i, j \in DOMAIN ids : ids[i] = 0 \/ (i # j /\ ids[i] = ids[j])
  THEN Refused("invalid share id")
  ELSE SplitImpl(secret, coefficients, ids)

\* Indices count from 0 in the code.
GetShare(s, index) ==
  IF index >= Len(s.ids) THEN Refused("invalid index")
  ELSE [status |-> Success, id |-> s.ids[index + 1], data |-> s.shares[index + 1]]
GetShareId(s, index) ==
  IF index >= Len(s.ids) THEN Refused("invalid index")
  ELSE [status |-> Success, id |-> s.ids[index + 1]]
GetShareAndProof(s, index) ==
  LET share == GetShare(s, index)
  IN  IF share.status # Success THEN share
      ELSE [status |-> Success, id |-> share.id, data |-> share.data, proof |-> s.proofs[index + 1]]
GetPolynomProofs(s, count) ==
  IF count < s.threshold THEN << >> ELSE s.coefficientProofs

\* The hash commitments of commitments.c, the hash being injective.
SharesCommitment(s, salt) == [salt |-> salt, commitment |-> <<salt, s.proofs>>]
PolynomCommitment(s, salt) == [salt |-> salt, commitment |-> <<salt, s.coefficientProofs>>]
VerifySharesCommitment(proofs, c) == proofs # << >> /\ c.commitment = <<c.salt, proofs>>

-----------------------------------------------------------------------------
\* The weights of the players in their order, whatever their ids.
LagrangeInterpolateByIndex(shares, index) ==
  LET p[i \in 0..Len(shares)] ==
        IF i = 0 THEN 1
        ELSE IF i = index THEN p[i - 1] ELSE (p[i - 1] * i * InverseScalar(i - index)) % GroupOrder
  IN  p[Len(shares)]
\* lagrange_interpolate: the product of x_j / (x_j - x_i) over the others.
LagrangeInterpolate(shares, index) ==
  LET p[i \in 0..Len(shares)] ==
        IF i = 0 THEN 1
        ELSE IF i = index THEN p[i - 1]
        ELSE (p[i - 1] * shares[i].id * InverseScalar(shares[i].id - shares[index].id)) % GroupOrder
  IN  p[Len(shares)]

\* verifiable_secret_sharing_reconstruct.  A secret of 0 has no bytes, so
\* BN_bn2bin writes none and the call fails when it is asked for the secret.
Reconstruct(shares) ==
  LET data == [i \in DOMAIN shares |-> shares[i].data]
      weights == [i \in DOMAIN shares |-> LagrangeInterpolate(shares, i)]
      secret == LinearCombination(data, weights)
  IN  IF \/ shares = << >>
         \/ \E i, j \in DOMAIN shares :
              shares[i].id = 0 \/ (i # j /\ shares[i].id = shares[j].id)
      THEN Refused(InvalidParameter)
      ELSE IF secret = 0 THEN Refused("unknown error")
      ELSE [status |-> Success, secret |-> secret]

\* verifiable_secret_sharing_verify_share: the share's point is the polynomial
\* of the coefficients' points at id.
VerifyShare(id, shareProof, threshold, coefficientProofs) ==
  LET powers == [j \in 1..threshold |-> Power(id, j - 1)]
  IN  IF threshold = 0 THEN InvalidParameter
      ELSE IF LinearCombination(SubSeq(coefficientProofs, 1, threshold), powers) = shareProof
      THEN Success ELSE "invalid share"
=============================================================================
