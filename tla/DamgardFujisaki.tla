--------------------------- MODULE DamgardFujisaki ---------------------------
(***************************************************************************)
(* common/crypto/commitments/damgard_fujisaki.c: ring-Pedersen commitments *)
(* to several values at once, t^r * s_1^x_1 * ... * s_k^x_k mod n, and     *)
(* zero_knowledge_proof/damgard_fujisaki_zkp.c, the proof that every s_j   *)
(* is a power of t.                                                        *)
(***************************************************************************)
EXTENDS ModArith

-----------------------------------------------------------------------------
(***************************************************************************)
(* Big-endian numbers in buffers, as the serialisations of common/crypto   *)
(* write them with BN_bn2binpad and read them with BN_bin2bn.  A byte is a *)
(* cell; a cell holds CellBase values instead of 256, so that small        *)
(* numbers take several cells and length mistakes show.                    *)
(***************************************************************************)

CellBase == 16

\* BN_num_bytes.
Cells(x) == CHOOSE k \in 0..8 : x < CellBase^k /\ (k = 0 \/ x >= CellBase^(k - 1))

\* BN_bn2binpad: it fails, and the buffer keeps its zeros, when x is too wide.
Pad(x, len) ==
  IF x < 0 \/ Cells(x) > len THEN [i \in 1..len |-> 0]
  ELSE [i \in 1..len |-> IF len - i > 7 THEN 0 ELSE (x \div CellBase^(len - i)) % CellBase]

\* BN_bin2bn.  Cells past the end of a buffer are Beyond.
Beyond == -1
Cell(buffer, at) == IF at \in DOMAIN buffer THEN buffer[at] ELSE Beyond
Number(buffer, at, len) ==
  LET value[k \in 0..len] ==
        IF k = 0 THEN 0
        ELSE IF value[k - 1] = Beyond \/ Cell(buffer, at + k - 1) = Beyond THEN Beyond
        ELSE value[k - 1] * CellBase + Cell(buffer, at + k - 1)
  IN  value[len]

\* A record of numbers of fixed widths: fields is a sequence of <<value, width>>.
Write(fields) ==
  LET written[k \in 0..Len(fields)] ==
        IF k = 0 THEN << >> ELSE written[k - 1] \o Pad(fields[k][1], fields[k][2])
  IN  written[Len(fields)]

\* The numbers of the given widths, from cell at on.
Offset(widths, k) ==
  LET sum[i \in 0..Len(widths)] == IF i = 0 THEN 0 ELSE sum[i - 1] + widths[i] IN sum[k]
Total(widths) == Offset(widths, Len(widths))
ReadAll(buffer, at, widths) ==
  [k \in DOMAIN widths |-> Number(buffer, at + Offset(widths, k - 1), widths[k])]

-----------------------------------------------------------------------------
MaxDimension == 128                   \* MAX_ALLOWED_DIMENSIONS
MaxModulusCells == 8 * 1024

\* damgard_fujisaki_generate_key_inner, for the primes, the exponents and the
\* unit drawn; the dimension is the number of exponents.
DfKey(p, q, lamda, r) ==
  LET n == p * q
      t == MulMod(r, r, n)
  IN  [n |-> n, t |-> t, s |-> [j \in DOMAIN lamda |-> PowMod(t, lamda[j], n)],
       p |-> p, q |-> q, lamda |-> lamda, phi |-> n - p - q + 1, qinvp |-> InvMod(q, p)]

DfGeneratePrivate(p, q, lamda, r, minBits) ==
  IF lamda = << >> \/ Len(lamda) > MaxDimension \/ BitLength(p * q) < minBits
  THEN [n |-> 0] ELSE DfKey(p, q, lamda, r)

\* damgard_fujisaki_duplicate_public_key: the public half of a generated pair.
DfPublic(priv) == [n |-> priv.n, t |-> priv.t, s |-> priv.s]

-----------------------------------------------------------------------------
InvalidCommitment == -1               \* also the answer to a batch that is too large

\* damgard_fujisaki_create_commitment_internal.
DfCommit(pub, xs, r) ==
  LET product[j \in 0..Len(xs)] ==
        IF j = 0 THEN PowMod(pub.t, r, pub.n)
        ELSE MulMod(product[j - 1], PowMod(pub.s[j], xs[j], pub.n), pub.n)
  IN  IF xs = << >> \/ Len(xs) > Len(pub.s) THEN InvalidCommitment ELSE product[Len(xs)]

\* damgard_fujisaki_create_commitment_with_private_internal: one power of t,
\* its exponent reduced modulo phi(n), recombined from its residues.
DfCommitPrivate(priv, xs, r) ==
  LET exponent[j \in 0..Len(xs)] ==
        IF j = 0 THEN r % priv.phi
        ELSE (exponent[j - 1] + MulMod(priv.lamda[j], xs[j], priv.phi)) % priv.phi
  IN  CrtModExp(priv.t, exponent[Len(xs)], priv.p, priv.q, priv.qinvp)

DfVerify(priv, xs, r, commitment) ==
  /\ xs # << >> /\ Len(xs) <= Len(priv.s)
  /\ DfCommitPrivate(priv, xs, r) = commitment

-----------------------------------------------------------------------------
\* Serialisation: <<size of n>>, n, <<dimension>>, t, s_1, ...; the private
\* key adds p and q of half the size and the exponents.
DfPublicSerialize(pub) ==
  LET size == Cells(pub.n)
  IN  <<size>> \o Pad(pub.n, size) \o <<Len(pub.s)>> \o Pad(pub.t, size)
        \o Write([j \in DOMAIN pub.s |-> <<pub.s[j], size>>])

NoPublic == [n |-> 0]
DfPublicDeserialize(buffer) ==
  LET size == Cell(buffer, 1)
      dimension == Cell(buffer, 2 + size)
      rest == ReadAll(buffer, 3 + size, [j \in 1..(dimension + 1) |-> size])
  IN  IF Len(buffer) < 2 THEN NoPublic
      ELSE IF size > MaxModulusCells \/ Len(buffer) < 2 + size THEN NoPublic
      ELSE IF dimension = 0 \/ dimension > MaxDimension THEN NoPublic
      ELSE IF Len(buffer) < 2 + 2 * size + dimension * size THEN NoPublic
      ELSE [n |-> Number(buffer, 2, size), t |-> rest[1],
            s |-> [j \in 1..dimension |-> rest[j + 1]]]

DfPrivateSerialize(priv) ==
  LET size == Cells(priv.n)
  IN  DfPublicSerialize(priv) \o Pad(priv.p, size \div 2) \o Pad(priv.q, size \div 2)
        \o Write([j \in DOMAIN priv.lamda |-> <<priv.lamda[j], size>>])

DfPrivateOf(pub, rest) ==
  [n |-> pub.n, t |-> pub.t, s |-> pub.s, p |-> rest[1], q |-> rest[2],
   lamda |-> [j \in DOMAIN pub.s |-> rest[j + 2]],
   phi |-> pub.n - rest[1] - rest[2] + 1, qinvp |-> InvMod(rest[2], rest[1])]
\* The rest of a private key, which may end one cell early.
DfPrivateRestShort(pub, buffer) ==
  LET size == Cells(pub.n)
      parsed == 2 + (2 + Len(pub.s)) * Cell(buffer, 1)
      widths == <<size \div 2, size \div 2>> \o [j \in DOMAIN pub.s |-> size]
  IN  IF pub = NoPublic \/ Len(buffer) - parsed < Total(widths) - 1 THEN NoPublic
      ELSE DfPrivateOf(pub, ReadAll(buffer, parsed + 1, widths))

DfPrivateRest(pub, buffer) ==
  LET size == Cells(pub.n)
      parsed == 2 + (2 + Len(pub.s)) * Cell(buffer, 1)
      widths == <<size \div 2, size \div 2>> \o [j \in DOMAIN pub.s |-> size]
  IN  IF pub = NoPublic \/ Len(buffer) - parsed < Total(widths) THEN NoPublic
      ELSE DfPrivateOf(pub, ReadAll(buffer, parsed + 1, widths))
DfPrivateDeserialize(buffer) == DfPrivateRest(DfPublicDeserialize(buffer), buffer)

-----------------------------------------------------------------------------
\* answer_randomness_bitlen, for the sizes L and NU of the modulus in bits: a
\* key shorter than its answers is refused by both sides.
AnswerBits(L, NU, challengeBits) == 2 * L + NU + challengeBits
DfParametersAllowed(n, answerBits, challengeBits) ==
  challengeBits \in 1..128 /\ BitLength(n) >= answerBits

\* damgard_fujisaki_parameters_zkp_generate: A_i = t^z_i; e[i][j] is the
\* challenge of round i for s_j, of which challengeBits bits are kept.
DfParametersCommit(priv, zs) == [i \in DOMAIN zs |-> PowMod(priv.t, zs[i], priv.n)]
Masked(e, challengeBits) == e % 2^challengeBits

\* A zero challenge leaves z_i as it is, otherwise the sum is taken mod phi(n).
DfParametersRespond(priv, zs, e, challengeBits) ==
  LET add(z, c, lamda) == IF c = 0 THEN z ELSE (z + MulMod(c, lamda, priv.phi)) % priv.phi
      answer(i) ==
        LET sum[j \in 0..Len(priv.s)] ==
              IF j = 0 THEN zs[i]
              ELSE add(sum[j - 1], Masked(e[i][j], challengeBits), priv.lamda[j])
        IN  sum[Len(priv.s)]
  IN  [i \in DOMAIN zs |-> answer(i)]

\* serialize_damgard_fujisaki_param_zkp: A_i and z_i in turn.
DfProofWidths(n, answerBits, rounds) ==
  [k \in 1..(2 * rounds) |-> IF k % 2 = 1 THEN Cells(n) ELSE Cells(2^answerBits - 1)]
DfProofSerialize(n, answerBits, A, zs) ==
  LET widths == DfProofWidths(n, answerBits, Len(A))
  IN  Write([k \in DOMAIN widths |->
               <<IF k % 2 = 1 THEN A[(k + 1) \div 2] ELSE zs[k \div 2], widths[k]>>])
DfProofDeserialize(n, answerBits, rounds, buffer) ==
  LET values == ReadAll(buffer, 1, DfProofWidths(n, answerBits, rounds))
  IN  [A |-> [i \in 1..rounds |-> values[2 * i - 1]], zs |-> [i \in 1..rounds |-> values[2 * i]]]

\* damgard_fujisaki_parameters_zkp_verify.
DfVerifyParameters(pub, e, A, zs, answerBits, challengeBits) ==
  LET product(i) ==
        LET weighted[j \in 0..Len(pub.s)] ==
              IF j = 0 THEN A[i]
              ELSE IF Masked(e[i][j], challengeBits) = 0 THEN weighted[j - 1]
              ELSE MulMod(weighted[j - 1],
                          PowMod(pub.s[j], Masked(e[i][j], challengeBits), pub.n), pub.n)
        IN  weighted[Len(pub.s)]
  IN  /\ ~IsPrime(pub.n)
      /\ IsCoprimeFast(pub.n, pub.t)
      /\ \A j \in DOMAIN pub.s : IsCoprimeFast(pub.s[j], pub.n)
      /\ \A i \in DOMAIN A : /\ BitLength(zs[i]) <= answerBits
                             /\ PowMod(pub.t, zs[i], pub.n) = product(i)
=============================================================================
