---------------------------- MODULE RingPedersen ----------------------------
(***************************************************************************)
(* common/crypto/commitments/ring_pedersen.c: commitments s^x t^r mod n    *)
(* for the product n of two safe primes, the proof that s is a power of t, *)
(* and the verification of one commitment or of a batch by the owner of    *)
(* the trapdoor.                                                           *)
(***************************************************************************)
EXTENDS ModArith

\* ring_pedersen_generate_key_pair, for the primes, exponent and unit drawn.
RingPedersenKey(p, q, lamda, r) ==
  LET n == p * q
      t == MulMod(r, r, n)
  IN  [n |-> n, t |-> t, s |-> PowMod(t, lamda, n), lamda |-> lamda, phi |-> n - p - q + 1]

\* Serialisation: three length-prefixed numbers.  A number of l bytes takes
\* l cells, each length word one; sizes are those of the numbers' encodings.
RingPedersenSerialize(fields) ==
  LET write[i \in 0..Len(fields)] ==
        IF i = 0 THEN << >> ELSE write[i - 1] \o <<Len(fields[i])>> \o fields[i]
  IN  write[Len(fields)]

\* Each length is compared with what is left of the buffer once the length
\* words still to come are set aside; << >> stands for the refusal.
RingPedersenDeserialize(buffer, count) ==
  LET read[i \in 0..count] ==        \* <<fields read, next cell, cells left>>
        IF i = 0 THEN <<<< >>, 1, Len(buffer)>>
        ELSE LET before == read[i - 1]
                 len == IF before[2] <= 0 THEN 0 ELSE buffer[before[2]]
                 fits == before[2] > 0 /\ len <= before[3] - (count - i + 1)
             IN  IF ~fits THEN <<<< >>, 0, 0>>
                 ELSE <<Append(before[1], SubSeq(buffer, before[2] + 1, before[2] + len)),
                        before[2] + 1 + len, before[3] - 1 - len>>
  IN  IF Len(buffer) < count THEN << >> ELSE read[count][1]

\* The deserialised key is refused when it is too short or not reduced.
RingPedersenPublicValid(pub, minBits) ==
  BitLength(pub.n) >= minBits /\ pub.s <= pub.n /\ pub.t <= pub.n

-----------------------------------------------------------------------------
\* ring_pedersen_parameters_zkp: for each challenge bit, an exponent of A or
\* of A * s.  The bits e come from the hash of (n, s, t, A).
ParametersCommit(priv, zs) == [i \in DOMAIN zs |-> PowMod(priv.t, zs[i], priv.n)]
ParametersRespond(priv, zs, e) ==
  [i \in DOMAIN zs |-> IF e[i] = 1 THEN (zs[i] + priv.lamda) % priv.phi ELSE zs[i]]

VerifyParameters(pub, A, e, zs) ==
  /\ ~IsPrime(pub.n)
  /\ IsCoprimeFast(pub.n, pub.t)
  /\ IsCoprimeFast(pub.n, pub.s)
  /\ \A i \in DOMAIN A :
       PowMod(pub.t, zs[i], pub.n) = IF e[i] = 1 THEN MulMod(A[i], pub.s, pub.n) ELSE A[i]

-----------------------------------------------------------------------------
RingCommit(pub, x, r) ==
  MulMod(PowSigned(pub.s, x, pub.n), PowSigned(pub.t, r, pub.n), pub.n)

\* With the trapdoor: t^(lamda * x + r), the exponent reduced mod phi(n).
TrapdoorExponent(priv, x, r) == (MulMod(priv.lamda, x, priv.phi) + r) % priv.phi
RingVerify(priv, x, r, c) == PowMod(priv.t, TrapdoorExponent(priv, x, r), priv.n) = c

\* A batch: every term weighted by a random gamma, one exponentiation of t.
RingVerifyBatch(priv, xs, rs, cs, gammas) ==
  LET sum[i \in 0..Len(xs)] ==
        IF i = 0 THEN 0 ELSE sum[i - 1] + gammas[i] * TrapdoorExponent(priv, xs[i], rs[i])
      product[i \in 0..Len(xs)] ==
        IF i = 0 THEN 1 ELSE MulMod(product[i - 1], PowMod(cs[i], gammas[i], priv.n), priv.n)
  IN  PowMod(priv.t, sum[Len(xs)] % priv.phi, priv.n) = product[Len(xs)]
=============================================================================
