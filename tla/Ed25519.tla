------------------------------- MODULE Ed25519 -------------------------------
(***************************************************************************)
(* ed25519_algebra.c over the points of Ed25519Group, and the signatures   *)
(* of curve25519.c.  A point is its encoding, y and the parity of x; a     *)
(* scalar is the number in its 32 bytes, SlideBits bits here, whichever    *)
(* way round they are stored.                                              *)
(***************************************************************************)
EXTENDS Ed25519Group

CONSTANTS Sha512(_), Keccak512(_),  \* a sequence of numbers to the two halves of a digest
          EdTop, EdLow              \* 2^252 and 2^128: the order is EdTop + less than EdLow

ASSUME OrderAssumption == EdTop < GeOrder /\ GeOrder < EdTop + EdLow /\ EdTop % EdLow = 0

EdInvalidPoint == [y |-> -1, sign |-> 0]
EdInvalidScalar == [y |-> -2, sign |-> 0]
EdNoScalar == -1

\* ed25519_to_scalar: any number but one with the top bit, not reduced.
EdScalarFits(k) == k < 2^(SlideBits - 1)

EdOnCurve(s) == GeFrombytes(s) # NoPoint

\* ed25519_scalar_mult
EdDecodedMult(k, p) == IF p = NoPoint THEN EdInvalidPoint ELSE GeTobytes(DoubleScalarmult(k, p, 0))
EdScalarMult(k, s) == EdDecodedMult(k, GeFrombytes(s))

\* ed25519_is_valid_point: through 1/8 and 8 a point of another subgroup, or
\* one encoded another way, does not come back.
EdEighth == CHOOSE k \in 0..(GeOrder - 1) : (8 * k) % GeOrder = 1
EdIsValidPoint(s) ==
  LET back(there) == there # EdInvalidPoint /\ EdScalarMult(8, there) = s
  IN  back(EdScalarMult(EdEighth, s))

\* to_ed25519_scalar, and the multiples of the base point, of reduced scalars
\* and of scalars as they are.
EdToScalar(k) == k % GeOrder
EdGeneratorMulInternal(k) == GeTobytes(ScalarmultBase(k))
EdGeneratorMulData(k) == EdGeneratorMulInternal(EdToScalar(k))
EdGeneratorMul(k) == IF EdScalarFits(k) THEN EdGeneratorMulInternal(k) ELSE EdInvalidScalar
EdProofHolds(k, s) == EdGeneratorMulData(k) = s

\* The sum is over decoded points; its encoding is made once.
EdPlus(p, s) == P1p1ToP3(GeAdd(p, P3ToCached(GeFrombytes(s))))
EdAddPoints(s, t) ==
  IF \A p \in {s, t} : EdIsValidPoint(p) THEN GeTobytes(EdPlus(GeFrombytes(s), t))
  ELSE EdInvalidPoint

\* The sum with its first term in every place.
EdTotalOfFirst(terms) ==
  LET total[i \in DOMAIN terms] ==
        IF i = 1 THEN GeFrombytes(terms[1]) ELSE EdPlus(total[i - 1], terms[1])
  IN  GeTobytes(total[Len(terms)])
\* The coefficients are not reduced; the first number refused decides.
EdTotal(terms) ==
  LET total[i \in DOMAIN terms] ==
        IF i = 1 THEN GeFrombytes(terms[1]) ELSE EdPlus(total[i - 1], terms[i])
  IN  GeTobytes(total[Len(terms)])
EdVerifyLinearCombination(sum, points, coefficients) ==
  LET n == Len(points)
      verdict(i) ==
        IF ~EdIsValidPoint(IF i = 0 THEN sum ELSE points[i]) THEN "invalid point"
        ELSE IF i > 0 /\ ~EdScalarFits(coefficients[i]) THEN "invalid scalar" ELSE "fine"
      first[i \in 0..(n + 1)] ==            \* of the verdicts i and above
        LET here == IF i > n THEN "equal" ELSE verdict(i)
        IN  IF here = "fine" THEN first[i + 1] ELSE here
      total == EdTotal([i \in 1..n |-> EdScalarMult(coefficients[i], points[i])])
      compared(answer) == IF answer = "equal" /\ total # sum THEN "different" ELSE answer
  IN  compared(first[0])

\* ed25519_algebra_point_mul, and point_mul of the interface, which reduces.
EdPointMulUnreduced(s, k) ==
  IF ~EdIsValidPoint(s) THEN EdInvalidPoint
  ELSE IF EdScalarFits(k) THEN EdScalarMult(k, s) ELSE EdInvalidScalar
EdPointMul(s, k) ==
  IF EdIsValidPoint(s) THEN EdScalarMult(EdToScalar(k), s) ELSE EdInvalidPoint

EdInfinity == [y |-> 1, sign |-> 0]

-----------------------------------------------------------------------------
\* Scalars: numbers of any size but where the code asks for a reduced one.

EdAddScalars(a, b) == (a + b) % GeOrder
EdSubScalars(a, b) == (a - b) % GeOrder
EdMulScalars(a, b) == ((a % GeOrder) * (b % GeOrder)) % GeOrder
EdAddLeScalars(a, b) == IF a >= GeOrder \/ b >= GeOrder THEN EdNoScalar ELSE (a + b) % GeOrder
EdInverse(a) ==
  IF a % GeOrder = 0 THEN EdNoScalar
  ELSE CHOOSE b \in 0..(GeOrder - 1) : ((a % GeOrder) * b) % GeOrder = 1
EdMulAdd(a, b, c) == ((a % GeOrder) * (b % GeOrder) + c) % GeOrder
EdDigestScalar(d) == (d[1] + d[2] * (2^SlideBits % GeOrder)) % GeOrder

\* in_field: the borrow of the subtraction, over the words from the lowest.
EdWord(v, i) == (v \div 16^i) % 16
EdInField(v) ==
  LET borrow[i \in 0..GeDigits] ==
        IF i = 0 THEN 0
        ELSE IF EdWord(v, i - 1) - EdWord(GeOrder, i - 1) - borrow[i - 1] < 0 THEN 1 ELSE 0
  IN  borrow[GeDigits] = 1
\* reduce: the bits above those of the order are dropped.
EdReduce(v) == LET w == v % (2 * EdTop) IN IF EdInField(w) THEN w ELSE EdNoScalar

\* simple_hash_to_curve: the first half of the digest, hashed whole again.
EdRetries == 1023
EdEncoding(h) == [y |-> h[1] % 2^GeBits, sign |-> (h[1] \div 2^GeBits) % 2]
EdHashToCurve(message) ==
  LET found[n \in 1..EdRetries, digest \in Seq(Nat)] ==
        IF EdIsValidPoint(EdEncoding(digest)) THEN EdEncoding(digest)
        ELSE IF n = EdRetries THEN EdInvalidPoint ELSE found[n + 1, Sha512(digest)]
  IN  found[1, Sha512(message)]

-----------------------------------------------------------------------------
\* Signatures

EdBytes(s) == s.y + s.sign * 2^GeBits
EdHash(useKeccak, parts) == IF useKeccak THEN Keccak512(parts) ELSE Sha512(parts)

\* ed25519_calc_hram
EdHram(R, A, m, useKeccak) == EdDigestScalar(EdHash(useKeccak, <<EdBytes(R), EdBytes(A), m>>))

\* ed25519_algebra_sign: the private key is a scalar, the nonce its hash with
\* the message.
EdSign(priv, m, useKeccak) ==
  LET k == EdDigestScalar(Sha512(<<priv, m>>))
      R == EdGeneratorMulInternal(k)
      A == EdGeneratorMul(priv)
  IN  [R |-> R, s |-> EdMulAdd(EdHram(R, A, m, useKeccak), priv, k)]

\* The check that only looks at the top of s.
EdBelowOrderTopOnly(s) == s \div EdTop <= 1

\* The check that s is below the order: the top byte, the zeros, the low part.
EdBelowOrder(s) ==
  \/ s \div EdTop = 0
  \/ /\ s \div EdTop = 1
     /\ (s % EdTop) \div EdLow = 0
     /\ s % EdLow < GeOrder - EdTop

\* ed25519_verify and ED25519_verify: R = sB - hA.
EdVerify(m, signature, A, useKeccak) ==
  LET minusA == LET P == GeFrombytes(A) IN [P EXCEPT !.X = F(-P.X), !.T = F(-P.T)]
  IN  /\ EdBelowOrder(signature.s)
      /\ EdOnCurve(A)
      /\ GeTobytes(DoubleScalarmult(EdHram(signature.R, A, m, useKeccak), minusA, signature.s))
           = signature.R
\* The interface of curve25519.c, which knows SHA-512 only.
Sha512Verify(m, signature, A) == EdVerify(m, signature, A, FALSE)

\* ED25519_sign and ED25519_public_from_private: the private key is a seed,
\* whose digest is the clamped scalar and the hidden part of the nonce.  The
\* scalar has one bit less than the bytes, so that bit is the one below.
EdClamp(k) == ((k % 2^(SlideBits - 2)) \div 8) * 8 + 2^(SlideBits - 2)
EdPublicFromPrivate(seed) == EdGeneratorMulInternal(EdClamp(Sha512(<<seed>>)[1]))
EdSignSeed(seed, m, A) ==
  LET az == Sha512(<<seed>>)
      k == EdDigestScalar(Sha512(<<az[2], m>>))
      R == EdGeneratorMulInternal(k)
  IN  [R |-> R, s |-> EdMulAdd(EdHram(R, A, m, FALSE), EdClamp(az[1]), k)]
=============================================================================
