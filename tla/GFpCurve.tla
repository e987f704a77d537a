------------------------------ MODULE GFpCurve ------------------------------
(***************************************************************************)
(* GFp_curve_algebra: points and scalars of a short Weierstrass curve      *)
(* y^2 = x^3 + CurveA*x + CurveB over the integers modulo FieldP, of prime *)
(* order Order, as secp256k1, secp256r1 and the stark curve are.  The code *)
(* runs over 256 bits; the model runs over any such curve, and TLC over    *)
(* one small enough to visit every point and scalar.                       *)
(*                                                                         *)
(* A point is what the code stores: its compressed encoding, a parity byte *)
(* 2 or 3 and x, or zeros for the point at infinity.                       *)
(***************************************************************************)
EXTENDS Integers, FiniteSets, Sequences

LOCAL Seqs == INSTANCE SequencesExt

CONSTANTS FieldP, CurveA, CurveB, Order, Gx, Gy

ASSUME CurveAssumption ==
    /\ FieldP \in Nat /\ Order \in Nat /\ Order < FieldP /\ FieldP - Order < Order
    /\ {Gx, Gy, CurveA, CurveB} \subseteq 0 .. FieldP - 1

Scalars == 0 .. Order - 1

Infinity == <<0, 0>>
InvalidPoint == <<"invalid point">>
NoScalar == -1   \* a call that fails

-----------------------------------------------------------------------------
\* OpenSSL, as the code uses it.

ModInverse(a, n) == CHOOSE b \in 0 .. n - 1 : (a * b) % n = 1 % n

Rhs(x) == (x * x * x + CurveA * x + CurveB) % FieldP

Affine == {P \in (0 .. FieldP - 1) \X (0 .. FieldP - 1) : (P[2] * P[2]) % FieldP = Rhs(P[1])}

\* EC_POINT_point2oct and EC_POINT_oct2point, compressed.
Point2Oct(P) == IF P = Infinity THEN Infinity ELSE <<2 + (P[2] % 2), P[1]>>
Points == {Infinity} \cup {Point2Oct(P) : P \in Affine}
Oct2Point(o) ==
    IF o = Infinity THEN o
    ELSE CHOOSE P \in Affine : P[1] = o[2] /\ P[2] % 2 = o[1] - 2

Divide(a, b) == (a * ModInverse(b % FieldP, FieldP)) % FieldP

\* EC_POINT_add of affine points.
Chord(P, slope, Q) ==
    LET x == (slope * slope - P[1] - Q[1]) % FieldP
    IN  <<x, (slope * (P[1] - x) - P[2]) % FieldP>>
EcAdd(P, Q) ==
    CASE P = Infinity -> Q
      [] Q = Infinity -> P
      [] P # Infinity /\ Q # Infinity /\ P[1] = Q[1] /\ (P[2] + Q[2]) % FieldP = 0 -> Infinity
      [] P # Infinity /\ P = Q /\ P[2] # 0 ->
            Chord(P, Divide(3 * P[1] * P[1] + CurveA, 2 * P[2]), Q)
      [] OTHER -> Chord(P, Divide(Q[2] - P[2], Q[1] - P[1]), Q)

\* EC_POINT_mul: all multiples of every point, by repeated addition.
Multiples ==
    [o \in Points |->
        LET P == Oct2Point(o)
            f[k \in Scalars] == IF k = 0 THEN Infinity ELSE EcAdd(f[k - 1], P)
        IN  [k \in Scalars |-> Point2Oct(f[k])]]
EcMul(o, k) == Multiples[o][k % Order]

Sums == [o, q \in Points |-> Point2Oct(EcAdd(Oct2Point(o), Oct2Point(q)))]

Generator == Point2Oct(<<Gx, Gy>>)

-----------------------------------------------------------------------------
\* Points

\* data is any big-endian number, not only one below Order.
GeneratorMul(k) == EcMul(Generator, k)

Verify(k, point) == GeneratorMul(k) = point

AddPoints(p1, p2) ==
    IF p1 \in Points /\ p2 \in Points THEN Sums[p1, p2] ELSE InvalidPoint

PointMul(p, k) == IF p \in Points THEN EcMul(p, k) ELSE InvalidPoint

SumPoints(points) == Seqs!FoldLeft(AddPoints, Infinity, points)

VerifySum(sum, points) == SumPoints(points) = sum

VerifyLinearCombination(sum, points, coefficients) ==
    sum = SumPoints([i \in DOMAIN points |-> PointMul(points[i], coefficients[i])])

\* The x coordinate as a scalar, and whether it was one.
Overflow(p) == p[2] >= Order
ProjectionUnreduced(p) == IF p = Infinity THEN NoScalar ELSE p[2]
Projection(p) ==
    IF p = Infinity THEN NoScalar ELSE IF Overflow(p) THEN p[2] - Order ELSE p[2]

IsOddPoint(p) == p[1] % 2 = 1

-----------------------------------------------------------------------------
\* Scalars

AddScalars(a, b) == (a + b) % Order
SubScalars(a, b) == (a - b) % Order
MulScalars(a, b) == (a * b) % Order

\* Order is that of the generator: its multiples are a group of that order.
ASSUME GroupLaw ==
    /\ GeneratorMul(0) = Infinity
    /\ \A a, b \in Scalars :
        /\ GeneratorMul(AddScalars(a, b)) = AddPoints(GeneratorMul(a), GeneratorMul(b))
        /\ GeneratorMul(a) = GeneratorMul(b) => a = b

ScalarInverse(a) == IF a % Order = 0 THEN NoScalar ELSE ModInverse(a % Order, Order)

AbsOffByOne(a) == IF a >= Order \div 2 THEN Order - a ELSE a
Abs(a) == IF a > Order \div 2 /\ a <= Order THEN Order - a ELSE a

\* The words of in_field, two bits instead of 32, most significant first, and
\* the borrow of the subtraction val - field, from the last word to the first.
WordBase == 4
Words == 3
Word(v, i) == (v \div WordBase ^ (Words - i)) % WordBase
InField(v, field) ==
    LET borrow[i \in 1 .. Words + 1] ==
            IF i = Words + 1 THEN 0
            ELSE IF Word(v, i) - Word(field, i) - borrow[i + 1] < 0 THEN 1 ELSE 0
    IN  borrow[1]

\* ec_reduce: a scalar that is not below the order is refused; the stark curve
\* first drops the bits above its 252, here those above the width of Order.
Reduce(v) == IF InField(v, Order) = 0 THEN NoScalar ELSE v
Width == CHOOSE w \in 1 .. Order : 2 ^ (w - 1) <= Order /\ Order < 2 ^ w
ReduceStark(v) == Reduce(v % 2 ^ Width)

\* simple_hash_to_curve: hash again until the digest is the encoding of a point.
\* NextHash is SHA512, a digest a number below FieldP * FieldP.
MaxRetries == 1024
HashToCurve(NextHash(_), msg) ==
    LET Candidate(h) == <<IF (h \div FieldP) % 2 = 1 THEN 2 ELSE 3, h % FieldP>>
        try[h \in 0 .. FieldP * FieldP - 1, n \in 1 .. MaxRetries] ==
            IF n = MaxRetries THEN InvalidPoint
            ELSE IF Candidate(h) \in Points THEN Candidate(h)
            ELSE try[NextHash(h), n + 1]
    IN  try[NextHash(msg), 1]

-----------------------------------------------------------------------------
\* GFp_curve_algebra_verify_signature.  The reduction of x is a subtraction the
\* wrong way round, which BN_usub refuses: for x above Order the call fails.
VerifySignature(publicKey, m, r, s) ==
    IF r = 0 \/ r >= Order \/ s = 0 \/ s >= Order THEN "invalid signature"
    ELSE IF publicKey \notin Points THEN "invalid point"
    ELSE LET inv == ScalarInverse(s)
             P == AddPoints(GeneratorMul(m * inv), PointMul(publicKey, r * inv))
         IN  CASE P = Infinity -> "unknown error"
               [] P # Infinity /\ P[2] > Order -> "unknown error"
               [] OTHER -> IF P[2] % Order = r /\ 2 * s < Order
                           THEN "success" ELSE "invalid signature"
=============================================================================
