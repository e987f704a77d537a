-------------------------------- MODULE Curves --------------------------------
(***************************************************************************)
(* The arithmetic of the two curve libraries under the calls their users   *)
(* make.  A field element goes through operations one after the other, as  *)
(* in the formulas for points, so that laxly carried limbs meet every      *)
(* operation; the other kinds of state are one call each, with inputs that *)
(* reach its boundaries.  curve is the value the calls work on.            *)
(***************************************************************************)
EXTENDS Ed25519, Ed25519Scalar

GFp == INSTANCE GFpCurve
         WITH FieldP <- 43, Order <- 31, CurveA <- 0, CurveB <- 7, Gx <- 2, Gy <- 12

VARIABLE curve

CONSTANTS FieldCalls,            \* bound on the operations on one element
          SmallFactor            \* 121666

NoCurve == [kind |-> "none"]
Begin(record) == curve' = record

-----------------------------------------------------------------------------
\* Reference arithmetic on n limbs of bits(0), bits(1), ... bits modulo
\* 2^(all the bits) - fold: exact carries until none is left.
Canonical(h, n, bits(_), fold) ==
  LET Limbs == [0..(n - 1) -> Int]
      carry(g, i) ==
        LET c == g[i] \div 2^bits(i)
        IN  [g EXCEPT ![i] = @ - c * 2^bits(i),
                      ![(i + 1) % n] = @ + c * (IF i = n - 1 THEN fold ELSE 1)]
      within(g) == \A i \in 0..(n - 1) : g[i] \in 0..(2^bits(i) - 1)
      pass(g, k) == IF within(g) THEN g ELSE Loop(n, g, Limbs, carry)
      g == Loop(6, h, Limbs, pass)
      atLeastP == g[0] >= 2^bits(0) - fold /\ \A i \in 1..(n - 1) : g[i] = 2^bits(i) - 1
  IN  IF atLeastP THEN [i \in 0..(n - 1) |-> IF i = 0 THEN g[0] - (2^bits(0) - fold) ELSE 0] ELSE g

\* The product of canonical numbers, by Horner's rule on the limbs of f.
Horner(f, g, n, bits(_), fold) ==
  LET step(a, i) == Canonical([k \in 0..(n - 1) |-> a[k] * 2^bits(i) + f[i] * g[k]], n, bits, fold)
      zero == [k \in 0..(n - 1) |-> 0]
  IN  Loop(n, zero, [0..(n - 1) -> Int], LAMBDA a, k : step(a, n - 1 - k))

Fe(h) == Canonical(h, FeLimbs, FeBits, FeFold)
FeTimes(f, g) == Horner(f, g, FeLimbs, FeBits, FeFold)
Fe51(h) == Canonical(h, 5, LAMBDA i : Bits51, Fold51)
Times51(f, g) == Horner(f, g, 5, LAMBDA i : Bits51, Fold51)

-----------------------------------------------------------------------------
\* Elements of the two fields, read from bytes: around 0 and p, and with all
\* limbs as high or as uneven as they get.
ByteCount(bits) == (bits + PieceBits - 1) \div PieceBits
Samples(bits, fold) ==
  LET n == ByteCount(bits)
      byte == 2^PieceBits - 1
      last == 2^(((bits - 1) % PieceBits) + 1) - 1       \* below the bits not read
      near(k) == [j \in 0..(n - 1) |-> IF j = 0 THEN byte - k ELSE IF j = n - 1 THEN last ELSE byte]
  IN  {near(fold - 1), near(fold), near(0),
       [j \in 0..(n - 1) |-> 0], [j \in 0..(n - 1) |-> IF j = 0 THEN 2 ELSE 0],
       [j \in 0..(n - 1) |-> (7 * j + 5) % (byte + 1)], [j \in 0..(n - 1) |-> byte]}
Second(bits) == [j \in 0..(ByteCount(bits) - 1) |-> (5 * j * j + 11) % 2^PieceBits]

\* lax counts the sums since the last carries.
NewField ==
  \E bytes \in Samples(FeWeight(FeLimbs), FeFold) : \E other \in {bytes, Second(FeWeight(FeLimbs))} :
    LET read(b) == Fe([i \in FeIndex |-> Load(b, FeWeight(i), FeWeight(i + 1))])
    IN  Begin([kind |-> "fe", calls |-> 0, lax |-> 0, f |-> FeFrombytes(bytes), value |-> read(bytes),
               g |-> FeFrombytes(other), gvalue |-> read(other)])

FieldCall(f, value, lax) ==
  curve' = [curve EXCEPT !.calls = @ + 1, !.f = f, !.value = value, !.lax = lax]
MayCall(kind) == curve.kind = kind /\ curve.calls < FieldCalls

\* Sums are not carried; the library adds two at most before a product.
SumField ==
  /\ MayCall("fe") /\ curve.lax < 2
  /\ LET f == curve.f g == curve.g
         combine(a, b) == Fe([i \in FeIndex |-> a * curve.value[i] + b * curve.gvalue[i]])
     IN  \/ FieldCall(FeAdd(f, g), combine(1, 1), curve.lax + 1)
         \/ FieldCall(FeSub(f, g), combine(1, -1), curve.lax + 1)
         \/ FieldCall(FeNeg(f), combine(-1, 0), curve.lax)
         \/ \E b \in 0..1 : FieldCall(FeCmov(f, FeNeg(g), b), IF b = 1 THEN combine(0, -1) ELSE curve.value,
                                      IF b = 1 THEN 0 ELSE curve.lax)
MultiplyField ==
  /\ MayCall("fe")
  /\ LET square == FeTimes(curve.value, curve.value)
     IN  \/ FieldCall(FeMul(curve.f, curve.g), FeTimes(curve.value, curve.gvalue), 0)
         \/ FieldCall(FeSq(curve.f), square, 0)
         \/ curve.lax = 0 /\ FieldCall(FeSq2(curve.f), Fe([i \in FeIndex |-> 2 * square[i]]), 0)
         \/ curve.lax < 2 /\ FieldCall(FeMulSmall(curve.f, SmallFactor),
                                       Fe([i \in FeIndex |-> SmallFactor * curve.value[i]]), 0)

NewField51 ==
  \E bytes \in Samples(5 * Bits51, Fold51) : \E other \in {bytes, Second(5 * Bits51)} :
    Begin([kind |-> "fe51", calls |-> 0, lax |-> 0, f |-> Frombytes51(bytes), value |-> Fe51(Frombytes51(bytes)),
           g |-> Frombytes51(other), gvalue |-> Fe51(Frombytes51(other))])
CallField51 ==
  /\ MayCall("fe51")
  /\ LET f == curve.f g == curve.g
         combine(a, b) == Fe51([i \in Index51 |-> a * curve.value[i] + b * curve.gvalue[i]])
     IN  \/ curve.lax = 0 /\ FieldCall(Add51(f, g), combine(1, 1), 1)
         \/ curve.lax = 0 /\ FieldCall(Sub51(f, g), combine(1, -1), 1)
         \/ FieldCall(Mul51(f, g), Times51(curve.value, curve.gvalue), 0)
         \/ FieldCall(Sq51(f), Times51(curve.value, curve.value), 0)
         \/ FieldCall(MulSmall51(f, SmallFactor), combine(SmallFactor, 0), 0)

\* A chain is watched on exponents: numbers modulo m under addition.
Moduli == {2^30 - k : k \in {35, 41, 83, 101, 105, 107, 135, 153, 161, 173}}
NewChain == \E m \in Moduli : Begin([kind |-> "chain", m |-> m])

-----------------------------------------------------------------------------
\* Limbs of 64-byte numbers, and of products of 32-byte ones.
\* The last limb is not masked: of 64 bytes it has eight bits more than the
\* others, of 32 bytes four.
ScLast(more) == 2^(ScBits + more) - 1
ScDraw(seed, n) ==
  [i \in 0..(n - 1) |->
     CASE seed = 0 -> 0
       [] seed = 1 -> ScRadix - 1
       [] seed = 2 -> IF i = 12 THEN 1 ELSE 0
       [] OTHER -> ((seed * (i + 3) * (i + 7) + seed) \div 8) % ScRadix]
NewLimbs ==
  \E seed \in 0..60, top \in {0, 1, ScLast(2), ScLast(8)} :
    Begin([kind |-> "limbs", s |-> [ScDraw(seed, 24) EXCEPT ![23] = top]])
NewProduct ==
  \E a \in 0..9, b \in 0..9, c \in {0, 1, 5}, wide \in {{}, {"a"}, {"a", "b", "c"}} :
    LET draw(name, seed) ==
          [ScDraw(seed, 12) EXCEPT ![11] = IF name \in wide THEN ScLast(4) - seed ELSE @]
    IN  Begin([kind |-> "product", a |-> draw("a", a), b |-> draw("b", b + 10 * (b \div 3)), c |-> draw("c", c)])

-----------------------------------------------------------------------------
\* Points of the Edwards curve.
OnCurve == {P \in (0..(GeP - 1)) \X (0..(GeP - 1)) :
              F(P[2] * P[2] - P[1] * P[1] - 1 - F(F(GeD * P[1] * P[1]) * (P[2] * P[2] % GeP))) = 0}
Times(k, P) ==
  LET more[Q \in Residues \X Residues, odd \in 0..1] ==
        LET twice == AffineAdd(Q, Q) IN IF odd = 1 THEN AffineAdd(twice, P) ELSE twice
      m[i \in 0..(8 * GeOrder)] == IF i = 0 THEN <<0, 1>> ELSE more[m[i \div 2], i % 2]
  IN  m[k % (8 * GeOrder)]
Encoded(P) == [y |-> P[2], sign |-> P[1] % 2]
\* Representations with any factor z.
Projective(P, z) == [X |-> F(P[1] * z), Y |-> F(P[2] * z), Z |-> z, T |-> F(F(P[1] * P[2]) * z)]
Drawn == LET whole == CHOOSE P \in OnCurve : Times(4 * GeOrder, P) # <<0, 1>> /\ Times(8, P) # <<0, 1>>
         IN  {Times(k, whole) : k \in {0, 1, 8, GeOrder, 2 * GeOrder, 4 * GeOrder, 5 * GeOrder + 3}}

NewSum == \E P \in OnCurve, Q \in Drawn, z \in {1, 6} : Begin([kind |-> "sum", P |-> P, Q |-> Q, z |-> z])
ScalarDraws ==
  0..(2 * GeOrder) \cup {2^k - 1 : k \in 6..(SlideBits - 1)}
    \cup {2^(SlideBits - 1) - 2^k : k \in 0..9} \cup {k * 1237 : k \in 1..20}
NewMultiple ==
  \E a \in ScalarDraws, P \in Drawn, b \in {0, 1, 16, 1023, 30583} :
    Begin([kind |-> "multiple", a |-> a, P |-> P, b |-> b])
NewDecoding == \E y \in 0..(2^GeBits - 1), sign \in 0..1 : Begin([kind |-> "decoding", y |-> y, sign |-> sign])

Bits(a) == [i \in 1..(SlideBits - 1) |-> (a \div 2^(i - 1)) % 2]
NewExchange ==
  \E a \in ScalarDraws, P \in Drawn : Begin([kind |-> "exchange", a |-> a, P |-> P])

\* Signatures by scalar and by seed; other is a message that was not signed.
NewSignature ==
  \E key \in {1, 2, 5, GeOrder - 1, 3 * GeOrder + 2, 2^(SlideBits - 1) - 1}, m \in 0..8,
     scheme \in {"scalar", "keccak", "seed"} :
    \E A \in {IF scheme = "seed" THEN EdPublicFromPrivate(key) ELSE EdGeneratorMul(key)} :
      Begin([kind |-> "signature", m |-> m, keccak |-> scheme = "keccak", A |-> A,
             signature |-> IF scheme = "seed" THEN EdSignSeed(key, m, A)
                           ELSE EdSign(key, m, scheme = "keccak")])

\* Calls of the interface on points k1 B and k2 B and on numbers of any size.
NewAlgebra ==
  \E k1, k2 \in {0, 2, GeOrder - 1}, c1, c2 \in {0, 1, 3, GeOrder, 2 * GeOrder + 5} :
    LET k == <<k1, k2>>
    IN  Begin([kind |-> "algebra", k |-> k, c |-> <<c1, c2>>,
               ed |-> [i \in 1..2 |-> EdGeneratorMulData(k[i])],
               gfp |-> [i \in 1..2 |-> GFp!GeneratorMul(k[i])]])
NewHash == \E m \in 0..24 : Begin([kind |-> "hash", m |-> m])

CurveInit == curve = NoCurve
New ==
  \/ NewField \/ NewField51 \/ NewChain \/ NewLimbs \/ NewProduct
  \/ NewSum \/ NewMultiple \/ NewDecoding \/ NewExchange \/ NewSignature \/ NewAlgebra \/ NewHash
CurveNext == (curve.kind = "none" /\ New) \/ SumField \/ MultiplyField \/ CallField51

-----------------------------------------------------------------------------
\* However an element came about, its limbs stand for the value the operations
\* have in the field, they stay where the next product cannot overflow, and
\* the encoding, the parity and the test for zero see the reduced value.  The
\* two chains of squarings raise to p - 2 and (p - 5) / 8 for p = 2^255 - 19,
\* which the moduli tell from every other exponent below their product.
FieldTracksValue ==
  /\ curve.kind = "fe" =>
       /\ Fe(curve.f) = curve.value
       /\ curve.lax = 0 => \A i \in FeIndex : curve.f[i] \in -(9 * 2^(FeBits(i) - 4))..(9 * 2^(FeBits(i) - 4))
       /\ curve.lax < 2 =>
            /\ FeReduced(curve.f) = curve.value
            /\ FeTobytes(curve.f) = FeBytes(curve.value)
            /\ FeIsNegative(curve.f) = curve.value[0] % 2
            /\ FeIsNonzero(curve.f) <=> curve.value # FeZero
            /\ Fe(FeFrombytes(FeTobytes(curve.f))) = curve.value
  /\ curve.kind = "fe51" =>
       /\ Fe51(curve.f) = curve.value
       /\ \A i \in Index51 : curve.f[i] >= 0
       /\ curve.lax = 0 => Reduced51(curve.f) = curve.value
  /\ curve.kind = "chain" =>
       LET plus(a, b) == (a + b) % curve.m
           power(n, less) ==
             LET doubled[i \in 0..n, x \in Nat] ==
                   IF i < 2 THEN (2^i * x) % curve.m ELSE doubled[i - i \div 2, doubled[i \div 2, x]]
             IN  (doubled[n, 1] - less) % curve.m
       IN  /\ InvertChain(1, plus) = power(255, 21)
           /\ Pow22523Chain(1, plus) = power(252, 3)

\* Scalars come out as the digits of the number modulo the order, below it.
ScOrder ==
  LET digits[i \in 0..6] == IF i = 6 THEN 0 ELSE digits[i + 1] * ScRadix + ScDigits[i + 1]
  IN  ScRadix^12 + digits[0]
ScValue(s, n) ==
  LET upper[i \in 0..n] == IF i = n THEN 0 ELSE (upper[i + 1] * ScRadix + s[i]) % ScOrder
  IN  upper[0]
ScalarsReduce ==
  LET reduced(r, value) ==
        /\ \A i \in 0..10 : r[i] \in 0..(ScRadix - 1)
        /\ \A i \in 12..23 : r[i] = 0
        /\ LET exact[i \in 0..12] == IF i = 12 THEN 0 ELSE exact[i + 1] * ScRadix + r[i]
           IN  exact[0] = value
      product(a, b) ==
        LET part[i \in 0..12] == IF i = 12 THEN 0
                                 ELSE (part[i + 1] * ScRadix + a[i] * ScValue(b, 12)) % ScOrder
        IN  part[0]
  IN  /\ curve.kind = "limbs" => reduced(ScReduce(curve.s), ScValue(curve.s, 24))
      /\ curve.kind = "product" =>
           reduced(ScMulAdd(curve.a, curve.b, curve.c),
                   (product(curve.a, curve.b) + ScValue(curve.c, 12)) % ScOrder)

\* The formulas on every representation of a point, the windowed multiples,
\* the decoding and the ladder all compute in the one affine group of the
\* curve: no digit, sign or table entry is off, at either end of the scalars;
\* the points taken as valid are those of prime order in the one encoding.
PointsTrackAffine ==
  LET on(p) == <<F(p.X * FInv(p.Z)), F(p.Y * FInv(p.Z))>>
      negative(P) == <<F(-P[1]), P[2]>>
      u(P) == F((1 + P[2]) * FInv(1 - P[2]))
  IN  /\ curve.kind = "sum" =>
           LET p == Projective(curve.P, curve.z)
               q == P3ToCached(Projective(curve.Q, 3))
               Q == curve.Q
               pre == [plus |-> F(Q[2] + Q[1]), minus |-> F(Q[2] - Q[1]), xy2d |-> F(D2 * F(Q[1] * Q[2]))]
               holds(r, R) == /\ on(P1p1ToP2(r)) = R
                              /\ LET s == P1p1ToP3(r) IN F(s.X * s.Y) = F(s.Z * s.T) /\ s.Z # 0
           IN  /\ holds(GeAdd(p, q), AffineAdd(curve.P, Q))
               /\ holds(GeSub(p, q), AffineAdd(curve.P, negative(Q)))
               /\ holds(Madd(p, pre), AffineAdd(curve.P, Q))
               /\ holds(Msub(p, pre), AffineAdd(curve.P, negative(Q)))
               /\ holds(P3Dbl(p), AffineAdd(curve.P, curve.P))
      /\ curve.kind = "multiple" =>
           /\ on(ScalarmultBase(curve.a)) = Times(curve.a, GeBase)
           /\ on(DoubleScalarmult(curve.a, Projective(curve.P, 1), curve.b))
                = AffineAdd(Times(curve.a, curve.P), Times(curve.b, GeBase))
      /\ curve.kind = "decoding" =>
           LET s == [y |-> curve.y, sign |-> curve.sign]
               here == {P \in OnCurve : P[2] = F(curve.y) /\ (P[1] % 2 = curve.sign \/ P[1] = 0)}
           IN  /\ EdOnCurve(s) <=> here # {}
               /\ here # {} => on(GeFrombytes(s)) \in here
               /\ EdIsValidPoint(s) <=>
                    \E P \in here : Times(GeOrder, P) = <<0, 1>> /\ Encoded(P) = s
      /\ curve.kind = "exchange" =>
           LET bits == Bits(curve.a)
               clamped == ((curve.a % 2^(SlideBits - 2)) \div 8) * 8 + 2^(SlideBits - 2)
           IN  /\ X25519(bits, u(curve.P)) = u(Times(clamped, curve.P))
               /\ X25519PublicFromPrivate(bits) = u(Times(clamped, GeBase))

\* A signature of either scheme verifies under its key, and its scalar counts
\* in no other form and for no message with another hash.
SignaturesVerify ==
  curve.kind = "signature" =>
    LET verified(m, i) ==
          LET signature == [curve.signature EXCEPT !.s = @ + i]
          IN  IF curve.keccak THEN EdVerify(m, signature, curve.A, TRUE)
              ELSE Sha512Verify(m, signature, curve.A)
        hram(m) == EdHram(curve.signature.R, curve.A, m, curve.keccak)
    IN  /\ \A i \in 0..40 : verified(curve.m, i) <=> i = 0
        /\ verified(curve.m + 1, 0) <=> hram(curve.m + 1) = hram(curve.m)

\* Through the interface both libraries are the group the protocols reckon
\* with, in which a point is its logarithm; what reduce returns is a scalar, and
\* a scalar is returned as it is (of other numbers nothing is said: the code
\* refuses what the comment of ec_reduce says it reduces); a message is hashed
\* to a point of that group.
AlgebrasAgree ==
  /\ curve.kind = "hash" =>
       /\ EdIsValidPoint(EdHashToCurve(<<curve.m>>))
       /\ GFp!HashToCurve(LAMBDA h : (44 * h + 5) % (43 * 43), curve.m) \in GFp!Points \ {GFp!Infinity}
  /\ curve.kind = "algebra" =>
    LET k == curve.k
        c == curve.c
        ed == curve.ed
        gfp == curve.gfp
        E(n) == EdGeneratorMulData(n)
        total == k[1] * c[1] + k[2] * c[2]
        far == c[1] * 40 + c[2] * 7 + k[2]                \* a number of any size
    IN  /\ <<EdAddPoints(ed[1], ed[2]), EdPointMul(ed[1], c[1]), EdPointMulUnreduced(ed[1], c[1])>>
             = [i \in 1..3 |-> E(IF i = 1 THEN k[1] + k[2] ELSE k[1] * c[1])]
        /\ EdProofHolds(k[1] + GeOrder, ed[1]) /\ EdAddPoints(ed[1], EdInfinity) = ed[1]
        /\ \A n \in {total, total + 1, total + GeOrder}, last \in {c[2], 2^(SlideBits - 1)} :
             EdVerifyLinearCombination(E(n), ed, <<c[1], last>>)
               = IF last # c[2] THEN "invalid scalar"
                 ELSE IF n % GeOrder = total % GeOrder THEN "equal" ELSE "different"
        /\ EdInField(far) <=> far < GeOrder
        /\ LET r == EdReduce(far)
           IN  r # EdNoScalar => r \in 0..(GeOrder - 1) /\ (far < GeOrder => r = far)
        /\ EdAddLeScalars(k[1], k[2]) = EdAddScalars(k[1], k[2])
        /\ EdInverse(c[1]) # EdNoScalar => EdMulScalars(EdInverse(c[1]), c[1]) = 1
        /\ EdSubScalars(EdMulAdd(k[1], c[1], k[2]), k[2]) = EdMulScalars(k[1], c[1])
        /\ <<GFp!AddPoints(gfp[1], gfp[2]), GFp!PointMul(gfp[1], c[1])>>
             = [i \in 1..2 |-> GFp!GeneratorMul(IF i = 1 THEN k[1] + k[2] ELSE k[1] * c[1])]
        /\ GFp!VerifySum(GFp!GeneratorMul(k[1] + k[2]), gfp)
        /\ \A n \in {total, total + 1} :
             GFp!VerifyLinearCombination(GFp!GeneratorMul(n), gfp, c) <=> n = total
        /\ \A r \in {GFp!Reduce(far % 64), GFp!ReduceStark(far % 64)} : r # GFp!NoScalar => r \in GFp!Scalars
        /\ far % 64 < 31 => GFp!Reduce(far % 64) = far % 64 /\ GFp!ReduceStark(far % 64) = far % 64
=============================================================================
