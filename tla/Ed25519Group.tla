---------------------------- MODULE Ed25519Group ----------------------------
(***************************************************************************)
(* The points of curve25519.c: -x^2 + y^2 = 1 + d x^2 y^2 over a field     *)
(* whose size is 5 mod 8, of order 8 times the prime GeOrder.  Here a      *)
(* field element is the residue its limbs stand for (see Ed25519Field),    *)
(* and the four representations of a point are the code's: p2 (X:Y:Z), p3  *)
(* with XY = ZT, p1p1 ((X:Z), (Y:T)) and the precomputed (y+x, y-x, 2dxy). *)
(***************************************************************************)
EXTENDS Ed25519Field

CONSTANTS GeP, GeD, GeSqrtM1,    \* 2^255 - 19, d, sqrtm1
          GeOrder, GeBase,       \* L and the affine base point
          GeBits,                \* 255, the bits of y in an encoding
          GeDigits               \* 64, the hexadecimal digits of a scalar

ASSUME GroupOfPointsAssumption ==
  /\ GeP % 8 = 5 /\ GeP < 2^GeBits /\ GeD \in 1..(GeP - 1)
  /\ (GeSqrtM1 * GeSqrtM1 + 1) % GeP = 0
  /\ GeOrder \in Nat \ {0, 1} /\ GeDigits \in Nat \ {0} /\ GeDigits % 2 = 0

F(x) == x % GeP
FInv(z) == PowMod(z, GeP - 2, GeP)           \* fe_invert
D2 == F(2 * GeD)

Residues == 0..(GeP - 1)
Points2 == [X : Residues, Y : Residues, Z : Residues]
PointsCached == [plus : Residues, minus : Residues, Z : Residues, T2d : Residues]
Neutral2 == [X |-> 0, Y |-> 1, Z |-> 1]                    \* ge_p2_0
Neutral3 == [X |-> 0, Y |-> 1, Z |-> 1, T |-> 0]           \* ge_p3_0
NeutralPrecomp == [plus |-> 1, minus |-> 1, xy2d |-> 0]    \* ge_precomp_0

\* ge_tobytes and ge_p3_tobytes: y and the parity of x.
GeTobytes(h) ==
  LET recip == FInv(h.Z)
  IN  [y |-> F(h.Y * recip), sign |-> F(h.X * recip) % 2]

\* ge_frombytes_vartime: x is a root of u / v, or of -u / v times sqrtm1.  y
\* need not be below the size of the field.
NoPoint == [X |-> 0, Y |-> 0, Z |-> 0, T |-> 0]
GeRoot(u, v) ==
  LET v3 == F(F(v * v) * v)
  IN  F(F(PowMod(F(F(F(v3 * v3) * v) * u), (GeP - 5) \div 8, GeP) * v3) * u)
GeWithSign(x, y, sign) ==
  LET signed == IF x % 2 = sign THEN x ELSE F(-x)
  IN  [X |-> signed, Y |-> y, Z |-> 1, T |-> F(signed * y)]
GeChoose(x, y, u, v, sign) ==
  LET vxx == F(F(x * x) * v)
  IN  IF F(vxx - u) = 0 THEN GeWithSign(x, y, sign)
      ELSE IF F(vxx + u) = 0 THEN GeWithSign(F(x * GeSqrtM1), y, sign) ELSE NoPoint
GeDecode(y, u, v, sign) == GeChoose(GeRoot(u, v), y, u, v, sign)
GeFrombytes(s) ==
  LET y == F(s.y) IN GeDecode(y, F(y * y - 1), F(GeD * y * y + 1), s.sign)

P3ToP2(p) == [X |-> p.X, Y |-> p.Y, Z |-> p.Z]
P3ToCached(p) == [plus |-> F(p.Y + p.X), minus |-> F(p.Y - p.X), Z |-> p.Z, T2d |-> F(p.T * D2)]
P1p1ToP2(p) == [X |-> F(p.X * p.T), Y |-> F(p.Y * p.Z), Z |-> F(p.Z * p.T)]
P1p1ToP3(p) == [X |-> F(p.X * p.T), Y |-> F(p.Y * p.Z), Z |-> F(p.Z * p.T), T |-> F(p.X * p.Y)]

P2Dbl(p) ==
  LET xx == p.X * p.X
      yy == p.Y * p.Y
      sum == p.X + p.Y
  IN  [X |-> F(sum * sum - yy - xx), Y |-> F(yy + xx), Z |-> F(yy - xx),
       T |-> F(2 * p.Z * p.Z - (yy - xx))]
P3Dbl(p) == P2Dbl(P3ToP2(p))

\* ge_madd, ge_add and their inverses share all but which factor meets which,
\* and the sign of c = 2d t t'.
Completed(p, plus, minus, c, zz) ==
  LET a == F((p.Y + p.X) * plus)
      b == F((p.Y - p.X) * minus)
  IN  [X |-> F(a - b), Y |-> F(a + b), Z |-> F(zz + c), T |-> F(zz - c)]
Madd(p, q) == Completed(p, q.plus, q.minus, F(q.xy2d * p.T), 2 * p.Z)
Msub(p, q) == Completed(p, q.minus, q.plus, -F(q.xy2d * p.T), 2 * p.Z)
GeAdd(p, q) == Completed(p, q.plus, q.minus, F(q.T2d * p.T), 2 * F(p.Z * q.Z))
GeSub(p, q) == Completed(p, q.minus, q.plus, -F(q.T2d * p.T), 2 * F(p.Z * q.Z))

-----------------------------------------------------------------------------
\* The affine group, for the tables, which the code holds as numbers.
AffineAdd(P, Q) ==
  LET divide(a, b) == F(F(a) * FInv(b))
      sum(cross) == <<divide(P[1] * Q[2] + P[2] * Q[1], 1 + cross),
                      divide(P[2] * Q[2] + P[1] * Q[1], 1 - cross)>>
  IN  sum(GeD * F(F(P[1] * Q[2]) * F(P[2] * Q[1])))
BaseMultiples ==
  LET m[k \in 0..(GeOrder - 1)] ==
        IF k = 0 THEN <<0, 1>> ELSE IF k = 1 THEN GeBase ELSE AffineAdd(m[k \div 2], m[k - k \div 2])
  IN  m

\* The Duif form of k times the base point, and the two tables of it:
\* k25519Precomp[i][j] = (j + 1) * 256^i * B, Bi[i] = (2i + 1) * B.
Duif(P) == [plus |-> F(P[2] + P[1]), minus |-> F(P[2] - P[1]), xy2d |-> F(D2 * F(P[1] * P[2]))]
PrecompOf(k) == Duif(BaseMultiples[k % GeOrder])
K25519Precomp(i, j) == PrecompOf((j + 1) * PowMod(256, i, GeOrder))
Bi(i) == PrecompOf(2 * i + 1)

\* The entry for a negative digit with one coordinate left as it is.
TableSelectHalfNegated(pos, b) ==
  LET entry(size) == IF size = 0 THEN NeutralPrecomp ELSE K25519Precomp(pos, size - 1)
      signed(t) == IF b < 0 THEN [t EXCEPT !.plus = t.minus, !.minus = t.plus] ELSE t
  IN  signed(entry(IF b < 0 THEN -b ELSE b))

\* table_select, for a digit from -8 to 8.
TableSelect(pos, b) ==
  LET entry(size) == IF size = 0 THEN NeutralPrecomp ELSE K25519Precomp(pos, size - 1)
      signed(t) == IF b < 0 THEN [plus |-> t.minus, minus |-> t.plus, xy2d |-> F(-t.xy2d)] ELSE t
  IN  signed(entry(IF b < 0 THEN -b ELSE b))

\* The digits of a between -8 and 8.
SignedDigits(a) ==
  LET last == GeDigits - 1
      raw(i) == (a \div 16^i) % 16
      carry[i \in 0..last] == IF i = 0 THEN 0 ELSE (raw(i - 1) + carry[i - 1] + 8) \div 16
  IN  [i \in 0..last |-> raw(i) + carry[i] - (IF i = last THEN 0 ELSE 16 * carry[i + 1])]

\* ge_scalarmult_base: the odd digits, four doublings, the even digits.
SixteenTimes(h) ==
  LET more[k \in 1..4] ==
        IF k = 1 THEN P3Dbl(h) ELSE P2Dbl(P1p1ToP2(more[k - 1]))
  IN  P1p1ToP3(more[4])
ScalarmultBase(a) ==
  LET e == SignedDigits(a)
      added(h, parity) ==
        LET sum[k \in 0..(GeDigits \div 2)] ==
              IF k = 0 THEN h
              ELSE P1p1ToP3(Madd(sum[k - 1], TableSelect(k - 1, e[2 * (k - 1) + parity])))
        IN  sum[GeDigits \div 2]
      after[parity \in 0..1] ==
        added(IF parity = 1 THEN Neutral3 ELSE SixteenTimes(after[1]), parity)
  IN  after[0]

\* slide: odd digits from -15 to 15, few of them.  A digit takes in the set
\* bits up to six places above; one that would make it too large is taken as
\* the next power of two less, which is carried up.
SlideBits == 4 * GeDigits
SlideUp(st, i, b) ==
  LET r == st.r
      value == r[i + b] * 2^b
      free == {k \in (i + b)..(SlideBits - 1) : r[k] = 0}
      top == IF free = {} THEN SlideBits ELSE CHOOSE k \in free : \A j \in free : k <= j
  IN  IF st.stop \/ r[i + b] = 0 THEN st
      ELSE IF r[i] + value <= 15
      THEN [st EXCEPT !.r = [r EXCEPT ![i] = r[i] + value, ![i + b] = 0]]
      ELSE IF r[i] - value >= -15
      THEN [st EXCEPT !.r = [[k \in DOMAIN r |-> IF k \in (i + b)..(top - 1) THEN 0
                                                ELSE IF k = top THEN 1 ELSE r[k]]
                               EXCEPT ![i] = @ - value]]
      ELSE [st EXCEPT !.stop = TRUE]
Slide(a) ==
  LET window(i) == IF i + 6 < SlideBits THEN 6 ELSE SlideBits - 1 - i
      at(r, i) ==
        LET st[b \in 0..window(i)] ==
              IF b = 0 THEN [r |-> r, stop |-> FALSE] ELSE SlideUp(st[b - 1], i, b)
        IN  IF r[i] = 0 THEN r ELSE st[window(i)].r
      bits == [k \in 0..(SlideBits - 1) |-> (a \div 2^k) % 2]
  IN  Loop(SlideBits, bits, [0..(SlideBits - 1) -> Int], at)

\* ge_double_scalarmult_vartime: aA + bB, from the digits of a and b.
GeAddSigned(p, q, x) == IF x > 0 THEN GeAdd(p, q) ELSE GeSub(p, q)
MaddSigned(p, q, x) == IF x > 0 THEN Madd(p, q) ELSE Msub(p, q)
SlidScalarmult(aslide, A, bslide) ==
  LET A2 == P1p1ToP3(P3Dbl(A))
      Ai(i) == Loop(i, P3ToCached(A), PointsCached, LAMBDA q, k : P3ToCached(P1p1ToP3(GeAdd(A2, q))))
      half(x) == (IF x < 0 THEN -x ELSE x) \div 2
      withA(t, x) == IF x = 0 THEN t ELSE GeAddSigned(P1p1ToP3(t), Ai(half(x)), x)
      withB(t, x) == IF x = 0 THEN t ELSE MaddSigned(P1p1ToP3(t), Bi(half(x)), x)
      used(i) == aslide[i] # 0 \/ bslide[i] # 0
      place(r, i) == P1p1ToP2(withB(withA(P2Dbl(r), aslide[i]), bslide[i]))
      places == CHOOSE n \in 0..SlideBits : /\ n > 0 => used(n - 1)
                                            /\ \A i \in n..(SlideBits - 1) : ~used(i)
  IN  Loop(places, Neutral2, Points2, LAMBDA r, k : place(r, places - 1 - k))
DoubleScalarmult(a, A, b) == SlidScalarmult(Slide(a), A, Slide(b))

-----------------------------------------------------------------------------
\* X25519 on the curve's Montgomery form, whose constant 121666 is 1 / (1 + d).
LadderConstant == FInv(1 + GeD)
X25519(bits, u) ==
  LET quotient(s) == F(s.x2 * FInv(s.z2))
  IN  quotient(Ladder(Clamp(bits), Residues, F(u), 1, 0, LAMBDA x, y : F(x + y), LAMBDA x, y : F(x - y),
                      LAMBDA x, y : F(x * y), LAMBDA x : F(LadderConstant * x)))

\* X25519_public_from_private, by way of the Edwards curve.
X25519PublicFromPrivate(bits) ==
  LET clamped == Clamp(bits)
      scalar[i \in 0..Len(bits)] == IF i = 0 THEN 0 ELSE scalar[i - 1] + clamped[i] * 2^(i - 1)
      montgomery(A) == F((A.Z + A.Y) * FInv(A.Z - A.Y))
  IN  montgomery(ScalarmultBase(scalar[Len(bits)]))
=============================================================================
