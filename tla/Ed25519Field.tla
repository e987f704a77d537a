---------------------------- MODULE Ed25519Field ----------------------------
(***************************************************************************)
(* The two field arithmetics of curve25519.c: fe, ten signed limbs of 26   *)
(* and 25 bits by turns modulo 2^255 - 19, and fe51, five unsigned limbs   *)
(* of 51 bits.  Both keep limbs wider than their places and carry late, so *)
(* an element has many representations.  The model keeps the limbs and the *)
(* algorithms and takes narrower limbs, of FeWide and FeWide - 1 bits and  *)
(* of Bits51 bits; a number is only ever the sequence of its limbs or      *)
(* bytes.                                                                  *)
(***************************************************************************)
EXTENDS ModArith

CONSTANTS FeWide, FeFold,      \* 26, 19
          PieceBits,           \* 8, the bits of a byte
          Bits51, Fold51       \* 51, 19

ASSUME FieldAssumption ==
  /\ FeWide \in 3..26 /\ PieceBits \in 1..8 /\ Bits51 \in 3..51
  /\ FeFold \in 1..19 /\ Fold51 \in 1..19

FeLimbs == 10
FeIndex == 0..(FeLimbs - 1)
FeBits(i) == IF i % 2 = 0 THEN FeWide ELSE FeWide - 1
FeWeight(i) == FeWide * i - i \div 2          \* t[i] counts 2^FeWeight(i)

SumOver(f, n) == LET sum[i \in 0..n] == IF i = 0 THEN 0 ELSE sum[i - 1] + f[i - 1] IN sum[n]

\* One rounding carry, h[i] to h[i + 1], or from the last limb back to h[0].
FeCarry(h, i) ==
  LET c == (h[i] + 2^(FeBits(i) - 1)) \div 2^FeBits(i)
      to == (i + 1) % FeLimbs
  IN  [h EXCEPT ![i] = @ - c * 2^FeBits(i), ![to] = @ + c * (IF to = 0 THEN FeFold ELSE 1)]
FeCarries(h, order) ==
  Loop(Len(order), h, [FeIndex -> Int], LAMBDA t, k : FeCarry(t, order[k + 1]))
FeOddThenEven == <<9, 1, 3, 5, 7, 0, 2, 4, 6, 8>>
FeMulOrder == <<0, 4, 1, 5, 2, 6, 3, 7, 4, 8, 9, 0>>

\* load_3 and load_4: the bits from the first to before the last of a string
\* of bytes, as a number.
Load(bytes, first, last) ==
  LET bit(k) == (bytes[k \div PieceBits] \div 2^(k % PieceBits)) % 2
  IN  SumOver([k \in 0..(last - first - 1) |-> bit(first + k) * 2^k], last - first)

\* fe_frombytes: the string is cut between bytes and each part shifted into
\* the limb it starts in.  The bits above the last limb are not read.
FeFrombytes(bytes) ==
  LET cut(i) == IF i = FeLimbs THEN FeWeight(FeLimbs)
                ELSE PieceBits * ((FeWeight(i) + PieceBits - 1) \div PieceBits)
  IN  FeCarries([i \in FeIndex |-> Load(bytes, cut(i), cut(i + 1)) * 2^(cut(i) - FeWeight(i))],
                FeOddThenEven)

\* Limbs within their places, as bytes.
FeBytes(limbs) ==
  LET bit(k) == LET i == CHOOSE i \in FeIndex : FeWeight(i) <= k /\ k < FeWeight(i + 1)
                IN  (limbs[i] \div 2^(k - FeWeight(i))) % 2
      at(k) == IF k < FeWeight(FeLimbs) THEN bit(k) ELSE 0
  IN  [j \in 0..(FeWeight(FeLimbs) \div PieceBits) |->
         SumOver([k \in 0..(PieceBits - 1) |-> at(PieceBits * j + k) * 2^k], PieceBits)]

\* fe_tobytes: the quotient by p, estimated from the top limb, then the limbs
\* carried exactly.
FeReduced(h) ==
  LET last == FeLimbs - 1
      quotient[i \in 0..FeLimbs] ==
        IF i = 0 THEN (FeFold * h[last] + 2^(FeBits(last) - 1)) \div 2^FeBits(last)
        ELSE (h[i - 1] + quotient[i - 1]) \div 2^FeBits(i - 1)
      carried[i \in FeIndex] ==                \* limb i with the carry into it
        IF i = 0 THEN h[0] + FeFold * quotient[FeLimbs]
        ELSE h[i] + carried[i - 1] \div 2^FeBits(i - 1)
  IN  [i \in FeIndex |-> carried[i] % 2^FeBits(i)]
FeTobytes(h) == FeBytes(FeReduced(h))

FeZero == [i \in FeIndex |-> 0]

FeAdd(f, g) == [i \in FeIndex |-> f[i] + g[i]]
FeSub(f, g) == [i \in FeIndex |-> f[i] - g[i]]
FeNeg(f) == [i \in FeIndex |-> -f[i]]
FeIsNonzero(f) == FeTobytes(f) # FeBytes(FeZero)
FeIsNegative(f) == FeTobytes(f)[0] % 2

\* The factor of f_i g_j: 2 where both limbs are odd, 19 past the top.
FeFactor(i, j) ==
  (IF i % 2 = 1 /\ j % 2 = 1 THEN 2 ELSE 1) * (IF i + j >= FeLimbs THEN FeFold ELSE 1)

FeMul(f, g) ==
  LET term(k, i) == LET j == (k - i) % FeLimbs IN f[i] * g[j] * FeFactor(i, j)
  IN  FeCarries([k \in FeIndex |-> SumOver([i \in FeIndex |-> term(k, i)], FeLimbs)], FeMulOrder)

\* fe_sq and fe_sq2: the products of two different limbs are taken once.
FeSquares(f) ==
  LET term(k, i) ==
        LET j == (k - i) % FeLimbs
        IN  IF i > j THEN 0 ELSE f[i] * f[j] * FeFactor(i, j) * (IF i = j THEN 1 ELSE 2)
  IN  [k \in FeIndex |-> SumOver([i \in FeIndex |-> term(k, i)], FeLimbs)]
FeSq(f) == FeCarries(FeSquares(f), FeMulOrder)
FeSq2(f) == LET h == FeSquares(f) IN FeCarries([i \in FeIndex |-> h[i] + h[i]], FeMulOrder)

\* fe_mul121666, for the small constant a of the curve.
FeMulSmall(f, a) == FeCarries([i \in FeIndex |-> f[i] * a], FeOddThenEven)

\* fe_cmov: exclusive or with a mask of all bits of b.
FeCmov(f, g, b) == IF b = 1 THEN g ELSE f

-----------------------------------------------------------------------------
\* Powers by chains of squarings and products, for any Mul(_, _) of numbers.

\* n squarings of z; the halves only keep the recursion shallow.
Squarings(z, n, Mul(_, _)) ==
  LET square(x) == Mul(x, x)
      s[k \in 0..n, x \in Int] ==
        CASE k = 0 -> x [] k = 1 -> square(x) [] OTHER -> s[k - k \div 2, s[k \div 2, x]]
  IN  s[n, z]

\* z^(2^50 - 1), from z^(2^10 - 1).
ChainOf50(z10, Mul(_, _)) ==
  LET z20 == Mul(Squarings(z10, 10, Mul), z10)
      z40 == Mul(Squarings(z20, 20, Mul), z20)
  IN  Mul(Squarings(z40, 10, Mul), z10)
\* z^(2^250 - 1), from z^(2^50 - 1).
ChainOf250(z50, Mul(_, _)) ==
  LET z100 == Mul(Squarings(z50, 50, Mul), z50)
      z200 == Mul(Squarings(z100, 100, Mul), z100)
  IN  Mul(Squarings(z200, 50, Mul), z50)

\* fe_invert and fe51_invert.
InvertChain(z, Mul(_, _)) ==
  LET z2 == Mul(z, z)
      z9 == Mul(z, Squarings(z2, 2, Mul))
      z11 == Mul(z2, z9)
      z31 == Mul(z9, Mul(z11, z11))
      z10 == Mul(Squarings(z31, 5, Mul), z31)
  IN  Mul(Squarings(ChainOf250(ChainOf50(z10, Mul), Mul), 5, Mul), z11)

\* fe_pow22523.
Pow22523Chain(z, Mul(_, _)) ==
  LET z2 == Mul(z, z)
      z9 == Mul(z, Squarings(z2, 2, Mul))
      z11 == Mul(z2, z9)
      z31 == Mul(z9, Mul(z11, z11))
      z10 == Mul(Squarings(z31, 5, Mul), z31)
  IN  Mul(Squarings(ChainOf250(ChainOf50(z10, Mul), Mul), 2, Mul), z)

-----------------------------------------------------------------------------
\* fe51

Index51 == 0..4

\* Carries that keep the low bits of a limb and never go below zero.
Carry51(h, i) ==
  LET to == (i + 1) % 5
      c == h[i] \div 2^Bits51
  IN  [h EXCEPT ![i] = @ % 2^Bits51, ![to] = @ + c * (IF to = 0 THEN Fold51 ELSE 1)]
Carries51(h, order) ==
  Loop(Len(order), h, [Index51 -> Int], LAMBDA t, k : Carry51(t, order[k + 1]))
PartialReduction == <<2, 0, 3, 1, 4, 2, 0>>

\* fe51_frombytes: the loads overlap no bit, so the carries are the cuts
\* between the limbs.
Frombytes51(bytes) == [i \in Index51 |-> Load(bytes, Bits51 * i, Bits51 * (i + 1))]

\* fe51_tobytes, up to the bytes: subtract p once if the number is not below it.
Reduced51(h) ==
  LET quotient[i \in 0..5] == IF i = 0 THEN Fold51 ELSE (h[i - 1] + quotient[i - 1]) \div 2^Bits51
      carried[i \in Index51] ==
        IF i = 0 THEN h[0] + Fold51 * quotient[5] ELSE h[i] + carried[i - 1] \div 2^Bits51
  IN  [i \in Index51 |-> carried[i] % 2^Bits51]

Add51(f, g) == [i \in Index51 |-> f[i] + g[i]]
Sub51OneModulus(f, g) ==
  [i \in Index51 |-> f[i] + (IF i = 0 THEN 2^Bits51 - Fold51 ELSE 2^Bits51 - 1) - g[i]]
\* Twice the modulus is added, so that no limb falls below zero.
Sub51(f, g) ==
  [i \in Index51 |-> f[i] + 2 * (IF i = 0 THEN 2^Bits51 - Fold51 ELSE 2^Bits51 - 1) - g[i]]

Product51(f, g) ==
  [k \in Index51 |-> SumOver([i \in Index51 |-> f[i] * g[(k - i) % 5] * (IF i > k THEN Fold51 ELSE 1)], 5)]
Mul51(f, g) == Carries51(Product51(f, g), PartialReduction)
Sq51(f) ==
  LET term(k, i) ==
        LET j == (k - i) % 5
        IN  IF i > j THEN 0
            ELSE f[i] * f[j] * (IF i = j THEN 1 ELSE 2) * (IF i + j > 4 THEN Fold51 ELSE 1)
  IN  Carries51([k \in Index51 |-> SumOver([i \in Index51 |-> term(k, i)], 5)], PartialReduction)
MulSmall51(f, a) == Carries51([i \in Index51 |-> f[i] * a], PartialReduction)

-----------------------------------------------------------------------------
\* The Montgomery ladder of x25519_scalar_mult, for the operations of any of
\* the field arithmetics.  bits are those of the clamped scalar, the lowest first.
Clamp(bits) ==
  [i \in DOMAIN bits |-> IF i <= 3 THEN 0 ELSE IF i = Len(bits) THEN 1 ELSE bits[i]]

LadderStep(s, b, x1, Add(_, _), Sub(_, _), Mul(_, _), MulSmall(_)) ==
  LET swap == (s.swap + b) % 2
      left == IF swap = 1 THEN <<s.x3, s.z3>> ELSE <<s.x2, s.z2>>
      right == IF swap = 1 THEN <<s.x2, s.z2>> ELSE <<s.x3, s.z3>>
      minus == Sub(left[1], left[2])
      plus == Add(left[1], left[2])
      da == Mul(Sub(right[1], right[2]), plus)
      cb == Mul(Add(right[1], right[2]), minus)
      bb == Mul(minus, minus)
      aa == Mul(plus, plus)
      e == Sub(aa, bb)
      sum == Add(da, cb)
      difference == Sub(da, cb)
  IN  [swap |-> b,
       x2 |-> Mul(aa, bb), z2 |-> Mul(e, Add(bb, MulSmall(e))),
       x3 |-> Mul(sum, sum), z3 |-> Mul(x1, Mul(difference, difference))]

\* The last bit of a clamped scalar is 0, so nothing is left to swap back.
Ladder(bits, Elements, x1, one, zero, Add(_, _), Sub(_, _), Mul(_, _), MulSmall(_)) ==
  LET n == Len(bits)
      States == [swap : {0, 1}, x2 : Elements, z2 : Elements, x3 : Elements, z3 : Elements]
      start == [swap |-> 0, x2 |-> one, z2 |-> zero, x3 |-> x1, z3 |-> one]
  IN  Loop(n, start, States, LAMBDA s, k : LadderStep(s, bits[n - k], x1, Add, Sub, Mul, MulSmall))
=============================================================================
