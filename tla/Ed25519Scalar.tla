---------------------------- MODULE Ed25519Scalar ----------------------------
(***************************************************************************)
(* Scalars modulo the group order L = 2^252 + c in curve25519.c: sums of   *)
(* 24 signed limbs of 21 bits, folded with 2^252 = -c and carried.  The    *)
(* limbs of the model have ScBits bits, so that the twelve low ones end    *)
(* where L has its top bit, and c is the number with the six signed digits *)
(* ScDigits.                                                               *)
(***************************************************************************)
EXTENDS ModArith

CONSTANTS ScBits,             \* 21
          ScDigits            \* -<<666643, 470296, 654183, -997805, 136657, -683901>>

ASSUME ScalarAssumption == ScBits \in 1..21 /\ ScDigits \in Seq(Int) /\ Len(ScDigits) = 6

ScIndex == 0..23
ScRadix == 2^ScBits

\* Limb j counts 2^252 times limb j - 12: it is taken away with c's digits.
ScFold(s, j) ==
  [i \in ScIndex |->
     IF i = j THEN 0
     ELSE IF i \in (j - 12)..(j - 7) THEN s[i] - s[j] * ScDigits[i - (j - 12) + 1] ELSE s[i]]

\* The carry out of limb i: to the nearest, or down.
ScCarryBy(s, i, c) == [s EXCEPT ![i] = @ - c * ScRadix, ![i + 1] = @ + c]
ScRound(s, i) == ScCarryBy(s, i, (s[i] + ScRadix \div 2) \div ScRadix)
ScFloor(s, i) == ScCarryBy(s, i, s[i] \div ScRadix)

\* One step after the other for the limbs first, first + by, ..., last.
ScSteps(s, first, last, by, Step(_, _)) ==
  Loop((last - first) \div by + 1, s, [ScIndex -> Int], LAMBDA t, k : Step(t, first + by * k))
ScRounds(s, first, last) == ScSteps(s, first, last, 2, ScRound)

\* Limbs 23 to 18 go, 6 to 17 are carried, 17 to 12 go.
ScFoldHigh(s) ==
  LET upper == ScSteps(s, 23, 18, -1, ScFold)
      carried == ScRounds(ScRounds(upper, 6, 16), 7, 15)
  IN  ScSteps(carried, 17, 12, -1, ScFold)

\* The low limbs carried and folded once only.
ScFinishOnce(s) ==
  LET rounded == ScRounds(ScRounds(s, 0, 10), 1, 11)
  IN  ScSteps(ScFold(rounded, 12), 0, 10, 1, ScFloor)

\* The low limbs are carried, and twice what has come over the top is folded,
\* until the limbs are the digits of a number below L.
ScFinish(s) ==
  LET rounded == ScRounds(ScRounds(s, 0, 10), 1, 11)
      once == ScSteps(ScFold(rounded, 12), 0, 11, 1, ScFloor)
  IN  ScSteps(ScFold(once, 12), 0, 10, 1, ScFloor)

\* x25519_sc_reduce, for the limbs of a 64-byte number, the last one unmasked.
ScReduce(s) == ScFinish(ScFoldHigh(s))

\* sc_muladd: the limbs of ab + c, all carried once before they are folded.
ScProducts(a, b, c) ==
  LET low == 0..11
      term(k, i) == IF k - i \in low THEN a[i] * b[k - i] ELSE 0
      sum(k) == LET upto[i \in 0..12] == IF i = 0 THEN 0 ELSE upto[i - 1] + term(k, i - 1) IN upto[12]
  IN  [k \in ScIndex |-> sum(k) + (IF k \in low THEN c[k] ELSE 0)]
ScMulAdd(a, b, c) ==
  ScFinish(ScFoldHigh(ScRounds(ScRounds(ScProducts(a, b, c), 0, 22), 1, 21)))
=============================================================================
