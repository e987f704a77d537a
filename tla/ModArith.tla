------------------------------ MODULE ModArith ------------------------------
(***************************************************************************)
(* The integer arithmetic the cryptographic modules share: what the code   *)
(* takes from OpenSSL's BIGNUM (modelled by what it computes), and         *)
(* common/crypto/algebra_utils.  Moduli stay below 2^20 so that no         *)
(* intermediate product leaves TLC's 32 bits.                              *)
(***************************************************************************)
EXTENDS Integers, Sequences, FiniteSets

\* The n steps of a loop, one after the other, on a value of the set S.  Halves
\* of the range are nested rather than steps, to spare the evaluation's stack.
Loop(n, first, S, Step(_, _)) ==
  LET run[from \in 0..n, to \in 0..n, value \in S] ==
        IF from = to THEN value
        ELSE IF to = from + 1 THEN Step(value, from)
        ELSE LET mid == (from + to) \div 2 IN run[mid, to, run[from, mid, value]]
  IN  run[0, n, first]

\* BN_mod_mul.  The product is taken in two parts of y, ten bits each.
Product(x, y, m) == (((x * (y \div 1024)) % m) * 1024 + x * (y % 1024)) % m
MulMod(a, b, m) == Product(a % m, b % m, m)

\* BN_mod_exp for a non-negative exponent, bit by bit from the lowest.
PowMod(b, e, m) ==
  LET pow[k \in Nat, square \in Nat, done \in Nat] ==
        IF k = 0 THEN done
        ELSE pow[k \div 2, Product(square, square, m),
                 IF k % 2 = 1 THEN Product(done, square, m) ELSE done]
  IN  pow[e, b % m, 1 % m]

GcdOf(a, b) ==
  LET gcd[x \in Nat, y \in Nat] == IF y = 0 THEN x ELSE gcd[y, x % y] IN gcd[a, b]

\* BN_mod_inverse, by the extended Euclidean algorithm; 0 when there is none.
InvMod(a, m) ==
  LET step[r0 \in Int, r1 \in Int, s0 \in Int, s1 \in Int] ==
        IF r1 = 0 THEN IF r0 = 1 THEN s0 % m ELSE 0
        ELSE step[r1, r0 % r1, s1, s0 - (r0 \div r1) * s1]
  IN  step[a % m, m, 1, 0]

\* A base to a signed exponent: the inverse power when it is negative.
PowSigned(b, e, m) ==
  LET signed(power) == IF e < 0 THEN InvMod(power, m) ELSE power
  IN  signed(PowMod(b, IF e < 0 THEN -e ELSE e, m))

BitLength(n) == CHOOSE k \in 0..30 : n < 2^k /\ (k = 0 \/ n >= 2^(k - 1))

\* BN_is_prime_fasttest_ex, without its error probability.
IsPrime(n) ==
  n > 1 /\ \A d \in 2..(2^((BitLength(n) + 1) \div 2)) : d >= n \/ n % d # 0

-----------------------------------------------------------------------------
\* is_coprime_fast: Euclid's algorithm from the larger of the two numbers.
IsCoprimeFast(a, b) ==
  LET larger == IF a < b THEN b ELSE a
      smaller == IF a < b THEN a ELSE b
  IN  GcdOf(larger, smaller) = 1

\* crt_recombine: ((mod_p - mod_q) * q_inv_p * q + mod_q) mod pq.
CrtRecombine(modP, modQ, p, q, qInvP) ==
  LET pq == p * q
      scaled == MulMod(MulMod(modP - modQ, qInvP, pq), q, pq)
  IN  (scaled + modQ) % pq

CrtModExp(base, expo, p, q, qInvP) ==
  CrtRecombine(PowMod(base, expo, p), PowMod(base, expo, q), p, q, qInvP)

\* generate_permutation: from the last index down, swap with a lower one.
GeneratePermutation(storage) ==
  LET size == Len(storage)
      swapped[i \in 0..(size - 1)] ==        \* the array once index i is done
        IF i = size - 1 THEN [k \in 0..(size - 1) |-> k]
        ELSE LET at == i + 1
                 perm == swapped[at]
                 j == storage[at + 1] % at
             IN  [perm EXCEPT ![at] = perm[j], ![j] = perm[at]]
  IN  swapped[0]

\* One trial of generate_tough_prime: 2 * (the first factors of the permuted
\* pool) + 1, or 0 when the candidate is given up.
ToughCandidate(pool, permutation, factors, bits, add, rem) ==
  LET product[k \in 0..factors] ==
        IF k = 0 THEN 2 ELSE product[k - 1] * pool[permutation[k - 1] + 1]
      p == product[factors] + 1
  IN  IF BitLength(p) = bits /\ p % add = rem /\ IsPrime(p) THEN p ELSE 0
=============================================================================
