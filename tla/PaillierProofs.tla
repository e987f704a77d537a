--------------------------- MODULE PaillierProofs ---------------------------
(***************************************************************************)
(* common/crypto/paillier/paillier_zkp.c: the proofs that a modulus is     *)
(* well formed.  The hash function is a parameter of each proof: zs, xs    *)
(* and ys are the residues expanded from the seed, e the challenge; a      *)
(* commitment to values is the tuple of the values.  The number of rounds  *)
(* is the length of those sequences.                                       *)
(***************************************************************************)
EXTENDS Paillier

\* paillier_generate_factorization_zkpok: knowledge of the factors of n.
FactorizationCommit(key, zs, r) == [i \in DOMAIN zs |-> PowMod(zs[i], r, key.n)]
FactorizationRespond(key, r, e) == ((key.n - key.lamda) * e + r) % (key.n \div 2)

VerifyFactorization(n, zs, e, x, y) ==
  /\ 2 * y + 1 < n
  /\ x = [i \in DOMAIN zs |-> InvMod(PowMod(zs[i], n * e - y, n), n)]

\* paillier_generate_coprime_zkp: gcd(n, phi(n)) = 1, by n-th roots.
GenerateCoprime(key, xs) ==
  LET M == InvMod(key.n, key.lamda) IN [i \in DOMAIN xs |-> PowMod(xs[i], M, key.n)]

\* alpha is the product of the small primes n must not contain.
VerifyCoprime(n, alpha, xs, ys) ==
  /\ ~IsPrime(n)
  /\ IsCoprimeFast(alpha, n)
  /\ \A i \in DOMAIN xs : PowMod(ys[i], n, n) = xs[i] % n

\* deterministic_rand: the residues are expanded from the seed one after the
\* other; both sides skip those that are not below n or, for the coprime
\* proof, not prime to n, until they have one for each round.
RandBelow(stream, n, rounds) == SubSeq(SelectSeq(stream, LAMBDA z : z < n), 1, rounds)
RandPrimeTo(stream, n, rounds) ==
  SubSeq(SelectSeq(stream, LAMBDA x : IsCoprimeFast(x, n)), 1, rounds)

-----------------------------------------------------------------------------
\* The exponent of a fourth root modulo p, doubled where it is to be squared.
FourthRootExponentTwice(p) == MulMod((p + 1) \div 4, 2, p - 1)
\* The exponent of a fourth root modulo a prime = 3 mod 4.
FourthRootExponent(p) == MulMod((p + 1) \div 4, (p + 1) \div 4, p - 1)
FourthRoot(y, p) == PowMod(y % p, FourthRootExponent(p), p)

\* legendre_p, legendre_q: does the fourth power of the root miss y?
Legendre(y, p) == PowMod(FourthRoot(y, p), 4, p) # y % p

\* The idempotents that lift a residue mod p or mod q to one mod n.
LiftP(key, a) == MulMod(a, MulMod(InvMod(key.q, key.p), key.q, key.n), key.n)
LiftQ(key, b) == MulMod(b, MulMod(InvMod(key.p, key.q), key.p, key.n), key.n)

BlumW(key) == PowMod(2, key.n, key.n)
BlumCorrection(key) ==
  (LiftQ(key, FourthRoot(BlumW(key), key.q)) - LiftP(key, FourthRoot(BlumW(key), key.p))) % key.n

\* get_2bit_number: the i-th pair of bits of the random bytes.
TwoBits(bytes, i) == (bytes[i \div 4 + 1] \div 4^(i % 4)) % 4

\* One round of paillier_generate_paillier_blum_zkp for the challenge y.
BlumRound(key, y, signs) ==
  LET rp == LiftP(key, FourthRoot(y, key.p))
      rq == LiftQ(key, FourthRoot(y, key.q))
      root == (CASE signs = 0 -> rp + rq
                 [] signs = 1 -> rp - rq
                 [] signs = 2 -> rq - rp
                 [] signs = 3 -> key.n - ((rp + rq) % key.n)) % key.n
      a == Legendre(y, key.q)
      b == a # Legendre(y, key.p)
  IN  [x |-> IF b THEN MulMod(root, BlumCorrection(key), key.n) ELSE root,
       z |-> PowMod(y, InvMod(key.n, key.lamda), key.n), a |-> a, b |-> b]

GenerateBlum(key, ys, bytes) ==
  [w |-> BlumW(key), rounds |-> [i \in DOMAIN ys |-> BlumRound(key, ys[i], TwoBits(bytes, i - 1))]]

\* The round without its sign: a root of either target passes.
VerifyBlumRoundEitherSign(n, w, y, round) ==
  LET wy == IF round.b THEN MulMod(w, y, n) ELSE y
  IN  PowMod(round.x, 4, n) \in {wy, n - wy}

\* One round of the verifier: x^4 = (-1)^a w^b y.
VerifyBlumRound(n, w, y, round) ==
  LET wy == IF round.b THEN MulMod(w, y, n) ELSE y
      target == IF round.a THEN n - wy ELSE wy
  IN  PowMod(round.x, 4, n) = target

\* paillier_verify_paillier_blum_zkp checks the first required rounds, z in
\* the first round only.
VerifyBlum(n, ys, proof, required) ==
  /\ n % 4 = 1 /\ ~IsPrime(n)
  /\ IsCoprimeFast(proof.w, n)
  /\ PowMod(proof.rounds[1].z, n, n) = ys[1] /\ ys[1] \notin {1, n - 1}
  /\ \A i \in 1..required : /\ IsCoprimeFast(ys[i], n)
                            /\ VerifyBlumRound(n, proof.w, ys[i], proof.rounds[i])
=============================================================================
