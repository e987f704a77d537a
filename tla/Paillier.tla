------------------------------ MODULE Paillier ------------------------------
(***************************************************************************)
(* common/crypto/paillier/paillier.c: key pairs, encryption, decryption    *)
(* and the homomorphic operations.  An operation returns its number, or    *)
(* the negated PAILLIER_ERROR code.  Buffers, their lengths and memory     *)
(* failures are left out, except where a length changes the result: a      *)
(* number whose encoding is empty (0) is PAILLIER_ERROR_UNKNOWN.           *)
(***************************************************************************)
EXTENDS ModArith

InvalidPlain  == -3
InvalidCipher == -4
InvalidRandom == -5
UnknownError  == -1
Failed(x)     == x < 0

\* A key: p = 3 mod 8 and q = 7 mod 8 of equal length, lamda = phi(n) prime
\* to n, mu its inverse.
PaillierKey(p, q) ==
  LET n == p * q
      lamda == n - p - q + 1
  IN  [p |-> p, q |-> q, n |-> n, n2 |-> n * n, lamda |-> lamda, mu |-> InvMod(lamda, n)]

PaillierGenerateKeyPairs(bits) ==
  LET primes(r) == {x \in 2^(bits - 1)..(2^bits - 1) : x % 8 = r /\ IsPrime(x)}
      keys == {PaillierKey(p, q) : p \in primes(3), q \in primes(7)}
  IN  {k \in keys : k.p # k.q /\ GcdOf(k.lamda, k.n) = 1}

\* Serialisation: a public key is its modulus, a private key is (p, q), from
\* which everything else is computed again; a modulus below minBits is refused.
NoKey == [n |-> 0]
PublicKeySerialize(key) == key.n
PublicKeyDeserialize(n, minBits) ==
  IF BitLength(n) < minBits THEN NoKey ELSE [n |-> n, n2 |-> n * n]
PrivateKeySerialize(key) == <<key.p, key.q>>
PrivateKeyDeserialize(pair, minBits) ==
  IF BitLength(pair[1] * pair[2]) < minBits THEN NoKey ELSE PaillierKey(pair[1], pair[2])

\* paillier_L: (x - 1) / n.
PaillierL(x, n) == (x - 1) \div n

EncryptWith(key, r, m) ==
  IF ~IsCoprimeFast(r, key.n) THEN InvalidRandom
  ELSE MulMod(1 + key.n * m, PowMod(r, key.n, key.n2), key.n2)

\* Encryption draws r again until it is prime to n: any unit can be the last.
Encrypt(key, r, m) == IF m >= key.n THEN InvalidPlain ELSE EncryptWith(key, r, m)
EncryptInteger(key, r, m) == EncryptWith(key, r, m)
EncryptToCiphertext(key, r, m) ==
  IF m >= key.n THEN [ciphertext |-> InvalidPlain, r |-> 0]
  ELSE [ciphertext |-> EncryptWith(key, r, m), r |-> r]
GetCiphertext(c) == c.ciphertext

DecryptCore(key, c) ==
  IF ~IsCoprimeFast(c, key.n) THEN InvalidCipher
  ELSE MulMod(PaillierL(PowMod(c, key.lamda, key.n2), key.n), key.mu, key.n)

Decrypt(key, c) ==
  IF c >= key.n2 THEN InvalidCipher
  ELSE LET m == DecryptCore(key, c)
       IN  IF m = 0 THEN UnknownError ELSE m

\* paillier_decrypt_integer has no encoding and so accepts 0; wordBound is
\* 2^64, the numbers a uint64_t holds.
DecryptInteger(key, c, wordBound) ==
  IF c >= key.n2 THEN InvalidCipher
  ELSE LET m == DecryptCore(key, c)
       IN  IF m >= wordBound THEN InvalidPlain ELSE m

-----------------------------------------------------------------------------
\* The homomorphic operations, on residues prime to n.
Coprime(key, cs, result) ==
  IF \A c \in cs : IsCoprimeFast(c, key.n) THEN result ELSE InvalidCipher

Add(key, a, b) == Coprime(key, {a, b}, MulMod(a, b, key.n2))
\* The integer is encrypted afresh, with the random unit r.
AddInteger(key, a, b, r) == Coprime(key, {a}, MulMod(a, EncryptInteger(key, r, b), key.n2))
Sub(key, a, b) == Coprime(key, {a, b}, MulMod(a, InvMod(b, key.n2), key.n2))
\* The subtraction that inverts modulo n.
SubIntegerModN(key, a, b, r) ==
  Coprime(key, {a}, MulMod(a, InvMod(EncryptInteger(key, r, b), key.n), key.n2))
SubInteger(key, a, b, r) ==
  Coprime(key, {a}, MulMod(a, InvMod(EncryptInteger(key, r, b), key.n2), key.n2))
Mul(key, a, b) == Coprime(key, {a}, PowMod(a, b, key.n2))
MulInteger(key, a, b) == Coprime(key, {a}, PowMod(a, b, key.n2))
=============================================================================
