----------------------------- MODULE SigmaProofs -----------------------------
(***************************************************************************)
(* Proofs of knowledge in the group of the curve: zero_knowledge_proof/    *)
(* schnorr.c and diffie_hellman_log.c, and the commitments to three values *)
(* of commitments/pedersen.c.  A challenge is a hash of the statement and  *)
(* the commitment and is a parameter here.                                 *)
(***************************************************************************)
EXTENDS LogGroup

\* schnorr_zkp_generate_impl: R = g^k, s = k - c * secret.
SchnorrCommit(k) == GeneratorMul(k)
SchnorrRespond(secret, k, c) == (k - ((c * secret) % GroupOrder)) % GroupOrder

\* The three ways to call it: the randomness and the public point are drawn
\* and given, or given and computed; a zero randomness that is given is refused.
SchnorrGenerate(secret, k, c) ==
  [status |-> Success, R |-> SchnorrCommit(k), s |-> SchnorrRespond(secret, k, c)]
SchnorrGenerateForData(secret, k, c) ==
  [proof |-> SchnorrGenerate(secret, k, c), point |-> GeneratorMul(secret)]
SchnorrGenerateCustom(secret, k, c) ==
  IF k = 0 THEN [status |-> InvalidParameter] ELSE SchnorrGenerate(secret, k, c)

\* schnorr_zkp_verify: public * c + g * s = R.
SchnorrVerify(public, R, s, c) ==
  R = LinearCombination(<<PointMul(public, c), GeneratorMul(s)>>, <<1, 1>>)

-----------------------------------------------------------------------------
\* diffie_hellman_log_zkp: A = g^a, B = g^b, C = g^(ab + secret) and
\* X = base^secret.  d and y are the random exponents.
DhLogPublic(base, secret, a, b) ==
  [A |-> GeneratorMul(a), B |-> GeneratorMul(b), C |-> GeneratorMul(a * b + secret),
   X |-> PointMul(base, secret)]
DhLogCommit(base, a, d, y) ==
  [D |-> GeneratorMul(d), Y |-> PointMul(base, y), V |-> GeneratorMul(a * d + y)]

\* diffie_hellman_log_generate_e draws until the number is below the order.
DhLogChallenge(stream) == SelectSeq(stream, LAMBDA v : v < GroupOrder)[1]

DhLogRespond(secret, b, d, y, e) ==
  [z |-> (e * b + d) % GroupOrder, w |-> (e * secret + y) % GroupOrder]

DhLogVerify(base, public, commit, answer, e) ==
  /\ GeneratorMul(answer.z) = AddPoints(PointMul(public.B, e), commit.D)
  /\ PointMul(base, answer.w) = AddPoints(PointMul(public.X, e), commit.Y)
  /\ AddPoints(PointMul(public.A, answer.z), GeneratorMul(answer.w))
       = AddPoints(PointMul(public.C, e), commit.V)

-----------------------------------------------------------------------------
\* pedersen_commitment_two_generators: g^a h^b f^c; the values are of any
\* length and reduced first.
PedersenBase(hashed) == [f |-> hashed[1], h |-> hashed[2]]
PedersenCommit(base, a, b, c) ==
  AddPoints(AddPoints(GeneratorMul(a), PointMul(base.h, (b + 0) % GroupOrder)),
            PointMul(base.f, (c + 0) % GroupOrder))
PedersenVerify(base, commitment, a, b, c) == PedersenCommit(base, a, b, c) = commitment
=============================================================================
