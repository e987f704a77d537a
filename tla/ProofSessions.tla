---------------------------- MODULE ProofSessions ----------------------------
(***************************************************************************)
(* A prover and a verifier: one action for each kind of proof draws the    *)
(* secrets, the random numbers and the challenge, and sends what the       *)
(* serialisation lets through; Alter is a network or a prover that changes *)
(* one number of the answer, or the statement the verifier has.  The       *)
(* verifier's answer is Accepted, a function of what arrived.              *)
(***************************************************************************)
EXTENDS PaillierCommitment, Mta, SigmaProofs

VARIABLE session

\* The parties' keys; every verifier owns a ring-Pedersen key.
Key   == PaillierKey(19, 23)
Other == PaillierKey(19, 31)
Pk    == [n |-> Key.n, n2 |-> Key.n2]
Ring  == RingPedersenKey(7, 11, 13, 2)
Df    == DfGeneratePrivate(7, 11, <<3, 2>>, 2, 7)
PcOwn == PcKey(11, 7, 7, 2)
\* The residues expanded from a seed, one of them too large.
Hashed == RandBelow(<<500, 5, 29, 2>>, Key.n, 2)

Nonzero == Challenges \ {0}
AnswerLen == AnswerBits(LBits, NuBits, 1)
SafePrime == CHOOSE d \in 2^(QuadraticBits(Key.n) - 1)..2^19 : QuadraticSetupAllowed(Key.n, d)
Basis == QuadraticBasis(SafePrime, <<2, 3>>)
Setup == QuadraticSetup(Key.p, Key.q, SafePrime, Basis, 11, 13)

Fresh(kind, statement, commit, answer, e) ==
  [kind |-> kind, statement |-> statement, commit |-> commit, answer |-> answer, e |-> e,
   altered |-> FALSE]
Idle == [kind |-> "idle", altered |-> FALSE]

-----------------------------------------------------------------------------
\* The provers.

ProveFactorization ==
  \E r \in {1, 40, 90, 200}, e \in Nonzero :
    session' = Fresh("factorization", [n |-> Key.n, r |-> r], FactorizationCommit(Key, Hashed, r),
                     [y |-> FactorizationRespond(Key, r, e)], e)

ProveCoprime ==
  \E xs \in {RandPrimeTo(stream, Key.n, 2) : stream \in {<<19, 2, 438, 5>>, <<3, 436>>}} :
    session' = Fresh("coprime", Key.n, xs, [first |-> GenerateCoprime(Key, xs)[1],
                                           second |-> GenerateCoprime(Key, xs)[2]], 0)

\* bytes hold the signs of the roots; the first round's challenge may not be
\* 1 or -1.
BlumAnswer(proof) == [rounds |-> proof.rounds, w |-> proof.w, z |-> proof.rounds[1].z]
ProveBlum ==
  \E byte \in {0, 6, 11, 13} :
    \/ \E ys \in {<<2, 3>>, <<5, 436>>, <<6, 1>>} :
         session' = Fresh("blum", Key.n, ys, BlumAnswer(GenerateBlum(Key, ys, <<byte>>)), 0)
    \/ \E ys \in {<<2, 3>>, <<5, 76>>} :
         session' = Fresh("pc_blum", PcOwn.pub, ys, BlumAnswer(PcGenerateBlum(PcOwn, ys, <<byte>>)), 0)

ProveParameters ==
  \E zs \in {<<3, 59>>, <<0, 30>>}, e \in {<<0, 1>>, <<1, 1>>, <<1, 0>>} :
    \E answer \in {ParametersRespond(Ring, zs, e)} :
        session' = Fresh("parameters", Ring.s, ParametersCommit(Ring, zs),
                         [first |-> answer[1], second |-> answer[2]], e)

\* z_i is drawn below 2^AnswerLen; the proof travels in its serialised form.
ProveDfParameters ==
  \E zs \in {<<3, 15>>, <<9, 0>>}, e \in {<<<<1, 0>>, <<0, 1>>>>, <<<<3, 1>>, <<2, 2>>>>} :
    DfParametersAllowed(Df.n, AnswerLen, 1) /\ \E answer \in {DfParametersRespond(Df, zs, e, 1)} :
      \E wire \in {DfProofSerialize(Df.n, AnswerLen, DfParametersCommit(Df, zs), answer)} :
        \E got \in {DfProofDeserialize(Df.n, AnswerLen, 2, wire)} :
          session' = Fresh("df_parameters", answer, got.A, [first |-> got.zs[1], second |-> got.zs[2]], e)

\* The parameters of a Paillier-commitment key are those of dimension 1.
ProvePcParameters ==
  \E zs \in {<<3, 15>>, <<9, 0>>}, e \in {<<<<1>>, <<0>>>>, <<<<1>>, <<1>>>>} :
    \E answer \in {DfParametersRespond(AsDamgardFujisaki(PcOwn), zs, e, 1)} :
      session' = Fresh("pc_parameters", answer, DfParametersCommit(AsDamgardFujisaki(PcOwn), zs),
                       [first |-> answer[1], second |-> answer[2]], e)

RangeCoins == [alpha : {0, 14, AlphaBound - 1}, mu : {77}, gamma : {5, 616}, r : {2, 8}]

ProveExponent ==
  \E x \in {0, 3, 4}, coins \in RangeCoins, e \in Nonzero :
    \E got \in {ExponentSerialize(Ring, Pk, ExponentProve(Ring, Pk, x, 5, coins, e))} :
        ExponentDeserializable(Ring, Pk, got) /\ session' = Fresh("exponent", [point |-> GeneratorMul(x), ciphertext |-> got.ciphertext],
                         got.commit, got.answer, e)

ProveDiffieHellman ==
  \E x \in {0, 3}, coins \in RangeCoins, e \in Nonzero, a \in {1, 4} :
    LET b == 2
        full == [f \in DOMAIN coins \cup {"beta"} |-> IF f = "beta" THEN 3 ELSE coins[f]]
    IN  \E got \in {DhSerialize(Ring, Pk, DhProve(Ring, Pk, x, a, b, 5, full, e))} :
          session' = Fresh("diffie_hellman",
                         [point |-> DhPoint(x, a, b), ciphertext |-> got.ciphertext,
                          A |-> GeneratorMul(a), B |-> GeneratorMul(b)],
                         got.commit, got.answer, e)

\* r is so large that v is never negative, as in the code but for a
\* negligible part of the draws.
FactorsCoins ==
  [alpha : {17, 2040}, beta : {29}, mu : {40}, sigma : {3, 60}, lambda : {2, 5000}, r : {9000},
   x : {33}, y : {44}]

ProveFactors ==
  \E coins \in FactorsCoins, e \in Nonzero :
    \E sent \in {FactorsSerialize(Ring.n, Key.n, FactorsCommit(Ring, Key.p, Key.q, coins),
                                  FactorsRespond(Key.p, Key.q, coins, e))} :
        /\ FactorsDeserializable(Ring.n, Key.n, sent)
        /\ session' = Fresh("factors", Key.n, sent.commit, sent.answer, e)

ProveQuadratic ==
  \E alpha \in {0, 40}, beta \in {7, 50}, e \in 0..1 :
    LET coins == [alpha |-> alpha, beta |-> beta, sigma |-> 100, rho |-> 21, mu |-> 1234]
    IN  \E answer \in {QuadraticRespond(Setup, Key.p, Key.q, 11, 13, coins, e)} :
        \E got \in {QuadraticSerialize(Setup, QuadraticCommit(Setup, Basis, coins), answer)} :
        /\ QuadraticSerializable(Key.n, Setup, answer)
        /\ QuadraticDeserializable(Key.n, got, QuadraticProofBits(Key.n, got.size))
        /\ session' = Fresh("quadratic", Key.n, got.commit, got.answer, e)

ProvePcExponent ==
  \E x \in {0, 3}, alpha \in {0, PcAlphaBound(ScalarBits) - 1}, power \in {1, 11}, e \in Nonzero :
    \E proof \in {PcExponentProve(Df, PcOwn, x, 3,
                                  [alpha |-> alpha, power |-> power, mu |-> 9, muP |-> 50], e)} :
        /\ PcExponentAllowed(Df, PcOwn, x)
        /\ session' = Fresh("pc_exponent", [point |-> GeneratorMul(x), ciphertext |-> proof.ciphertext],
                            proof.commit, proof.answer, e)

\* An MTA response: the responder multiplies the request of k by x.
MtaStatement(k, x, beta) ==
  LET with(request) ==
        [k |-> k, x |-> x, beta |-> beta, request |-> request, point |-> GeneratorMul(x),
         response |-> MtaAnswer(Pk, Other, request, x, beta, 2, 7)]
  IN  with(MtaRequestMessage(Pk, k, 3, 1, 5).message)

AnswerMta ==
  \E k \in {0, 2, 4}, x \in {1, 3}, beta \in {0, 100, 127}, alpha \in {6, AlphaBound - 1}, e \in {1, 4} :
    LET coins == [alpha |-> alpha, beta |-> 300, r |-> 6, ry |-> 10,
                  gamma |-> 70, delta |-> 80, mu |-> 20, nu |-> 30]
    IN  \E statement \in {MtaStatement(k, x, beta)} : \E got \in {MtaSerialize(Ring, Pk, Other,
                            MtaCommit(Ring, Pk, Other, x, beta, statement.request, coins),
                            MtaRespond(Pk, Other, x, beta, 2, 7, coins, e))} :
          session' = Fresh("mta", statement, got.commit, got.answer, e)

ProveSchnorr ==
  \E secret \in Scalar, k \in {1, 4}, c \in 0..(2 * GroupOrder) :
    LET proof == SchnorrGenerateForData(secret, k, c)
    IN  session' = Fresh("schnorr", proof.point, proof.proof.R, [s |-> proof.proof.s], c)

ProveDhLog ==
  \E secret \in {0, 3}, a \in {1, 4}, b \in {0, 2}, d \in {1, 3}, e \in Nonzero :
    LET base == 2
        public == DhLogPublic(base, secret, a, b)
    IN  session' = Fresh("dh_log", public, DhLogCommit(base, a, d, 4), DhLogRespond(secret, b, d, 4, e), e)

-----------------------------------------------------------------------------
\* Commitments and their openings, made with the public key.

OpenRing ==
  \E x \in {0, 6, 70}, r \in {1, 90} :
    session' = Fresh("ring_opening", <<x, 4>>, <<RingCommit(Ring, x, r), RingCommit(Ring, 4, 2 * r)>>,
                     [first |-> r, second |-> 2 * r], 0)

OpenDf ==
  \E xs \in {<<0, 5>>, <<90, 2>>}, r \in {1, 90} :
    session' = Fresh("df_opening", xs, DfCommit(DfPublic(Df), xs, r), [w |-> r], 0)

\* By the owner of the key when own, with or without a modifier.
OpenPc ==
  \E v \in {0, 30}, r \in {1, 50}, modifier \in {<< >>, <<9, 4>>}, own \in BOOLEAN :
    LET value == IF own THEN PcCommitPrivate(PcOwn, v, r, modifier) ELSE PcCommit(PcOwn.pub, v, r, modifier)
        read == PcCommitmentDeserialize(
                  PcCommitmentSerialize(PcOwn.pub, [value |-> value, exponent |-> r], 2), 8)
    IN  session' = Fresh("pc_opening", [v |-> v, modifier |-> modifier], read[1], [w |-> read[2]], 0)

OpenPedersen ==
  \E a, b \in {0, 3, 7}, c \in {1, 9} :
    session' = Fresh("pedersen_opening", <<2, 3>>, PedersenCommit(PedersenBase(<<2, 3>>), a, b, c),
                     [w |-> a, z1 |-> b, z2 |-> c], 0)

-----------------------------------------------------------------------------
\* Numbers of the answer that are not those the prover computed, or another
\* point at the verifier.
Integral == {"y", "first", "second", "z", "z1", "z2", "z3", "z4", "w", "wy", "w1", "w2", "v",
             "lambda1", "lambda2", "s"}
AlterAnswer ==
  /\ ~session.altered /\ session.kind # "idle"
  /\ \E f \in DOMAIN session.answer \cap Integral :
       /\ ~(session.kind \in {"blum", "pc_blum"} /\ f = "w")
       /\ session' = [session EXCEPT !.answer[f] = @ + 1, !.altered = TRUE]

\* The rounds of a Blum proof: a sign or the root.
AlterRound ==
  /\ ~session.altered /\ session.kind \in {"blum", "pc_blum"}
  /\ \E i \in DOMAIN session.answer.rounds, f \in {"a", "b", "x"} :
       session' = [session EXCEPT !.answer.rounds[i][f] = IF f = "x" THEN @ + 1 ELSE ~@, !.altered = TRUE]

\* Two openings of ring-Pedersen commitments altered by opposite amounts.
AlterOpposite ==
  /\ ~session.altered
  /\ \E pair \in {<<"ring_opening", "first", "second">>, <<"mta", "z3", "z4">>} :
       /\ session.kind = pair[1]
       /\ session' = [session EXCEPT !.answer[pair[2]] = @ + 1, !.answer[pair[3]] = @ - 1, !.altered = TRUE]

\* The first point of a Diffie-Hellman log only matters when its factor z does.
AlterPoint ==
  /\ ~session.altered
  /\ \/ /\ session.kind \in {"exponent", "diffie_hellman", "pc_exponent", "mta"}
        /\ session' = [session EXCEPT !.statement.point = AddPoints(@, 1), !.altered = TRUE]
     \/ /\ session.kind = "dh_log"
        /\ \E P \in DOMAIN session.statement :
             /\ P = "A" => session.answer.z # 0
             /\ session' = [session EXCEPT !.statement[P] = AddPoints(@, 1), !.altered = TRUE]

ProofInit == session = Idle
Prove ==
  \/ ProveFactorization \/ ProveCoprime \/ ProveBlum \/ ProveParameters \/ ProveDfParameters \/ ProvePcParameters
  \/ ProveExponent \/ ProveDiffieHellman \/ ProveFactors \/ ProveQuadratic \/ ProvePcExponent
  \/ AnswerMta \/ ProveSchnorr \/ ProveDhLog
  \/ OpenRing \/ OpenDf \/ OpenPc \/ OpenPedersen
ProofNext == (session.kind = "idle" /\ Prove) \/ AlterAnswer \/ AlterRound \/ AlterOpposite \/ AlterPoint
ProofSpec == ProofInit /\ [][ProofNext]_session

-----------------------------------------------------------------------------
\* The verifiers.
Two(answer) == <<answer.first, answer.second>>
RangeProof(s) == [ciphertext |-> s.statement.ciphertext, commit |-> s.commit, answer |-> s.answer]
BlumProof(s) ==
  [w |-> s.answer.w,
   rounds |-> [i \in DOMAIN s.answer.rounds |-> [s.answer.rounds[i] EXCEPT !.z = s.answer.z]]]

MtaSingle(s) ==
  /\ MtaDeserializable(Ring, Pk, Other,
       [sizes |-> <<BitLength(Ring.n), BitLength(Other.n), BitLength(Pk.n)>>, commit |-> s.commit])
  /\ SingleVerify(Ring, Pk, Other, s.statement.request, s.statement.response, s.statement.point,
                  s.commit, s.answer, s.e)

Accepted(s) ==
  CASE s.kind = "factorization" -> VerifyFactorization(s.statement.n, Hashed, s.e, s.commit, s.answer.y)
    [] s.kind = "coprime" -> VerifyCoprime(s.statement, 2 * 3 * 5, s.commit, Two(s.answer))
    [] s.kind = "blum" -> VerifyBlum(s.statement, s.commit, BlumProof(s), 2)
    [] s.kind = "pc_blum" -> PcVerifyBlum(s.statement, s.commit, BlumProof(s), 2)
    [] s.kind = "pc_parameters" ->
         DfVerifyParameters(AsDamgardFujisakiPublic(PcOwn.pub), s.e, s.commit, Two(s.answer), AnswerLen, 1)
    [] s.kind = "parameters" -> VerifyParameters(Ring, s.commit, s.e, Two(s.answer))
    [] s.kind = "df_parameters" ->
         DfVerifyParameters(DfPublic(Df), s.e, s.commit, Two(s.answer), AnswerLen, 1)
    [] s.kind = "exponent" -> ExponentVerify(Ring, Pk, s.statement.point, RangeProof(s), s.e)
    [] s.kind = "diffie_hellman" ->
         DhVerify(Ring, Pk, s.statement.point, s.statement.A, s.statement.B, RangeProof(s), s.e)
    [] s.kind = "factors" -> FactorsVerify(Ring, s.statement, s.commit, s.answer, s.e)
    [] s.kind = "quadratic" -> QuadraticVerify(s.statement, Basis, Setup, s.commit, s.answer, s.e)
    [] s.kind = "pc_exponent" ->
         PcExponentVerify(Df, PcOwn.pub, s.statement.point, RangeProof(s), s.e)
    [] s.kind = "mta" -> MtaSingle(s)
    [] s.kind = "schnorr" -> SchnorrVerify(s.statement, s.commit, s.answer.s, s.e)
    [] s.kind = "dh_log" -> DhLogVerify(2, s.statement, s.commit, s.answer, s.e)
    [] s.kind = "ring_opening" ->
         \A i \in 1..2 : RingVerify(Ring, s.statement[i], Two(s.answer)[i], s.commit[i])
    [] s.kind = "df_opening" -> DfVerify(Df, s.statement, s.answer.w, s.commit)
    [] s.kind = "pc_opening" ->
         PcVerify(PcOwn.pub, s.statement.v, s.statement.modifier,
                  [value |-> s.commit, exponent |-> s.answer.w])
    [] s.kind = "pedersen_opening" ->
         PedersenVerify(PedersenBase(s.statement), s.commit, s.answer.w, s.answer.z1, s.answer.z2)

\* The numbers of an answer an honest prover may draw out of range.
InRangeAnswer(s) ==
  CASE s.kind = "factorization" ->
         (Key.n - Key.lamda) * s.e + s.statement.r < Key.n \div 2
    [] s.kind \in {"df_parameters", "pc_parameters"} ->
         \A i \in 1..2 : BitLength(s.statement[i]) <= AnswerLen
    [] s.kind \in {"exponent", "mta"} -> s.answer.z1 < AlphaBound
    [] s.kind = "diffie_hellman" -> s.answer.z1 <= AlphaBound
    [] s.kind = "quadratic" -> {s.answer.z1, s.answer.z2} \subseteq 0..(QuadraticLimit(Key.n) - 1)
    [] OTHER -> TRUE

-----------------------------------------------------------------------------
\* Completeness, of every proof and commitment of the library at once: what an
\* honest party makes is accepted, exactly when the numbers it drew left the
\* answer in the range the verifier wants.
HonestAccepted ==
  session.kind # "idle" /\ ~session.altered => (Accepted(session) <=> InRangeAnswer(session))

\* A change of one number of an answer, of the point a proof speaks of, or of two
\* openings by opposite amounts is refused.  Two numbers of a Blum proof are
\* not altered: the z of the rounds after the first, which the verifier never
\* reads, and w, from whose hash the challenges come, here fixed.
AlteredRefused == session.altered => ~Accepted(session)

\* mta.cpp: the two shares the parties keep add up to the product of their
\* secrets, though the sum inside the ciphertext is taken mod n.
MtaSharesMultiply ==
  session.kind = "mta" =>
    LET s == session.statement
        alpha == MtaAlphaShare(Key, s.response.message)
    IN  (alpha - MtaBetaShare(s.beta)) % GroupOrder = (s.k * s.x) % GroupOrder

\* The random weights of a batch, drawn for each member: bytes in mta.cpp, one
\* for each repetition (two here, five in the code), 40 or 64 bits in
\* ring_pedersen.c.  Draws are neighbours of a base: 0, which weighs nothing,
\* the orders of the groups modulo Ring.n and Key.n, and the end of a byte.
Bases == {0, 59, 197, 254}
Draws(base) ==
  LET weights(a, b) == [mta |-> <<a, b>>, commitment |-> <<b, a>>, ring |-> <<a, b>>]
  IN  {weights(a, b) : a, b \in {base, base + 1}}

MtaBatchOf(s, good, draw) ==
  LET batch == <<good, s>>
      acc[i \in 0..2] ==
        IF i = 0 THEN BatchInit(2)
        ELSE BatchProcess(acc[i - 1], Ring, Pk, Other, batch[i].statement.request,
                          batch[i].statement.response, batch[i].commit, batch[i].answer, batch[i].e, draw)
  IN  /\ BatchProcessable(Pk, Other, s.statement.response, s.statement.point, s.commit, s.answer, s.e)
      /\ BatchHolds(acc[2], Ring, Pk, Other)

GoodMta ==
  LET coins == [alpha |-> 6, beta |-> 300, r |-> 6, ry |-> 10,
                gamma |-> 70, delta |-> 80, mu |-> 20, nu |-> 30]
      good(s) == [statement |-> s, e |-> 1, commit |-> MtaCommit(Ring, Pk, Other, 3, 100, s.request, coins),
                  answer |-> MtaRespond(Pk, Other, 3, 100, 2, 7, coins, 1)]
  IN  good(MtaStatement(2, 3, 100))

\* Batches, weighted and compared once, against verification one by one.  A
\* batch of proofs that verify is accepted whatever was drawn.  With one that
\* does not, a draw may still cancel what is wrong (a weight of 0, or an even
\* one where the square of the error is 1), and errors of two openings may
\* cancel each other; but of neighbouring weights one catches it: at most half
\* of the draws accept, and half of that when the Paillier part is wrong,
\* which is weighed anew in each repetition.
BatchOddsBounded ==
  LET decides(accepts(_), odds) ==
        \A base \in Bases :
          LET luck == {draw \in Draws(base) : accepts(draw)}
          IN  IF Accepted(session) THEN luck = Draws(base)
              ELSE odds * Cardinality(luck) <= Cardinality(Draws(base))
  IN  /\ session.kind = "mta" =>
           LET paillier == SinglePaillier(Pk, Other, session.statement.request, session.statement.response,
                                          session.commit, session.answer, session.e)
           IN  decides(LAMBDA draw : MtaBatchOf(session, GoodMta, draw), IF paillier THEN 2 ELSE 4)
      /\ session.kind = "ring_opening" =>
           decides(LAMBDA draw : RingVerifyBatch(Ring, session.statement, Two(session.answer),
                                                 session.commit, draw.ring), 2)

\* range_proofs.h: the batch verification of range proofs "verifies multiple
\* range proofs": it succeeds only on proofs that verify one by one.
GoodRange ==
  LET fresh(got) == Fresh("exponent", [point |-> GeneratorMul(3), ciphertext |-> got.ciphertext],
                          got.commit, got.answer, 1)
      proof == ExponentProve(Ring, Pk, 3, 5, [alpha |-> 14, mu |-> 77, gamma |-> 5, r |-> 2], 1)
  IN  fresh(ExponentSerialize(Ring, Pk, proof))

RangeBatchVerifiesEach ==
  session.kind = "exponent" =>
    \A batch \in {<<session, GoodRange>>} :
      LET map(f(_)) == [i \in 1..2 |-> f(batch[i])]
      IN  BatchVerify(Ring, Pk, map(LAMBDA s : s.statement.point), map(RangeProof), map(LAMBDA s : s.e))
            = "success"
          => \A i \in 1..2 : Accepted(batch[i])
=============================================================================
