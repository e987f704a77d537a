---------------------------- MODULE CryptoObjects ----------------------------
(***************************************************************************)
(* The objects of common/crypto that live over several calls, each driven  *)
(* call by call as its users drive it: a Paillier ciphertext under         *)
(* homomorphic operations, commitment contexts, the deterministic random   *)
(* generator, a shared secret, a key derived along a path, a key that is   *)
(* written and read.  obj is the object of the behaviour.                  *)
(***************************************************************************)
EXTENDS PaillierCommitment, Vss, HashContexts, HdDerive

VARIABLE obj

CONSTANT MaxCalls          \* bound on the calls of a behaviour

Nothing == [kind |-> "none", calls |-> 0]
May(kind) == obj.kind = kind /\ obj.calls < MaxCalls
After(changes) == obj' = [changes EXCEPT !.calls = @ + 1]

-----------------------------------------------------------------------------
\* A ciphertext.  plain is what it should hold.
\* Private keys, as they come back from their serialisation.
Keys == {PrivateKeyDeserialize(PrivateKeySerialize(key), 9) : key \in PaillierGenerateKeyPairs(5)}
Public(key) == PublicKeyDeserialize(PublicKeySerialize(key), 9)

\* The primes of a Paillier-commitment key: the candidate of the form 8k + r
\* that the random bytes lead to.
TheToughPrime(bits, r) ==
  LET candidates == {ToughCandidate(<<11, 3, 5>>, GeneratePermutation(<<0, b, c>>), 1, bits, 8, r) :
                       b \in 0..1, c \in 0..2}
  IN  CHOOSE p \in candidates : p # 0
PcOwner ==
  LET key(p, q) == IF PcKeyAllowed(p, q) THEN PcKey(p, q, 7, 2) ELSE [pub |-> [n |-> 0]]
  IN  key(TheToughPrime(4, 3), TheToughPrime(3, 7))

NewCiphertext ==
  /\ obj.kind = "none"
  /\ \E key \in Keys, m \in {0, 1, 300}, r \in {2, 5} :
       obj' = [kind |-> "ciphertext", calls |-> 0, key |-> key, plain |-> m,
               cipher |-> Encrypt(Public(key), r, m)]

Combine(plain, cipher) ==
  /\ ~Failed(cipher)
  /\ After([obj EXCEPT !.plain = plain % obj.key.n, !.cipher = cipher])

Compute ==
  /\ May("ciphertext")
  /\ \E b \in {0, 2, 436}, r \in {2, 7} :
       LET other == EncryptInteger(Public(obj.key), r, b)
       IN  \/ Combine(obj.plain + b, Add(obj.key, obj.cipher, other))
           \/ Combine(obj.plain + b, AddInteger(obj.key, obj.cipher, b, r))
           \/ Combine(obj.plain - b, Sub(obj.key, obj.cipher, other))
           \/ Combine(obj.plain - b, SubInteger(obj.key, obj.cipher, b, r))
           \/ Combine(obj.plain * b, Mul(obj.key, obj.cipher, b))
           \/ Combine(obj.plain * b, MulInteger(obj.key, obj.cipher, b))

\* A Paillier-commitment ciphertext, by the owner of the key or by another.
NewPcCiphertext ==
  /\ obj.kind = "none"
  /\ \E m \in {0, 1, 40, 76}, power \in {1, 5, 30}, own \in BOOLEAN :
       /\ PcPowerAllowed(PcOwner.pub, power, 6)
       /\ obj' = [kind |-> "pc_ciphertext", calls |-> 0, plain |-> m,
                  cipher |-> IF own THEN PcEncryptPrivate(PcOwner, power, m)
                             ELSE PcEncrypt(PcOwner.pub, power, m)]

-----------------------------------------------------------------------------
\* Two commitment contexts at work together: committed and checked are the
\* data the caller has given to each, in pieces.
Pieces == {<<1>>, <<2>>, <<1, 2>>}

NewCommitter ==
  /\ obj.kind = "none"
  /\ obj' = [kind |-> "commitment", calls |-> 0, ctx |-> CommitmentNew(9), committed |-> << >>,
             commitment |-> [salt |-> 0, commitment |-> << >>], checked |-> << >>, verdict |-> "none"]

\* Either kind of update on the live context; the wrong one is refused.
UpdateContext ==
  /\ May("commitment") /\ obj.ctx.live
  /\ \E data \in Pieces, verifier \in BOOLEAN :
       LET result == IF verifier THEN VerifyUpdate(obj.ctx, data) ELSE CommitmentUpdate(obj.ctx, data)
           done == result.status = "success"
       IN  After([obj EXCEPT !.ctx = result.ctx,
                             !.committed = IF done /\ ~verifier THEN @ \o data ELSE @,
                             !.checked = IF done /\ verifier THEN @ \o data ELSE @])

FinishContext ==
  /\ May("commitment") /\ obj.ctx.live
  /\ \/ LET result == CommitmentFinal(obj.ctx)
        IN  /\ result.status = "success"
            /\ After([obj EXCEPT !.ctx = VerifyNew(result.commitment), !.commitment = result.commitment])
     \/ LET result == VerifyFinal(obj.ctx)
        IN  /\ result.status # "invalid context"
            /\ After([obj EXCEPT !.ctx = NoContext, !.verdict = result.status])

-----------------------------------------------------------------------------
\* A generator read in pieces.
NewGenerator ==
  obj.kind = "none" /\ obj' = [kind |-> "drng", calls |-> 0, rng |-> DrngNew, bytes |-> << >>]

ReadGenerator ==
  /\ May("drng")
  /\ \E length \in 1..(2 * BlockSize + 1) :
       LET got == DrngRead(obj.rng, length)
       IN  After([obj EXCEPT !.rng = got.rng, !.bytes = @ \o got.bytes])

-----------------------------------------------------------------------------
\* A shared secret; its players hand in shares one by one.
NewSecret ==
  /\ obj.kind = "none"
  /\ \E secret \in Scalar, coefficients \in {<< >>, <<3>>, <<1, 4>>} :
       \E split \in {Split(secret, coefficients, 4), SplitWithCustomIds(secret, coefficients, <<4, 1, 3>>)} :
         /\ split.status = Success
         /\ \A i \in DOMAIN split.ids : GetShareId(split, i - 1).id = split.ids[i]
         /\ obj' = [kind |-> "secret", calls |-> 0, secret |-> secret, split |-> split, shares |-> << >>]

\* A share handed in is verified first; wrong is what was added to it.
HandIn ==
  /\ May("secret")
  /\ \E index \in 0..4, wrong \in {0, 1} :
       LET share == GetShareAndProof(obj.split, index)
           proof == AddPoints(share.proof, GeneratorMul(wrong))
       IN  /\ share.status = Success
           /\ \A i \in DOMAIN obj.shares : obj.shares[i].id # share.id
           /\ VerifySharesCommitment(obj.split.proofs, SharesCommitment(obj.split, 9))
           /\ VerifySharesCommitment(obj.split.coefficientProofs, PolynomCommitment(obj.split, 9))
           /\ VerifyShare(share.id, proof, obj.split.threshold,
                          GetPolynomProofs(obj.split, obj.split.threshold)) = Success
           /\ After([obj EXCEPT !.shares =
                       Append(@, [id |-> share.id, data |-> (share.data + wrong) % GroupOrder])])

-----------------------------------------------------------------------------
\* A key derived along a path, by a holder of the private key and by one of
\* the public key; fault is the library call that fails for both.
NewPath ==
  /\ obj.kind = "none"
  /\ \E private \in {1, 3}, path \in {<< >>, Bip44Path(1, 0, 0, 3)},
        fault \in {NoFault} \cup [level : {1, 5, 6}, call : Calls] :
       obj' = [kind |-> "path", calls |-> 0, private |-> private, path |-> path, fault |-> fault]
Descend ==
  /\ May("path")
  /\ \E child \in {0, 1, Hardened} : After([obj EXCEPT !.path = Append(@, child)])

-----------------------------------------------------------------------------
\* A key as it is written; cut is how much of it arrives.
Fields(ring) == <<Pad(ring.n, 2), Pad(ring.s, 2), Pad(ring.t, 1)>>
Written ==
  LET df == DfKey(7, 11, <<5, 3>>, 2)
      ring == RingPedersenKey(7, 11, 13, 3)
  IN  [df_public |-> DfPublicSerialize(DfPublic(df)), df_private |-> DfPrivateSerialize(df),
       pc_public |-> PcPublicSerialize(PcOwner.pub, FALSE),
       pc_reduced |-> PcPublicSerialize(PcOwner.pub, TRUE),
       pc_private |-> PcPrivateSerialize(PcOwner, 1),
       ring |-> RingPedersenSerialize(Fields(ring))]
RingKeyOf(fields) ==
  LET value(i) == Number(fields[i], 1, Len(fields[i]))
  IN  IF fields # << >> /\ RingPedersenPublicValid([n |-> value(1), s |-> value(2), t |-> value(3)], 7)
      THEN fields ELSE << >>
ReadKey(name, buffer) ==
  CASE name = "df_public" -> DfPublicDeserialize(buffer)
    [] name = "df_private" -> DfPrivateDeserialize(buffer)
    [] name = "pc_public" -> PcPublicDeserialize(buffer, FALSE, 1, 4)
    [] name = "pc_reduced" -> PcPublicDeserialize(buffer, TRUE, 1, 4)
    [] name = "pc_private" -> PcPrivateDeserialize(buffer, 1, 4)
    [] name = "ring" -> RingKeyOf(RingPedersenDeserialize(buffer, 3))
TheKey(name) ==
  LET df == DfKey(7, 11, <<5, 3>>, 2)
  IN  CASE name = "df_public" -> DfPublic(df)
        [] name = "df_private" -> df
        [] name \in {"pc_public", "pc_reduced"} -> PcOwner.pub
        [] name = "pc_private" -> PcOwner
        [] name = "ring" -> Fields(RingPedersenKey(7, 11, 13, 3))
NoKeyAt(name) ==
  CASE name \in {"df_public", "df_private"} -> NoPublic
    [] name \in {"pc_public", "pc_reduced"} -> [n |-> 0]
    [] name = "pc_private" -> [pub |-> [n |-> 0]]
    [] name = "ring" -> << >>

TransferKey ==
  /\ obj.kind = "none"
  /\ \E name \in DOMAIN Written :
       \E cut \in 0..Len(Written[name]) : obj' = [kind |-> "key", calls |-> 0, name |-> name, cut |-> cut]

-----------------------------------------------------------------------------
ObjectInit == obj = Nothing
ObjectNext ==
  \/ NewCiphertext \/ Compute \/ NewPcCiphertext
  \/ NewCommitter \/ UpdateContext \/ FinishContext
  \/ NewGenerator \/ ReadGenerator
  \/ NewSecret \/ HandIn \/ NewPath \/ Descend \/ TransferKey

-----------------------------------------------------------------------------
\* Decryption follows the plaintext through every sequence of homomorphic
\* operations, wrap-around mod n included; only a plaintext of 0, which has no
\* encoding, is an error of paillier_decrypt and not of the others.
DecryptionTracksPlaintext ==
  /\ obj.kind = "ciphertext" =>
       /\ DecryptInteger(obj.key, obj.cipher, 2^20) = obj.plain
       /\ Decrypt(obj.key, obj.cipher) = IF obj.plain = 0 THEN UnknownError ELSE obj.plain
  /\ obj.kind = "pc_ciphertext" => PcDecrypt(PcOwner, obj.cipher) = obj.plain

\* Objects that take their input in pieces give the answer of the whole: a
\* verifying context succeeds exactly on the committed data, however it was
\* cut and whatever calls were refused in between, and the generator's bytes
\* are those of one read.
PiecesJoin ==
  /\ obj.kind = "commitment" /\ obj.verdict # "none" =>
       /\ obj.verdict = "success" <=> obj.checked = obj.committed
       /\ obj.committed # << >> =>
            /\ obj.commitment.commitment = CreateCommitment(9, obj.committed).commitment
            /\ VerifyCommitment(obj.committed, obj.commitment) = "success"
  /\ obj.kind = "drng" /\ obj.bytes # << >> =>
       obj.bytes = DrngRead(DrngNew, Len(obj.bytes)).bytes

\* Any set of verified shares as large as the threshold gives the secret back,
\* but for a secret of 0, which is reported as an error; a wrong share is
\* never verified.
SharesReconstruct ==
  obj.kind = "secret" /\ Len(obj.shares) >= obj.split.threshold =>
    LET back == Reconstruct(obj.shares)
    IN  IF obj.secret = 0 THEN back.status = "unknown error"
        ELSE back = [status |-> Success, secret |-> obj.secret]

\* The derived private key is the logarithm of the derived public key, and who
\* has only the public key arrives at the same one, except behind a hardened
\* step, which it is refused.  A level that fails never passes for a derived
\* key, whatever the outputs hold of the levels before it.
DerivationsAgree ==
  obj.kind = "path" =>
    LET point == GeneratorMul(obj.private)
        own(fault) == DerivePrivateAndPublic(point, obj.private, 2, obj.path, fault)
        private(fault) == DerivePrivate(point, obj.private, 2, obj.path, fault)
        watch == DerivePublic(point, 2, obj.path, obj.fault)
        derived == own(NoFault)
        hardened == \E i \in DOMAIN obj.path : IsHardened(obj.path[i])
        reached == obj.fault.level \in DOMAIN obj.path
    IN  /\ derived.status = Success
        /\ obj.path # << >> => derived.public = GeneratorMul(derived.private)
        /\ own(obj.fault).status = Success <=> ~reached
        /\ own(obj.fault).status = Success => own(obj.fault) = derived
        /\ private(obj.fault) = [status |-> own(obj.fault).status, private |-> own(obj.fault).private]
        /\ watch.status = Success <=> ~hardened /\ ~(reached /\ obj.fault.call # "private")
        /\ watch.status = Success => watch.public = GeneratorMul(derived.private)

\* What was written is read back, and no proper prefix of it is taken for a key.
EncodingsRoundTrip ==
  obj.kind = "key" =>
    ReadKey(obj.name, SubSeq(Written[obj.name], 1, obj.cut))
      = IF obj.cut = Len(Written[obj.name]) THEN TheKey(obj.name) ELSE NoKeyAt(obj.name)
=============================================================================
