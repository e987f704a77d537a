# A TLA+ model of the MPC signing demo and its library

The repository is a three-node demonstration of threshold Ed25519 signing: a C++
program (`src/src/`, one process per node and a Python relay) built on a vendored
library of cosigner services and cryptography (`src/mpc-lib/`). This directory models
both, checks the models with TLC, and proves with TLAPS, for every value of the constants,
what protects the key shares in the demo and in the library's services: that no nonce
answers two challenges, that what a signer adds its nonce to is settled before it reveals
it, that the signing services implement an ideal signer, that nodes and players end with one
key which their shares add up to, and that the demo uses the services as their callers may.

All paths below are relative to the repository's root `src/`, so `src/main.cpp` is
`src/src/main.cpp` in PROJECT.json. `cosigner/` and `crypto/` are those of
`mpc-lib/src/common/`.

## 1. Inventory

| Component | State it keeps | Operations | Talks to |
|---|---|---|---|
| Asymmetric EdDSA client (`asymmetric_eddsa_cosigner_client.cpp`) | one nonce per presigning index, in a persistency its caller supplies | `start_signature_preprocessing`, `eddsa_sign_offline` | returns messages to its caller |
| Asymmetric EdDSA server (`asymmetric_eddsa_cosigner_server.cpp`) | client commitments per index; commitments and signing metadata (k, R) per transaction | `store_presigning_data`, `eddsa_sign_offline`, `decommit_r`, `broadcast_r`, `broadcast_si`, `get_eddsa_signature`, `cancel_signing` | the same |
| Demo persistencies (`src/persistence/`) | the maps above, in memory | store, load, delete | called by the services |
| Relay (`src/relay_server.py`) | round id → list of messages | `/broadcast`, `/poll`, `/reset` | HTTP from every node |
| Network manager (`src/network/`) | nothing but a curl handle | `broadcast`, `await_data`, `await_data_custom_count` | the relay |
| Orchestrators and `main.cpp` | local variables of a session | one round after another | services and network manager |
| Key generation (`keygen_orchestrator.cpp`) | share, commitments, key metadata | the first two rounds of the setup service | relay |
| CMP setup (`cmp_setup_service.cpp`) | share, key metadata, auxiliary keys, and while it runs setup data and commitments | five rounds with proofs, `add_user_request`, `add_user` | returns messages |
| Online EdDSA (`eddsa_online_signing_service.cpp`) | per-transaction nonces and commitments, timing map | `start_signing`, `store_commitments`, `broadcast_si`, `get_eddsa_signature` | returns messages |
| Key refresh (`cmp_offline_refresh_service.cpp`) | refresh seeds, old and new shares and presignatures | `refresh_key_request`, `refresh_key`, `refresh_key_fast_ack`, `cancel_refresh_key` | shares the presignatures of the offline service |
| ECDSA offline and online (`cmp_ecdsa_*`) | nonces, MTA data, presignatures, timing map | request, response, verify, sign, combine, cancel | MTA, proofs |
| MTA (`mta.cpp`), range and other proofs, Paillier, commitments | none, or the object of a call | generate, verify, encrypt, decrypt, (de)serialise | algebra |
| Ed25519 and GFp algebra (`ed25519_algebra/`, `GFp_curve_algebra/`) | none | fields, scalars, points, signatures | OpenSSL |
| Secret sharing, HD derivation | none | split, reconstruct, derive | algebra |

What makes it hard, and what makes each part correct:

* **Nonces.** Answering two challenges with one nonce gives the key share away. That goes
  for the client, the servers, the online signers, the Schnorr proof of a setup, and
  presignatures.
* **Commit, then reveal.** No signer may choose, or have chosen for it, the sum its
  nonce enters after seeing the others'.
* **The client's share is added once.** Each server decides by itself, from its own
  list of signers, whether it adds the client's `s`.
* **Requests are abandoned and begun again** under one id, while messages of the
  first attempt are still about, in every service.
* **A call can fail half way**, after it has deleted or stored part of its data.
* **Shares change.** A refresh is committed at each player on its own, and presignatures,
  preprocessing requests and online signatures may be under way meanwhile.
* **The relay** forgets on reset, answers by counting messages, keeps old rounds for
  ever, and a node never learns that its post was lost.
* **Sessions overlap.** Nodes enter transaction ids by hand, in any order.
* **Everybody waits.** Polling has no timeout, so a session completes only if every
  expected count matches what will be posted.
* **Restarts.** Shares and nonces of the demo live in memory only.
* **Number edges.** Signs, carries, residues that stand for negative numbers, and batches
  that must answer as their members do.

PROJECT.json lists each of these at the line where it bites, with the properties aimed
at it.

## 2. Modules

```
EddsaTerms ─┬ AsymEddsaOps ─┬─ AsymEddsa ── MCAsymEddsa
            │               │     │  └ refines IdealSigner
            │               │     └─ AsymEddsaProofs ── AsymEddsaSums ── AsymEddsaIdeal ── FoldLemmas
            │               └─ DemoSession ── MCDemoSession
            │    Relay ────────┘     ├ refines AsymEddsa
            │      │                 └─ DemoSessionProofs
            │      └── DemoKeygen ── DemoKeygenProofs
            └ EddsaOnline ── EddsaOnlineProofs

GFpCurve ── CmpEcdsaOps ─┬ EcdsaOffline ── KeyRefresh ─┐
                         ├ EcdsaOnline ────────────────┼ MCCmp ── CmpProofs ── FoldLemmas
                         └ CmpSetup ───────────────────┘

ModArith ─ Paillier ─ PaillierProofs, RingPedersen, DamgardFujisaki, LogGroup
      └ RangeProofs ─ Mta, PaillierCommitment, SigmaProofs ── ProofSessions ─┐
        PaillierCommitment, Vss, HashContexts, HdDerive ───── CryptoObjects ─┼ MCCrypto
Ed25519Field ─ Ed25519Group ─ Ed25519, Ed25519Scalar, GFpCurve ──── Curves ──┘
```

### The demo

* **EddsaTerms** – symbolic Ed25519. A point is the bag of nonces whose multiples were
  added, a scalar `s` the bag of nonces and of products (challenge × key share). Two
  forms are equal exactly when the library's values are, for independently drawn
  nonces and shares, so `Ed25519Verify` is the real verification equation. Bags, not
  sets: adding a share twice is visible. HD derivation is folded into the block, since
  the derived key is a function of it.
* **AsymEddsaOps** – every handler of the two services as operators on the store of the
  player that runs it: guard, new store, output, and what is left of the store when a
  call throws half way. `Strict = TRUE` is the persistency contract of the two headers
  as `eddsa_offline_test.cpp:67-203` implements it (loads delete, a second create or
  start is refused). `Strict = FALSE` is `src/persistence/` of the demo: loads keep,
  stores overwrite.
* **AsymEddsa** – the services with arbitrary callers. Any handler may be called at any
  time with any messages produced for that transaction, so messages are delayed,
  reordered, repeated and mixed between attempts. The history variable `uses` records each
  (player, nonce, challenge) for which a share was returned.
* **IdealSigner** – the abstract specification: a transaction gets at most one list of
  signatures, each verifies under the group key, and no two transactions share a nonce.
* **Relay** – the relay's store as operators, kept as the count and the last data of each
  sender, which is all that `/poll` can distinguish.
* **DemoSession** – menu loop, preprocessing and signing orchestrators on every node over
  the relay, with the demo's persistencies. A round of a node is two steps, the poll with
  the service call behind it, and the post; `pc` names the step. Exceptions inside the
  `try` of `run` return to the menu (`Abort`); the one thrown before it ends the process
  (`pc = "dead"`).
* **DemoKeygen** – `KeygenOrchestrator::run` over the relay with stops and restarts.
  A share is named by the node and the life of the process that drew it.
* **AsymEddsaProofs**, **AsymEddsaSums**, **AsymEddsaIdeal**, **DemoSessionProofs**,
  **DemoKeygenProofs** – the proofs (section 4). **FoldLemmas** has what they, and those of the
  other services, need of sums over a set of players.

### The other services of the library

* **EddsaOnline** – the four handlers over both kinds of persistency (`strict`: refuses to
  overwrite, as the tests' does). Any handler may be called again with messages of any attempt. `timing` is the set of keys of the
  TimingMap. Loading and updating the signing data are two persistency calls with no other
  handler of that transaction between them. `broadcast_si` keeps k and R; what makes it safe
  is that the stored R becomes the sum, after which the commitments no longer match. The
  history `revealed` records each R that was returned with the commitments stored at that
  moment. **EddsaOnlineProofs** has its proofs.
* **GFpCurve** – `GFp_curve_algebra.c` over `y^2 = x^3 + ax + b` with a small prime: OpenSSL's
  `EC_POINT_*` as external definitions, everything above it as in the code.
* **CmpEcdsaOps** – `cmp_ecdsa_signing_service.cpp`, computed over GFpCurve: a real curve of
  order 31, so the signatures in the model are numbers and `GoodSignature` is ECDSA's
  own equation, public-key recovery included. Secrets are named by the player and a serial; a
  request carries that name, since its ciphertexts and commitments are functions of it, and a
  proof is the statement it proves with its aad. When a verifier accepts a proof is the subject
  of the modules below.
* **EcdsaOffline**, **EcdsaOnline**, **KeyRefresh**, **CmpSetup** – the handlers of the four
  services as actions of each player, each over the persistency of its test. Handlers that
  loop over indices or call several stores may stop between two of them (bounded by `MaxStops`
  and `MaxSetupStops`). KeyRefresh works on the presignatures of EcdsaOffline, and CmpSetup's
  `add_user_request` splits the shares KeyRefresh changes.
* **MCCmp** – composes the four over one set of shares and messages. `plan` picks at the start
  which services a behaviour uses, so that each interplay is explored by itself.
  **CmpProofs** proves about this composition.

What the repository leaves to the caller is left so in CmpSetup: the rounds are called in
order, each as often as the caller likes with any messages of the round. Nothing in
`create_secret` checks that `verify_setup_proofs` came before it; called without, it would
return the point at infinity as the key. A stop between the stores of
`generate_setup_commitments`, or after those of `store_setup_commitments`, leaves a key id
that cannot be used again: the model has such behaviours and they simply end.

### The cryptography

One module for each file of the library, over numbers of a few bits. Each definition takes
the random numbers and the challenge as parameters and follows the file's own steps: ranges, gcd
checks, the order of the checks, the encodings of lengths and signs. Challenges are numbers
fixed after the commitment, not hashes.

* **ModArith**, **LogGroup** – BIGNUM arithmetic and the steps of a loop (`Loop`), and the group
  interface as a cyclic group. Big-endian buffers are the first section of **DamgardFujisaki**.
* **Paillier**, **PaillierProofs**, **RingPedersen**, **DamgardFujisaki**, **RangeProofs**,
  **PaillierCommitment**, **Mta**, **SigmaProofs** – cryptosystems, commitments and proofs.
  **ProofSessions** is a prover, a channel that may alter one number (or two openings, by opposite
  amounts), and a verifier.
* **Vss**, **HashContexts**, **HdDerive** (whose library calls may fail at any level of a path) –
  driven call by call in **CryptoObjects**, with the Paillier ciphertext under homomorphic operations and the keys written and read back.
* **Ed25519Field** (`fe` with 26/25-bit limbs and `fe51`, with the bound on every limb in
  the comments of the code scaled), **Ed25519Scalar**, **Ed25519Group**, **Ed25519** – the layers
  of `curve25519.c` and `ed25519_algebra.c`. **Curves** puts field elements, scalars, points,
  signatures and the GFp algebra through sequences of calls.
* **MCCrypto** – the instance of all three.

A definition whose comment calls it a wrong variant, or that stands before another with the
same parameters and a name that says what it omits (`ClientSignDoKeeps`, `PartialSNoDelta`,
`SumAcceptedAlways`, …), is not part of any specification. Substituting it for the definition
after it makes the property listed under `mutants` fail.

### Simplifications to know about

* Checks of tenant, algorithm, player list, number of blocks and sizes are taken to pass;
  players follow the protocol. What is arbitrary is *when* and *with which produced
  messages* handlers are called. (ProofSessions is where numbers are altered.)
* `status` in the server's `eddsa_sign_offline` (server.cpp:151-161) is set before the loop
  over the blocks and never reset, so `rand` runs for the first block only. The model
  does the same: `SignOfflineDo` gives every block the nonce of the first. With two
  blocks a server therefore answers two challenges with one nonce, and `ServerNonceOnce`
  holds for one block only – its theorem has the assumption `NBlocks = 1`. The
  demo signs one block.
* The demo signs one fixed text in every session. In DemoSession each transaction id has
  a text of its own, so that a share computed for another session is seen.
* The menu's text input is the set `Scripts` of id sequences.
* One block per transaction in EcdsaOnline and EcdsaOffline; blocks share the ack and are
  otherwise handled one by one.
* A curve of order 31 makes chance equalities possible that a 256-bit curve does not have.
  The constants of MCCmp (`Draw`, `Prf`, `Hash`, the shares) were chosen so that no
  intermediate sum is zero by chance; with others a property may fail for that reason only.
* In small groups the bound of a range proof is wide compared to the modulus; in Mta the
  sizes are chosen so that a signed sum never leaves half the modulus, as the real sizes
  guarantee.

## 3. Runs

| Run | Instance | Checks | Distinct states |
|---|---|---|---|
| `asym_restarts` | client, 2 servers, one transaction, cancels, 3 draws per server | `ServerNonceOnce`, `OneSumPerNonce`, `FinalsAgree` | 371 842 |
| `asym_three_servers` | client, 3 servers, 2 transactions | `ImplementsIdealSigner` | 36 529 |
| `asym_two_players` | client, 1 server, 2 transactions of 2 blocks, overlapping indices, cancels | `TypeOK`, `ClientNonceOnce` | 1 877 |
| `demo_orderly` | 3 nodes, 2 sessions in the same order, fairness | `SessionsComplete`, deadlock | 350 |
| `demo_faults` | 3 nodes, 2 sessions each in any order or twice the same id, prompt cancelled, one lost broadcast, relay resets | `NonceUsedOnce`, `PrintedSignatureIsFresh`, `NoServerDies`, `ImplementsServices` | 464 961 |
| `keygen_tidy` | 3 nodes, 2 stops, tidy restarts, fairness | `KeysAgree`, `KeySharesWereCommitted`, `KeygenCompletes` | 1 016 |
| `eddsa_online` | 2 signers, one transaction of 2 blocks, up to 3 starts each, both persistencies, fairness | `NonceOnce`, `AddendsSettled`, `FinalsIndependent`, `OnlyLiveAreTimed`, `SigningCompletes` | 54 979 |
| `cmp_services` | 2 players on a curve of order 31, six plans (below) | `PresignatureOnce`, `SignaturesVerify`, `SharesAgree`, `OnlineSignaturesGood`, `SetupNonceOnce`, `FinishedKeysAgree`, `AddedUsersHoldTheKey` | 253 057 |
| `crypto` | every proof, object and curve operation on small numbers | 14 invariants (below) | 22 971 |
| `demo_reuse_verify`, `keygen_await`, `range_batch` | | one violated statement each, below | |

The plans of `cmp_services`: *presign* (a preprocessing request, restarted or beside another,
and signatures), *inflight* (a request caught by a key refresh), *refresh* (a dealt
presignature, two refreshes, cancelled, repeated or committed apart, and signatures), *online*
(an online signature, restarted or beside another, and a refresh), *setup* (the five rounds with
two lost answers or failed backups), *handover* (two new players take the key over, from one or
two requests of an old player, with a refresh). `PresignatureOnce` excepts presignatures that
the stores themselves brought back (`restored`): `store_presigning_data` called again after it
failed half way, and a refresh committed over presignatures used since it began, both do so in
the persistency of the test; what follows from that is the persistency's to exclude.
`SignaturesVerify` of that run speaks of players at one epoch with presignatures no refresh has
caught. The behaviours both leave out are in the run, without a property.

The invariants of `crypto`: honest proofs are accepted and altered ones refused
(`HonestAccepted`, `AlteredRefused`), a batch of good members is accepted under any weights and a
bad one by at most half of the neighbouring draws (`BatchOddsBounded`), the two MTA shares add up to the product
(`MtaSharesMultiply`), decryption follows what the homomorphic operations did
(`DecryptionTracksPlaintext`), contexts fed in pieces give the answer of the whole
(`PiecesJoin`), any threshold of shares gives the secret back (`SharesReconstruct`), private and
public derivation agree along a path and a level that fails is reported (`DerivationsAgree`), keys read back as written
(`EncodingsRoundTrip`), limbs stand for the right field element whatever the order of lazily
carried operations (`FieldTracksValue`), scalars reduce completely (`ScalarsReduce`), the four
representations follow the affine group law (`PointsTrackAffine`), signatures verify
(`SignaturesVerify`) and both algebras keep the laws of their common interface
(`AlgebrasAgree`, which leaves out what `in_field` returns and what `reduce` does to numbers that
are no scalars: there the comments and the code differ, see below).

What `BatchOddsBounded` can say depends on the weights. `batch_response_verifier` draws a byte for
each of five repetitions of the Paillier comparison and one byte for each ring-Pedersen term;
`ring_pedersen.c` draws 40 or 64 bits for each member. The orders of the groups are even, and a
weight may be 0, so no weight alone is certain to show a wrong member: the run takes the
weights from pairs of neighbours (around 0, the orders of two of the groups and the end of a byte),
two repetitions of the five, and finds that of each four draws at most two accept a batch with a
wrong opening, at most one if the Paillier part is wrong, errors that cancel
each other included. In the code that is a chance of at most 1/2 for the ring-Pedersen comparison,
which is made once, and of 1/2 for each of the five repetitions of the other.

Bounds. Two transactions are enough for every pairwise property (all are of the form "no
two …"); three draws let a transaction be abandoned twice, which is what it takes to have
messages of two dead attempts around in a live one; two sessions per node is the least in
which anything stale can exist. With three servers more than one of
them must leave the client's share out, and a server adds the Rs of more than one other. `MaxPre = 1` loses
nothing under `Strict`, where a second preprocessing is refused. In `demo_faults` one lost
broadcast is allowed (`MaxLost`): unlimited loss with scripts that use no id twice was
explored too and adds only sessions that wait for ever. The indices the demo never uses
(1 to 999 of the 1000) are left out: `NIndex = 1`. In `cmp_services` two players are enough
because every check of these services is pairwise; `MCMaxDrawn` lets one of them restart a
request, `MaxStops = 1` breaks off one loop, and two stops let both players of a setup begin a
second life. In `crypto` the numbers are the smallest for which every branch is taken: composites of
two safe primes, fields whose top limb is partly filled, a group order with a signed digit
expansion, scalars longer than the order.

Fairness. `FairSpec` of DemoSession gives each node weak fairness of its step: a process
keeps running, polls every half second without giving up (network_manager.cpp:58-71), and
its user answers the prompt. `demo_orderly` has no faults, so nothing else is needed. For
DemoKeygen the operator is fair too: having stopped a node it completes the stop, reset
and start that the README describes. Stops themselves are not fair and are bounded, so
`KeygenCompletes` says: after the last stop, keys. In EddsaOnline the callers are fair: each
signer's caller starts the transaction once and keeps calling the next handler; the
library has no retries of its own. The CMP run states no liveness: several of its
stops leave a key or a request that nothing can complete.

`CHECK_DEADLOCK FALSE` appears where the system may stop: the bounds on draws run out, a
lost message makes a node wait for ever, a reuse of an id leaves nodes in different
sessions, or a sequence of calls is over. `demo_orderly` checks deadlock.

### What the violations show

* `demo_reuse_verify` – entering a transaction id a second time makes
  rounds of the relay answer with messages of the first session, and node 1 prints
  SIGNATURE SUCCESS for a signature that does not verify (README.md:42-43 says it does).
* `keygen_await` – README.md:101-102 and the comment in relay_server.py:45 say a round is
  complete when every participant has posted; line 46 counts messages.
* `range_batch` – range_proofs.h:108 says `range_proof_exponent_zkpok_batch_verify` verifies
  the proofs of a batch; range_proofs.c:781 keeps the comparison of the last one only.

Differences met on the way that no run lists:

* client.h:33 says `load_preprocessed_data` deletes what it loads, and a test requires the
  second signing call to throw; `MockClientPersistency` keeps the nonce
  (mock_client_persistency.cpp:21-29). The menu loop preprocesses anew before every signing,
  which is why `NonceUsedOnce` still holds in `demo_faults`.
* `get_eddsa_signature` of the server logs "Signature validated" (server.cpp:529) above a
  commented-out `ed25519_verify`; `demo_reuse_verify` is a consequence.
* `delete_refresh_key_seeds` of the test's persistency erases from the map of presignatures,
  so seeds stay; `cancel_refresh_key` after `refresh_key` leaves the temporary presignatures.
* After a refresh `players_info` still holds the public shares of before, so no MTA response of
  a later request or online signature passes `verify_block_and_get_delta`
  (cmp_ecdsa_signing_service.cpp:184): such requests stop there in the model as well.
* `eddsa_online_signing_service::cancel_signing` is declared and never defined.
* Zero is an error in places where it is a value: `paillier_decrypt` of an encryption of 0
  and the reconstruction of the secret 0 fail. Both are modelled so.
* `derive_private_and_public_keys` leaves the public key unwritten for an empty path.
* The comment of `in_field` (GFp_curve_algebra.c:1045-1055, again at 1071) describes its result the
  other way round than the code, which returns 1 for a value below the order; its callers follow
  the code.
* The comment of `ec_reduce` (GFp_curve_algebra.c:1074-1076) says it "reduces a scalar modulo the
  order"; the code refuses a value that is not below the order, after dropping its top four bits for
  the stark curve only (line 1127).
* `batch_response_verifier::process_ring_pedersen` masks its weights under the comment "40bits"
  (mta.cpp:1111-1112); they are a `uint8_t` each.
* `BN_usub(u1, order, u1)` in `verify_signature` (line 880) subtracts from the order, so a
  signature whose R has its x above the order is refused there; on the real curves that has
  a negligible chance.
* `generate_permutation` yields cyclic orders only. The sign of
  v in the large-factors proof is not sent. A few assertions on lengths stand before the check
  that would return an error (damgard_fujisaki.c:697, paillier_commitment.c:538).

## 4. Proofs

Every theorem is of the form `Spec => []Property` (or `Spec => Property` for an action property
and the refinement), and holds for any number of players, transactions, blocks, indices, lives
and draws, and any order of calls, within the assumptions that the modules state of their
constants and those of the second column.

| Theorem | Assumes | States |
|---|---|---|
| `TypeCorrect` (AsymEddsaProofs) | – | `TypeOK` |
| `ClientNonces` (AsymEddsaProofs) | `Strict` | `ClientNonceOnce` |
| `ServerNonces` (AsymEddsaProofs) | `Strict`, `NBlocks = 1` | `ServerNonceOnce` |
| `OneSum` (AsymEddsaSums) | `Strict` | `OneSumPerNonce` |
| `OneResult` (AsymEddsaSums) | `Strict` | `FinalsAgree` |
| `SignerImplemented` (AsymEddsaIdeal) | `Strict`, `~Cancels` | `ImplementsIdealSigner`, a refinement |
| `ServersLive` (DemoSessionProofs) | `NIndex > 0` | `NoServerDies` |
| `NoncesUsedOnce` (DemoSessionProofs) | `NBlocks = 1` | `NonceUsedOnce` |
| `SessionsImplement` (DemoSessionProofs) | `NIndex > 0`, `~TwoPlayers` | `ImplementsServices`, a refinement |
| `TidyKeysAgree` (DemoKeygenProofs) | `Tidy` | `KeysAgree` |
| `TidySharesWereCommitted` (DemoKeygenProofs) | `Tidy` | `KeySharesWereCommitted` |
| `TidyAwaitMeansEveryone` (DemoKeygenProofs) | `Tidy` | `AwaitMeansEveryone`, the action property that `keygen_await` violates without |
| `OnlineNonces` (EddsaOnlineProofs) | – | `NonceOnce` |
| `OnlineAddends` (EddsaOnlineProofs) | – | `AddendsSettled` |
| `OnlineTiming` (EddsaOnlineProofs) | – | `OnlyLiveAreTimed` |
| `OnlineFinals` (EddsaOnlineProofs) | – | `FinalsIndependent` |
| `SetupNonces` (CmpProofs) | – | `SetupNonceOnce` |
| `Presignatures` (CmpProofs) | – | `PresignatureOnce` |
| `FinishedKeys` (CmpProofs) | `RandomScalars` | `FinishedKeysAgree` |
| `AddedUsers` (CmpProofs) | `RandomScalars`, `Players # {}`, `PublicKey # Infinity` | `AddedUsersHoldTheKey` |
| `KeyIsKept` (CmpProofs) | `RandomScalars` | `KeyKept`, the first half of `SharesAgree` |

Why the code justifies the assumptions. `Strict` is the contract of the persistencies in the two
headers of the services; without it the properties fail, and the theorems about the demo,
whose persistencies break the contract, do not use it. `NIndex > 0`: the demo presigns
`PREPROCESSING_COUNT` = 1000 nonces (mpc_config.h:19). `NBlocks = 1`: the demo signs one block,
and with two a server does answer two challenges with one nonce (section 2). `~TwoPlayers`: the
demo has three players; its orchestrator has no path for a single server, whose rounds
end earlier. `Tidy`: the restart the demo's README describes, every node stopped and the relay
reset; `keygen_await` shows what happens without. `~Cancels`: when a
transaction is cancelled at the servers and begun again with new nonces, after the client signed
the sum of the first attempt, the servers of the second add the client's old share to their new ones, and
`get_eddsa_signature` returns the result unverified (server.cpp:529); TLC shows it in 22 steps when
`asym_restarts` is given `ImplementsIdealSigner`. What holds with cancels is that nonces are used once,
`OneSumPerNonce` and `FinalsAgree`.
`RandomScalars`: shares are drawn by `rand` of the algebra, and the seeds of a refresh expanded to
a scalar, both below the order, as are MCDraw and MCPrf of the run. `PublicKey # Infinity`:
the code takes the point at infinity for a key not yet known (cmp_setup_service.cpp:195-196), and the
key that is handed over is the sum of a finished setup. Of the curve, CmpProofs uses the
assumption `GroupLaw` of GFpCurve only: the multiples of the generator by the scalars add up as the
scalars do and differ from each other, which is what the order of a generator means and TLC
evaluates for the curve of `cmp_services`. `KeyIsKept` does not use it.

What could be evaluated on an instance was checked there by TLC before it was proved: the parts
of the invariants of AsymEddsaProofs on `asym_restarts`, `Inv` of DemoSessionProofs on
`demo_faults`.

### The asymmetric services

*Type correctness.* AsymEddsaProofs first states, handler by handler, that a store that is
well formed stays so (`Put` and `Drop` change a domain, `SignOfflineDo` adds metadata with
a nonce per block, …), then covers each action by the lemma of its handler.

*Client.* `ClientNonceOnce` is not inductive: it says nothing of the nonces still stored.
The invariant adds `NoncesDrawn` (a nonce in a store or in `uses` has a serial number its
owner has reached, so the next one drawn is new) and `ClientUnspent` (the client's stored
nonces differ from index to index, and none of them occurs in `uses`). `ClientSign` moves the
nonces it uses out of the store in the same step – that is where `Strict` is needed –
`StartPreprocessing` stores nonces above the old count, and no other action touches either.

*Server.* The server's k stays in its metadata after `broadcast_si`, so unspentness cannot be
stated of its store. `ServerSpentOnce` says instead: whenever metadata of a transaction hold a
k that was used, the client's commitment for that transaction's index is gone from that
server for good (`alloc` is set, so a new preprocessing is refused), and two transactions never
hold the same k. A second `BroadcastSi` would need that commitment.

*One sum.* A server's R is a bag of nonces, of which exactly one is its own, the stored k
(`StoredOwn`). Commitments and revealed Rs are points of one nonce of their sender
(`MessagesOwn`), so a sum of two signers' points, or one with the client's R added by
`broadcast_si`, opens no server's commitment. `SumSettled` follows: once a sum with k was sent,
no commitments are stored for the transaction of k and the stored R has a nonce of another,
so `decommit_r` refuses from then on and `broadcast_r` finds nothing to check against. With a
single server nothing is revealed, and the sum is sent when k is drawn.

*One result.* `broadcast_si` takes the client's commitment with it, and that comes once; so
a server's share of a transaction exists once (`AnsweredOnce`), and the signatures a server
returns are the sum of those shares, which does not depend on who adds (`FinalsFromShares`).

*The ideal signer.* The step of IdealSigner that signs needs that what is summed verifies under the key
of all players, and that no nonce of it is in a signature of another transaction.
Without cancels a server draws one k for a transaction. Every sum that is sent is the
own k plus one nonce of each other server (`SumsFull`), and is what the server stores until
it has answered (`PlainUntilSummed`, `SumsStored`); so all servers that the client hears of one
transaction add the same nonces, the client signs that sum and its own (`PsigsGood`), and a server's
share is its own nonce and key term, or, for the least server, those and the client's (`SharesGood`). Over
all servers these make one bag with every nonce and every key term once, whose point is the R
of the signature (`FinalsGood`). Two signatures with a nonce in common would have the sums of one
transaction (`FinalsApart`).

*Sums.* That argument adds bags over a set of servers of any size. The induction theorems of the
library take an operator as a parameter, which no installed prover instantiates. FoldLemmas
states induction over the subsets of a finite set with the hypothesis as a *set* of subsets: it takes a
smallest subset outside (`WFMin` with the well-founded order of the finite subsets), which
is first-order. From that follows what the folds of the community modules compute
(`RecursionExists`).

### The demo

*What the nodes are given.* The invariant `Inv` of DemoSessionProofs says that what the relay
holds of a round, and what a node is about to post to it, is what the services produced for
that transaction and round (`HonestRelay`, `NodeOk`), and relates each label of `pc` to the
stores (`ServerOk`, `ClientOk`): a server between its presigning round and the barrier has the
client's commitments of every index, which is why `NoServerDies` holds whatever sessions overlap,
and commitments and Rs that a server has sent are what its store would give again.

*Nonces.* The demo's loads delete nothing, so the argument of the strict services does not
apply. Instead (`Fresh`): from the moment a node has drawn its nonces in a session until it
signs, what it holds is what it drew last, and everything it has used was drawn before. A server
signs with the k of the transaction it is in, and has overwritten it in this session; the client
overwrites the whole array.

*Refinement.* `SessionsImplement` goes step by step: for each poll of `pc` a lemma shows that
the call behind it is the action of AsymEddsa with the messages `Inv` says the relay answers, and
the posts, the prompt, aborts, losses and resets change nothing there. Operators of the
instance `Services` are first equated with those of AsymEddsaOps.

*Key generation.* The relay counts messages. With tidy restarts each sender posts once to a round
between two resets, so the count is the number of senders (`CountsSenders`), and what is posted is
of the present life of its sender (`PostedByPresentLives`). A node past the first round has
therefore acknowledged the present share of everybody, and as its peers post to the second round
only then, that is what the key is made of (`EverybodyAcknowledged`).

### The other services

*Online EdDSA.* `broadcast_si` keeps k and can be repeated. `UsedAsStored`: a live nonce that was
used was used with the Rs that open the commitments still stored, and R now holds their sum. With
several signers a sum opens no commitment, so `store_commitments` – the only handler that could
change what is stored – refuses; with one signer the sum is the same R. For `AddendsSettled` the
invariant says that the commitments of a revealed R stay while its data live
(`RevealedAsStored`); that needs the refusal to overwrite. `FinalsIndependent` rests on the
verification in `get_eddsa_signature`: a sum that verifies has one nonce and one key term of each
signer for the challenge of its own R and block, and two shares with one nonce are the same
message (`SharesAgree`).

*CMP setup.* Setup data carry a nonce of the present life of their player; commitments are
stored once in a life and go together with the data. `AnsweredAsStored`: a stored nonce that
answered was answered with the challenge that the stored commitments fix, as
`generate_setup_proofs` checks every decommitment against them; so answering again gives the same.

*Finished keys.* Rounds can be repeated with messages of any life of any player, so the public shares
that two results count need not be of one attempt. What ties them together (`AgreeInv`): a
life has one public share, that of the x stored in it (`OneShare`); it acknowledges one batch of
commitments (`OneBatch`), as the persistency refuses to store a second; the stored
metadata are those the batch opens to (`MetaStored`), and the factor proofs a player sends name the
seeds of its batch (`FactorsSent`). A result therefore counts players that proved under the same
set of seeds, which holds the seed of each of them (`SameBatch`), and the batches and sums are the same. For the
sum of the private shares, `SumsMatch` shows that `SumOver` of scalars and `PointSum` of their
points run the same recursion, so that the multiple of the one is the other.

*Added users.* `KeysHandedOver`: what old players send, and what a new player stores, names the key of
the old ones; `verify_setup_proofs` compares the sum of the new public shares with it. Refreshes
change what an old player splits, and a second request what it splits it into, so shares of
different requests do not add up; then that comparison fails and nobody finishes. The secret is the old
one because the generator's multiples differ (`GroupLaw`).

*Refreshed keys.* Players take new shares one at a time, with seeds of whatever set the caller
names, and a temporary share can be made twice of one request, cancelled, or committed after
another refresh. `ShareInv` keeps the history in view: every share, held or temporary, is the end of a
chain of shares (`Along`) from the first one, one shift for each entry of its epoch. An epoch that all
players have in common names only refreshes with everybody, since each player is in its own
entries. In such a refresh each seed is added by one player and subtracted by the other, so the
shifts add up to 0 (`ShiftsCancel`, by induction over the players: rows and columns of a
table of opposites), and the sum of the shares is the same at every link
(`OneRefreshOneKey`, by induction along the epoch). Sums modulo the order do not depend on the
order of their terms (`SumAnyOrder`), which `SumOver` leaves to a CHOOSE.

*Presignatures.* A presignature is named by the secrets it was made of. The names in the tables
of a player were drawn, no name is at two indices, and one that is in the store though it was
used has been put back (`Held`, `SpentInStore`); the store forgets what `ecdsa_sign` loads.
Refreshes keep names.

### What stays with TLC

* `PrintedSignatureIsFresh`: the argument of `SignerImplemented` does not carry over, as the demo's
  stores overwrite instead of refusing, so that what ties the sums of a session together is the
  rounds of the relay.
* `SignaturesVerify`, `OnlineSignaturesGood` and `PresignaturesKept`, the second half of
  `SharesAgree`, need the algebra of MTA and ECDSA
  over a field (products and inverses modulo the order, and ids of shares that each refresh
  moves), none of which the SMT backend decides with a symbolic modulus; they are evaluated on a curve
  given by numbers.
* The invariants of `crypto` say what computations give, over moduli, limbs and digits that
  are numbers.
* `SessionsComplete`, `KeygenCompletes`, `SigningCompletes` are liveness under fairness.

## 5. Not modelled

* Serialization, hex and JSON of the demo, logging, and exception classes: no protocol state.
* `mpc_demo_network.cpp` is the older single-file form of the demo.
* Of the curve code, the x86-64 assembly path of the field (curve25519.c:45-251), the tables of
  constants, and the search for primes: a choice among the small ones takes its place.
* SHA-256, SHA-512, HMAC and the OpenSSL BIGNUM and EC functions: external, by what they
  compute (a free injective function for a hash).
* The platform service, except for which player is the client; `backup_key` is a choice of
  success or failure in CmpSetup.
* Memory allocation failures, and the lengths of output buffers where they change no result.

## 6. Plan

1. Done: every service of the library and the demo around it, the cryptography on small
   numbers; nonce use, settled sums, one result, and the ideal signer proved for the asymmetric
   services; nonce use and settled sums for the online EdDSA service; the demo's sessions, their
   refinement and the key generation; presignatures, setup nonces, and finished,
   handed-over and refreshed keys for the CMP services.
2. Next theorems: `PrintedSignatureIsFresh`, from `NonceUsedOnce` and `SumOfDisjoint`; presignatures
   through a refresh (`PresignaturesKept`), as `KeyIsKept` with the products of k and the key;
   of the cryptography, what a field or scalar operation of one limb or digit keeps
   (`ScalarsReduce`, `FieldTracksValue` for any base), and that what is written reads back
   (`EncodingsRoundTrip`).
3. Next models: several blocks in the ECDSA services, three players where acknowledgements
   cross, and an abstract signer for the ECDSA services as IdealSigner is for EdDSA.
