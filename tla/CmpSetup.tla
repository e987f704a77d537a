------------------------------ MODULE CmpSetup ------------------------------
(***************************************************************************)
(* cmp_setup_service: the five rounds that make a key, and the hand-over   *)
(* of a key to new players by add_user, which splits every old share among *)
(* the new players and runs the same rounds from there.                    *)
(*                                                                         *)
(* The stores are those of setup_persistency of setup_test.cpp; a process  *)
(* may stop between two of them, or after the last but before it answers.  *)
(* What a player draws for a key (its share, k, seed and auxiliary keys)   *)
(* is named by the player and a serial, its life.  A commitment is what it *)
(* commits to, and a proof the statement it proves with the aad.           *)
(*                                                                         *)
(* The caller runs the rounds in order and may repeat each of them, with   *)
(* any messages of the round: that create_secret follows a                 *)
(* verify_setup_proofs is nowhere checked.                                 *)
(***************************************************************************)
EXTENDS CmpEcdsaOps

CONSTANTS
    NewPlayers,         \* players the key of Players is handed to
    MaxSetupStops       \* bound: stops and failed backups

ASSUME SetupAssumption ==
    /\ IsFiniteSet(NewPlayers) /\ NewPlayers \subseteq Nat \ Players
    /\ MaxSetupStops \in Nat

VARIABLES
    keys,       \* the entries of a player's stores for its key; each {} or one
    life,       \* serial of a player's current key
    round,      \* rounds its caller has an answer of
    setupStops,
    answered,   \* history: challenges answered with a k
    finished    \* history: results of create_secret

setupVars == <<keys, life, round, setupStops, answered, finished>>

KeyOf(p) == IF p \in Players THEN "key" ELSE "new"
PlayersOf(key) == IF key = "key" THEN Players ELSE NewPlayers
Peers(p) == PlayersOf(KeyOf(p))

NoKey == [meta |-> {}, data |-> {}, aux |-> {}, x |-> {}, comms |-> {}]
KeyExists(p) == keys[p].meta # {} \/ keys[p].aux # {} \/ keys[p].x # {}

\* made: the players that have a key already.
SetupInit(made) ==
    /\ keys = [p \in Players \cup NewPlayers |->
                IF p \in made THEN [NoKey EXCEPT !.meta = {[pub |-> PublicKey, seed |-> {}, info |-> EmptyMap]}]
                ELSE NoKey]
    /\ life = [p \in Players \cup NewPlayers |-> 0]
    /\ round = [p \in Players \cup NewPlayers |-> 0]
    /\ setupStops = 0 /\ answered = {} /\ finished = {}

Sent(type, p) == {m.body : m \in Of(type, p)}
BatchesTo(p, type) == {f \in [Peers(p) -> UNION {Sent(type, q) : q \in Peers(p)}] :
                            \A q \in Peers(p) : f[q] \in Sent(type, q)}

Store(p, entry) == keys' = [keys EXCEPT ![p] = entry]
Answer(p, n, type, body) ==
    /\ Return(p, type, body)
    /\ round' = [round EXCEPT ![p] = IF n > @ THEN n ELSE @]
    /\ UNCHANGED setupStops
\* The process stops, or a call fails, before the caller has an answer.
NoAnswer ==
    /\ setupStops < MaxSetupStops
    /\ setupStops' = setupStops + 1
    /\ UNCHANGED <<msgs, round>>

SetupAad(p, seed) == <<KeyOf(p), p, seed>>
Decommit(data, aux) == [seed |-> data.seed, X |-> data.X, R |-> data.k, aux |-> aux]
Commit(p, d) == [key |-> KeyOf(p), by |-> p, seed |-> d.seed, X |-> d.X, R |-> d.R, aux |-> d.aux]

-----------------------------------------------------------------------------
\* The private generate_setup_commitments, which the first round and add_user
\* end with: four stores, of which a stop leaves the first few.
MakeKey(p, x, pub) ==
    LET id == <<p, life[p] + 1>>
        data == [k |-> id, seed |-> id, X |-> GeneratorMul(x), Rs |-> EmptyMap]
        stored == <<"meta", "data", "aux", "x">>
        entry == [keys[p] EXCEPT !.meta = {[pub |-> pub, seed |-> {}, info |-> EmptyMap]},
                                 !.data = {data}, !.aux = {id}, !.x = {x}]
    IN  /\ ~KeyExists(p)
        /\ life' = [life EXCEPT ![p] = @ + 1]
        /\ \/ /\ Store(p, entry)
              /\ Answer(p, 1, "commitment", Commit(p, Decommit(data, id)))
           \/ \E n \in 1 .. 4 :
                /\ Store(p, [f \in DOMAIN entry |->
                                IF \E i \in 1 .. n : stored[i] = f THEN entry[f] ELSE keys[p][f]])
                /\ NoAnswer
        /\ UNCHANGED <<share, epoch, drawn, answered, finished>>

GenerateSetupCommitments(p) == MakeKey(p, Draw(p, life[p] + 1, 0, "x"), Infinity)

\* A store of commitments that is overwritten.
CommitmentsStorableAgain(entry) == TRUE
\* store_setup_commitments of the persistency refuses a second time.
CommitmentsStorable(entry) == entry.comms = {}

\* Without setup data the own commitment does not open.
StoreSetupCommitments(p) ==
    /\ round[p] >= 1
    /\ \E data \in keys[p].data, aux \in keys[p].aux, batch \in BatchesTo(p, "commitment") :
        /\ batch[p] = Commit(p, Decommit(data, aux))
        /\ CommitmentsStorable(keys[p])
        /\ Store(p, [keys[p] EXCEPT !.comms = {batch}])
        /\ \/ Answer(p, 2, "decommitment", [open |-> Decommit(data, aux), ack |-> batch])
           \/ NoAnswer
    /\ UNCHANGED <<share, epoch, drawn, life, answered, finished>>

\* What the player stores and answers once the decommitments of the batch open
\* the commitments it stored.
AnswerDecommitments(p, meta, comms, data, aux, batch) ==
    LET seed == {batch[q].open.seed : q \in Peers(p)}
        aad == SetupAad(p, seed)
        entry == [keys[p] EXCEPT !.data = {[data EXCEPT !.Rs = [q \in Peers(p) |-> batch[q].open.R]]}]
        whole == [entry EXCEPT !.meta =
                    {[meta EXCEPT !.seed = seed,
                                  !.info = [q \in Peers(p) |-> [X |-> batch[q].open.X, aux |-> batch[q].open.aux]]]}]
    IN  /\ \A q \in Peers(p) : Commit(q, batch[q].open) = comms[q] /\ batch[q].ack = comms
        /\ \/ /\ Store(p, whole)
              /\ Answer(p, 3, "proofs", [schnorr |-> [aad |-> aad, X |-> data.X, R |-> data.k],
                                         auxiliary |-> [aad |-> aad, aux |-> aux]])
              /\ answered' = answered \cup {[k |-> data.k, challenge |-> <<aad, data.X>>]}
           \/ /\ \E e \in {entry, whole} : Store(p, e)
              /\ NoAnswer
              /\ UNCHANGED answered

GenerateSetupProofs(p) ==
    /\ round[p] >= 2
    /\ \E meta \in keys[p].meta, comms \in keys[p].comms, data \in keys[p].data,
          aux \in keys[p].aux, batch \in BatchesTo(p, "decommitment") :
            AnswerDecommitments(p, meta, comms, data, aux, batch)
    /\ UNCHANGED <<share, epoch, drawn, life, finished>>

\* The sum of the public shares without the own, as where proofs are verified.
PublicSumOfOthers(p, info) == PointSum([q \in DOMAIN info \ {p} |-> info[q].X])
PublicSum(p, info) == PointSum([q \in DOMAIN info |-> info[q].X])

\* A sum that is not compared with the key handed over.
SumAcceptedAlways(pub, sum) == TRUE
SumAccepted(pub, sum) == pub # Infinity => sum = pub

VerifySetupProofs(p) ==
    /\ round[p] >= 3
    /\ \E meta \in keys[p].meta, data \in keys[p].data, aux \in keys[p].aux, batch \in BatchesTo(p, "proofs") :
        LET sum == PublicSum(p, meta.info)
        IN  /\ \A q \in Peers(p) \ {p} :
                /\ q \in DOMAIN meta.info /\ q \in DOMAIN data.Rs
                /\ batch[q].schnorr = [aad |-> SetupAad(q, meta.seed), X |-> meta.info[q].X, R |-> data.Rs[q]]
                /\ batch[q].auxiliary = [aad |-> SetupAad(q, meta.seed), aux |-> meta.info[q].aux]
            /\ SumAccepted(meta.pub, sum)
            /\ Store(p, [keys[p] EXCEPT !.meta = {[meta EXCEPT !.pub = IF @ = Infinity THEN sum ELSE @]}])
            /\ \/ Answer(p, 4, "factors",
                         [q \in Peers(p) \ {p} |-> [aad |-> SetupAad(p, meta.seed), aux |-> aux,
                                                    under |-> meta.info[q].aux]])
               \/ NoAnswer
    /\ UNCHANGED <<share, epoch, drawn, life, answered, finished>>

\* The temporary data are deleted before the backup; when that fails, so is
\* the key, and the next attempt is a new life.
CreateSecret(p) ==
    /\ round[p] >= 4
    /\ \E meta \in keys[p].meta, aux \in keys[p].aux, x \in keys[p].x, batch \in BatchesTo(p, "factors") :
        /\ \A q \in Peers(p) \ {p} :
            batch[q][p] = [aad |-> SetupAad(q, meta.seed), aux |-> meta.info[q].aux, under |-> aux]
        /\ \/ /\ Store(p, [keys[p] EXCEPT !.data = {}, !.comms = {}])
              /\ \/ /\ finished' = finished \cup {[by |-> p, id |-> aux, x |-> x, pub |-> meta.pub, info |-> meta.info]}
                    /\ UNCHANGED <<msgs, round, setupStops>>
                 \/ NoAnswer /\ UNCHANGED finished
           \/ /\ Store(p, NoKey)
              /\ setupStops < MaxSetupStops /\ setupStops' = setupStops + 1
              /\ round' = [round EXCEPT ![p] = 0]
              /\ UNCHANGED <<msgs, finished>>
    /\ UNCHANGED <<share, epoch, drawn, life, answered>>

-----------------------------------------------------------------------------
\* add_user_request of an old player: all new players but the last get a
\* random share, the last the rest.  n counts the requests.
AddUserRequest(p, n) ==
    LET last == CHOOSE q \in NewPlayers : \A o \in NewPlayers : q >= o
        drawnFor == [q \in NewPlayers \ {last} |-> Draw(p, n, q, "x")]
        rest == SubScalars(share[p], SumOver(drawnFor))
    IN  /\ \E meta \in keys[p].meta :
            Return(p, "add_user",
                   [pub |-> meta.pub,
                    shares |-> [q \in NewPlayers |-> IF q = last THEN rest ELSE drawnFor[q]]])
        /\ UNCHANGED <<share, epoch, drawn, setupVars>>

\* add_user of a new player, with what the old players sent, of any request.
AddUser(p) ==
    \E batch \in {f \in [Players -> UNION {Sent("add_user", q) : q \in Players}] :
                    \A q \in Players : f[q] \in Sent("add_user", q)} :
        /\ \A q, o \in Players : batch[q].pub = batch[o].pub
        /\ LET first == CHOOSE q \in Players : TRUE
           IN  MakeKey(p, SumOver([q \in Players |-> batch[q].shares[p]]), batch[first].pub)

\* Bounds: lives of a player, requests of an old one.
SetupStep(p, players, maxLives, maxRequests) ==
    \/ p \in players \cap Players /\ life[p] < maxLives /\ GenerateSetupCommitments(p)
    \/ p \in players \cap NewPlayers /\ life[p] < maxLives /\ AddUser(p)
    \/ /\ p \in players
       /\ \/ StoreSetupCommitments(p) \/ GenerateSetupProofs(p)
          \/ VerifySetupProofs(p) \/ CreateSecret(p)
    \/ p \in Players /\ \E n \in 1 .. maxRequests : AddUserRequest(p, n)

-----------------------------------------------------------------------------
(***************************************************************************)
(* k is the randomness of a Schnorr proof of the key share: it answers one *)
(* challenge, whatever is repeated, lost or begun again by another player. *)
(***************************************************************************)
SetupNonceOnce ==
    \A a, b \in answered : a.k = b.k => a.challenge = b.challenge

\* The results of all players whose keys one of them counts.
Complete(f) == \A q \in DOMAIN f.info : \E g \in finished : g.id = f.info[q].aux
ShareOf(id) == (CHOOSE g \in finished : g.id = id).x
SumOfShares(f) == SumOver([q \in DOMAIN f.info |-> ShareOf(f.info[q].aux)])

(***************************************************************************)
(* Players that count each other's keys finish with the same public key    *)
(* and the same public shares, and once they all have, their private       *)
(* shares add up to it.                                                    *)
(***************************************************************************)
FinishedKeysAgree ==
    \A f \in finished :
        /\ \A g \in finished : g.by \in DOMAIN f.info /\ f.info[g.by].aux = g.id
                => g.pub = f.pub /\ g.info = f.info
        /\ Complete(f) => GeneratorMul(SumOfShares(f)) = f.pub

(***************************************************************************)
(* New players that all finish hold the key of the old ones, whatever      *)
(* requests of the old players they took their shares from and whatever    *)
(* the refreshes in between.                                               *)
(***************************************************************************)
AddedUsersHoldTheKey ==
    \A f \in finished : f.by \in NewPlayers =>
        f.pub = PublicKey /\ (Complete(f) => SumOfShares(f) = SumOver(Share0))
=============================================================================
