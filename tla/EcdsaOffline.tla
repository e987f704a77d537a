---------------------------- MODULE EcdsaOffline ----------------------------
(***************************************************************************)
(* cmp_ecdsa_offline_signing_service: presignatures are made in advance,   *)
(* in ranges of indices of a key, and each is consumed by one signature.   *)
(*                                                                         *)
(* Every player runs the same handlers over its own persistency, and may   *)
(* be handed any messages the players produced, of any request.  A handler *)
(* that loops over the indices of a request writes them one by one: it may *)
(* stop between two of them (an exception of the persistency, a crash),    *)
(* without an answer.  The persistency is that of ecdsa_offline_test.cpp.  *)
(***************************************************************************)
EXTENDS CmpEcdsaOps

CONSTANTS
    Reqs,           \* preprocessing request ids
    First(_),       \* start_index of a request
    Count(_),       \* and how many indices it covers
    Txs,            \* transactions of one block
    RandR,          \* protocol_version >= MPC_RAND_R_VERSION
    MaxStops        \* bound: handlers that stop half way

ASSUME OfflineAssumption == \A r \in Reqs : First(r) \in Nat /\ Count(r) \in Nat

Span(r) == First(r) .. First(r) + Count(r) - 1

VARIABLES
    meta,       \* preprocessing_metadata: player -> request -> ack
    work,       \* preprocessing data: player -> request -> index -> data
    pre,        \* presignatures: player -> index -> [k, chi, R] and history
    created,    \* players that called create_preprocessed_data
    stops,      \* handlers that stopped half way
    uses,       \* history: [player, id, tx] of each partial signature
    spent,      \* history: <<player, id>> loaded from the store and deleted
    restored    \* history: <<player, id>> stored again after that

offlineVars == <<meta, work, created, stops>>
useVars == <<uses, spent, restored>>

Restore(p, ids) == restored' = restored \cup ({<<p, id>> : id \in ids} \cap spent)

\* dealt: the presignatures of requests done before; made: by which players.
OfflineInit(dealt, made) ==
    /\ meta = [p \in Players |-> EmptyMap]
    /\ work = [p \in Players |-> EmptyMap]
    /\ pre = dealt
    /\ created = made
    /\ stops = 0
    /\ uses = {} /\ spent = {} /\ restored = {}

\* How many indices of r a handler gets through: all, or fewer when it stops.
Progress(r, j) ==
    /\ j \in 0 .. Count(r)
    /\ IF j = Count(r) THEN stops' = stops ELSE stops < MaxStops /\ stops' = stops + 1

Covered(r, j, i) == i < First(r) + j

-----------------------------------------------------------------------------
\* start_ecdsa_signature_preprocessing
StartPreprocessing(p, r) ==
    /\ r \notin DOMAIN meta[p]
    /\ drawn[p] + Count(r) <= MaxDrawn(p)
    /\ LET data == [i \in Span(r) |-> NewData(p, drawn[p] + 1 + i - First(r))]
       IN  /\ work' = [work EXCEPT ![p] = Put(@, r, data)]
           /\ Return(p, "mta", [i \in Span(r) |-> MtaRequest(r, data[i])])
    /\ meta' = [meta EXCEPT ![p] = Put(@, r, NoAck)]
    /\ drawn' = [drawn EXCEPT ![p] = @ + Count(r)]
    /\ created' = created \cup {p}
    /\ UNCHANGED <<share, epoch, pre, stops, useVars>>

\* The ack is stored before the proofs are looked at: after a call that throws
\* the request is stuck until it is cancelled.
RespondToRequests(p, r, requests, j) ==
    LET proofsOk == \A q \in Others(p), i \in Span(r) : RddhOk(r, q, requests[q][i])
    IN  /\ \A q \in Players : DOMAIN requests[q] = Span(r)
        /\ meta' = [meta EXCEPT ![p][r] = Ack(requests)]
        /\ IF proofsOk
           THEN /\ Progress(r, j)
                /\ work' = [work EXCEPT ![p][r] = [i \in Span(r) |->
                        IF Covered(r, j, i) THEN Responded(@[i], requests, i, epoch[p]) ELSE @[i]]]
                /\ IF j = Count(r)
                   THEN Return(p, "response",
                            [ack |-> Ack(requests),
                             response |-> [i \in Span(r) |->
                                MtaResponse(work[p][r][i], r, requests, i, share[p])]])
                   ELSE msgs' = msgs
           ELSE j = 0 /\ UNCHANGED <<work, msgs, stops>>

OfflineMtaResponse(p, r) ==
    /\ r \in DOMAIN meta[p] /\ meta[p][r] = NoAck
    /\ \E batch \in Batches("mta"), j \in 0 .. Count(r) :
            RespondToRequests(p, r, [q \in Players |-> batch[q].body], j)
    /\ UNCHANGED <<share, epoch, pre, created, drawn, useVars>>

\* The acks of all players are this player's own.
AcksOk(ack, batch) == \A q \in Players : batch[q].body.ack = ack

\* offline_mta_verify: index i is stored before index i + 1 is verified.
VerifyResponses(p, r, responses, j) ==
    LET data == [i \in Span(r) |-> IF Covered(r, j, i)
                    THEN Verified(work[p][r][i], responses, i) ELSE work[p][r][i]]
    IN  /\ \A q \in Others(p) : DOMAIN responses[q] = Span(r)
        /\ \A i \in Span(r) : Covered(r, j, i) => ResponseOk(work[p][r][i], r, responses, i)
        /\ Progress(r, j) /\ j > 0
        /\ work' = [work EXCEPT ![p][r] = data]
        /\ IF j = Count(r)
           THEN Return(p, "deltas", [i \in Span(r) |-> Deltas(data[i], r)])
           ELSE msgs' = msgs

OfflineMtaVerify(p, r) ==
    /\ r \in DOMAIN meta[p]
    /\ \E batch \in Batches("response"), j \in 0 .. Count(r) :
        /\ AcksOk(meta[p][r], batch)
        /\ VerifyResponses(p, r, [q \in Players |-> batch[q].body.response], j)
    /\ UNCHANGED <<share, epoch, meta, pre, created, drawn, useVars>>

\* cmp_signature_preprocessed_data; history: the secrets that make up the
\* presignature, and the epoch of chi.
Presignature(data, deltas, i) ==
    [id |-> data.id, k |-> data.k, chi |-> data.chi, R |-> CalcR(data, deltas, i),
     epoch |-> data.epoch, batch |-> {data.id} \cup {deltas[q][i].id : q \in Others(data.id[1])}]

\* store_presigning_data: calc_R may refuse an index after earlier ones were
\* stored, and the request's data is only deleted at the end.
StoreDeltas(p, r, deltas, j) ==
    LET stored == {i \in Span(r) : Covered(r, j, i)}
    IN  /\ \A q \in Others(p) : DOMAIN deltas[q] = Span(r)
        /\ \A i \in stored : CalcROk(work[p][r][i], r, deltas, i)
        /\ Progress(r, j)
        /\ pre' = [pre EXCEPT ![p] = [i \in stored \cup DOMAIN @ |->
                        IF i \in stored THEN Presignature(work[p][r][i], deltas, i) ELSE @[i]]]
        /\ Restore(p, {work[p][r][i].id : i \in stored})
        /\ IF j = Count(r)
           THEN /\ meta' = [meta EXCEPT ![p] = Without(@, {r})]
                /\ work' = [work EXCEPT ![p] = Without(@, {r})]
           ELSE UNCHANGED <<meta, work>>

StorePresigningData(p, r) ==
    /\ r \in DOMAIN meta[p]
    /\ \E batch \in Batches("deltas"), j \in 1 .. Count(r) :
            StoreDeltas(p, r, [q \in Players |-> batch[q].body], j)
    /\ UNCHANGED <<share, epoch, created, drawn, msgs, uses, spent>>

CancelPreprocessing(p, r) ==
    /\ r \in DOMAIN meta[p]
    /\ meta' = [meta EXCEPT ![p] = Without(@, {r})]
    /\ work' = [work EXCEPT ![p] = Without(@, {r})]
    /\ UNCHANGED <<share, epoch, pre, created, drawn, msgs, stops, useVars>>

-----------------------------------------------------------------------------
\* load_preprocessed_data that forgets to delete.
ConsumeKeeps(store, i) == store

\* load_preprocessed_data deletes what it returns.
Consume(store, i) == Without(store, {i})

\* One player's share of a signature of tx: R is first randomised with a hash
\* that covers the message.
OfflineSig(presig, x, tx) ==
    LET h == IF RandR THEN Hash(presig.R, DerivedKey(tx), Message(tx)) ELSE 1
        R == PointMul(presig.R, h)
        c == Counter(R, tx)
    IN  PartialSig(presig.k, presig.chi, x, PointMul(R, c), h * c, tx)

EcdsaSign(p, tx, i) ==
    /\ i \in DOMAIN pre[p]
    /\ pre' = [pre EXCEPT ![p] = Consume(@, i)]
    /\ LET presig == pre[p][i]
       IN  /\ Return(p, "partial", [tx |-> tx, batch |-> presig.batch, epoch |-> epoch[p],
                                    settled |-> presig.epoch = epoch[p],
                                    sig |-> OfflineSig(presig, share[p], tx)])
           /\ uses' = uses \cup {[player |-> p, id |-> presig.id, tx |-> tx]}
           /\ spent' = spent \cup {<<p, presig.id>>}
    /\ UNCHANGED <<share, epoch, drawn, offlineVars, restored>>

\* ecdsa_offline_signature: r and v of all players agree; the sum is returned
\* as it is, without verifying it.
CombinedOk(batch) ==
    \A q, o \in Players : /\ batch[q].body.sig.r = batch[o].body.sig.r
                          /\ batch[q].body.sig.v = batch[o].body.sig.v

Combined(batch) ==
    LET any == CHOOSE q \in Players : \A o \in Players : q <= o
    IN  MakePositive([batch[any].body.sig EXCEPT
                        !.s = SumOver([q \in Players |-> batch[q].body.sig.s])])

OfflineStep(p, reqs, txs) ==
    \/ \E r \in reqs : \/ StartPreprocessing(p, r)
                       \/ OfflineMtaResponse(p, r)
                       \/ OfflineMtaVerify(p, r)
                       \/ StorePresigningData(p, r)
                       \/ CancelPreprocessing(p, r)
    \/ \E tx \in txs : \E i \in DOMAIN pre[p] : EcdsaSign(p, tx, i)

-----------------------------------------------------------------------------
(***************************************************************************)
(* A presignature makes at most one partial signature: two would reveal    *)
(* the key share.  The exception is one that was put back in the store     *)
(* after it was used: by store_presigning_data called again for a request  *)
(* it had only half stored, or by the commit of a refresh that was         *)
(* prepared before.                                                        *)
(***************************************************************************)
PresignatureOnce ==
    \A u, v \in uses : /\ u.player = v.player /\ u.id = v.id
                       /\ u.tx # v.tx
                       => <<u.player, u.id>> \in restored

(***************************************************************************)
(* The players' partial signatures of one transaction, made from the       *)
(* presignatures of one run of the protocol, add up to a signature of it   *)
(* under the derived key, of low s and with the v that recovers that key.  *)
(* That is so when the players are at the same refresh of the key and the  *)
(* presignatures were made or refreshed for that share; the service does   *)
(* not verify what it returns.                                             *)
(***************************************************************************)
SignaturesVerify ==
    \A batch \in Batches("partial") :
        /\ \A q \in Players : batch[q].body.settled
        /\ \A q, o \in Players : LET a == batch[q].body b == batch[o].body IN
                a.tx = b.tx /\ a.batch = b.batch /\ a.epoch = b.epoch
        => CombinedOk(batch) /\ \A q \in Players : GoodSignature(batch[q].body.tx, Combined(batch))
=============================================================================
