----------------------------- MODULE EcdsaOnline -----------------------------
(***************************************************************************)
(* cmp_ecdsa_online_signing_service: the four rounds of an interactive     *)
(* ECDSA signature.  Each handler loads the data of a transaction, checks  *)
(* what it is given, and stores the data again; the last one verifies the  *)
(* signature and deletes it.  A player may be handed any messages of a     *)
(* round, of this transaction's earlier attempts or of others.             *)
(*                                                                         *)
(* One block of a transaction is modelled: blocks share the ack and are    *)
(* otherwise handled one by one.  The persistency is that of               *)
(* ecdsa_online_test.cpp; the timing map is as built without MOBILE.       *)
(***************************************************************************)
EXTENDS CmpEcdsaOps

VARIABLES
    signing,    \* cmp_signing_metadata: player -> tx -> [ack, data]
    timing,     \* the transactions of a player's timing map
    finals      \* history: [player, tx, sig] returned by get_cmp_signature

onlineVars == <<signing, timing, finals>>

OnlineInit ==
    /\ signing = [p \in Players |-> EmptyMap]
    /\ timing = [p \in Players |-> {}]
    /\ finals = {}

\* One block, as the batches of the shared operators.
Block(body) == <<body>>
Bodies(batch) == [q \in Players |-> Block(batch[q].body)]

Update(p, tx, data) == signing' = [signing EXCEPT ![p][tx].data = data]

StartSigning(p, tx) ==
    /\ tx \notin DOMAIN signing[p]
    /\ drawn[p] < MaxDrawn(p)
    /\ drawn' = [drawn EXCEPT ![p] = @ + 1]
    /\ LET data == NewData(p, drawn[p] + 1)
       IN  /\ signing' = [signing EXCEPT ![p] = Put(@, tx, [ack |-> NoAck, data |-> data])]
           /\ Return(p, "online mta", MtaRequest(tx, data))
    /\ UNCHANGED <<share, epoch, timing, finals>>

\* mta_response: ack and timing entry are stored before the proofs are checked.
OnlineMtaResponse(p, tx) ==
    /\ tx \in DOMAIN signing[p] /\ signing[p][tx].ack = NoAck
    /\ timing' = [timing EXCEPT ![p] = @ \cup {tx}]
    /\ \E batch \in Batches("online mta") :
        LET requests == Bodies(batch)
            data == signing[p][tx].data
            Answered == [ack |-> Ack(requests), data |-> Responded(data, requests, 1, epoch[p])]
        IN  IF \A q \in Others(p) : RddhOk(tx, q, requests[q][1])
            THEN /\ signing' = [signing EXCEPT ![p][tx] = Answered]
                 /\ Return(p, "online response",
                        [ack |-> Ack(requests),
                         response |-> MtaResponse(data, tx, requests, 1, share[p])])
            ELSE signing' = [signing EXCEPT ![p][tx].ack = Ack(requests)] /\ msgs' = msgs
    /\ UNCHANGED <<share, epoch, drawn, finals>>

OnlineMtaVerify(p, tx) ==
    /\ tx \in DOMAIN signing[p]
    /\ \E batch \in Batches("online response") :
        LET responses == [q \in Players |-> Block(batch[q].body.response)]
            data == signing[p][tx].data
        IN  /\ \A q \in Players : batch[q].body.ack = signing[p][tx].ack
            /\ ResponseOk(data, tx, responses, 1)
            /\ Update(p, tx, Verified(data, responses, 1))
            /\ Return(p, "online deltas", Deltas(Verified(data, responses, 1), tx))
    /\ UNCHANGED <<share, epoch, drawn, timing, finals>>

\* get_si: calc_R forgets the requests, so that it cannot be called again.
GetSi(p, tx) ==
    /\ tx \in DOMAIN signing[p]
    /\ \E batch \in Batches("online deltas") :
        LET deltas == Bodies(batch)
            data == signing[p][tx].data
            R == CalcR(data, deltas, 1)
            c == Counter(R, tx)
        IN  /\ CalcROk(data, tx, deltas, 1)
            /\ Update(p, tx, [data EXCEPT !.R = PointMul(R, c), !.pub = EmptyMap,
                                          !.delta = ScalarInverse(SumDelta(data, deltas, 1))])
            /\ Return(p, "si", [tx |-> tx, s |->
                        PartialSig(data.k, data.chi, share[p], PointMul(R, c), c, tx).s])
    /\ UNCHANGED <<share, epoch, drawn, timing, finals>>

GetCmpSignature(p, tx) ==
    /\ tx \in DOMAIN signing[p]
    /\ \E batch \in Batches("si") :
        LET R == signing[p][tx].data.R
            sig == MakePositive([r |-> Projection(R), v |-> RecoveryId(R),
                                 s |-> SumOver([q \in Players |-> batch[q].body.s])])
        IN  /\ R # Infinity
            /\ VerifySignature(DerivedKey(tx), Message(tx), sig.r, sig.s) = "success"
            /\ finals' = finals \cup {[player |-> p, tx |-> tx, sig |-> sig]}
    /\ signing' = [signing EXCEPT ![p] = Without(@, {tx})]
    /\ timing' = [timing EXCEPT ![p] = @ \ {tx}]
    /\ UNCHANGED <<share, epoch, drawn, msgs>>

\* cancel_signing leaves the timing map alone.
CancelSigning(p, tx) ==
    /\ tx \in DOMAIN signing[p]
    /\ signing' = [signing EXCEPT ![p] = Without(@, {tx})]
    /\ UNCHANGED <<share, epoch, drawn, msgs, timing, finals>>

OnlineStep(p, tx) ==
    \/ StartSigning(p, tx)
    \/ OnlineMtaResponse(p, tx)
    \/ OnlineMtaVerify(p, tx)
    \/ GetSi(p, tx)
    \/ GetCmpSignature(p, tx)
    \/ CancelSigning(p, tx)

-----------------------------------------------------------------------------
(***************************************************************************)
(* What get_cmp_signature returns is a signature of the transaction, low   *)
(* s, whose v recovers the derived key, also when a player restarted, was  *)
(* handed old messages or refreshed its share half way: the service        *)
(* verifies r and s, never v.  And all players return the same one of an R.*)
(***************************************************************************)
OnlineSignaturesGood ==
    /\ \A f \in finals : GoodSignature(f.tx, f.sig)
    /\ \A f, g \in finals : f.tx = g.tx /\ f.sig.r = g.sig.r => f.sig = g.sig
=============================================================================
