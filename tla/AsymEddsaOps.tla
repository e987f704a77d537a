---------------------------- MODULE AsymEddsaOps ----------------------------
(***************************************************************************)
(* The handlers of asymmetric_eddsa_cosigner_client and _server as         *)
(* operators on the store of the player that runs them.  Each handler X    *)
(* has a guard XOk (every check that would throw passes), the store XDo it *)
(* leaves behind and, where it returns something, its output.  A handler   *)
(* that throws leaves the store alone, except where an operator XFail says *)
(* otherwise.                                                              *)
(*                                                                         *)
(* A client store is [alloc, pre]: pre is the map index -> nonce k.        *)
(* A server store is [alloc, pre, comm, data]: pre is the map index ->     *)
(* client commitment, comm the map txid -> (server -> block ->             *)
(* commitment), data the map txid -> signing metadata [k, R], where k and  *)
(* R are functions of the block.                                           *)
(*                                                                         *)
(* Strict selects the persistency.  TRUE is the contract written in the    *)
(* two headers, as the library's own tests implement it: loading presigned *)
(* data deletes it, and creating, storing commitments or starting twice is *)
(* refused.  FALSE is the demo's MockClientPersistency and                 *)
(* MockServerPersistency: loads keep the data and stores overwrite.        *)
(*                                                                         *)
(* A definition next to another whose name it extends (..Keeps, ..AnyR)    *)
(* is a wrong variant of it, there to show that a property notices.        *)
(***************************************************************************)
EXTENDS EddsaTerms

CONSTANTS
    Client,         \* the id of the client (is_client_id)
    Servers,        \* the ids of the servers
    Txs,            \* the transaction ids
    NBlocks,        \* blocks signed by a transaction
    NIndex,         \* the size of the presigning array
    Start,          \* preprocessed_data_index of a transaction
    Strict          \* which persistency is used, see above

ASSUME PlayersAssumption ==
    /\ Servers \subseteq Nat /\ IsFiniteSet(Servers) /\ Servers # {}
    /\ Client \in Nat \ Servers
ASSUME SizeAssumption ==
    /\ NBlocks \in Nat \ {0}
    /\ NIndex \in Nat
    /\ Start \in [Txs -> Nat]
    /\ Strict \in BOOLEAN

KeyId == "key"
Players == Servers \cup {Client}
Blocks  == 0 .. NBlocks - 1
Indices == 0 .. NIndex - 1

\* The presigning index a block of a transaction uses, and the block itself.
Index(tx, b) == Start[tx] + b
Block(tx, b) == <<tx, b>>

EmptyClient == [alloc |-> FALSE, pre |-> EmptyMap]
EmptyServer == [alloc |-> FALSE, pre |-> EmptyMap,
                comm |-> EmptyMap, data |-> EmptyMap]

-----------------------------------------------------------------------------
\* Client: start_signature_preprocessing over the whole array, ks the nonces.

PreprocessOk(c) == Strict => ~c.alloc
PreprocessDo(c, ks) == [alloc |-> TRUE, pre |-> ks]
PreprocessOut(ks) ==
    [i \in DOMAIN ks |-> CommitToR(KeyId, i, Client, GeneratorMul(ks[i]))]

-----------------------------------------------------------------------------
\* Client: eddsa_sign_offline.  rs maps a server to [Rs, commitment].

ClientRsOk(tx, rs) ==
    /\ DOMAIN rs = Servers
    /\ \A p, q \in Servers : rs[p].Rs = rs[q].Rs
    /\ \A p \in Servers : rs[p].commitment = CommitToRs(tx, p, rs[p].Rs)

ClientLoaded(c, tx) == \A b \in Blocks : Index(tx, b) \in DOMAIN c.pre

ClientSignOk(c, tx, rs) == ClientRsOk(tx, rs) /\ ClientLoaded(c, tx)

\* A client that keeps the nonces it has loaded.
ClientSignDoKeeps(c, tx) == c

ClientSignDo(c, tx) ==
    IF Strict THEN [c EXCEPT !.pre = Drop(@, {Index(tx, b) : b \in Blocks})]
              ELSE c

\* The challenge the client computes for a block, and its partial signature.
ClientHram(c, tx, rs, b) ==
    LET R == GeneratorMul(c.pre[Index(tx, b)])
        first == CHOOSE p \in Servers : \A q \in Servers : p <= q
    IN  Hram(R (+) rs[first].Rs[b], Block(tx, b))

ClientSignOut(c, tx, rs) ==
    [b \in Blocks |->
        LET k == c.pre[Index(tx, b)]
        IN  [R |-> GeneratorMul(k),
             s |-> MulAdd(ClientHram(c, tx, rs, b), Client, k)]]

\* The signing loop throws at the first index with no nonce, when the nonces
\* of the blocks before it have already been loaded, and so deleted.
ClientSignFail(c, tx) ==
    LET before == {b \in Blocks : \A a \in 0 .. b : Index(tx, a) \in DOMAIN c.pre}
    IN  IF Strict THEN [c EXCEPT !.pre = Drop(@, {Index(tx, b) : b \in before})]
                  ELSE c

-----------------------------------------------------------------------------
\* Server: store_presigning_data of the client's commitments.

StorePresigningOk(st) == Strict => ~st.alloc
\* Commitments stored one index further than where they are looked up.
StorePresigningDoShifted(st, commitments) ==
    [st EXCEPT !.alloc = TRUE,
               !.pre = [i \in {j + 1 : j \in DOMAIN commitments} |-> commitments[i - 1]]]

StorePresigningDo(st, commitments) ==
    [st EXCEPT !.alloc = TRUE, !.pre = commitments]

-----------------------------------------------------------------------------
\* Server: eddsa_sign_offline.  status is initialised before the loop over
\* the blocks and never reset, so k is drawn for the first block only.

SignOfflineOk(st, tx) == Strict => tx \notin DOMAIN st.data
SignOfflineDo(st, tx, k) ==
    [st EXCEPT !.data = Put(@, tx, [k |-> [b \in Blocks |-> k],
                                    R |-> [b \in Blocks |-> GeneratorMul(k)]])]
SignOfflineOut(me, tx, k) ==
    [b \in Blocks |-> CommitToR(tx, Index(tx, b), me, GeneratorMul(k))]

TwoPlayers == Cardinality(Players) = 2

-----------------------------------------------------------------------------
\* Server: decommit_r.  commitments maps each server to its commitments; only
\* the caller's own are checked here, those of the others in broadcast_r.

Opens(commitments, p, tx, Rs) ==
    \A b \in Blocks : commitments[b] = CommitToR(tx, Index(tx, b), p, Rs[b])

DecommitOk(st, me, tx, commitments) ==
    /\ tx \in DOMAIN st.data
    /\ DOMAIN commitments = Servers
    /\ Opens(commitments[me], me, tx, st.data[tx].R)
    /\ Strict => tx \notin DOMAIN st.comm
DecommitDo(st, tx, commitments) == [st EXCEPT !.comm = Put(@, tx, commitments)]
DecommitOut(st, tx) == st.data[tx].R

-----------------------------------------------------------------------------
\* Server: broadcast_r.  rs maps each server to its revealed Rs; the stored
\* own R is kept and those of the others are added to it.

BroadcastROk(st, tx, rs) ==
    /\ tx \in DOMAIN st.data
    /\ DOMAIN rs = Servers
    /\ tx \in DOMAIN st.comm
    /\ \A p \in Servers : Opens(st.comm[tx][p], p, tx, rs[p])

CombinedRs(st, me, tx, rs) ==
    [b \in Blocks |->
        AddAll([p \in Servers |-> IF p = me THEN st.data[tx].R[b] ELSE rs[p][b]])]

\* A broadcast_r that leaves the commitments in place.
BroadcastRDoKeeps(st, me, tx, rs) ==
    [st EXCEPT !.data[tx].R = CombinedRs(st, me, tx, rs)]

BroadcastRDo(st, me, tx, rs) ==
    [st EXCEPT !.comm = Drop(@, {tx}),
               !.data[tx].R = CombinedRs(st, me, tx, rs)]
BroadcastROut(st, me, tx, rs) ==
    LET Rs == CombinedRs(st, me, tx, rs)
    IN  [Rs |-> Rs, commitment |-> CommitToRs(tx, me, Rs)]

-----------------------------------------------------------------------------
\* Server: broadcast_si on the client's partial signatures.  The client's s is
\* not verified (the call of verify_client_s is commented out).

ClientRMatches(st, tx, psigs, b) ==
    /\ Index(tx, b) \in DOMAIN st.pre
    /\ st.pre[Index(tx, b)] = CommitToR(KeyId, Index(tx, b), Client, psigs[b].R)

BroadcastSiOk(st, tx, psigs) ==
    /\ tx \in DOMAIN st.data
    /\ \A b \in Blocks : ClientRMatches(st, tx, psigs, b)

\* The min id of the players the result goes to adds the client's s.
MinSigner == CHOOSE p \in Servers : \A q \in Servers : p <= q

ServerHram(st, tx, psigs, b) ==
    Hram(st.data[tx].R[b] (+) psigs[b].R, Block(tx, b))

\* A broadcast_si in which every server adds the client's s.
BroadcastSiOutAddsAlways(st, me, tx, psigs) ==
    [b \in Blocks |->
        [R |-> st.data[tx].R[b] (+) psigs[b].R,
         s |-> AddScalars(MulAdd(ServerHram(st, tx, psigs, b), me, st.data[tx].k[b]),
                          psigs[b].s)]]

BroadcastSiOut(st, me, tx, psigs) ==
    [b \in Blocks |->
        LET own == MulAdd(ServerHram(st, tx, psigs, b), me, st.data[tx].k[b])
        IN  [R |-> st.data[tx].R[b] (+) psigs[b].R,
             s |-> IF TwoPlayers \/ me = MinSigner
                   THEN AddScalars(own, psigs[b].s) ELSE own]]

\* A broadcast_si that keeps the client commitments it has loaded.
BroadcastSiDoKeeps(st, tx, psigs) ==
    [st EXCEPT !.data = Put(@, tx,
        [@[tx] EXCEPT !.R = [b \in Blocks |-> @[b] (+) psigs[b].R]])]

BroadcastSiDo(st, tx, psigs) ==
    LET used == {Index(tx, b) : b \in Blocks}
        R    == [b \in Blocks |-> st.data[tx].R[b] (+) psigs[b].R]
    IN  [st EXCEPT !.pre = IF Strict THEN Drop(@, used) ELSE @,
                   !.data = IF TwoPlayers THEN Drop(@, {tx})
                            ELSE Put(@, tx, [@[tx] EXCEPT !.R = R])]

\* A commitment that does not match throws after it was loaded, and so
\* deleted, together with those of the blocks before it.
BroadcastSiFail(st, tx, psigs) ==
    LET loaded == {b \in Blocks : \A a \in 0 .. b : a # b => ClientRMatches(st, tx, psigs, a)}
    IN  IF Strict THEN [st EXCEPT !.pre = Drop(@, {Index(tx, b) : b \in loaded})]
                  ELSE st

-----------------------------------------------------------------------------
\* Server: get_eddsa_signature.  sigs maps each server to its signatures; the
\* result is not verified (the call of ed25519_verify is commented out).

\* A get_eddsa_signature that does not compare the Rs with its own.
GetSignatureOkAnyR(st, tx, sigs) == tx \in DOMAIN st.data /\ DOMAIN sigs = Servers

GetSignatureOk(st, tx, sigs) ==
    /\ tx \in DOMAIN st.data
    /\ DOMAIN sigs = Servers
    /\ \A p \in Servers, b \in Blocks : sigs[p][b].R = st.data[tx].R[b]
GetSignatureDo(st, tx) == [st EXCEPT !.data = Drop(@, {tx})]
GetSignatureOut(st, tx, sigs) ==
    [b \in Blocks |->
        [R |-> st.data[tx].R[b],
         s |-> SumScalars([p \in Servers |-> sigs[p][b].s])]]

\* Server: cancel_signing.
CancelDo(st, tx) == [st EXCEPT !.comm = Drop(@, {tx}), !.data = Drop(@, {tx})]
=============================================================================
