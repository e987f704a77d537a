------------------------------ MODULE AsymEddsa ------------------------------
(***************************************************************************)
(* The asymmetric EdDSA services of one key driven by arbitrary callers.   *)
(*                                                                         *)
(* A caller may invoke any handler of AsymEddsaOps at any time, with any   *)
(* messages the players have produced for that transaction: msgs only      *)
(* grows, so messages are delayed, reordered, repeated and ignored at      *)
(* will, and a transaction id can be cancelled and started again.  A call  *)
(* that throws without changing a store is a stutter and is not an action. *)
(***************************************************************************)
EXTENDS AsymEddsaOps

CONSTANTS
    MaxDraw,    \* bound: nonces a server may draw
    MaxPre,     \* bound: calls of start_signature_preprocessing
    Cancels     \* whether callers may cancel a transaction on a server

ASSUME BoundAssumption ==
    MaxDraw \in Nat /\ MaxPre \in Nat /\ Cancels \in BOOLEAN

VARIABLES
    cli,        \* the client's store
    srv,        \* the store of each server
    drawn,      \* how many nonces a player has drawn
    msgs,       \* the messages produced so far
    finals,     \* the signatures returned as final: [tx, by, sigs]
    uses        \* history: <<player, nonce, challenge>> of each share returned

vars == <<cli, srv, drawn, msgs, finals, uses>>

\* A nonce is named by the player that drew it and a serial number.
Nonce == Players \X Nat
NextNonce(p) == <<p, drawn[p] + 1>>

Of(type, tx) == {m \in msgs : m.type = type /\ m.tx = tx}

\* Maps from the servers to messages of that type and transaction.
Batches(type, tx) ==
    {f \in [Servers -> Of(type, tx)] : \A p \in Servers : f[p].from = p}

Init ==
    /\ cli = EmptyClient
    /\ srv = [s \in Servers |-> EmptyServer]
    /\ drawn = [p \in Players |-> 0]
    /\ msgs = {}
    /\ finals = {}
    /\ uses = {}

-----------------------------------------------------------------------------

StartPreprocessing ==
    /\ PreprocessOk(cli)
    /\ drawn[Client] < MaxPre * NIndex
    /\ LET ks == [i \in Indices |-> <<Client, drawn[Client] + i + 1>>]
       IN  /\ cli' = PreprocessDo(cli, ks)
           /\ msgs' = msgs \cup {[type |-> "presign", commitments |-> PreprocessOut(ks)]}
    /\ drawn' = [drawn EXCEPT ![Client] = @ + NIndex]
    /\ UNCHANGED <<srv, finals, uses>>

StorePresigning(s) ==
    /\ StorePresigningOk(srv[s])
    /\ \E m \in msgs :
        /\ m.type = "presign"
        /\ srv' = [srv EXCEPT ![s] = StorePresigningDo(@, m.commitments)]
    /\ UNCHANGED <<cli, drawn, msgs, finals, uses>>

\* With two players the server answers with its R at once, without commitment.
SignOffline(s, tx) ==
    /\ SignOfflineOk(srv[s], tx)
    /\ drawn[s] < MaxDraw
    /\ LET k == NextNonce(s)
           R == [b \in Blocks |-> GeneratorMul(k)]
       IN  /\ srv' = [srv EXCEPT ![s] = SignOfflineDo(@, tx, k)]
           /\ msgs' = msgs \cup
                {IF TwoPlayers
                 THEN [type |-> "Rs", tx |-> tx, from |-> s,
                       rs |-> [Rs |-> R, commitment |-> CommitToRs(tx, s, R)]]
                 ELSE [type |-> "commit", tx |-> tx, from |-> s,
                       commitments |-> SignOfflineOut(s, tx, k)]}
    /\ drawn' = [drawn EXCEPT ![s] = @ + 1]
    /\ UNCHANGED <<cli, finals, uses>>

DecommitR(s, tx) ==
    /\ \E f \in Batches("commit", tx) :
        LET commitments == [p \in Servers |-> f[p].commitments]
        IN  /\ DecommitOk(srv[s], s, tx, commitments)
            /\ srv' = [srv EXCEPT ![s] = DecommitDo(@, tx, commitments)]
    /\ msgs' = msgs \cup {[type |-> "reveal", tx |-> tx, from |-> s,
                           Rs |-> DecommitOut(srv[s], tx)]}
    /\ UNCHANGED <<cli, drawn, finals, uses>>

BroadcastR(s, tx) ==
    /\ \E f \in Batches("reveal", tx) :
        LET rs == [p \in Servers |-> f[p].Rs]
        IN  /\ BroadcastROk(srv[s], tx, rs)
            /\ srv' = [srv EXCEPT ![s] = BroadcastRDo(@, s, tx, rs)]
            /\ msgs' = msgs \cup {[type |-> "Rs", tx |-> tx, from |-> s,
                                   rs |-> BroadcastROut(srv[s], s, tx, rs)]}
    /\ UNCHANGED <<cli, drawn, finals, uses>>

ClientSign(tx) ==
    \E f \in Batches("Rs", tx) :
        LET rs == [p \in Servers |-> f[p].rs]
        IN  /\ ClientSignOk(cli, tx, rs)
            /\ cli' = ClientSignDo(cli, tx)
            /\ msgs' = msgs \cup {[type |-> "psig", tx |-> tx,
                                   sigs |-> ClientSignOut(cli, tx, rs)]}
            /\ uses' = uses \cup {<<Client, cli.pre[Index(tx, b)],
                                    ClientHram(cli, tx, rs, b)>> : b \in Blocks}
            /\ UNCHANGED <<srv, drawn, finals>>

\* The call throws in its loop because an index holds no nonce.
ClientSignFails(tx) ==
    /\ \E f \in Batches("Rs", tx) : ClientRsOk(tx, [p \in Servers |-> f[p].rs])
    /\ ~ClientLoaded(cli, tx)
    /\ cli' = ClientSignFail(cli, tx)
    /\ UNCHANGED <<srv, drawn, msgs, finals, uses>>

BroadcastSi(s, tx) ==
    \E m \in Of("psig", tx) :
        /\ BroadcastSiOk(srv[s], tx, m.sigs)
        /\ srv' = [srv EXCEPT ![s] = BroadcastSiDo(@, tx, m.sigs)]
        /\ LET sigs == BroadcastSiOut(srv[s], s, tx, m.sigs)
           IN  IF TwoPlayers
               THEN /\ finals' = finals \cup {[tx |-> tx, by |-> s, sigs |-> sigs]}
                    /\ msgs' = msgs
               ELSE /\ msgs' = msgs \cup {[type |-> "si", tx |-> tx, from |-> s,
                                           sigs |-> sigs]}
                    /\ finals' = finals
        /\ uses' = uses \cup {<<s, srv[s].data[tx].k[b],
                                ServerHram(srv[s], tx, m.sigs, b)>> : b \in Blocks}
        /\ UNCHANGED <<cli, drawn>>

\* The call throws in its loop because a client R does not open the commitment.
BroadcastSiFails(s, tx) ==
    /\ tx \in DOMAIN srv[s].data
    /\ \E m \in Of("psig", tx) :
        /\ ~BroadcastSiOk(srv[s], tx, m.sigs)
        /\ srv' = [srv EXCEPT ![s] = BroadcastSiFail(@, tx, m.sigs)]
    /\ UNCHANGED <<cli, drawn, msgs, finals, uses>>

GetSignature(s, tx) ==
    /\ \E f \in Batches("si", tx) :
        LET sigs == [p \in Servers |-> f[p].sigs]
        IN  /\ GetSignatureOk(srv[s], tx, sigs)
            /\ finals' = finals \cup {[tx |-> tx, by |-> s,
                                       sigs |-> GetSignatureOut(srv[s], tx, sigs)]}
    /\ srv' = [srv EXCEPT ![s] = GetSignatureDo(@, tx)]
    /\ UNCHANGED <<cli, drawn, msgs, uses>>

CancelSigning(s, tx) ==
    /\ Cancels
    /\ srv' = [srv EXCEPT ![s] = CancelDo(@, tx)]
    /\ UNCHANGED <<cli, drawn, msgs, finals, uses>>

ServerStep(s, tx) ==
    \/ SignOffline(s, tx)
    \/ DecommitR(s, tx)
    \/ BroadcastR(s, tx)
    \/ BroadcastSi(s, tx)
    \/ BroadcastSiFails(s, tx)
    \/ GetSignature(s, tx)
    \/ CancelSigning(s, tx)

Next ==
    \/ StartPreprocessing
    \/ \E s \in Servers : StorePresigning(s)
    \/ \E tx \in Txs : ClientSign(tx)
    \/ \E tx \in Txs : ClientSignFails(tx)
    \/ \E s \in Servers, tx \in Txs : ServerStep(s, tx)

Spec == Init /\ [][Next]_vars

-----------------------------------------------------------------------------
\* Properties

IsMap(f, S, T) == DOMAIN f \subseteq S /\ f \in [DOMAIN f -> T]

IsClientStore(c) ==
    /\ DOMAIN c = {"alloc", "pre"}
    /\ c.alloc \in BOOLEAN
    /\ IsMap(c.pre, Indices, Nonce)

IsServerStore(st) ==
    /\ DOMAIN st = {"alloc", "pre", "comm", "data"}
    /\ st.alloc \in BOOLEAN
    /\ DOMAIN st.pre \subseteq Indices
    /\ DOMAIN st.comm \subseteq Txs
    /\ DOMAIN st.data \subseteq Txs
    /\ \A tx \in DOMAIN st.data :
        /\ DOMAIN st.data[tx] = {"k", "R"}
        /\ st.data[tx].k \in [Blocks -> Nonce]

\* The stores hold what their names say, at indices and transactions that
\* exist; every recorded use names a player and a nonce.
TypeOK ==
    /\ IsClientStore(cli)
    /\ srv = [s \in Servers |-> srv[s]]
    /\ \A s \in Servers : IsServerStore(srv[s])
    /\ drawn \in [Players -> Nat]
    /\ \A u \in uses : u = <<u[1], u[2], u[3]>> /\ u[1] \in Players /\ u[2] \in Nonce

\* A nonce of the client answers at most one challenge, whatever callers do:
\* sign twice, sign two transactions from the same index, or sign again after
\* a transaction was cancelled.  (Two answers would reveal the key share.  It
\* rests on load_preprocessed_data deleting what it loads.)
ClientNonceOnce ==
    \A u, v \in uses : u[1] = Client /\ u[2] = v[2] => u = v

\* The same for the servers.  (They have no nonce store: it rests on a second
\* broadcast_si finding the client's commitment gone.)
ServerNonceOnce ==
    \A u, v \in uses : u[1] \in Servers /\ u[2] = v[2] => u = v

\* Once a server has drawn a nonce, at most one sum of Rs that contains it is
\* ever sent to the client, however often a transaction is cancelled, started
\* again or its messages replayed: decommit_r fixes the addends before it
\* reveals, and broadcast_r adds exactly those, once.
OneSumPerNonce ==
    \A m, o \in {x \in msgs : x.type = "Rs"} :
        (\E b, c \in Blocks :
            \E k \in DOMAIN m.rs.Rs[b] \cap DOMAIN o.rs.Rs[c] :
                k[1] = m.from /\ k[1] = o.from)
        => m = o

\* Servers that both finish a transaction return the same signatures, even
\* when it was cancelled and started again in between.
FinalsAgree == \A f, g \in finals : f.tx = g.tx => f.sigs = g.sigs

\* As long as no transaction id is started twice, the services implement the
\* ideal signer: one verifying signature per transaction, on nonces of its own.
Ideal == INSTANCE IdealSigner WITH signed <- {<<f.tx, f.sigs>> : f \in finals}
ImplementsIdealSigner == Ideal!Spec
=============================================================================
