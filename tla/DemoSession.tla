----------------------------- MODULE DemoSession -----------------------------
(***************************************************************************)
(* The demo's menu loop: after key generation each node repeatedly picks a *)
(* transaction id, runs PreprocessingOrchestrator and SigningOrchestrator, *)
(* and returns to the menu, talking to the others through the relay only.  *)
(*                                                                         *)
(* The services are those of AsymEddsaOps with the demo's persistencies.   *)
(* A round of a node is two steps: it posts what it computed (out), then,  *)
(* at some later time, polls successfully, calls the service and has the   *)
(* next message to post.  The pc of a node names what it does next.        *)
(*                                                                         *)
(* The demo signs one fixed text; here every transaction id signs a text   *)
(* of its own, so that a share computed for another session is seen.       *)
(***************************************************************************)
EXTENDS AsymEddsaOps, Relay, Sequences

CONSTANTS
    Scripts,    \* bound: the sequences of transaction ids users may choose
    MayCancel,  \* whether a user may answer the prompt with something else
    MaxLost,    \* bound: how many broadcasts are lost (the curl result is unused)
    MayReset    \* whether the relay may be reset or restarted in between

ASSUME DemoAssumption ==
    /\ Client = 1 /\ ~Strict /\ \A tx \in Txs : Start[tx] = 0
    /\ \A sc \in Scripts : sc \in Seq(Txs)
    /\ \A sc, sd \in Scripts : Len(sc) = Len(sd)
    /\ {MayCancel, MayReset} \subseteq BOOLEAN /\ MaxLost \in Nat

VARIABLES
    script,     \* the sequence of transaction ids each user follows
    lost,       \* how many broadcasts have been lost
    relay,      \* the relay's store
    pc,         \* what each node does next
    cur,        \* the transaction id of each node's current session
    turn,       \* how many sessions each node has begun
    out,        \* the message a node is about to post
    cli, srv,   \* the stores of the client and of the servers
    drawn,      \* how many nonces each node has drawn
    printed,    \* the signatures node 1 printed as a success
    said,       \* history: every message a service produced
    finals,     \* history: every signature get_eddsa_signature returned
    uses        \* history: as in AsymEddsa

limits      == <<script, lost>>
nodeVars    == <<pc, cur, turn, out>>
serviceVars == <<cli, srv, drawn>>
historyVars == <<said, finals, uses>>
vars == <<limits, relay, nodeVars, serviceVars, printed, historyVars>>

Turns == Len(CHOOSE sc \in Scripts : TRUE)

Init ==
    /\ script \in [Players -> Scripts]
    /\ lost = 0
    /\ relay = EmptyStore
    /\ pc = [n \in Players |-> "menu"]
    /\ cur = [n \in Players |-> CHOOSE tx \in Txs : TRUE]
    /\ turn = [n \in Players |-> 0]
    /\ out = [n \in Players |-> {}]
    /\ cli = EmptyClient
    /\ srv = [s \in Servers |-> EmptyServer]
    /\ drawn = [n \in Players |-> 0]
    /\ printed = {}
    /\ said = {} /\ finals = {} /\ uses = {}

-----------------------------------------------------------------------------
\* Network steps.  A round id is <<kind, txid>>.

Goto(n, label) == pc' = [pc EXCEPT ![n] = label]

\* The node is about to post m, then continues at label.
Prepare(n, m, label) ==
    /\ out' = [out EXCEPT ![n] = {[data |-> m, then |-> label]}]
    /\ Goto(n, "post")

\* Round ids that do not name the transaction.
RoundNoTx(kind, n) == <<kind, "tx">>

Round(kind, n) == <<kind, cur[n]>>
Got(kind, n)   == Answer(relay, Round(kind, n))
Await(kind, n, expected) ==
    /\ pc[n] = kind
    /\ Ready(relay, Round(kind, n), expected)

\* NetworkManager::broadcast; m.type names the round of the transaction.
Broadcast(n) ==
    /\ pc[n] = "post"
    /\ \E m \in out[n] :
        /\ relay' = Post(relay, Round(m.data.type, n), n, m.data)
        /\ Goto(n, m.then)
    /\ out' = [out EXCEPT ![n] = {}]
    /\ UNCHANGED <<limits, cur, turn, serviceVars, printed, historyVars>>

\* The same call when the request fails: nothing is stored, and nobody knows.
LoseBroadcast(n) ==
    /\ lost < MaxLost
    /\ pc[n] = "post"
    /\ \E m \in out[n] : Goto(n, m.then)
    /\ out' = [out EXCEPT ![n] = {}]
    /\ lost' = lost + 1
    /\ UNCHANGED <<script, relay, cur, turn, serviceVars, printed, historyVars>>

\* An exception of the signing flow is caught and reported: back to the menu.
Abort(n) ==
    /\ Goto(n, "menu")
    /\ UNCHANGED <<limits, relay, cur, turn, out, serviceVars, printed, historyVars>>

-----------------------------------------------------------------------------
\* main and PreprocessingOrchestrator::run

\* A menu loop that preprocesses in its first session only.
ChooseTxPreprocessesOnce(n) ==
    /\ pc[n] = "menu" /\ turn[n] < Turns
    /\ turn' = [turn EXCEPT ![n] = @ + 1]
    /\ cur' = [cur EXCEPT ![n] = script[n][turn'[n]]]
    /\ Goto(n, IF turn[n] > 0 THEN "prompt"
               ELSE IF n = Client THEN "preprocess" ELSE "presign")
    /\ UNCHANGED <<limits, relay, out, serviceVars, printed, historyVars>>

ChooseTx(n) ==
    /\ pc[n] = "menu" /\ turn[n] < Turns
    /\ turn' = [turn EXCEPT ![n] = @ + 1]
    /\ cur' = [cur EXCEPT ![n] = script[n][turn'[n]]]
    /\ Goto(n, IF n = Client THEN "preprocess" ELSE "presign")
    /\ UNCHANGED <<limits, relay, out, serviceVars, printed, historyVars>>

ClientPreprocess ==
    /\ pc[Client] = "preprocess"
    /\ LET ks == [i \in Indices |-> <<Client, drawn[Client] + i + 1>>]
           m  == [type |-> "presign", commitments |-> PreprocessOut(ks)]
       IN  /\ cli' = PreprocessDo(cli, ks)
           /\ Prepare(Client, m, "prompt")
           /\ said' = said \cup {m}
    /\ drawn' = [drawn EXCEPT ![Client] = @ + NIndex]
    /\ UNCHANGED <<limits, relay, cur, turn, srv, printed, finals, uses>>

ServerPreprocess(s) ==
    /\ Await("presign", s, 1)
    /\ srv' = [srv EXCEPT ![s] =
                  StorePresigningDo(@, Got("presign", s)[Client].commitments)]
    /\ Goto(s, "prompt")
    /\ UNCHANGED <<limits, relay, cur, turn, out, cli, drawn, printed, historyVars>>

-----------------------------------------------------------------------------
\* SigningOrchestrator::run: the prompt and the barrier

UserStarts(n) ==
    /\ pc[n] = "prompt"
    /\ Prepare(n, [type |-> "ready"], "ready")
    /\ UNCHANGED <<limits, relay, cur, turn, serviceVars, printed, historyVars>>

UserCancels(n) ==
    /\ MayCancel
    /\ pc[n] = "prompt"
    /\ Abort(n)

ClientReady ==
    /\ Await("ready", Client, Cardinality(Players))
    /\ Goto(Client, "commit")
    /\ UNCHANGED <<limits, relay, cur, turn, out, serviceVars, printed, historyVars>>

\* The check of the presigned data, then eddsa_sign_offline.  Without the data
\* the exception is thrown outside the try block of run: the process ends.
ServerReady(s) ==
    LET k == <<s, drawn[s] + 1>>
        m == [type |-> "commit", tx |-> cur[s], from |-> s,
              commitments |-> SignOfflineOut(s, cur[s], k)]
    IN  /\ Await("ready", s, Cardinality(Players))
        /\ IF 0 \in DOMAIN srv[s].pre
           THEN /\ srv' = [srv EXCEPT ![s] = SignOfflineDo(@, cur[s], k)]
                /\ Prepare(s, m, "commit")
                /\ said' = said \cup {m}
                /\ drawn' = [drawn EXCEPT ![s] = @ + 1]
           ELSE Goto(s, "dead") /\ UNCHANGED <<srv, out, said, drawn>>
        /\ UNCHANGED <<limits, relay, cur, turn, cli, printed, finals, uses>>

-----------------------------------------------------------------------------
\* SigningOrchestrator::run_server_signing

\* Own data, and what the relay holds of the other servers.
WithOthers(s, mine, kind) ==
    [p \in (DOMAIN Got(kind, s) \cap Servers) \cup {s} |->
        IF p = s THEN mine ELSE Got(kind, s)[p]]

\* server_R_commitments is still what eddsa_sign_offline returned.
OwnCommitments(s) == SignOfflineOut(s, cur[s], srv[s].data[cur[s]].k[0])

ServerDecommit(s) ==
    LET got == WithOthers(s, [commitments |-> OwnCommitments(s)], "commit")
        commitments == [p \in DOMAIN got |-> got[p].commitments]
        m == [type |-> "reveal", tx |-> cur[s], from |-> s,
              Rs |-> DecommitOut(srv[s], cur[s])]
    IN  /\ Await("commit", s, 2)
        /\ IF DecommitOk(srv[s], s, cur[s], commitments)
           THEN /\ srv' = [srv EXCEPT ![s] = DecommitDo(@, cur[s], commitments)]
                /\ Prepare(s, m, "reveal")
                /\ said' = said \cup {m}
                /\ UNCHANGED <<limits, relay, cur, turn, cli, drawn, printed, finals, uses>>
           ELSE Abort(s)

ServerBroadcastR(s) ==
    LET got == WithOthers(s, [Rs |-> DecommitOut(srv[s], cur[s])], "reveal")
        rs  == [p \in DOMAIN got |-> got[p].Rs]
        m == [type |-> "Rs", tx |-> cur[s], from |-> s,
              rs |-> BroadcastROut(srv[s], s, cur[s], rs)]
    IN  /\ Await("reveal", s, 2)
        /\ IF BroadcastROk(srv[s], cur[s], rs)
           THEN /\ srv' = [srv EXCEPT ![s] = BroadcastRDo(@, s, cur[s], rs)]
                /\ Prepare(s, m, "psig")
                /\ said' = said \cup {m}
                /\ UNCHANGED <<limits, relay, cur, turn, cli, drawn, printed, finals, uses>>
           ELSE Abort(s)

ServerBroadcastSi(s) ==
    LET psigs == Got("psig", s)[Client].sigs
        m == [type |-> "si", tx |-> cur[s], from |-> s,
              sigs |-> BroadcastSiOut(srv[s], s, cur[s], psigs)]
    IN  /\ Await("psig", s, 1)
        /\ IF BroadcastSiOk(srv[s], cur[s], psigs)
           THEN /\ srv' = [srv EXCEPT ![s] = BroadcastSiDo(@, cur[s], psigs)]
                /\ Prepare(s, m, "si")
                /\ said' = said \cup {m}
                /\ uses' = uses \cup {<<s, srv[s].data[cur[s]].k[b],
                                        ServerHram(srv[s], cur[s], psigs, b)>> : b \in Blocks}
                /\ UNCHANGED <<limits, relay, cur, turn, cli, drawn, printed, finals>>
           ELSE Abort(s)

ServerGetSignature(s) ==
    LET sigs == [p \in DOMAIN Got("si", s) |-> Got("si", s)[p].sigs]
        m == [type |-> "final", tx |-> cur[s], by |-> s,
              sigs |-> GetSignatureOut(srv[s], cur[s], sigs)]
    IN  /\ Await("si", s, 2)
        /\ IF GetSignatureOk(srv[s], cur[s], sigs)
           THEN /\ srv' = [srv EXCEPT ![s] = GetSignatureDo(@, cur[s])]
                /\ Prepare(s, m, "menu")
                /\ finals' = finals \cup {[tx |-> m.tx, by |-> s, sigs |-> m.sigs]}
                /\ UNCHANGED <<limits, relay, cur, turn, cli, drawn, printed, said, uses>>
           ELSE Abort(s)

-----------------------------------------------------------------------------
\* SigningOrchestrator::run_client_signing

\* A client that waits for a commitment of itself too.
ClientAwaitsAllCommitments ==
    /\ Await("commit", Client, Cardinality(Players))
    /\ Goto(Client, "Rs")
    /\ UNCHANGED <<limits, relay, cur, turn, out, serviceVars, printed, historyVars>>

\* Step 1 only waits: the commitments received are not used.
ClientAwaitsCommitments ==
    /\ Await("commit", Client, 2)
    /\ Goto(Client, "Rs")
    /\ UNCHANGED <<limits, relay, cur, turn, out, serviceVars, printed, historyVars>>

ClientSigns ==
    LET tx == cur[Client]
        got == Got("Rs", Client)
        rs == [p \in DOMAIN got \ {Client} |-> got[p].rs]
        m == [type |-> "psig", tx |-> tx, sigs |-> ClientSignOut(cli, tx, rs)]
    IN  /\ Await("Rs", Client, 2)
        /\ IF ClientSignOk(cli, tx, rs)
           THEN /\ cli' = ClientSignDo(cli, tx)
                /\ Prepare(Client, m, "final")
                /\ said' = said \cup {m}
                /\ uses' = uses \cup {<<Client, cli.pre[Index(tx, b)],
                                        ClientHram(cli, tx, rs, b)>> : b \in Blocks}
                /\ UNCHANGED <<limits, relay, cur, turn, srv, drawn, printed, finals>>
           ELSE Abort(Client)

\* r3_data.begin()->second is the answer of the server with the lowest id.
ClientPrints ==
    LET got == Got("final", Client)
        first == CHOOSE p \in DOMAIN got : \A q \in DOMAIN got : p <= q
    IN  /\ Await("final", Client, 2)
        /\ printed' = printed \cup {[tx |-> cur[Client], turn |-> turn[Client],
                                     sigs |-> got[first].sigs]}
        /\ Goto(Client, "menu")
        /\ UNCHANGED <<limits, relay, cur, turn, out, serviceVars, historyVars>>

-----------------------------------------------------------------------------

ClientStep ==
    \/ ClientPreprocess
    \/ ClientReady
    \/ ClientAwaitsCommitments
    \/ ClientSigns
    \/ ClientPrints

ServerStep(s) ==
    \/ ServerPreprocess(s)
    \/ ServerReady(s)
    \/ ServerDecommit(s)
    \/ ServerBroadcastR(s)
    \/ ServerBroadcastSi(s)
    \/ ServerGetSignature(s)

NodeStep(n) ==
    \/ ChooseTx(n)
    \/ UserStarts(n)
    \/ UserCancels(n)
    \/ Broadcast(n)
    \/ LoseBroadcast(n)
    \/ n = Client /\ ClientStep
    \/ n \in Servers /\ ServerStep(n)

\* Every node has run its script: the users stop.
Finished == \A n \in Players : pc[n] = "menu" /\ turn[n] = Turns

\* The relay keeps its store in memory.
RelayResets ==
    /\ MayReset
    /\ relay # EmptyStore
    /\ relay' = Reset(relay)
    /\ UNCHANGED <<limits, nodeVars, serviceVars, printed, historyVars>>

Next ==
    \/ \E n \in Players : NodeStep(n)
    \/ RelayResets
    \/ Finished /\ UNCHANGED vars

Spec == Init /\ [][Next]_vars

\* Every node keeps running, polls every half second, and its user answers.
FairSpec == Spec /\ \A n \in Players : WF_vars(NodeStep(n))

-----------------------------------------------------------------------------
\* Properties

Services == INSTANCE AsymEddsa WITH
    msgs <- said, MaxDraw <- Turns, MaxPre <- Turns, Cancels <- FALSE

\* No nonce answers two challenges, though the demo's persistencies never
\* delete one, messages of abandoned sessions stay on the relay, and sessions
\* overlap.  (Every session overwrites the nonce before anything is signed.)
NonceUsedOnce == \A u, v \in uses : u[2] = v[2] => u = v

\* No node has entered this transaction id for two sessions.
UsedOnce(tx) ==
    \A n \in Players : Cardinality({i \in 1 .. turn[n] : script[n][i] = tx}) <= 1

\* A signature node 1 prints as a success verifies, for the transaction of
\* the session it is in, and is made of the nonce drawn in that session: it is
\* not left over from another one.  (So long as transaction ids are not used
\* again: what the relay holds of an id is never told apart by session.)
PrintedSignatureIsFresh ==
    \A p \in printed, b \in Blocks : UsedOnce(p.tx) =>
        /\ Ed25519Verify(Players, Block(p.tx, b), p.sigs[b])
        /\ <<Client, (p.turn - 1) * NIndex + Index(p.tx, b) + 1>> \in DOMAIN p.sigs[b].R

\* README: the result is a standard Ed25519 signature that verifies against
\* the aggregated public key.
PrintedSignaturesVerify ==
    \A p \in printed, b \in Blocks : Ed25519Verify(Players, Block(p.tx, b), p.sigs[b])

\* No server gets past the barrier without the client's commitments: its
\* process would end, with its key share.
NoServerDies == \A s \in Servers : pc[s] # "dead"

\* Everything the demo does to the services is a behaviour of AsymEddsa: the
\* messages a service is given are ones the services produced, for that
\* transaction and that round, one of each server.  Nothing is ever signed
\* that its callers could not have made it sign there.
ImplementsServices == Services!Spec

\* Every session that some node enters ends with a signature on node 1.
SessionsComplete ==
    \A i \in 1 .. Turns, n \in Players :
        turn[n] = i ~> \E p \in printed : p.turn = i
=============================================================================
