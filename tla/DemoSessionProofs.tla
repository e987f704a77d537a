-------------------------- MODULE DemoSessionProofs --------------------------
(***************************************************************************)
(* Proofs about the demo's sessions, for any number of servers and of      *)
(* presigned nonces, any scripts, cancelled sessions, lost broadcasts and  *)
(* resets of the relay: no server ends for want of the client's            *)
(* commitments, no nonce answers two challenges, and what the nodes do to  *)
(* the services is a behaviour of AsymEddsa.                               *)
(***************************************************************************)
EXTENDS DemoSession, TLAPS

-----------------------------------------------------------------------------
\* The relay

\* d is what p posts to the round of that kind and transaction, heard being
\* what the services have produced.
Sent(heard, p, kind, tx, d) ==
    /\ d.type = kind
    /\ kind \in {"presign", "psig"} => p = Client
    /\ kind \in {"presign", "commit", "reveal", "Rs", "psig", "si"} => d \in heard
    /\ kind \in {"commit", "reveal", "Rs", "psig", "si"} => d.tx = tx
    /\ kind \in {"commit", "reveal", "Rs", "si"} => d.from = p
    /\ kind = "presign" => DOMAIN d.commitments = Indices

\* What the store holds was sent to the round it holds it for.
HonestRound(store, heard, kind, tx) ==
    /\ RoundOf(store, <<kind, tx>>).count \in Nat
    /\ Ready(store, <<kind, tx>>, 1) => DOMAIN Answer(store, <<kind, tx>>) # {}
    /\ \A p \in DOMAIN Answer(store, <<kind, tx>>) :
            Sent(heard, p, kind, tx, Answer(store, <<kind, tx>>)[p])
HonestRelay(store, heard) == \A kind, tx : HonestRound(store, heard, kind, tx)

LEMMA SentGrows ==
    ASSUME NEW heard, NEW more, heard \subseteq more,
           NEW p, NEW kind, NEW tx, NEW d, Sent(heard, p, kind, tx, d)
    PROVE  Sent(more, p, kind, tx, d)
  BY DEF Sent

LEMMA PostElsewhere ==
    ASSUME NEW store, NEW round, NEW other, other # round, NEW sender, NEW data
    PROVE  RoundOf(Post(store, round, sender, data), other) = RoundOf(store, other)
  BY DEF Post, RoundOf

LEMMA PostHonest ==
    ASSUME NEW store, NEW heard, HonestRelay(store, heard),
           NEW n, NEW kind, NEW tx, NEW d, Sent(heard, n, kind, tx, d)
    PROVE  HonestRelay(Post(store, <<kind, tx>>, n, d), heard)
<1> DEFINE round == <<kind, tx>>
           after == Post(store, round, n, d)
<1> SUFFICES ASSUME NEW k, NEW t PROVE HonestRound(after, heard, k, t)
  BY DEF HonestRelay
<1>1. HonestRound(store, heard, k, t)
  BY DEF HonestRelay
<1>2. CASE <<k, t>> = <<kind, tx>>
  <2>1. k = kind /\ t = tx
    BY <1>2
  <2>2. /\ DOMAIN Answer(after, round) = DOMAIN Answer(store, round) \cup {n}
        /\ Answer(after, round)[n] = d
        /\ \A p \in DOMAIN Answer(store, round) :
                p # n => Answer(after, round)[p] = Answer(store, round)[p]
        /\ RoundOf(after, round).count = RoundOf(store, round).count + 1
    <3>1. after = Post(store, round, n, d)
      OBVIOUS
    <3> HIDE DEF round, after
    <3> QED BY <3>1 DEF Post, RoundOf, Answer
  <2> HIDE DEF after
  <2> QED BY <1>1, <2>1, <2>2 DEF HonestRound
<1>3. CASE <<k, t>> # <<kind, tx>>
  <2>1. RoundOf(after, <<k, t>>) = RoundOf(store, <<k, t>>)
    BY <1>3, PostElsewhere
  <2> HIDE DEF after
  <2> QED BY <1>1, <2>1 DEF HonestRound, Ready, Answer
<1> QED BY <1>2, <1>3

LEMMA RelayGrows ==
    ASSUME NEW store, NEW heard, NEW more, heard \subseteq more, HonestRelay(store, heard)
    PROVE  HonestRelay(store, more)
<1> SUFFICES ASSUME NEW kind, NEW tx PROVE HonestRound(store, more, kind, tx)
  BY DEF HonestRelay
<1>1. HonestRound(store, heard, kind, tx)
  BY DEF HonestRelay
<1>2. \A p, d : Sent(heard, p, kind, tx, d) => Sent(more, p, kind, tx, d)
  BY SentGrows
<1> QED BY <1>1, <1>2 DEF HonestRound

LEMMA ResetHonest == ASSUME NEW heard PROVE HonestRelay(EmptyStore, heard)
<1>1. \A round : RoundOf(EmptyStore, round) = EmptyRound
  BY DEF RoundOf, EmptyStore
<1>2. EmptyRound.count = 0 /\ DOMAIN EmptyRound.last = {}
  BY DEF EmptyRound, EmptyStore
<1> QED BY <1>1, <1>2 DEF HonestRelay, HonestRound, Ready, Answer

\* A round that only the client posts to, once ready, holds its message.
LEMMA ClientAnswers ==
    ASSUME NEW store, NEW heard, HonestRelay(store, heard), NEW kind \in {"presign", "psig"},
           NEW tx, Ready(store, <<kind, tx>>, 1)
    PROVE  /\ Client \in DOMAIN Answer(store, <<kind, tx>>)
           /\ Sent(heard, Client, kind, tx, Answer(store, <<kind, tx>>)[Client])
<1>1. HonestRound(store, heard, kind, tx)
  BY DEF HonestRelay
<1>2. PICK p \in DOMAIN Answer(store, <<kind, tx>>) : TRUE
  BY <1>1 DEF HonestRound
<1>3. Sent(heard, p, kind, tx, Answer(store, <<kind, tx>>)[p])
  BY <1>1 DEF HonestRound
<1>4. p = Client
  BY <1>3 DEF Sent
<1> QED BY <1>2, <1>3, <1>4

-----------------------------------------------------------------------------
\* The store of a server

IsStore(st) ==
    /\ DOMAIN st = {"alloc", "pre", "comm", "data"}
    /\ \A tx \in DOMAIN st.data : DOMAIN st.data[tx] = {"k", "R"}

\* A handler that stores no commitments of the client and draws no nonce.
KeepsNonces(st, after) ==
    /\ IsStore(after)
    /\ after.pre = st.pre
    /\ DOMAIN after.data \subseteq DOMAIN st.data
    /\ \A tx \in DOMAIN after.data : after.data[tx].k = st.data[tx].k

LEMMA StorePresigningStores ==
    ASSUME NEW st, IsStore(st), NEW c
    PROVE  LET after == StorePresigningDo(st, c)
           IN  IsStore(after) /\ after.pre = c /\ after.data = st.data
  BY DEF StorePresigningDo, IsStore

LEMMA SignOfflineStores ==
    ASSUME NEW st, IsStore(st), NEW tx, NEW k, NEW after, after = SignOfflineDo(st, tx, k)
    PROVE  /\ IsStore(after) /\ after.pre = st.pre
           /\ DOMAIN after.data = DOMAIN st.data \cup {tx}
           /\ \A b \in Blocks : after.data[tx].k[b] = k
           /\ \A t \in DOMAIN st.data : t # tx => after.data[t] = st.data[t]
  BY DEF SignOfflineDo, IsStore, Put

LEMMA DecommitKeeps ==
    ASSUME NEW st, IsStore(st), NEW tx, NEW c
    PROVE  /\ KeepsNonces(st, DecommitDo(st, tx, c))
           /\ DecommitDo(st, tx, c).data = st.data
  BY DEF DecommitDo, IsStore, KeepsNonces

LEMMA BroadcastRKeeps ==
    ASSUME NEW st, IsStore(st), NEW me, NEW tx, tx \in DOMAIN st.data, NEW rs
    PROVE  KeepsNonces(st, BroadcastRDo(st, me, tx, rs))
  BY DEF BroadcastRDo, IsStore, KeepsNonces

LEMMA BroadcastSiKeeps ==
    ASSUME ~Strict, NEW st, IsStore(st), NEW tx, tx \in DOMAIN st.data, NEW psigs
    PROVE  KeepsNonces(st, BroadcastSiDo(st, tx, psigs))
  BY DEF BroadcastSiDo, IsStore, KeepsNonces, Put, Drop

LEMMA GetSignatureKeeps ==
    ASSUME NEW st, IsStore(st), NEW tx
    PROVE  KeepsNonces(st, GetSignatureDo(st, tx))
  BY DEF GetSignatureDo, IsStore, KeepsNonces, Drop

-----------------------------------------------------------------------------
\* The invariant

Labels == {"menu", "prompt", "ready", "commit", "reveal", "psig", "si", "Rs", "final"}

\* Node n is at one of these labels, or will be once it has posted.
Ahead(n, labels) == pc[n] \in labels \/ \E m \in out[n] : m.then \in labels

Tables ==
    /\ DOMAIN pc = Players /\ DOMAIN cur = Players /\ DOMAIN turn = Players
    /\ DOMAIN out = Players /\ DOMAIN drawn = Players /\ DOMAIN srv = Servers
    /\ script \in [Players -> Scripts]

\* A node posts for the transaction of its session, one message at a time.
NodeOk(n) ==
    /\ turn[n] \in 0 .. Turns /\ drawn[n] \in Nat
    /\ pc[n] # "post" => out[n] = {}
    /\ pc[n] # "menu" => cur[n] \in Txs
    /\ \A m \in out[n] : Sent(said, n, m.data.type, cur[n], m.data) /\ m.then \in Labels

\* What a server has produced of the transactions it holds data of.
CommitOf(s, tx, st) ==
    [type |-> "commit", tx |-> tx, from |-> s,
     commitments |-> SignOfflineOut(s, tx, st.data[tx].k[0])]
RevealOf(s, tx, st) ==
    [type |-> "reveal", tx |-> tx, from |-> s, Rs |-> DecommitOut(st, tx)]

\* A server past the presigning round holds the client's commitments; it draws
\* one nonce in a session; and what it sent of its data it would send again.
ServerOk(s) ==
    /\ IsStore(srv[s])
    /\ NIndex > 0 => pc[s] # "dead"
    /\ Ahead(s, {"prompt", "ready"}) => DOMAIN srv[s].pre = Indices
    /\ drawn[s] <= turn[s]
    /\ Ahead(s, {"presign", "prompt", "ready"}) => drawn[s] < turn[s]
    /\ \A tx \in DOMAIN srv[s].data : CommitOf(s, tx, srv[s]) \in said
    /\ Ahead(s, {"reveal"}) =>
        cur[s] \in DOMAIN srv[s].data /\ RevealOf(s, cur[s], srv[s]) \in said

\* The client draws the nonces of one array in a session.
ClientOk ==
    /\ drawn[Client] <= turn[Client] * NIndex
    /\ pc[Client] = "preprocess" => drawn[Client] <= (turn[Client] - 1) * NIndex

Inv ==
    /\ Tables
    /\ HonestRelay(relay, said)
    /\ \A n \in Players : NodeOk(n)
    /\ \A s \in Servers : ServerOk(s)
    /\ ClientOk

-----------------------------------------------------------------------------
\* What a step does to the node that takes it, and to the others

\* Only node n moves.
OnlyNode(n) ==
    /\ said \subseteq said'
    /\ \A p \in Players : p # n =>
            /\ pc'[p] = pc[p] /\ out'[p] = out[p] /\ cur'[p] = cur[p]
            /\ turn'[p] = turn[p] /\ drawn'[p] = drawn[p]
    /\ \A s \in Servers : s # n => srv'[s] = srv[s]

LEMMA ClientIsNoServer == Client \in Players /\ Client \notin Servers /\ Servers \subseteq Players
  BY PlayersAssumption DEF Players

LEMMA OthersStay ==
    ASSUME NEW n \in Players, OnlyNode(n), NEW p \in Players, p # n
    PROVE  /\ NodeOk(p) => NodeOk(p)'
           /\ p \in Servers /\ ServerOk(p) => ServerOk(p)'
<1>1. /\ pc'[p] = pc[p] /\ out'[p] = out[p] /\ cur'[p] = cur[p]
      /\ turn'[p] = turn[p] /\ drawn'[p] = drawn[p] /\ said \subseteq said'
  BY DEF OnlyNode
<1>2. ASSUME NodeOk(p) PROVE NodeOk(p)'
  <2>1. \A m \in out[p] : Sent(said', p, m.data.type, cur[p], m.data)
    BY <1>1, <1>2, SentGrows DEF NodeOk
  <2> QED BY <1>1, <1>2, <2>1 DEF NodeOk
<1>3. ASSUME p \in Servers, ServerOk(p) PROVE ServerOk(p)'
  <2>1. srv'[p] = srv[p]
    BY <1>3 DEF OnlyNode
  <2>2. \A labels : Ahead(p, labels)' <=> Ahead(p, labels)
    BY <1>1 DEF Ahead
  <2> QED BY <1>1, <1>3, <2>1, <2>2 DEF ServerOk
<1> QED BY <1>2, <1>3

\* The node that took the step is at label, or about to post and go there.
Heads(n, label) ==
    \A labels : "post" \notin labels => (Ahead(n, labels)' <=> label \in labels)

LEMMA Prepared ==
    ASSUME Tables, NEW n \in Players, NodeOk(n), pc[n] # "menu",
           NEW m, NEW label \in Labels, Prepare(n, m, label),
           cur'[n] = cur[n], turn'[n] = turn[n], drawn'[n] \in Nat,
           Sent(said', n, m.type, cur[n], m)
    PROVE  NodeOk(n)' /\ Heads(n, label) /\ pc'[n] = "post"
<1>1. pc'[n] = "post" /\ out'[n] = {[data |-> m, then |-> label]}
  BY DEF Tables, Prepare, Goto
<1>2. NodeOk(n)'
  BY <1>1 DEF NodeOk
<1>3. Heads(n, label)
  BY <1>1 DEF Heads, Ahead
<1> QED BY <1>1, <1>2, <1>3

LEMMA Went ==
    ASSUME Tables, NEW n \in Players, NodeOk(n), pc[n] # "menu", pc[n] # "post",
           NEW label, label # "post", Goto(n, label), out' = out,
           cur'[n] = cur[n], turn'[n] = turn[n], drawn'[n] \in Nat
    PROVE  NodeOk(n)' /\ Heads(n, label) /\ pc'[n] = label
<1>1. pc'[n] = label /\ out'[n] = {}
  BY DEF Tables, Goto, NodeOk
<1>2. NodeOk(n)'
  BY <1>1 DEF NodeOk
<1>3. Heads(n, label)
  BY <1>1 DEF Heads, Ahead
<1> QED BY <1>1, <1>2, <1>3

LEMMA ScriptsFit ==
    ASSUME Tables
    PROVE  /\ Turns \in Nat
           /\ \A n \in Players : script[n] \in Seq(Txs) /\ Len(script[n]) = Turns
<1>1. Client \in Players
  BY ClientIsNoServer
<1>2. \A n \in Players : script[n] \in Scripts
  BY DEF Tables
<1>3. \E sc \in Scripts : TRUE
  BY <1>1, <1>2
<1> DEFINE sample == CHOOSE sc \in Scripts : TRUE
<1>4. sample \in Scripts
  BY <1>3
<1>5. Turns = Len(sample)
  BY DEF Turns
<1> HIDE DEF sample
<1>6. sample \in Seq(Txs) /\ \A n \in Players : script[n] \in Seq(Txs)
  BY <1>2, <1>4, DemoAssumption
<1>7. \A n \in Players : Len(script[n]) = Len(sample)
  BY <1>2, <1>4, DemoAssumption
<1> QED BY <1>5, <1>6, <1>7

LEMMA InitInv == Init => Inv
<1> SUFFICES ASSUME Init PROVE Inv
  OBVIOUS
<1>1. Tables
  BY DEF Init, Tables
<1>2. HonestRelay(relay, said)
  BY ResetHonest DEF Init
<1>3. ASSUME NEW n \in Players PROVE NodeOk(n)
  BY <1>1, ScriptsFit DEF Init, NodeOk
<1>4. ASSUME NEW s \in Servers PROVE ServerOk(s)
  <2>1. srv[s] = EmptyServer /\ pc[s] = "menu" /\ out[s] = {} /\ drawn[s] = 0 /\ turn[s] = 0
    BY ClientIsNoServer DEF Init
  <2>2. IsStore(EmptyServer) /\ DOMAIN EmptyServer.data = {}
    BY DEF IsStore, EmptyServer, EmptyMap
  <2>3. \A labels : Ahead(s, labels) => "menu" \in labels
    BY <2>1 DEF Ahead
  <2> QED BY <2>1, <2>2, <2>3 DEF ServerOk
<1>5. ClientOk
  <2>1. drawn[Client] = 0 /\ turn[Client] = 0 /\ pc[Client] = "menu"
    BY ClientIsNoServer DEF Init
  <2> QED BY <2>1, SizeAssumption DEF ClientOk
<1> QED BY <1>1, <1>2, <1>3, <1>4, <1>5 DEF Inv

LEMMA StepIsLocal ==
    ASSUME Tables, NEW n \in Players, NodeStep(n)
    PROVE  OnlyNode(n) /\ Tables'
<1> USE DEF Tables, OnlyNode
<1>1. CASE ChooseTx(n) \/ UserStarts(n) \/ UserCancels(n)
  BY <1>1 DEF ChooseTx, UserStarts, UserCancels, Abort, Prepare, Goto, limits, serviceVars, historyVars
<1>2. CASE Broadcast(n) \/ LoseBroadcast(n)
  BY <1>2 DEF Broadcast, LoseBroadcast, Goto, limits, serviceVars, historyVars
<1>3. CASE n = Client /\ ClientPreprocess
  BY <1>3 DEF ClientPreprocess, Prepare, Goto, limits
<1>4. CASE n = Client /\ (ClientReady \/ ClientAwaitsCommitments \/ ClientPrints)
  BY <1>4 DEF ClientReady, ClientAwaitsCommitments, ClientPrints, Goto, limits, serviceVars, historyVars
<1>5. CASE n = Client /\ ClientSigns
  BY <1>5 DEF ClientSigns, Abort, Prepare, Goto, limits, serviceVars, historyVars
<1>6. CASE n \in Servers /\ ServerPreprocess(n)
  BY <1>6 DEF ServerPreprocess, Goto, limits, historyVars
<1>7. CASE n \in Servers /\ ServerReady(n)
  BY <1>7 DEF ServerReady, Prepare, Goto, limits
<1>8. CASE n \in Servers /\ ServerDecommit(n)
  BY <1>8 DEF ServerDecommit, Abort, Prepare, Goto, limits, serviceVars, historyVars
<1>9. CASE n \in Servers /\ ServerBroadcastR(n)
  BY <1>9 DEF ServerBroadcastR, Abort, Prepare, Goto, limits, serviceVars, historyVars
<1>10. CASE n \in Servers /\ ServerBroadcastSi(n)
  BY <1>10 DEF ServerBroadcastSi, Abort, Prepare, Goto, limits, serviceVars, historyVars
<1>11. CASE n \in Servers /\ ServerGetSignature(n)
  BY <1>11 DEF ServerGetSignature, Abort, Prepare, Goto, limits, serviceVars, historyVars
<1> QED BY <1>1, <1>2, <1>3, <1>4, <1>5, <1>6, <1>7, <1>8, <1>9, <1>10, <1>11
        DEF NodeStep, ClientStep, ServerStep

-----------------------------------------------------------------------------
\* Every step keeps the invariant

LEMMA RelayStaysHonest ==
    ASSUME Inv, NEW n \in Players, NodeStep(n)
    PROVE  HonestRelay(relay, said)'
<1>1. HonestRelay(relay, said) /\ NodeOk(n) /\ said \subseteq said'
  BY StepIsLocal DEF Inv, OnlyNode
<1>2. CASE Broadcast(n)
  <2>1. PICK m \in out[n] : relay' = Post(relay, <<m.data.type, cur[n]>>, n, m.data)
    BY <1>2 DEF Broadcast, Round
  <2>2. Sent(said, n, m.data.type, cur[n], m.data)
    BY <1>1 DEF NodeOk
  <2>3. HonestRelay(relay', said)
    BY <1>1, <2>1, <2>2, PostHonest
  <2> QED BY <1>2, <2>3 DEF Broadcast, historyVars
<1>3. CASE ~Broadcast(n)
  <2>1. relay' = relay
    BY <1>3 DEF NodeStep, ClientStep, ServerStep, ChooseTx, UserStarts, UserCancels, Abort, LoseBroadcast,
          ClientPreprocess, ClientReady, ClientAwaitsCommitments, ClientSigns, ClientPrints,
          ServerPreprocess, ServerReady, ServerDecommit, ServerBroadcastR, ServerBroadcastSi,
          ServerGetSignature
  <2> QED BY <1>1, <2>1, RelayGrows
<1> QED BY <1>2, <1>3

\* From drawing its nonces to signing with them: a server, and the client.
Signing == {"commit", "reveal", "psig"}
Holding == {"prompt", "ready", "commit", "Rs"}

\* A node that only goes on.
Earlier(s) ==
    \A labels \in {{"prompt", "ready"}, {"presign", "prompt", "ready"}, {"reveal"},
                  Signing, Holding} :
        Ahead(s, labels)' => Ahead(s, labels)

\* A server that goes on with what it holds, if it goes on signing.
GoesOn(s) ==
    /\ KeepsNonces(srv[s], srv'[s])
    /\ Ahead(s, Signing)' => Ahead(s, Signing)

LEMMA ServerGoesOn ==
    ASSUME NEW s \in Servers, ServerOk(s), srv'[s] = srv[s], drawn'[s] = drawn[s],
           turn'[s] = turn[s], cur'[s] = cur[s], said \subseteq said',
           pc'[s] # "dead", Earlier(s)
    PROVE  ServerOk(s)'
<1>1. /\ Ahead(s, {"prompt", "ready"})' => Ahead(s, {"prompt", "ready"})
      /\ Ahead(s, {"presign", "prompt", "ready"})' => Ahead(s, {"presign", "prompt", "ready"})
      /\ Ahead(s, {"reveal"})' => Ahead(s, {"reveal"})
  BY DEF Earlier
<1> QED BY <1>1 DEF ServerOk

LEMMA NodeGoesOn ==
    ASSUME Inv, NEW n \in Players,
           \/ UserStarts(n) \/ UserCancels(n) \/ Broadcast(n) \/ LoseBroadcast(n)
    PROVE  /\ NodeOk(n)' /\ Earlier(n)
           /\ n \in Servers => ServerOk(n)'
           /\ n = Client => ClientOk'
<1>1. /\ Tables /\ NodeOk(n)
      /\ n \in Servers => ServerOk(n)
      /\ n = Client => ClientOk
  BY DEF Inv
<1>2. /\ turn' = turn /\ cur' = cur /\ drawn' = drawn /\ srv' = srv /\ said' = said
  BY DEF UserStarts, UserCancels, Abort, Prepare, Broadcast, LoseBroadcast, serviceVars, historyVars
<1>3. drawn[n] \in Nat
  BY <1>1 DEF NodeOk
<1>4. NodeOk(n)' /\ Earlier(n) /\ pc'[n] \notin {"dead", "preprocess"}
  <2>1. CASE UserStarts(n)
    <3>1. pc[n] = "prompt" /\ Prepare(n, [type |-> "ready"], "ready")
      BY <2>1 DEF UserStarts
    <3>2. Sent(said', n, "ready", cur[n], [type |-> "ready"])
      BY DEF Sent
    <3>3. NodeOk(n)' /\ Heads(n, "ready") /\ pc'[n] = "post"
      BY <1>1, <1>2, <1>3, <3>1, <3>2, Prepared DEF Labels
    <3> QED BY <3>1, <3>3 DEF Heads, Earlier, Ahead, Signing, Holding
  <2>2. CASE UserCancels(n)
    <3>1. pc[n] = "prompt" /\ Goto(n, "menu") /\ out' = out
      BY <2>2 DEF UserCancels, Abort
    <3>2. NodeOk(n)' /\ Heads(n, "menu") /\ pc'[n] = "menu"
      BY <1>1, <1>2, <1>3, <3>1, Went
    <3> QED BY <3>2 DEF Heads, Earlier, Signing, Holding
  <2>3. CASE Broadcast(n) \/ LoseBroadcast(n)
    <3>1. PICK m \in out[n] : pc' = [pc EXCEPT ![n] = m.then]
      BY <2>3 DEF Broadcast, LoseBroadcast, Goto
    <3>2. pc[n] = "post" /\ out' = [out EXCEPT ![n] = {}]
      BY <2>3 DEF Broadcast, LoseBroadcast
    <3>3. pc'[n] = m.then /\ out'[n] = {} /\ m.then \in Labels
      BY <1>1, <3>1, <3>2 DEF Tables, NodeOk
    <3>4. NodeOk(n)'
      BY <1>1, <1>2, <3>2, <3>3 DEF NodeOk
    <3>5. Earlier(n)
      BY <3>3 DEF Earlier, Ahead, Signing, Holding
    <3> QED BY <3>3, <3>4, <3>5 DEF Labels
  <2> QED BY <2>1, <2>2, <2>3
<1>5. ASSUME n \in Servers PROVE ServerOk(n)'
  BY <1>1, <1>2, <1>4, <1>5, ServerGoesOn
<1>6. ASSUME n = Client PROVE ClientOk'
  BY <1>1, <1>2, <1>4, <1>6 DEF ClientOk
<1> QED BY <1>4, <1>5, <1>6

LEMMA ChooseTxKeeps ==
    ASSUME Inv, NEW n \in Players, ChooseTx(n)
    PROVE  /\ NodeOk(n)'
           /\ n \in Servers => ServerOk(n)'
           /\ n = Client => ClientOk'
<1>1. /\ Tables /\ NodeOk(n)
      /\ n \in Servers => ServerOk(n)
      /\ n = Client => ClientOk
  BY DEF Inv
<1>2. /\ pc[n] = "menu" /\ turn[n] < Turns /\ turn' = [turn EXCEPT ![n] = @ + 1]
      /\ cur' = [cur EXCEPT ![n] = script[n][turn'[n]]]
      /\ Goto(n, IF n = Client THEN "preprocess" ELSE "presign")
      /\ out' = out /\ drawn' = drawn /\ srv' = srv /\ said' = said
  BY DEF ChooseTx, serviceVars, historyVars
<1>3. /\ turn'[n] = turn[n] + 1 /\ cur'[n] = script[n][turn'[n]]
      /\ pc'[n] = (IF n = Client THEN "preprocess" ELSE "presign")
  BY <1>1, <1>2 DEF Tables, Goto
<1>4. turn[n] \in Nat /\ Turns \in Nat /\ drawn[n] \in Nat /\ out[n] = {}
  BY <1>1, <1>2, ScriptsFit DEF NodeOk
<1>5. NodeOk(n)'
  <2>1. turn'[n] \in 1 .. Turns
    BY <1>2, <1>3, <1>4
  <2>2. cur'[n] \in Txs
    BY <1>1, <1>3, <2>1, ScriptsFit
  <2> QED BY <1>2, <1>4, <2>1, <2>2 DEF NodeOk
<1>6. ASSUME n \in Servers PROVE ServerOk(n)'
  <2>1. pc'[n] = "presign"
    BY <1>3, <1>6, ClientIsNoServer
  <2>2. ~Ahead(n, {"prompt", "ready"})' /\ ~Ahead(n, {"reveal"})'
    BY <1>2, <1>4, <2>1 DEF Ahead
  <2>3. ServerOk(n)
    BY <1>1, <1>6
  <2> QED BY <1>2, <1>3, <1>4, <2>1, <2>2, <2>3 DEF ServerOk
<1>7. ASSUME n = Client PROVE ClientOk'
  <2>1. drawn[n] <= turn[n] * NIndex /\ NIndex \in Nat
    BY <1>1, <1>7, SizeAssumption DEF ClientOk
  <2>2. (turn[n] + 1) - 1 = turn[n] /\ (turn[n] + 1) * NIndex = turn[n] * NIndex + NIndex
    BY <1>4, <2>1
  <2>3. turn[n] * NIndex \in Nat
    BY <1>4, <2>1
  <2> QED BY <1>2, <1>3, <1>4, <1>7, <2>1, <2>2, <2>3 DEF ClientOk
<1> QED BY <1>5, <1>6, <1>7

\* A step of a server that draws nothing and goes on to label: what it holds
\* is a part of what it held.
LEMMA HandlerKeeps ==
    ASSUME NEW s \in Servers, ServerOk(s), KeepsNonces(srv[s], srv'[s]),
           drawn'[s] = drawn[s], turn'[s] = turn[s], cur'[s] = cur[s], said \subseteq said',
           pc'[s] # "dead", NEW label \in {"menu", "reveal", "psig", "si"}, Heads(s, label),
           label = "reveal" =>
                cur[s] \in DOMAIN srv'[s].data /\ RevealOf(s, cur[s], srv'[s]) \in said'
    PROVE  ServerOk(s)'
<1>1. /\ ~Ahead(s, {"prompt", "ready"})'
      /\ ~Ahead(s, {"presign", "prompt", "ready"})'
      /\ Ahead(s, {"reveal"})' => label = "reveal"
  BY DEF Heads
<1>2. ASSUME NEW tx \in DOMAIN srv'[s].data PROVE CommitOf(s, tx, srv'[s]) \in said'
  <2>1. tx \in DOMAIN srv[s].data /\ srv'[s].data[tx].k = srv[s].data[tx].k
    BY DEF KeepsNonces
  <2>2. CommitOf(s, tx, srv'[s]) = CommitOf(s, tx, srv[s])
    BY <2>1 DEF CommitOf
  <2> QED BY <2>1, <2>2 DEF ServerOk
<1>3. IsStore(srv'[s])
  BY DEF KeepsNonces
<1> QED BY <1>1, <1>2, <1>3 DEF ServerOk

LEMMA SameStoreKeeps ==
    ASSUME NEW st, IsStore(st) PROVE KeepsNonces(st, st)
  BY DEF KeepsNonces

LEMMA ServerAborts ==
    ASSUME Inv, NEW s \in Servers, pc[s] # "menu", pc[s] # "post", Abort(s)
    PROVE  NodeOk(s)' /\ ServerOk(s)' /\ GoesOn(s) /\ ~Ahead(s, Signing)'
<1>1. /\ Tables /\ NodeOk(s) /\ ServerOk(s) /\ s \in Players /\ drawn[s] \in Nat
      /\ IsStore(srv[s])
  BY ClientIsNoServer DEF Inv, NodeOk, ServerOk
<1>2. /\ Goto(s, "menu") /\ out' = out /\ cur' = cur /\ turn' = turn /\ srv' = srv
      /\ drawn' = drawn /\ said' = said
  BY DEF Abort, serviceVars, historyVars
<1>3. NodeOk(s)' /\ Heads(s, "menu") /\ pc'[s] = "menu"
  BY <1>1, <1>2, Went
<1>4. KeepsNonces(srv[s], srv'[s])
  BY <1>1, <1>2, SameStoreKeeps
<1>5. ~Ahead(s, Signing)'
  BY <1>3 DEF Heads, Signing
<1> QED BY <1>1, <1>2, <1>3, <1>4, <1>5, HandlerKeeps DEF GoesOn

LEMMA ServerPreprocessKeeps ==
    ASSUME Inv, NEW s \in Servers, ServerPreprocess(s)
    PROVE  NodeOk(s)' /\ ServerOk(s)' /\ ~Ahead(s, Signing)'
<1> DEFINE d == Got("presign", s)[Client]
<1>1. /\ Tables /\ NodeOk(s) /\ ServerOk(s) /\ s \in Players /\ drawn[s] \in Nat
      /\ IsStore(srv[s]) /\ HonestRelay(relay, said)
  BY ClientIsNoServer DEF Inv, NodeOk, ServerOk
<1>2. /\ pc[s] = "presign" /\ Ready(relay, Round("presign", s), 1)
      /\ srv' = [srv EXCEPT ![s] = StorePresigningDo(@, d.commitments)]
      /\ Goto(s, "prompt") /\ out' = out /\ cur' = cur /\ turn' = turn
      /\ drawn' = drawn /\ said' = said
  BY DEF ServerPreprocess, Await, historyVars
<1>3. Sent(said, Client, "presign", cur[s], d)
  BY <1>1, <1>2, ClientAnswers DEF Round, Got
<1>4. DOMAIN d.commitments = Indices
  BY <1>3 DEF Sent
<1>5. srv'[s] = StorePresigningDo(srv[s], d.commitments)
  BY <1>1, <1>2 DEF Tables
<1> HIDE DEF d
<1>6. IsStore(srv'[s]) /\ srv'[s].pre = d.commitments /\ srv'[s].data = srv[s].data
  BY <1>1, <1>5, StorePresigningStores
<1>7. NodeOk(s)' /\ Heads(s, "prompt") /\ pc'[s] = "prompt"
  BY <1>1, <1>2, Went
<1>8. ServerOk(s)'
  <2>1. drawn[s] < turn[s]
    BY <1>1, <1>2 DEF ServerOk, Ahead
  <2>2. ~Ahead(s, {"reveal"})'
    BY <1>7 DEF Heads
  <2>3. ASSUME NEW tx \in DOMAIN srv'[s].data PROVE CommitOf(s, tx, srv'[s]) \in said'
    BY <1>1, <1>2, <1>6 DEF CommitOf, ServerOk
  <2> QED BY <1>1, <1>2, <1>4, <1>6, <1>7, <2>1, <2>2, <2>3 DEF ServerOk
<1>9. ~Ahead(s, Signing)'
  BY <1>7 DEF Heads, Signing
<1> QED BY <1>7, <1>8, <1>9

LEMMA ServerReadyKeeps ==
    ASSUME Inv, NEW s \in Servers, ServerReady(s)
    PROVE  /\ NodeOk(s)' /\ ServerOk(s)'
           /\ \/ /\ drawn'[s] = drawn[s] + 1
                 /\ \A b \in Blocks : srv'[s].data[cur[s]].k[b] = <<s, drawn'[s]>>
              \/ drawn'[s] = drawn[s] /\ ~Ahead(s, Signing)'
<1> DEFINE k == <<s, drawn[s] + 1>>
           m == [type |-> "commit", tx |-> cur[s], from |-> s,
                 commitments |-> SignOfflineOut(s, cur[s], k)]
<1>1. /\ Tables /\ NodeOk(s) /\ ServerOk(s) /\ s \in Players /\ drawn[s] \in Nat
      /\ IsStore(srv[s])
  BY ClientIsNoServer DEF Inv, NodeOk, ServerOk
<1>2. /\ pc[s] = "ready" /\ cur' = cur /\ turn' = turn
  BY DEF ServerReady, Await
<1>3. DOMAIN srv[s].pre = Indices /\ drawn[s] < turn[s] /\ turn[s] \in Nat
  BY <1>1, <1>2 DEF ServerOk, Ahead, NodeOk
<1>4. CASE 0 \in DOMAIN srv[s].pre
  <2>1. /\ srv' = [srv EXCEPT ![s] = SignOfflineDo(@, cur[s], k)]
        /\ Prepare(s, m, "commit") /\ said' = said \cup {m}
        /\ drawn' = [drawn EXCEPT ![s] = @ + 1]
    BY <1>4 DEF ServerReady
  <2>2. srv'[s] = SignOfflineDo(srv[s], cur[s], k) /\ drawn'[s] = drawn[s] + 1
        /\ drawn'[s] \in Nat
    BY <1>1, <2>1 DEF Tables
  <2>3. Sent(said', s, m.type, cur[s], m) /\ m \in said'
    BY <2>1 DEF Sent
  <2> HIDE DEF m
  <2>4. NodeOk(s)' /\ Heads(s, "commit") /\ pc'[s] = "post"
    BY <1>1, <1>2, <2>1, <2>2, <2>3, Prepared DEF Labels
  <2>5. CommitOf(s, cur[s], srv'[s]) = m
    <3> HIDE DEF k
    <3>1. \A b \in Blocks : srv'[s].data[cur[s]].k[b] = k
      BY <1>1, <2>2, SignOfflineStores
    <3>2. 0 \in Blocks
      BY SizeAssumption DEF Blocks
    <3> QED BY <3>1, <3>2 DEF CommitOf, m
  <2> HIDE DEF k
  <2>6. /\ IsStore(srv'[s]) /\ DOMAIN srv'[s].data = DOMAIN srv[s].data \cup {cur[s]}
        /\ \A t \in DOMAIN srv[s].data : t # cur[s] => srv'[s].data[t] = srv[s].data[t]
    BY <1>1, <2>2, SignOfflineStores
  <2>7. ASSUME NEW tx \in DOMAIN srv'[s].data PROVE CommitOf(s, tx, srv'[s]) \in said'
    <3>1. CASE tx = cur[s]
      BY <2>3, <2>5, <3>1
    <3>2. CASE tx # cur[s]
      BY <1>1, <2>1, <2>6, <3>2 DEF CommitOf, ServerOk
    <3> QED BY <3>1, <3>2
  <2>8. ~Ahead(s, {"prompt", "ready"})' /\ ~Ahead(s, {"presign", "prompt", "ready"})'
        /\ ~Ahead(s, {"reveal"})'
    BY <2>4 DEF Heads
  <2>9. \A b \in Blocks : srv'[s].data[cur[s]].k[b] = k
    BY <1>1, <2>2, SignOfflineStores
  <2>10. k = <<s, drawn'[s]>>
    BY <2>2 DEF k
  <2>11. ServerOk(s)'
    BY <1>1, <1>2, <1>3, <2>2, <2>4, <2>6, <2>7, <2>8 DEF ServerOk
  <2> QED BY <2>2, <2>4, <2>9, <2>10, <2>11
<1>5. CASE 0 \notin DOMAIN srv[s].pre
  <2>1. Goto(s, "dead") /\ srv' = srv /\ out' = out /\ said' = said /\ drawn' = drawn
    BY <1>5 DEF ServerReady
  <2>2. ~(NIndex > 0)
    BY <1>3, <1>5, SizeAssumption DEF Indices
  <2>3. NodeOk(s)' /\ Heads(s, "dead") /\ pc'[s] = "dead"
    BY <1>1, <1>2, <2>1, Went
  <2>4. ~Ahead(s, {"prompt", "ready"})' /\ ~Ahead(s, {"presign", "prompt", "ready"})'
        /\ ~Ahead(s, {"reveal"})' /\ ~Ahead(s, Signing)'
    BY <2>3 DEF Heads, Signing
  <2> QED BY <1>1, <1>2, <2>1, <2>2, <2>3, <2>4 DEF ServerOk
<1> QED BY <1>4, <1>5

LEMMA ServerDecommitKeeps ==
    ASSUME Inv, NEW s \in Servers, ServerDecommit(s)
    PROVE  NodeOk(s)' /\ ServerOk(s)' /\ GoesOn(s)
<1> DEFINE got == WithOthers(s, [commitments |-> OwnCommitments(s)], "commit")
           commitments == [p \in DOMAIN got |-> got[p].commitments]
           m == [type |-> "reveal", tx |-> cur[s], from |-> s,
                 Rs |-> DecommitOut(srv[s], cur[s])]
<1>1. /\ Tables /\ NodeOk(s) /\ ServerOk(s) /\ s \in Players /\ drawn[s] \in Nat
      /\ IsStore(srv[s])
  BY ClientIsNoServer DEF Inv, NodeOk, ServerOk
<1>2. pc[s] = "commit"
  BY DEF ServerDecommit, Await
<1>3. CASE DecommitOk(srv[s], s, cur[s], commitments)
  <2>1. /\ srv' = [srv EXCEPT ![s] = DecommitDo(@, cur[s], commitments)]
        /\ Prepare(s, m, "reveal") /\ said' = said \cup {m}
        /\ cur' = cur /\ turn' = turn /\ drawn' = drawn
    BY <1>3 DEF ServerDecommit
  <2>2. cur[s] \in DOMAIN srv[s].data
    BY <1>3 DEF DecommitOk
  <2>3. srv'[s] = DecommitDo(srv[s], cur[s], commitments)
    BY <1>1, <2>1 DEF Tables
  <2>4. Sent(said', s, m.type, cur[s], m) /\ m \in said'
    BY <2>1 DEF Sent
  <2> HIDE DEF commitments
  <2>5. KeepsNonces(srv[s], srv'[s]) /\ srv'[s].data = srv[s].data
    BY <1>1, <2>3, DecommitKeeps
  <2>6. RevealOf(s, cur[s], srv'[s]) = m
    BY <2>5 DEF RevealOf, DecommitOut
  <2> HIDE DEF m
  <2>7. NodeOk(s)' /\ Heads(s, "reveal") /\ pc'[s] = "post"
    BY <1>1, <1>2, <2>1, <2>4, Prepared DEF Labels
  <2>8. GoesOn(s)
    BY <1>2, <2>5 DEF GoesOn, Ahead, Signing
  <2> QED BY <1>1, <2>1, <2>2, <2>4, <2>5, <2>6, <2>7, <2>8, HandlerKeeps
<1>4. CASE ~DecommitOk(srv[s], s, cur[s], commitments)
  <2>1. Abort(s)
    BY <1>4 DEF ServerDecommit
  <2> QED BY <1>2, <2>1, ServerAborts
<1> QED BY <1>3, <1>4

LEMMA ServerBroadcastRKeeps ==
    ASSUME Inv, NEW s \in Servers, ServerBroadcastR(s)
    PROVE  NodeOk(s)' /\ ServerOk(s)' /\ GoesOn(s)
<1> DEFINE got == WithOthers(s, [Rs |-> DecommitOut(srv[s], cur[s])], "reveal")
           rs == [p \in DOMAIN got |-> got[p].Rs]
           m == [type |-> "Rs", tx |-> cur[s], from |-> s,
                 rs |-> BroadcastROut(srv[s], s, cur[s], rs)]
<1>1. /\ Tables /\ NodeOk(s) /\ ServerOk(s) /\ s \in Players /\ drawn[s] \in Nat
      /\ IsStore(srv[s])
  BY ClientIsNoServer DEF Inv, NodeOk, ServerOk
<1>2. pc[s] = "reveal"
  BY DEF ServerBroadcastR, Await
<1>3. CASE BroadcastROk(srv[s], cur[s], rs)
  <2>1. /\ srv' = [srv EXCEPT ![s] = BroadcastRDo(@, s, cur[s], rs)]
        /\ Prepare(s, m, "psig") /\ said' = said \cup {m}
        /\ cur' = cur /\ turn' = turn /\ drawn' = drawn
    BY <1>3 DEF ServerBroadcastR
  <2>2. cur[s] \in DOMAIN srv[s].data
    BY <1>3 DEF BroadcastROk
  <2>3. srv'[s] = BroadcastRDo(srv[s], s, cur[s], rs)
    BY <1>1, <2>1 DEF Tables
  <2>4. Sent(said', s, m.type, cur[s], m) /\ m \in said'
    BY <2>1 DEF Sent
  <2> HIDE DEF m, rs
  <2>5. KeepsNonces(srv[s], srv'[s])
    BY <1>1, <2>2, <2>3, BroadcastRKeeps
  <2>6. NodeOk(s)' /\ Heads(s, "psig") /\ pc'[s] = "post"
    BY <1>1, <1>2, <2>1, <2>4, Prepared DEF Labels
  <2>7. GoesOn(s)
    BY <1>2, <2>5 DEF GoesOn, Ahead, Signing
  <2> QED BY <1>1, <2>1, <2>5, <2>6, <2>7, HandlerKeeps
<1>4. CASE ~BroadcastROk(srv[s], cur[s], rs)
  <2>1. Abort(s)
    BY <1>4 DEF ServerBroadcastR
  <2> QED BY <1>2, <2>1, ServerAborts
<1> QED BY <1>3, <1>4

LEMMA ServerBroadcastSiKeeps ==
    ASSUME Inv, NEW s \in Servers, ServerBroadcastSi(s)
    PROVE  NodeOk(s)' /\ ServerOk(s)' /\ GoesOn(s) /\ ~Ahead(s, Signing)'
<1> DEFINE psigs == Got("psig", s)[Client].sigs
           m == [type |-> "si", tx |-> cur[s], from |-> s,
                 sigs |-> BroadcastSiOut(srv[s], s, cur[s], psigs)]
<1>1. /\ Tables /\ NodeOk(s) /\ ServerOk(s) /\ s \in Players /\ drawn[s] \in Nat
      /\ IsStore(srv[s])
  BY ClientIsNoServer DEF Inv, NodeOk, ServerOk
<1>2. pc[s] = "psig"
  BY DEF ServerBroadcastSi, Await
<1>3. CASE BroadcastSiOk(srv[s], cur[s], psigs)
  <2>1. /\ srv' = [srv EXCEPT ![s] = BroadcastSiDo(@, cur[s], psigs)]
        /\ Prepare(s, m, "si") /\ said' = said \cup {m}
        /\ cur' = cur /\ turn' = turn /\ drawn' = drawn
    BY <1>3 DEF ServerBroadcastSi
  <2>2. cur[s] \in DOMAIN srv[s].data
    BY <1>3 DEF BroadcastSiOk
  <2>3. srv'[s] = BroadcastSiDo(srv[s], cur[s], psigs)
    BY <1>1, <2>1 DEF Tables
  <2>4. Sent(said', s, m.type, cur[s], m) /\ m \in said'
    BY <2>1 DEF Sent
  <2> HIDE DEF m, psigs
  <2>5. KeepsNonces(srv[s], srv'[s])
    BY <1>1, <2>2, <2>3, BroadcastSiKeeps, DemoAssumption
  <2>6. NodeOk(s)' /\ Heads(s, "si") /\ pc'[s] = "post"
    BY <1>1, <1>2, <2>1, <2>4, Prepared DEF Labels
  <2>7. ~Ahead(s, Signing)'
    BY <2>6 DEF Heads, Signing
  <2> QED BY <1>1, <2>1, <2>5, <2>6, <2>7, HandlerKeeps DEF GoesOn
<1>4. CASE ~BroadcastSiOk(srv[s], cur[s], psigs)
  <2>1. Abort(s)
    BY <1>4 DEF ServerBroadcastSi
  <2> QED BY <1>2, <2>1, ServerAborts
<1> QED BY <1>3, <1>4

LEMMA ServerGetSignatureKeeps ==
    ASSUME Inv, NEW s \in Servers, ServerGetSignature(s)
    PROVE  NodeOk(s)' /\ ServerOk(s)' /\ GoesOn(s)
<1> DEFINE sigs == [p \in DOMAIN Got("si", s) |-> Got("si", s)[p].sigs]
           m == [type |-> "final", tx |-> cur[s], by |-> s,
                 sigs |-> GetSignatureOut(srv[s], cur[s], sigs)]
<1>1. /\ Tables /\ NodeOk(s) /\ ServerOk(s) /\ s \in Players /\ drawn[s] \in Nat
      /\ IsStore(srv[s])
  BY ClientIsNoServer DEF Inv, NodeOk, ServerOk
<1>2. pc[s] = "si"
  BY DEF ServerGetSignature, Await
<1>3. CASE GetSignatureOk(srv[s], cur[s], sigs)
  <2>1. /\ srv' = [srv EXCEPT ![s] = GetSignatureDo(@, cur[s])]
        /\ Prepare(s, m, "menu") /\ said' = said
        /\ cur' = cur /\ turn' = turn /\ drawn' = drawn
    BY <1>3 DEF ServerGetSignature
  <2>2. srv'[s] = GetSignatureDo(srv[s], cur[s])
    BY <1>1, <2>1 DEF Tables
  <2>3. Sent(said', s, m.type, cur[s], m)
    BY DEF Sent
  <2> HIDE DEF m, sigs
  <2>4. KeepsNonces(srv[s], srv'[s])
    BY <1>1, <2>2, GetSignatureKeeps
  <2>5. NodeOk(s)' /\ Heads(s, "menu") /\ pc'[s] = "post"
    BY <1>1, <1>2, <2>1, <2>3, Prepared DEF Labels
  <2>6. ~Ahead(s, Signing)'
    BY <2>5 DEF Heads, Signing
  <2> QED BY <1>1, <2>1, <2>4, <2>5, <2>6, HandlerKeeps DEF GoesOn
<1>4. CASE ~GetSignatureOk(srv[s], cur[s], sigs)
  <2>1. Abort(s)
    BY <1>4 DEF ServerGetSignature
  <2> QED BY <1>2, <2>1, ServerAborts
<1> QED BY <1>3, <1>4

LEMMA ClientPreprocessKeeps ==
    ASSUME Inv, ClientPreprocess
    PROVE  NodeOk(Client)' /\ ClientOk'
<1> DEFINE ks == [i \in Indices |-> <<Client, drawn[Client] + i + 1>>]
           m == [type |-> "presign", commitments |-> PreprocessOut(ks)]
<1>1. /\ Tables /\ NodeOk(Client) /\ ClientOk /\ Client \in Players
      /\ drawn[Client] \in Nat /\ turn[Client] \in Nat
  BY ClientIsNoServer, ScriptsFit DEF Inv, NodeOk
<1>2. /\ pc[Client] = "preprocess" /\ Prepare(Client, m, "prompt") /\ said' = said \cup {m}
      /\ drawn' = [drawn EXCEPT ![Client] = @ + NIndex] /\ cur' = cur /\ turn' = turn
  BY DEF ClientPreprocess
<1>3. DOMAIN m.commitments = Indices
  BY DEF PreprocessOut
<1>4. Sent(said', Client, m.type, cur[Client], m)
  BY <1>2, <1>3 DEF Sent
<1> HIDE DEF m, ks
<1>5. NIndex \in Nat /\ drawn'[Client] = drawn[Client] + NIndex /\ drawn'[Client] \in Nat
  BY <1>1, <1>2, SizeAssumption DEF Tables
<1>6. NodeOk(Client)' /\ pc'[Client] = "post"
  BY <1>1, <1>2, <1>4, <1>5, Prepared DEF Labels
<1>7. drawn[Client] + NIndex <= turn[Client] * NIndex
  <2>1. drawn[Client] <= (turn[Client] - 1) * NIndex
    BY <1>1, <1>2 DEF ClientOk
  <2>2. (turn[Client] - 1) * NIndex + NIndex = turn[Client] * NIndex
    BY <1>1, <1>5
  <2>3. (turn[Client] - 1) * NIndex \in Int
    BY <1>1, <1>5
  <2> QED BY <1>1, <1>5, <2>1, <2>2, <2>3
<1> QED BY <1>2, <1>5, <1>6, <1>7 DEF ClientOk

LEMMA ClientMovesOn ==
    ASSUME Inv, ClientReady \/ ClientAwaitsCommitments \/ ClientSigns \/ ClientPrints
    PROVE  /\ NodeOk(Client)' /\ ClientOk'
           /\ Ahead(Client, Holding)' => Ahead(Client, Holding)
           /\ ClientSigns => ~Ahead(Client, Holding)'
<1>1. /\ Tables /\ NodeOk(Client) /\ ClientOk /\ Client \in Players /\ drawn[Client] \in Nat
  BY ClientIsNoServer DEF Inv, NodeOk
<1>2. /\ drawn' = drawn /\ turn' = turn /\ cur' = cur
      /\ pc[Client] \in {"ready", "commit", "Rs", "final"}
  BY DEF ClientReady, ClientAwaitsCommitments, ClientSigns, ClientPrints, Await, Abort, serviceVars
<1>3. ASSUME NEW label \in {"commit", "Rs", "menu"}, Goto(Client, label), out' = out
      PROVE  /\ NodeOk(Client)' /\ ClientOk'
             /\ Ahead(Client, Holding)' => label # "menu"
  <2>1. NodeOk(Client)' /\ Heads(Client, label) /\ pc'[Client] = label
    BY <1>1, <1>2, <1>3, Went
  <2>2. ClientOk'
    BY <1>1, <1>2, <2>1 DEF ClientOk
  <2> QED BY <2>1, <2>2 DEF Heads, Holding
<1>4. ASSUME NEW m, m.type = "psig", m.tx = cur[Client], m \in said', Prepare(Client, m, "final")
      PROVE  NodeOk(Client)' /\ ClientOk' /\ ~Ahead(Client, Holding)'
  <2>1. Sent(said', Client, m.type, cur[Client], m)
    BY <1>4 DEF Sent
  <2>2. NodeOk(Client)' /\ Heads(Client, "final") /\ pc'[Client] = "post"
    BY <1>1, <1>2, <1>4, <2>1, Prepared DEF Labels
  <2>3. ClientOk'
    BY <1>1, <1>2, <2>2 DEF ClientOk
  <2> QED BY <2>2, <2>3 DEF Heads, Holding
<1>5. CASE ClientReady \/ ClientAwaitsCommitments
  <2>1. \E label \in {"commit", "Rs"} : Goto(Client, label) /\ out' = out /\ label # "menu"
    BY <1>5 DEF ClientReady, ClientAwaitsCommitments
  <2>2. Ahead(Client, Holding) /\ ~ClientSigns
    BY <1>5 DEF ClientReady, ClientAwaitsCommitments, ClientSigns, Await, Ahead, Holding
  <2> QED BY <1>3, <2>1, <2>2
<1>6. CASE ClientPrints
  <2>1. Goto(Client, "menu") /\ out' = out
    BY <1>6 DEF ClientPrints
  <2> QED BY <1>3, <2>1
<1>7. CASE ClientSigns
  <2> DEFINE got == Got("Rs", Client)
             rs == [p \in DOMAIN got \ {Client} |-> got[p].rs]
             m == [type |-> "psig", tx |-> cur[Client], sigs |-> ClientSignOut(cli, cur[Client], rs)]
  <2>1. CASE ClientSignOk(cli, cur[Client], rs)
    <3>1. Prepare(Client, m, "final") /\ m \in said'
      BY <1>7, <2>1 DEF ClientSigns
    <3>2. m.type = "psig" /\ m.tx = cur[Client]
      OBVIOUS
    <3> HIDE DEF m
    <3> QED BY <1>4, <3>1, <3>2
  <2>2. CASE ~ClientSignOk(cli, cur[Client], rs)
    <3>1. Goto(Client, "menu") /\ out' = out
      BY <1>7, <2>2 DEF ClientSigns, Abort
    <3> QED BY <1>3, <3>1
  <2> QED BY <2>1, <2>2
<1> QED BY <1>5, <1>6, <1>7

LEMMA NextInv == Inv /\ [Next]_vars => Inv'
<1> SUFFICES ASSUME Inv, [Next]_vars PROVE Inv'
  OBVIOUS
<1>1. ASSUME NEW n \in Players, NodeStep(n) PROVE Inv'
  <2>1. OnlyNode(n) /\ Tables'
    BY <1>1, StepIsLocal DEF Inv
  <2>2. HonestRelay(relay, said)'
    BY <1>1, RelayStaysHonest
  <2>3. /\ NodeOk(n)'
        /\ n \in Servers => ServerOk(n)'
        /\ n = Client => ClientOk'
    <3>1. CASE ChooseTx(n) \/ UserStarts(n) \/ UserCancels(n) \/ Broadcast(n) \/ LoseBroadcast(n)
      BY <3>1, ChooseTxKeeps, NodeGoesOn
    <3>2. CASE n = Client /\ ClientStep
      <4>1. NodeOk(Client)' /\ ClientOk'
        BY <3>2, ClientPreprocessKeeps, ClientMovesOn DEF ClientStep
      <4> QED BY <3>2, <4>1, ClientIsNoServer
    <3>3. CASE n \in Servers /\ ServerStep(n)
      <4>1. NodeOk(n)' /\ ServerOk(n)'
        BY <3>3, ServerPreprocessKeeps, ServerReadyKeeps, ServerDecommitKeeps, ServerBroadcastRKeeps,
           ServerBroadcastSiKeeps, ServerGetSignatureKeeps DEF ServerStep
      <4> QED BY <3>3, <4>1, ClientIsNoServer
    <3> QED BY <1>1, <3>1, <3>2, <3>3 DEF NodeStep
  <2>4. \A p \in Players : NodeOk(p)'
    BY <2>1, <2>3, OthersStay DEF Inv
  <2>5. \A s \in Servers : ServerOk(s)'
    BY <2>1, <2>3, OthersStay, ClientIsNoServer DEF Inv
  <2>6. ClientOk'
    <3>1. CASE n = Client
      BY <2>3, <3>1
    <3>2. CASE n # Client
      <4>1. drawn'[Client] = drawn[Client] /\ turn'[Client] = turn[Client] /\ pc'[Client] = pc[Client]
        BY <2>1, <3>2, ClientIsNoServer DEF OnlyNode
      <4> QED BY <4>1 DEF Inv, ClientOk
    <3> QED BY <3>1, <3>2
  <2> QED BY <2>1, <2>2, <2>4, <2>5, <2>6 DEF Inv
<1>2. CASE RelayResets
  <2>1. relay' = EmptyStore /\ UNCHANGED <<limits, nodeVars, serviceVars, historyVars>>
    BY <1>2 DEF RelayResets, Reset
  <2>2. HonestRelay(relay, said)'
    BY <2>1, ResetHonest
  <2> QED BY <2>1, <2>2 DEF Inv, Tables, NodeOk, ServerOk, ClientOk, Ahead,
                            limits, nodeVars, serviceVars, historyVars
<1>3. CASE UNCHANGED vars
  BY <1>3 DEF Inv, Tables, NodeOk, ServerOk, ClientOk, Ahead, vars,
              limits, nodeVars, serviceVars, historyVars
<1> QED BY <1>1, <1>2, <1>3 DEF Next

\* The messages and the stores fit together in every state.
THEOREM SessionsInv == Spec => []Inv
  BY InitInv, NextInv, PTL DEF Spec

\* No server's process ends at the barrier for want of the client's
\* commitments, whatever is lost, reset, cancelled or in the wrong order, as
\* long as the client preprocesses at all (the demo: PREPROCESSING_COUNT is
\* 1000): the presigning round comes before the prompt, and a server leaves it
\* only with a message of the client, which holds every index.
THEOREM ServersLive == ASSUME NIndex > 0 PROVE Spec => []NoServerDies
<1>1. Inv => NoServerDies
  BY DEF Inv, ServerOk, NoServerDies
<1> QED BY <1>1, SessionsInv, PTL

-----------------------------------------------------------------------------
\* Nonces

\* A player has drawn every nonce it used; the uses are histories.
UsesDrawn ==
    \A u \in uses :
        /\ u[1] \in Players
        /\ u[2] = <<u[1], u[2][2]>>
        /\ u[2][2] \in 1 .. drawn[u[1]]

\* A server on its way to its signature share holds, for the transaction of its
\* session, the nonce it drew last, and has not used it.
ServerFresh(s) ==
    Ahead(s, Signing) =>
        /\ 1 <= drawn[s]
        /\ \A u \in uses : u[1] = s => u[2][2] < drawn[s]
        /\ cur[s] \in DOMAIN srv[s].data =>
                \A b \in Blocks : srv[s].data[cur[s]].k[b] = <<s, drawn[s]>>

\* So does the client, of the array it drew last.
ClientFresh ==
    Ahead(Client, Holding) =>
        /\ \A u \in uses : u[1] = Client => u[2][2] <= drawn[Client] - NIndex
        /\ drawn[Client] >= NIndex
        /\ DOMAIN cli.pre = Indices
        /\ \A i \in Indices : cli.pre[i] = <<Client, drawn[Client] - NIndex + i + 1>>

Fresh ==
    /\ UsesDrawn
    /\ \A s \in Servers : ServerFresh(s)
    /\ ClientFresh
    /\ NonceUsedOnce

LEMMA InitFresh == Init => Fresh
<1> SUFFICES ASSUME Init PROVE Fresh
  OBVIOUS
<1>1. uses = {}
  BY DEF Init
<1>2. \A n \in Players : pc[n] = "menu" /\ out[n] = {}
  BY DEF Init
<1>3. \A n \in Players : ~Ahead(n, Signing) /\ ~Ahead(n, Holding)
  BY <1>2 DEF Ahead, Signing, Holding
<1> QED BY <1>1, <1>3, ClientIsNoServer DEF Fresh, UsesDrawn, ServerFresh, ClientFresh, NonceUsedOnce

LEMMA ServerStaysFresh ==
    ASSUME NEW s \in Servers, ServerFresh(s), \A u \in uses' : u[1] = s => u \in uses,
           drawn'[s] = drawn[s], cur'[s] = cur[s], IsStore(srv[s]), GoesOn(s)
    PROVE  ServerFresh(s)'
<1> SUFFICES ASSUME Ahead(s, Signing)' PROVE ServerFresh(s)'
  BY DEF ServerFresh
<1>1. Ahead(s, Signing)
  BY DEF GoesOn
<1>2. cur[s] \in DOMAIN srv'[s].data =>
        cur[s] \in DOMAIN srv[s].data /\ srv'[s].data[cur[s]].k = srv[s].data[cur[s]].k
  BY DEF GoesOn, KeepsNonces
<1> QED BY <1>1, <1>2 DEF ServerFresh

LEMMA ClientStaysFresh ==
    ASSUME ClientFresh, \A u \in uses' : u[1] = Client => u \in uses,
           drawn'[Client] = drawn[Client], cli' = cli,
           Ahead(Client, Holding)' => Ahead(Client, Holding)
    PROVE  ClientFresh'
  BY DEF ClientFresh

\* A step of n keeps what the others hold fresh, whatever it uses itself.
LEMMA OthersStayFresh ==
    ASSUME Inv, Fresh, NEW n \in Players, OnlyNode(n), n # Client => cli' = cli,
           \A u \in uses' : u \in uses \/ u[1] = n
    PROVE  /\ \A s \in Servers : s # n => ServerFresh(s)'
           /\ n # Client => ClientFresh'
<1>1. ASSUME NEW p \in Players, p # n
      PROVE  /\ drawn'[p] = drawn[p] /\ cur'[p] = cur[p]
             /\ \A u \in uses' : u[1] = p => u \in uses
             /\ \A labels : Ahead(p, labels)' <=> Ahead(p, labels)
  BY <1>1 DEF OnlyNode, Ahead
<1>2. ASSUME NEW s \in Servers, s # n PROVE ServerFresh(s)'
  <2>1. srv'[s] = srv[s] /\ IsStore(srv[s])
    BY <1>2 DEF OnlyNode, Inv, ServerOk
  <2>2. GoesOn(s)
    BY <1>1, <1>2, <2>1, ClientIsNoServer DEF GoesOn, KeepsNonces
  <2> QED BY <1>1, <1>2, <2>1, <2>2, ServerStaysFresh, ClientIsNoServer DEF Fresh
<1>3. ASSUME n # Client PROVE ClientFresh'
  BY <1>1, <1>3, ClientStaysFresh, ClientIsNoServer DEF Fresh
<1> QED BY <1>2, <1>3

\* A step of n that makes no use of a nonce.
LEMMA NoUse ==
    ASSUME Inv, Fresh, NEW n \in Players, OnlyNode(n), n # Client => cli' = cli, uses' = uses,
           drawn'[n] \in Nat, drawn[n] <= drawn'[n],
           n \in Servers => ServerFresh(n)', n = Client => ClientFresh'
    PROVE  Fresh'
<1>1. /\ \A s \in Servers : s # n => ServerFresh(s)'
      /\ n # Client => ClientFresh'
  BY OthersStayFresh
<1>2. UsesDrawn'
  <2> SUFFICES ASSUME NEW u \in uses
               PROVE  /\ u[1] \in Players /\ u[2] = <<u[1], u[2][2]>>
                      /\ u[2][2] \in 1 .. drawn'[u[1]]
    BY DEF UsesDrawn
  <2>1. u[1] \in Players /\ u[2] = <<u[1], u[2][2]>> /\ u[2][2] \in 1 .. drawn[u[1]]
    BY DEF Fresh, UsesDrawn
  <2>2. drawn[u[1]] \in Nat /\ drawn'[u[1]] \in Nat /\ drawn[u[1]] <= drawn'[u[1]]
    BY <2>1 DEF OnlyNode, Inv, NodeOk
  <2> QED BY <2>1, <2>2
<1>3. NonceUsedOnce'
  BY DEF Fresh, NonceUsedOnce
<1> QED BY <1>1, <1>2, <1>3 DEF Fresh

\* A step of n that uses one nonce, drawn after all those n has used.
LEMMA OneUse ==
    ASSUME Inv, Fresh, NEW n \in Players, OnlyNode(n), n # Client => cli' = cli,
           drawn'[n] = drawn[n], NEW i \in 1 .. drawn[n], NEW challenge,
           uses' = uses \cup {<<n, <<n, i>>, challenge>>},
           \A u \in uses : u[1] = n => u[2][2] < i,
           n \in Servers => ServerFresh(n)', n = Client => ClientFresh'
    PROVE  Fresh'
<1> DEFINE new == <<n, <<n, i>>, challenge>>
<1>1. /\ new[1] = n /\ new[2] = <<n, i>>
      /\ \A u \in uses' : u \in uses \/ u = new
  OBVIOUS
<1> HIDE DEF new
<1>2. /\ \A s \in Servers : s # n => ServerFresh(s)'
      /\ n # Client => ClientFresh'
  BY <1>1, OthersStayFresh
<1>3. UsesDrawn'
  <2> SUFFICES ASSUME NEW u \in uses'
               PROVE  /\ u[1] \in Players /\ u[2] = <<u[1], u[2][2]>>
                      /\ u[2][2] \in 1 .. drawn'[u[1]]
    BY DEF UsesDrawn
  <2>1. CASE u \in uses
    <3>1. u[1] \in Players /\ u[2] = <<u[1], u[2][2]>> /\ u[2][2] \in 1 .. drawn[u[1]]
      BY <2>1 DEF Fresh, UsesDrawn
    <3>2. drawn'[u[1]] = drawn[u[1]]
      BY <3>1 DEF OnlyNode
    <3> QED BY <3>1, <3>2
  <2>2. CASE u = new
    BY <1>1, <2>2
  <2> QED BY <1>1, <2>1, <2>2
<1>4. NonceUsedOnce'
  <2>1. \A u \in uses : u[2] # new[2]
    <3> SUFFICES ASSUME NEW u \in uses, u[2] = new[2] PROVE FALSE
      OBVIOUS
    <3>1. u[2] = <<u[1], u[2][2]>> /\ u[2][2] \in 1 .. drawn[u[1]] /\ u[1] \in Players
      BY DEF Fresh, UsesDrawn
    <3>2. u[1] = n /\ u[2][2] = i
      BY <1>1, <3>1
    <3>3. u[2][2] < i
      BY <3>2
    <3> QED BY <3>2, <3>3
  <2>2. \A u, v \in uses : u[2] = v[2] => u = v
    BY DEF Fresh, NonceUsedOnce
  <2> QED BY <1>1, <2>1, <2>2 DEF NonceUsedOnce
<1> QED BY <1>2, <1>3, <1>4 DEF Fresh

LEMMA ChooseTxStaysFresh ==
    ASSUME Inv, Fresh, NEW n \in Players, ChooseTx(n)
    PROVE  Fresh'
<1>1. /\ pc[n] = "menu" /\ Goto(n, IF n = Client THEN "preprocess" ELSE "presign")
      /\ out' = out /\ drawn' = drawn /\ cli' = cli /\ uses' = uses
  BY DEF ChooseTx, serviceVars, historyVars
<1>2. OnlyNode(n) /\ out[n] = {} /\ drawn[n] \in Nat
  BY <1>1, StepIsLocal DEF Inv, NodeOk, NodeStep
<1>3. pc'[n] \in {"preprocess", "presign"}
  BY <1>1 DEF Goto, Inv, Tables
<1>4. ~Ahead(n, Signing)' /\ ~Ahead(n, Holding)'
  BY <1>1, <1>2, <1>3 DEF Ahead, Signing, Holding
<1> QED BY <1>1, <1>2, <1>4, NoUse DEF ServerFresh, ClientFresh

LEMMA NodeStaysFresh ==
    ASSUME Inv, Fresh, NEW n \in Players,
           \/ UserStarts(n) \/ UserCancels(n) \/ Broadcast(n) \/ LoseBroadcast(n)
    PROVE  Fresh'
<1>1. UNCHANGED <<cli, srv, drawn, uses, cur>>
  BY DEF UserStarts, UserCancels, Abort, Prepare, Broadcast, LoseBroadcast, serviceVars, historyVars
<1>2. Earlier(n)
  BY NodeGoesOn
<1>3. OnlyNode(n) /\ drawn[n] \in Nat
  BY StepIsLocal DEF Inv, NodeOk, NodeStep
<1>4. /\ Ahead(n, Signing)' => Ahead(n, Signing)
      /\ Ahead(n, Holding)' => Ahead(n, Holding)
  BY <1>2 DEF Earlier
<1>5. ASSUME n \in Servers PROVE ServerFresh(n)'
  <2>1. IsStore(srv[n]) /\ ServerFresh(n)
    BY <1>5 DEF Inv, ServerOk, Fresh
  <2>2. GoesOn(n)
    BY <1>1, <1>4, <2>1, SameStoreKeeps DEF GoesOn
  <2> QED BY <1>1, <1>5, <2>1, <2>2, ServerStaysFresh
<1>6. ASSUME n = Client PROVE ClientFresh'
  BY <1>1, <1>4, <1>6, ClientStaysFresh DEF Fresh
<1> QED BY <1>1, <1>3, <1>5, <1>6, NoUse

LEMMA ClientPreprocessDrawsFresh ==
    ASSUME Inv, Fresh, ClientPreprocess
    PROVE  Fresh'
<1> DEFINE ks == [i \in Indices |-> <<Client, drawn[Client] + i + 1>>]
<1>1. Client \in Players /\ Client \notin Servers /\ drawn[Client] \in Nat /\ NIndex \in Nat
  BY ClientIsNoServer, SizeAssumption DEF Inv, NodeOk
<1>2. cli' = PreprocessDo(cli, ks) /\ uses' = uses /\ drawn' = [drawn EXCEPT ![Client] = @ + NIndex]
  BY DEF ClientPreprocess
<1>3. drawn'[Client] = drawn[Client] + NIndex
  BY <1>1, <1>2 DEF Inv, Tables
<1>4. OnlyNode(Client)
  BY <1>1, StepIsLocal DEF Inv, NodeStep, ClientStep
<1>5. ClientFresh'
  <2>1. \A u \in uses : u[1] = Client => u[2][2] <= drawn[Client]
    BY DEF Fresh, UsesDrawn
  <2>2. DOMAIN cli'.pre = Indices /\ \A i \in Indices : cli'.pre[i] = <<Client, drawn[Client] + i + 1>>
    BY <1>2 DEF PreprocessDo
  <2>3. drawn'[Client] - NIndex = drawn[Client] /\ drawn'[Client] >= NIndex
    BY <1>1, <1>3
  <2> HIDE DEF ks
  <2> QED BY <1>2, <2>1, <2>2, <2>3 DEF ClientFresh
<1> QED BY <1>1, <1>2, <1>3, <1>4, <1>5, NoUse

LEMMA ClientWaitsFresh ==
    ASSUME Inv, Fresh, ClientReady \/ ClientAwaitsCommitments \/ ClientPrints
    PROVE  Fresh'
<1>1. UNCHANGED <<cli, drawn, uses>>
  BY DEF ClientReady, ClientAwaitsCommitments, ClientPrints, serviceVars, historyVars
<1>2. Client \in Players /\ Client \notin Servers /\ drawn[Client] \in Nat
  BY ClientIsNoServer DEF Inv, NodeOk
<1>3. OnlyNode(Client)
  BY <1>2, StepIsLocal DEF Inv, NodeStep, ClientStep
<1>4. ClientFresh'
  BY <1>1, ClientMovesOn, ClientStaysFresh DEF Fresh
<1> QED BY <1>1, <1>2, <1>3, <1>4, NoUse

LEMMA ClientSignsFresh ==
    ASSUME NBlocks = 1, Inv, Fresh, ClientSigns
    PROVE  Fresh'
<1> DEFINE tx == cur[Client]
           got == Got("Rs", Client)
           rs == [p \in DOMAIN got \ {Client} |-> got[p].rs]
<1>1. Client \in Players /\ Client \notin Servers /\ drawn[Client] \in Nat /\ NIndex \in Nat
  BY ClientIsNoServer, SizeAssumption DEF Inv, NodeOk
<1>2. OnlyNode(Client)
  BY <1>1, StepIsLocal DEF Inv, NodeStep, ClientStep
<1>3. drawn' = drawn /\ pc[Client] = "Rs"
  BY DEF ClientSigns, Await, Abort, serviceVars
<1>4. ClientFresh'
  BY ClientMovesOn DEF ClientFresh
<1>5. CASE ClientSignOk(cli, tx, rs)
  <2>1. uses' = uses \cup {<<Client, cli.pre[Index(tx, b)], ClientHram(cli, tx, rs, b)>> : b \in Blocks}
    BY <1>5 DEF ClientSigns
  <2>2. Blocks = {0}
    BY DEF Blocks
  <2> DEFINE i == Index(tx, 0)
             challenge == ClientHram(cli, tx, rs, 0)
             serial == drawn[Client] - NIndex + i + 1
  <2>3. uses' = uses \cup {<<Client, cli.pre[i], challenge>>}
    BY <2>1, <2>2
  <2>4. i \in DOMAIN cli.pre
    BY <1>5, <2>2 DEF ClientSignOk, ClientLoaded
  <2> HIDE DEF i, challenge
  <2>5. /\ \A u \in uses : u[1] = Client => u[2][2] <= drawn[Client] - NIndex
        /\ drawn[Client] >= NIndex
        /\ DOMAIN cli.pre = Indices
        /\ cli.pre[i] = <<Client, serial>>
    BY <1>3, <2>4 DEF Fresh, ClientFresh, Ahead, Holding
  <2>6. i \in 0 .. NIndex - 1
    BY <2>4, <2>5 DEF Indices
  <2>7. serial \in 1 .. drawn[Client] /\ drawn[Client] - NIndex < serial
    BY <1>1, <2>5, <2>6
  <2>8. \A u \in uses : u[1] = Client => u[2][2] < serial
    <3>1. \A u \in uses : u[1] = Client => u[2][2] \in Int
      BY DEF Fresh, UsesDrawn
    <3> HIDE DEF serial
    <3>2. serial \in Int /\ drawn[Client] - NIndex \in Int
      BY <1>1, <2>7
    <3> QED BY <2>5, <2>7, <3>1, <3>2
  <2> HIDE DEF serial
  <2> QED BY <1>1, <1>2, <1>3, <1>4, <2>3, <2>5, <2>7, <2>8, OneUse
<1>6. CASE ~ClientSignOk(cli, tx, rs)
  <2>1. uses' = uses /\ cli' = cli
    BY <1>6 DEF ClientSigns, Abort, serviceVars, historyVars
  <2> QED BY <1>1, <1>2, <1>3, <1>4, <2>1, NoUse
<1> QED BY <1>5, <1>6

LEMMA ServerHandlersStayFresh ==
    ASSUME Inv, Fresh, NEW s \in Servers,
           ServerPreprocess(s) \/ ServerDecommit(s) \/ ServerBroadcastR(s) \/ ServerGetSignature(s)
    PROVE  Fresh'
<1>1. UNCHANGED <<cli, drawn, uses, cur>>
  BY DEF ServerPreprocess, ServerDecommit, ServerBroadcastR, ServerGetSignature, Abort,
         serviceVars, historyVars
<1>2. s \in Players /\ s # Client /\ drawn[s] \in Nat
  BY ClientIsNoServer DEF Inv, NodeOk
<1>3. OnlyNode(s)
  BY <1>2, StepIsLocal DEF Inv, NodeStep, ServerStep
<1>4. GoesOn(s) \/ ~Ahead(s, Signing)'
  BY ServerPreprocessKeeps, ServerDecommitKeeps, ServerBroadcastRKeeps, ServerGetSignatureKeeps
<1>5. ServerFresh(s)'
  <2>1. CASE GoesOn(s)
    BY <1>1, <2>1, ServerStaysFresh DEF Fresh, Inv, ServerOk
  <2>2. CASE ~Ahead(s, Signing)'
    BY <2>2 DEF ServerFresh
  <2> QED BY <1>4, <2>1, <2>2
<1> QED BY <1>1, <1>2, <1>3, <1>5, NoUse

LEMMA ServerReadyDrawsFresh ==
    ASSUME Inv, Fresh, NEW s \in Servers, ServerReady(s)
    PROVE  Fresh'
<1>1. cli' = cli /\ uses' = uses /\ cur' = cur
  BY DEF ServerReady
<1>2. s \in Players /\ s # Client /\ drawn[s] \in Nat
  BY ClientIsNoServer DEF Inv, NodeOk
<1>3. OnlyNode(s)
  BY <1>2, StepIsLocal DEF Inv, NodeStep, ServerStep
<1>4. \/ /\ drawn'[s] = drawn[s] + 1
         /\ \A b \in Blocks : srv'[s].data[cur[s]].k[b] = <<s, drawn'[s]>>
      \/ drawn'[s] = drawn[s] /\ ~Ahead(s, Signing)'
  BY ServerReadyKeeps
<1>5. drawn'[s] \in Nat /\ drawn[s] <= drawn'[s]
  BY <1>2, <1>4
<1>6. ServerFresh(s)'
  <2>1. CASE ~Ahead(s, Signing)'
    BY <2>1 DEF ServerFresh
  <2>2. CASE drawn'[s] = drawn[s] + 1 /\ \A b \in Blocks : srv'[s].data[cur[s]].k[b] = <<s, drawn'[s]>>
    <3>1. \A u \in uses : u[1] = s => u[2][2] < drawn'[s]
      BY <1>2, <2>2 DEF Fresh, UsesDrawn
    <3> QED BY <1>1, <1>2, <2>2, <3>1 DEF ServerFresh
  <2> QED BY <1>4, <2>1, <2>2
<1> QED BY <1>1, <1>2, <1>3, <1>5, <1>6, NoUse

LEMMA ServerBroadcastSiFresh ==
    ASSUME NBlocks = 1, Inv, Fresh, NEW s \in Servers, ServerBroadcastSi(s)
    PROVE  Fresh'
<1> DEFINE psigs == Got("psig", s)[Client].sigs
<1>1. s \in Players /\ s # Client /\ drawn[s] \in Nat
  BY ClientIsNoServer DEF Inv, NodeOk
<1>2. OnlyNode(s)
  BY <1>1, StepIsLocal DEF Inv, NodeStep, ServerStep
<1>3. drawn' = drawn /\ cli' = cli /\ pc[s] = "psig"
  BY DEF ServerBroadcastSi, Await, Abort, serviceVars
<1>4. ServerFresh(s)'
  BY ServerBroadcastSiKeeps DEF ServerFresh
<1>5. CASE BroadcastSiOk(srv[s], cur[s], psigs)
  <2> DEFINE challenge == ServerHram(srv[s], cur[s], psigs, 0)
  <2>1. uses' = uses \cup {<<s, srv[s].data[cur[s]].k[b], ServerHram(srv[s], cur[s], psigs, b)>> : b \in Blocks}
    BY <1>5 DEF ServerBroadcastSi
  <2>2. Blocks = {0}
    BY DEF Blocks
  <2>3. uses' = uses \cup {<<s, srv[s].data[cur[s]].k[0], challenge>>}
    BY <2>1, <2>2
  <2>4. cur[s] \in DOMAIN srv[s].data
    BY <1>5 DEF BroadcastSiOk
  <2> HIDE DEF challenge
  <2>5. /\ srv[s].data[cur[s]].k[0] = <<s, drawn[s]>> /\ 1 <= drawn[s]
        /\ \A u \in uses : u[1] = s => u[2][2] < drawn[s]
    BY <1>3, <2>2, <2>4 DEF Fresh, ServerFresh, Ahead, Signing
  <2>6. drawn[s] \in 1 .. drawn[s]
    BY <1>1, <2>5
  <2> QED BY <1>1, <1>2, <1>3, <1>4, <2>3, <2>5, <2>6, OneUse
<1>6. CASE ~BroadcastSiOk(srv[s], cur[s], psigs)
  <2>1. uses' = uses /\ cli' = cli
    BY <1>6 DEF ServerBroadcastSi, Abort, serviceVars, historyVars
  <2> QED BY <1>1, <1>2, <1>3, <1>4, <2>1, NoUse
<1> QED BY <1>5, <1>6

LEMMA NextFresh ==
    ASSUME NBlocks = 1
    PROVE  Inv /\ Fresh /\ [Next]_vars => Fresh'
<1> SUFFICES ASSUME Inv, Fresh, [Next]_vars PROVE Fresh'
  OBVIOUS
<1>1. ASSUME NEW n \in Players, NodeStep(n) PROVE Fresh'
  <2>1. CASE ChooseTx(n) \/ UserStarts(n) \/ UserCancels(n) \/ Broadcast(n) \/ LoseBroadcast(n)
    BY <2>1, ChooseTxStaysFresh, NodeStaysFresh
  <2>2. CASE n = Client /\ ClientStep
    BY <2>2, ClientPreprocessDrawsFresh, ClientWaitsFresh, ClientSignsFresh DEF ClientStep
  <2>3. CASE n \in Servers /\ ServerStep(n)
    BY <2>3, ServerHandlersStayFresh, ServerReadyDrawsFresh, ServerBroadcastSiFresh DEF ServerStep
  <2> QED BY <1>1, <2>1, <2>2, <2>3 DEF NodeStep
<1>2. CASE RelayResets \/ UNCHANGED vars
  <2>1. UNCHANGED <<nodeVars, serviceVars, historyVars>>
    BY <1>2 DEF RelayResets, vars
  <2> QED BY <2>1 DEF Fresh, UsesDrawn, ServerFresh, ClientFresh, NonceUsedOnce, Ahead,
                      nodeVars, serviceVars, historyVars
<1> QED BY <1>1, <1>2 DEF Next

\* The demo signs one block per transaction, and then no nonce answers two
\* challenges, though its persistencies delete nothing and messages of other
\* sessions reach the services: each session overwrites the nonces before it
\* signs, and signs once.
THEOREM NoncesUsedOnce == ASSUME NBlocks = 1 PROVE Spec => []NonceUsedOnce
<1>1. Inv /\ Fresh /\ [Next]_vars => Fresh'
  BY NextFresh
<1>2. Fresh => NonceUsedOnce
  BY DEF Fresh
<1> QED BY <1>1, <1>2, InitFresh, SessionsInv, PTL DEF Spec

-----------------------------------------------------------------------------
(***************************************************************************)
(* The demo's sessions implement AsymEddsa: whatever is lost, reset or     *)
(* cancelled, each step of a node is a call of AsymEddsa on messages the   *)
(* services produced for that transaction and round, or changes nothing    *)
(* there.  What is proved of AsymEddsa's stores, messages and signatures   *)
(* for arbitrary callers with the demo's persistencies holds of the demo.  *)
(***************************************************************************)
\* The handlers of AsymEddsaOps, named through the instance Services.

LEMMA SameConstants ==
    /\ Services!Players = Players /\ Services!Blocks = Blocks /\ Services!Indices = Indices
    /\ Services!TwoPlayers <=> TwoPlayers
    /\ Services!KeyId = KeyId
    /\ \A tx, b : Services!Index(tx, b) = Index(tx, b) /\ Services!Block(tx, b) = Block(tx, b)
  BY DEF Services!Players, Players, Services!Blocks, Blocks, Services!Indices, Indices,
         Services!TwoPlayers, TwoPlayers, Services!Cardinality, Cardinality, Services!KeyId, KeyId, Services!Index, Index,
         Services!Block, Block

LEMMA SameTerms ==
    /\ \A k : Services!GeneratorMul(k) = GeneratorMul(k)
    /\ \A s, t : Services!(+)(s, t) = s (+) t
    /\ \A points : Services!AddAll(points) = AddAll(points)
    /\ \A scalars : Services!SumScalars(scalars) = SumScalars(scalars)
    /\ \A R, block : Services!Hram(R, block) = Hram(R, block)
    /\ \A hram, p, k : Services!MulAdd(hram, p, k) = MulAdd(hram, p, k)
    /\ \A s, t : Services!AddScalars(s, t) = AddScalars(s, t)
    /\ \A id, i, p, R : Services!CommitToR(id, i, p, R) = CommitToR(id, i, p, R)
    /\ \A tx, p, Rs : Services!CommitToRs(tx, p, Rs) = CommitToRs(tx, p, Rs)
    /\ \A m, k, v : Services!Put(m, k, v) = Put(m, k, v)
    /\ \A m, ks : Services!Drop(m, ks) = Drop(m, ks)
<1>1. \A k : Services!GeneratorMul(k) = GeneratorMul(k)
  BY DEF Services!GeneratorMul, GeneratorMul, Services!SetToBag, SetToBag
<1>2. \A s, t : Services!(+)(s, t) = s (+) t
  BY DEF Services!(+), (+)
<1>3. \A points : Services!AddAll(points) = AddAll(points)
  BY DEF Services!AddAll, AddAll, Services!FoldFunction, FoldFunction,
         Services!FoldFunctionOnSet, FoldFunctionOnSet, Services!MapThenFoldSet, MapThenFoldSet
<1>4. \A scalars : Services!SumScalars(scalars) = SumScalars(scalars)
  BY <1>3 DEF Services!SumScalars, SumScalars
<1>5. \A R, block : Services!Hram(R, block) = Hram(R, block)
  BY DEF Services!Hram, Hram
<1>6. \A hram, p, k : Services!MulAdd(hram, p, k) = MulAdd(hram, p, k)
  BY DEF Services!MulAdd, MulAdd, Services!SetToBag, SetToBag
<1>7. \A s, t : Services!AddScalars(s, t) = AddScalars(s, t)
  BY <1>2 DEF Services!AddScalars, AddScalars
<1>8. /\ \A id, i, p, R : Services!CommitToR(id, i, p, R) = CommitToR(id, i, p, R)
      /\ \A tx, p, Rs : Services!CommitToRs(tx, p, Rs) = CommitToRs(tx, p, Rs)
  BY DEF Services!CommitToR, CommitToR, Services!CommitToRs, CommitToRs
<1>9. /\ \A m, k, v : Services!Put(m, k, v) = Put(m, k, v)
      /\ \A m, ks : Services!Drop(m, ks) = Drop(m, ks)
  BY DEF Services!Put, Put, Services!Drop, Drop
<1> QED BY <1>1, <1>2, <1>3, <1>4, <1>5, <1>6, <1>7, <1>8, <1>9

LEMMA SameClient ==
    /\ \A c : Services!PreprocessOk(c) <=> PreprocessOk(c)
    /\ \A c, ks : Services!PreprocessDo(c, ks) = PreprocessDo(c, ks)
    /\ \A ks : Services!PreprocessOut(ks) = PreprocessOut(ks)
    /\ \A c, tx, rs : Services!ClientSignOk(c, tx, rs) <=> ClientSignOk(c, tx, rs)
    /\ \A c, tx : Services!ClientSignDo(c, tx) = ClientSignDo(c, tx)
    /\ \A c, tx, rs, b : Services!ClientHram(c, tx, rs, b) = ClientHram(c, tx, rs, b)
    /\ \A c, tx, rs : Services!ClientSignOut(c, tx, rs) = ClientSignOut(c, tx, rs)
<1> USE SameConstants, SameTerms
<1>1. \A c : Services!PreprocessOk(c) <=> PreprocessOk(c)
  BY DEF Services!PreprocessOk, PreprocessOk
<1>2. \A c, ks : Services!PreprocessDo(c, ks) = PreprocessDo(c, ks)
  BY DEF Services!PreprocessDo, PreprocessDo
<1>3. \A ks : Services!PreprocessOut(ks) = PreprocessOut(ks)
  BY DEF Services!PreprocessOut, PreprocessOut
<1>4. \A c, tx, rs : Services!ClientSignOk(c, tx, rs) <=> ClientSignOk(c, tx, rs)
  BY DEF Services!ClientSignOk, ClientSignOk, Services!ClientRsOk, ClientRsOk,
         Services!ClientLoaded, ClientLoaded
<1>5. \A c, tx : Services!ClientSignDo(c, tx) = ClientSignDo(c, tx)
  BY DEF Services!ClientSignDo, ClientSignDo
<1>6. \A c, tx, rs, b : Services!ClientHram(c, tx, rs, b) = ClientHram(c, tx, rs, b)
  BY DEF Services!ClientHram, ClientHram
<1>7. \A c, tx, rs : Services!ClientSignOut(c, tx, rs) = ClientSignOut(c, tx, rs)
  BY <1>6 DEF Services!ClientSignOut, ClientSignOut
<1> QED BY <1>1, <1>2, <1>3, <1>4, <1>5, <1>6, <1>7

LEMMA SameServer ==
    /\ \A st : Services!StorePresigningOk(st) <=> StorePresigningOk(st)
    /\ \A st, c : Services!StorePresigningDo(st, c) = StorePresigningDo(st, c)
    /\ \A st, tx : Services!SignOfflineOk(st, tx) <=> SignOfflineOk(st, tx)
    /\ \A st, tx, k : Services!SignOfflineDo(st, tx, k) = SignOfflineDo(st, tx, k)
    /\ \A me, tx, k : Services!SignOfflineOut(me, tx, k) = SignOfflineOut(me, tx, k)
    /\ \A st, me, tx, c : Services!DecommitOk(st, me, tx, c) <=> DecommitOk(st, me, tx, c)
    /\ \A st, tx, c : Services!DecommitDo(st, tx, c) = DecommitDo(st, tx, c)
    /\ \A st, tx : Services!DecommitOut(st, tx) = DecommitOut(st, tx)
    /\ \A st, tx, rs : Services!BroadcastROk(st, tx, rs) <=> BroadcastROk(st, tx, rs)
    /\ \A st, me, tx, rs : Services!BroadcastRDo(st, me, tx, rs) = BroadcastRDo(st, me, tx, rs)
    /\ \A st, me, tx, rs : Services!BroadcastROut(st, me, tx, rs) = BroadcastROut(st, me, tx, rs)
<1> USE SameConstants, SameTerms
<1>1. \A st : Services!StorePresigningOk(st) <=> StorePresigningOk(st)
  BY DEF Services!StorePresigningOk, StorePresigningOk
<1>2. \A st, c : Services!StorePresigningDo(st, c) = StorePresigningDo(st, c)
  BY DEF Services!StorePresigningDo, StorePresigningDo
<1>3. \A st, tx : Services!SignOfflineOk(st, tx) <=> SignOfflineOk(st, tx)
  BY DEF Services!SignOfflineOk, SignOfflineOk
<1>4. \A st, tx, k : Services!SignOfflineDo(st, tx, k) = SignOfflineDo(st, tx, k)
  BY DEF Services!SignOfflineDo, SignOfflineDo
<1>5. \A me, tx, k : Services!SignOfflineOut(me, tx, k) = SignOfflineOut(me, tx, k)
  BY DEF Services!SignOfflineOut, SignOfflineOut
<1>6. \A c, p, tx, Rs : Services!Opens(c, p, tx, Rs) <=> Opens(c, p, tx, Rs)
  BY DEF Services!Opens, Opens
<1>7. \A st, me, tx, c : Services!DecommitOk(st, me, tx, c) <=> DecommitOk(st, me, tx, c)
  BY <1>6 DEF Services!DecommitOk, DecommitOk
<1>8. \A st, tx, c : Services!DecommitDo(st, tx, c) = DecommitDo(st, tx, c)
  BY DEF Services!DecommitDo, DecommitDo
<1>9. \A st, tx : Services!DecommitOut(st, tx) = DecommitOut(st, tx)
  BY DEF Services!DecommitOut, DecommitOut
<1>10. \A st, tx, rs : Services!BroadcastROk(st, tx, rs) <=> BroadcastROk(st, tx, rs)
  BY <1>6 DEF Services!BroadcastROk, BroadcastROk
<1>11. \A st, me, tx, rs : Services!CombinedRs(st, me, tx, rs) = CombinedRs(st, me, tx, rs)
  BY DEF Services!CombinedRs, CombinedRs
<1>12. \A st, me, tx, rs : Services!BroadcastRDo(st, me, tx, rs) = BroadcastRDo(st, me, tx, rs)
  BY <1>11 DEF Services!BroadcastRDo, BroadcastRDo
<1>13. \A st, me, tx, rs : Services!BroadcastROut(st, me, tx, rs) = BroadcastROut(st, me, tx, rs)
  BY <1>11 DEF Services!BroadcastROut, BroadcastROut
<1> QED BY <1>1, <1>2, <1>3, <1>4, <1>5, <1>7, <1>8, <1>9, <1>10, <1>12, <1>13

LEMMA SameShares ==
    /\ \A st, tx, psigs : Services!BroadcastSiOk(st, tx, psigs) <=> BroadcastSiOk(st, tx, psigs)
    /\ \A st, tx, psigs : Services!BroadcastSiDo(st, tx, psigs) = BroadcastSiDo(st, tx, psigs)
    /\ \A st, tx, psigs, b : Services!ServerHram(st, tx, psigs, b) = ServerHram(st, tx, psigs, b)
    /\ \A st, me, tx, psigs :
            Services!BroadcastSiOut(st, me, tx, psigs) = BroadcastSiOut(st, me, tx, psigs)
    /\ \A st, tx, sigs : Services!GetSignatureOk(st, tx, sigs) <=> GetSignatureOk(st, tx, sigs)
    /\ \A st, tx : Services!GetSignatureDo(st, tx) = GetSignatureDo(st, tx)
    /\ \A st, tx, sigs : Services!GetSignatureOut(st, tx, sigs) = GetSignatureOut(st, tx, sigs)
<1> USE SameConstants, SameTerms
<1>1. \A st, tx, psigs : Services!BroadcastSiOk(st, tx, psigs) <=> BroadcastSiOk(st, tx, psigs)
  BY DEF Services!BroadcastSiOk, BroadcastSiOk, Services!ClientRMatches, ClientRMatches
<1>2. \A st, tx, psigs : Services!BroadcastSiDo(st, tx, psigs) = BroadcastSiDo(st, tx, psigs)
  BY DEF Services!BroadcastSiDo, BroadcastSiDo
<1>3. \A st, tx, psigs, b : Services!ServerHram(st, tx, psigs, b) = ServerHram(st, tx, psigs, b)
  BY DEF Services!ServerHram, ServerHram
<1>4. Services!MinSigner = MinSigner
  BY DEF Services!MinSigner, MinSigner
<1>5. \A st, me, tx, psigs :
            Services!BroadcastSiOut(st, me, tx, psigs) = BroadcastSiOut(st, me, tx, psigs)
  BY <1>3, <1>4 DEF Services!BroadcastSiOut, BroadcastSiOut
<1>6. \A st, tx, sigs : Services!GetSignatureOk(st, tx, sigs) <=> GetSignatureOk(st, tx, sigs)
  BY DEF Services!GetSignatureOk, GetSignatureOk
<1>7. \A st, tx : Services!GetSignatureDo(st, tx) = GetSignatureDo(st, tx)
  BY DEF Services!GetSignatureDo, GetSignatureDo
<1>8. \A st, tx, sigs : Services!GetSignatureOut(st, tx, sigs) = GetSignatureOut(st, tx, sigs)
  BY DEF Services!GetSignatureOut, GetSignatureOut
<1> QED BY <1>1, <1>2, <1>3, <1>5, <1>6, <1>7, <1>8

-----------------------------------------------------------------------------
\* The initial states, and the messages handed to a service.

LEMMA InitImplements == Init => Services!Init
<1>1. Services!EmptyMap = EmptyMap
  BY DEF Services!EmptyMap, EmptyMap
<1>2. Services!EmptyClient = EmptyClient /\ Services!EmptyServer = EmptyServer
  BY <1>1 DEF Services!EmptyClient, EmptyClient, Services!EmptyServer, EmptyServer
<1> QED BY <1>2, SameConstants DEF Init, Services!Init

\* One message of each server, of that kind and transaction.
LEMMA InBatches ==
    ASSUME NEW kind, NEW tx, NEW f, f \in [Servers -> said],
           \A p \in Servers : f[p].type = kind /\ f[p].tx = tx /\ f[p].from = p
    PROVE  f \in Services!Batches(kind, tx)
  BY DEF Services!Batches, Services!Of

\* What the relay holds of a server for a round.
LEMMA ServerAnswers ==
    ASSUME Inv, NEW n \in Players, NEW kind \in {"commit", "reveal", "Rs", "si"},
           NEW p \in DOMAIN Got(kind, n)
    PROVE  /\ Got(kind, n)[p] \in said /\ Got(kind, n)[p].type = kind
           /\ Got(kind, n)[p].tx = cur[n] /\ Got(kind, n)[p].from = p
  BY DEF Inv, HonestRelay, HonestRound, Sent, Got, Round

LEMMA ClientSent ==
    ASSUME Inv, NEW n \in Players, NEW kind \in {"presign", "psig"}, Ready(relay, Round(kind, n), 1)
    PROVE  /\ Got(kind, n)[Client] \in said /\ Got(kind, n)[Client].type = kind
           /\ kind = "psig" => Got(kind, n)[Client].tx = cur[n]
<1>1. Sent(said, Client, kind, cur[n], Got(kind, n)[Client])
  BY ClientAnswers DEF Inv, Got, Round
<1> QED BY <1>1 DEF Sent

-----------------------------------------------------------------------------
\* One lemma per call

LEMMA PreprocessImplements ==
    ASSUME NIndex > 0, Inv, ClientPreprocess
    PROVE  Services!StartPreprocessing
<1> DEFINE ks == [i \in Indices |-> <<Client, drawn[Client] + i + 1>>]
<1>1. drawn[Client] < Turns * NIndex
  <2>1. turn[Client] \in 0 .. Turns /\ drawn[Client] \in Nat
    BY ClientIsNoServer DEF Inv, NodeOk
  <2>2. drawn[Client] <= (turn[Client] - 1) * NIndex
    BY DEF ClientPreprocess, Inv, ClientOk
  <2>3. NIndex \in Nat /\ Turns \in Nat
    BY ScriptsFit, SizeAssumption DEF Inv
  <2>4. (turn[Client] - 1) * NIndex < Turns * NIndex
    <3>1. \A a, c \in Int : a < c => a * NIndex < c * NIndex
      BY <2>3
    <3> QED BY <2>1, <2>3, <3>1
  <2>5. (turn[Client] - 1) * NIndex \in Int /\ Turns * NIndex \in Int
    BY <2>1, <2>3
  <2> QED BY <2>1, <2>2, <2>4, <2>5
<1>2. PreprocessOk(cli)
  BY DemoAssumption DEF PreprocessOk
<1>3. /\ cli' = PreprocessDo(cli, ks)
      /\ said' = said \cup {[type |-> "presign", commitments |-> PreprocessOut(ks)]}
      /\ drawn' = [drawn EXCEPT ![Client] = @ + NIndex]
      /\ UNCHANGED <<srv, finals, uses>>
  BY DEF ClientPreprocess
<1> QED BY <1>1, <1>2, <1>3, SameClient, SameConstants DEF Services!StartPreprocessing

LEMMA StorePresigningImplements ==
    ASSUME Inv, NEW s \in Servers, ServerPreprocess(s)
    PROVE  Services!StorePresigning(s)
<1> DEFINE m == Got("presign", s)[Client]
<1>1. /\ Ready(relay, Round("presign", s), 1)
      /\ srv' = [srv EXCEPT ![s] = StorePresigningDo(@, m.commitments)]
      /\ UNCHANGED <<cli, drawn, said, finals, uses>>
  BY DEF ServerPreprocess, Await, historyVars
<1>2. m \in said /\ m.type = "presign"
  BY <1>1, ClientSent, ClientIsNoServer
<1>3. StorePresigningOk(srv[s])
  BY DemoAssumption DEF StorePresigningOk
<1> HIDE DEF m
<1> QED BY <1>1, <1>2, <1>3, SameServer DEF Services!StorePresigning

LEMMA SignOfflineImplements ==
    ASSUME ~TwoPlayers, Inv, NEW s \in Servers, ServerReady(s)
    PROVE  Services!SignOffline(s, cur[s]) \/ UNCHANGED Services!vars
<1> DEFINE k == <<s, drawn[s] + 1>>
<1>1. CASE 0 \in DOMAIN srv[s].pre
  <2>1. /\ srv' = [srv EXCEPT ![s] = SignOfflineDo(@, cur[s], k)]
        /\ said' = said \cup {[type |-> "commit", tx |-> cur[s], from |-> s,
                               commitments |-> SignOfflineOut(s, cur[s], k)]}
        /\ drawn' = [drawn EXCEPT ![s] = @ + 1]
        /\ UNCHANGED <<cli, finals, uses>>
    BY <1>1 DEF ServerReady
  <2>2. drawn[s] < Turns
    <3>1. drawn[s] < turn[s] /\ turn[s] \in 0 .. Turns /\ drawn[s] \in Nat
      BY ClientIsNoServer DEF ServerReady, Await, Inv, ServerOk, NodeOk, Ahead
    <3>2. Turns \in Nat
      BY ScriptsFit DEF Inv
    <3> QED BY <3>1, <3>2
  <2>3. SignOfflineOk(srv[s], cur[s])
    BY DemoAssumption DEF SignOfflineOk
  <2>4. Services!NextNonce(s) = k
    BY DEF Services!NextNonce
  <2> HIDE DEF k
  <2> QED BY <2>1, <2>2, <2>3, <2>4, SameServer, SameConstants DEF Services!SignOffline
<1>2. CASE 0 \notin DOMAIN srv[s].pre
  BY <1>2 DEF ServerReady, Services!vars
<1> QED BY <1>1, <1>2

\* A handler that refuses what it is given: nothing changes for the services.
LEMMA AbortImplements ==
    ASSUME NEW n, Abort(n) PROVE UNCHANGED Services!vars
  BY DEF Abort, Services!vars, serviceVars, historyVars

LEMMA DecommitImplements ==
    ASSUME Inv, NEW s \in Servers, ServerDecommit(s)
    PROVE  Services!DecommitR(s, cur[s]) \/ UNCHANGED Services!vars
<1> DEFINE tx == cur[s]
           got == WithOthers(s, [commitments |-> OwnCommitments(s)], "commit")
           commitments == [p \in DOMAIN got |-> got[p].commitments]
           own == CommitOf(s, tx, srv[s])
           f == [p \in Servers |-> IF p = s THEN own ELSE Got("commit", s)[p]]
           given == [p \in Servers |-> f[p].commitments]
<1>1. CASE DecommitOk(srv[s], s, tx, commitments)
  <2>1. DOMAIN got = Servers /\ tx \in DOMAIN srv[s].data
    BY <1>1 DEF DecommitOk
  <2>2. own \in said /\ own.type = "commit" /\ own.tx = tx /\ own.from = s
        /\ own.commitments = OwnCommitments(s)
    BY <2>1 DEF Inv, ServerOk, CommitOf, OwnCommitments
  <2>3. \A p \in Servers \ {s} : p \in DOMAIN Got("commit", s)
    BY <2>1 DEF WithOthers
  <2> HIDE DEF own
  <2>4. \A p \in Servers : f[p] \in said /\ f[p].type = "commit" /\ f[p].tx = tx /\ f[p].from = p
    BY <2>2, <2>3, ServerAnswers, ClientIsNoServer
  <2>5. f \in Services!Batches("commit", tx)
    <3>1. f \in [Servers -> said]
      BY <2>4
    <3> HIDE DEF f
    <3> QED BY <2>4, <3>1, InBatches
  <2>6. commitments = given
    <3>1. \A p \in Servers : got[p].commitments = f[p].commitments
      BY <2>1, <2>2 DEF WithOthers
    <3> HIDE DEF got, f
    <3> QED BY <2>1, <3>1
  <2>7. /\ srv' = [srv EXCEPT ![s] = DecommitDo(@, tx, commitments)]
        /\ said' = said \cup {[type |-> "reveal", tx |-> tx, from |-> s,
                               Rs |-> DecommitOut(srv[s], tx)]}
        /\ UNCHANGED <<cli, drawn, finals, uses>>
    BY <1>1 DEF ServerDecommit
  <2> HIDE DEF f, commitments, tx
  <2>8. DecommitOk(srv[s], s, tx, given) /\ srv' = [srv EXCEPT ![s] = DecommitDo(@, tx, given)]
    BY <1>1, <2>6, <2>7
  <2> QED BY <2>5, <2>7, <2>8, SameServer DEF Services!DecommitR, tx
<1>2. CASE ~DecommitOk(srv[s], s, tx, commitments)
  BY <1>2, AbortImplements DEF ServerDecommit
<1> QED BY <1>1, <1>2

LEMMA BroadcastRImplements ==
    ASSUME Inv, NEW s \in Servers, ServerBroadcastR(s)
    PROVE  Services!BroadcastR(s, cur[s]) \/ UNCHANGED Services!vars
<1> DEFINE tx == cur[s]
           got == WithOthers(s, [Rs |-> DecommitOut(srv[s], tx)], "reveal")
           rs == [p \in DOMAIN got |-> got[p].Rs]
           own == RevealOf(s, tx, srv[s])
           f == [p \in Servers |-> IF p = s THEN own ELSE Got("reveal", s)[p]]
           given == [p \in Servers |-> f[p].Rs]
<1>1. CASE BroadcastROk(srv[s], tx, rs)
  <2>1. DOMAIN got = Servers
    BY <1>1 DEF BroadcastROk
  <2>2. own \in said /\ own.type = "reveal" /\ own.tx = tx /\ own.from = s
        /\ own.Rs = DecommitOut(srv[s], tx)
    BY DEF ServerBroadcastR, Await, Inv, ServerOk, Ahead, RevealOf
  <2>3. \A p \in Servers \ {s} : p \in DOMAIN Got("reveal", s)
    BY <2>1 DEF WithOthers
  <2> HIDE DEF own
  <2>4. \A p \in Servers : f[p] \in said /\ f[p].type = "reveal" /\ f[p].tx = tx /\ f[p].from = p
    BY <2>2, <2>3, ServerAnswers, ClientIsNoServer
  <2>5. f \in Services!Batches("reveal", tx)
    <3>1. f \in [Servers -> said]
      BY <2>4
    <3> HIDE DEF f
    <3> QED BY <2>4, <3>1, InBatches
  <2>6. rs = given
    <3>1. \A p \in Servers : got[p].Rs = f[p].Rs
      BY <2>1, <2>2 DEF WithOthers
    <3> HIDE DEF got, f
    <3> QED BY <2>1, <3>1
  <2>7. /\ srv' = [srv EXCEPT ![s] = BroadcastRDo(@, s, tx, rs)]
        /\ said' = said \cup {[type |-> "Rs", tx |-> tx, from |-> s,
                               rs |-> BroadcastROut(srv[s], s, tx, rs)]}
        /\ UNCHANGED <<cli, drawn, finals, uses>>
    BY <1>1 DEF ServerBroadcastR
  <2> HIDE DEF f, rs, tx
  <2>8. /\ BroadcastROk(srv[s], tx, given)
        /\ srv' = [srv EXCEPT ![s] = BroadcastRDo(@, s, tx, given)]
        /\ said' = said \cup {[type |-> "Rs", tx |-> tx, from |-> s,
                               rs |-> BroadcastROut(srv[s], s, tx, given)]}
    BY <1>1, <2>6, <2>7
  <2> QED BY <2>5, <2>7, <2>8, SameServer DEF Services!BroadcastR, tx
<1>2. CASE ~BroadcastROk(srv[s], tx, rs)
  BY <1>2, AbortImplements DEF ServerBroadcastR
<1> QED BY <1>1, <1>2

LEMMA BroadcastSiImplements ==
    ASSUME ~TwoPlayers, Inv, NEW s \in Servers, ServerBroadcastSi(s)
    PROVE  Services!BroadcastSi(s, cur[s]) \/ UNCHANGED Services!vars
<1> DEFINE tx == cur[s]
           m == Got("psig", s)[Client]
           psigs == m.sigs
<1>1. CASE BroadcastSiOk(srv[s], tx, psigs)
  <2>1. m \in said /\ m.type = "psig" /\ m.tx = tx
    BY ClientSent, ClientIsNoServer DEF ServerBroadcastSi, Await
  <2>2. m \in Services!Of("psig", tx)
    BY <2>1 DEF Services!Of
  <2>3. /\ srv' = [srv EXCEPT ![s] = BroadcastSiDo(@, tx, psigs)]
        /\ said' = said \cup {[type |-> "si", tx |-> tx, from |-> s,
                               sigs |-> BroadcastSiOut(srv[s], s, tx, psigs)]}
        /\ uses' = uses \cup {<<s, srv[s].data[tx].k[b],
                                ServerHram(srv[s], tx, psigs, b)>> : b \in Blocks}
        /\ UNCHANGED <<cli, drawn, finals>>
    BY <1>1 DEF ServerBroadcastSi
  <2> HIDE DEF m, tx
  <2> QED BY <1>1, <2>2, <2>3, SameShares, SameConstants DEF Services!BroadcastSi, tx
<1>2. CASE ~BroadcastSiOk(srv[s], tx, psigs)
  BY <1>2, AbortImplements DEF ServerBroadcastSi
<1> QED BY <1>1, <1>2

LEMMA GetSignatureImplements ==
    ASSUME Inv, NEW s \in Servers, ServerGetSignature(s)
    PROVE  Services!GetSignature(s, cur[s]) \/ UNCHANGED Services!vars
<1> DEFINE tx == cur[s]
           sigs == [p \in DOMAIN Got("si", s) |-> Got("si", s)[p].sigs]
           f == [p \in Servers |-> Got("si", s)[p]]
           given == [p \in Servers |-> f[p].sigs]
<1>1. CASE GetSignatureOk(srv[s], tx, sigs)
  <2>1. DOMAIN Got("si", s) = Servers
    BY <1>1 DEF GetSignatureOk
  <2>2. \A p \in Servers : f[p] \in said /\ f[p].type = "si" /\ f[p].tx = tx /\ f[p].from = p
    BY <2>1, ServerAnswers, ClientIsNoServer
  <2>3. f \in Services!Batches("si", tx)
    <3>1. f \in [Servers -> said]
      BY <2>2
    <3> HIDE DEF f
    <3> QED BY <2>2, <3>1, InBatches
  <2>4. sigs = given
    BY <2>1
  <2>5. /\ srv' = [srv EXCEPT ![s] = GetSignatureDo(@, tx)]
        /\ finals' = finals \cup {[tx |-> tx, by |-> s, sigs |-> GetSignatureOut(srv[s], tx, sigs)]}
        /\ UNCHANGED <<cli, drawn, said, uses>>
    BY <1>1 DEF ServerGetSignature
  <2> HIDE DEF f, sigs, tx
  <2>6. /\ GetSignatureOk(srv[s], tx, given)
        /\ finals' = finals \cup {[tx |-> tx, by |-> s, sigs |-> GetSignatureOut(srv[s], tx, given)]}
    BY <1>1, <2>4, <2>5
  <2> QED BY <2>3, <2>5, <2>6, SameShares DEF Services!GetSignature, tx
<1>2. CASE ~GetSignatureOk(srv[s], tx, sigs)
  BY <1>2, AbortImplements DEF ServerGetSignature
<1> QED BY <1>1, <1>2

LEMMA ClientSignImplements ==
    ASSUME Inv, ClientSigns
    PROVE  Services!ClientSign(cur[Client]) \/ UNCHANGED Services!vars
<1> DEFINE tx == cur[Client]
           got == Got("Rs", Client)
           rs == [p \in DOMAIN got \ {Client} |-> got[p].rs]
           f == [p \in Servers |-> got[p]]
           given == [p \in Servers |-> f[p].rs]
<1>1. CASE ClientSignOk(cli, tx, rs)
  <2>1. DOMAIN got \ {Client} = Servers
    BY <1>1 DEF ClientSignOk, ClientRsOk
  <2>2. \A p \in Servers : f[p] \in said /\ f[p].type = "Rs" /\ f[p].tx = tx /\ f[p].from = p
    BY <2>1, ServerAnswers, ClientIsNoServer
  <2>3. f \in Services!Batches("Rs", tx)
    <3>1. f \in [Servers -> said]
      BY <2>2
    <3> HIDE DEF f
    <3> QED BY <2>2, <3>1, InBatches
  <2>4. rs = given
    BY <2>1
  <2>5. /\ cli' = ClientSignDo(cli, tx)
        /\ said' = said \cup {[type |-> "psig", tx |-> tx, sigs |-> ClientSignOut(cli, tx, rs)]}
        /\ uses' = uses \cup {<<Client, cli.pre[Index(tx, b)], ClientHram(cli, tx, rs, b)>> : b \in Blocks}
        /\ UNCHANGED <<srv, drawn, finals>>
    BY <1>1 DEF ClientSigns
  <2> HIDE DEF f, rs, tx
  <2>6. /\ ClientSignOk(cli, tx, given)
        /\ said' = said \cup {[type |-> "psig", tx |-> tx, sigs |-> ClientSignOut(cli, tx, given)]}
        /\ uses' = uses \cup {<<Client, cli.pre[Index(tx, b)], ClientHram(cli, tx, given, b)>> : b \in Blocks}
    BY <1>1, <2>4, <2>5
  <2>7. /\ Services!ClientSignOk(cli, tx, given)
        /\ cli' = Services!ClientSignDo(cli, tx)
        /\ said' = said \cup {[type |-> "psig", tx |-> tx,
                               sigs |-> Services!ClientSignOut(cli, tx, given)]}
        /\ uses' = uses \cup {<<Client, cli.pre[Services!Index(tx, b)],
                                Services!ClientHram(cli, tx, given, b)>> : b \in Services!Blocks}
    <3> HIDE DEF given
    <3> QED BY <2>5, <2>6, SameClient, SameConstants
  <2> QED BY <2>3, <2>5, <2>7 DEF Services!ClientSign, tx
<1>2. CASE ~ClientSignOk(cli, tx, rs)
  BY <1>2, AbortImplements DEF ClientSigns
<1> QED BY <1>1, <1>2

-----------------------------------------------------------------------------

LEMMA StepImplements ==
    ASSUME NIndex > 0, ~TwoPlayers, Inv, [Next]_vars
    PROVE  [Services!Next]_(Services!vars)
<1>1. \A n \in Players : pc[n] # "menu" => cur[n] \in Txs
  BY DEF Inv, NodeOk
<1>2. ASSUME NEW n \in Players, NodeStep(n) PROVE Services!Next \/ UNCHANGED Services!vars
  <2>1. CASE ChooseTx(n) \/ UserStarts(n) \/ UserCancels(n) \/ Broadcast(n) \/ LoseBroadcast(n)
    BY <2>1 DEF ChooseTx, UserStarts, UserCancels, Abort, Broadcast, LoseBroadcast,
                Services!vars, serviceVars, historyVars
  <2>2. CASE n = Client /\ ClientStep
    <3>1. CASE ClientPreprocess
      BY <3>1, PreprocessImplements DEF Services!Next
    <3>2. CASE ClientReady \/ ClientAwaitsCommitments \/ ClientPrints
      BY <3>2 DEF ClientReady, ClientAwaitsCommitments, ClientPrints, Services!vars,
                  serviceVars, historyVars
    <3>3. CASE ClientSigns
      <4>1. cur[Client] \in Txs
        BY <1>1, <2>2, <3>3 DEF ClientSigns, Await
      <4> QED BY <3>3, <4>1, ClientSignImplements DEF Services!Next
    <3> QED BY <2>2, <3>1, <3>2, <3>3 DEF ClientStep
  <2>3. CASE n \in Servers /\ ServerStep(n)
    <3>1. CASE ServerPreprocess(n)
      BY <2>3, <3>1, StorePresigningImplements DEF Services!Next
    <3>2. CASE ~ServerPreprocess(n)
      <4>1. cur[n] \in Txs
        BY <1>1, <2>3, <3>2 DEF ServerStep, ServerReady, ServerDecommit, ServerBroadcastR,
              ServerBroadcastSi, ServerGetSignature, Await
      <4>2. Services!ServerStep(n, cur[n]) \/ UNCHANGED Services!vars
        BY <2>3, <3>2, SignOfflineImplements, DecommitImplements, BroadcastRImplements,
           BroadcastSiImplements, GetSignatureImplements DEF ServerStep, Services!ServerStep
      <4> QED BY <2>3, <4>1, <4>2 DEF Services!Next
    <3> QED BY <3>1, <3>2
  <2> QED BY <1>2, <2>1, <2>2, <2>3 DEF NodeStep
<1>3. CASE RelayResets \/ UNCHANGED vars
  BY <1>3 DEF RelayResets, vars, Services!vars, serviceVars, historyVars
<1> QED BY <1>2, <1>3 DEF Next

\* Nothing the nodes of the demo do to the services could not have been done
\* by some caller of AsymEddsa: the relay hands a service messages the services
\* produced, for that transaction and that round, one of each server, though it
\* checks neither senders nor rounds and loses or forgets messages.  (There is
\* more than one server, and the presigning array is not empty, as in the demo.)
THEOREM SessionsImplement ==
    ASSUME NIndex > 0, ~TwoPlayers
    PROVE  Spec => ImplementsServices
<1>1. Inv /\ [Next]_vars => [Services!Next]_(Services!vars)
  BY StepImplements
<1> QED BY <1>1, InitImplements, SessionsInv, PTL DEF Spec, ImplementsServices, Services!Spec
=============================================================================
