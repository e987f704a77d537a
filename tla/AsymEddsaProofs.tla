--------------------------- MODULE AsymEddsaProofs ---------------------------
(***************************************************************************)
(* Theorems about AsymEddsa, for every number of players, transactions,    *)
(* presigning indices and blocks, and without its bounds playing a part:   *)
(* the stores stay well formed, and no nonce answers two challenges.       *)
(***************************************************************************)
EXTENDS AsymEddsa, TLAPS

-----------------------------------------------------------------------------
\* A handler that draws no nonce and learns no commitment of the client: what
\* is left in the store was there before, under the same nonces.
Keeps(st, new) ==
    /\ new.alloc = st.alloc
    /\ DOMAIN new.pre \subseteq DOMAIN st.pre
    /\ DOMAIN new.data \subseteq DOMAIN st.data
    /\ \A t \in DOMAIN new.data : new.data[t].k = st.data[t].k

\* Every handler of a server leaves a well-formed store.

LEMMA StorePresigningStore ==
    ASSUME NEW st, IsServerStore(st), NEW cs, DOMAIN cs \subseteq Indices
    PROVE  IsServerStore(StorePresigningDo(st, cs))
  BY DEF IsServerStore, StorePresigningDo

\* A store is well formed when it differs from a well-formed one in the data
\* of one transaction only, and that is well formed or gone.
LEMMA StoreChange ==
    ASSUME NEW st, IsServerStore(st), NEW new, NEW tx,
           DOMAIN new = DOMAIN st, new.alloc = st.alloc,
           DOMAIN new.pre \subseteq DOMAIN st.pre,
           DOMAIN new.comm \subseteq DOMAIN st.comm \cup {tx},
           tx \in Txs \/ DOMAIN new.comm \subseteq DOMAIN st.comm,
           DOMAIN new.data \subseteq DOMAIN st.data \cup {tx},
           \A t \in DOMAIN new.data : t # tx => new.data[t] = st.data[t],
           tx \in DOMAIN new.data =>
                /\ tx \in Txs
                /\ DOMAIN new.data[tx] = {"k", "R"}
                /\ new.data[tx].k \in [Blocks -> Nonce]
    PROVE  IsServerStore(new)
  BY DEF IsServerStore

LEMMA SignOfflineStore ==
    ASSUME NEW st, IsServerStore(st), NEW tx \in Txs, NEW k \in Nonce
    PROVE  IsServerStore(SignOfflineDo(st, tx, k))
<1> DEFINE entry == [k |-> [b \in Blocks |-> k], R |-> [b \in Blocks |-> GeneratorMul(k)]]
           new == SignOfflineDo(st, tx, k)
<1>1. DOMAIN st = {"alloc", "pre", "comm", "data"}
  BY DEF IsServerStore
<1>2. DOMAIN entry = {"k", "R"} /\ entry.k \in [Blocks -> Nonce]
  OBVIOUS
<1>3. new = [st EXCEPT !.data = Put(@, tx, entry)]
  BY DEF SignOfflineDo
<1> HIDE DEF entry, new
<1>4. /\ DOMAIN new = DOMAIN st /\ new.alloc = st.alloc /\ new.pre = st.pre
      /\ new.comm = st.comm /\ new.data = Put(st.data, tx, entry)
  BY <1>1, <1>3
<1>5. /\ DOMAIN new.data = DOMAIN st.data \cup {tx}
      /\ new.data[tx] = entry
      /\ \A t \in DOMAIN st.data : t # tx => new.data[t] = st.data[t]
  BY <1>4 DEF Put
<1>6. IsServerStore(new)
  BY <1>2, <1>4, <1>5, StoreChange
<1> QED BY <1>6 DEF new

LEMMA DecommitStore ==
    ASSUME NEW st, IsServerStore(st), NEW tx \in Txs, NEW cs
    PROVE  IsServerStore(DecommitDo(st, tx, cs)) /\ Keeps(st, DecommitDo(st, tx, cs))
<1> DEFINE new == DecommitDo(st, tx, cs)
<1>1. DOMAIN st = {"alloc", "pre", "comm", "data"} /\ DOMAIN st.data \subseteq Txs
  BY DEF IsServerStore
<1>2. /\ DOMAIN new = DOMAIN st /\ new.alloc = st.alloc /\ new.pre = st.pre
      /\ new.comm = Put(st.comm, tx, cs) /\ new.data = st.data
  BY <1>1 DEF DecommitDo
<1>3. DOMAIN new.comm = DOMAIN st.comm \cup {tx}
  BY <1>2 DEF Put
<1>4. IsServerStore(new)
  BY <1>1, <1>2, <1>3 DEF IsServerStore
<1>5. Keeps(st, new)
  BY <1>1, <1>2, <1>3 DEF Keeps
<1> QED BY <1>4, <1>5

LEMMA BroadcastRStore ==
    ASSUME NEW st, IsServerStore(st), NEW me, NEW tx \in DOMAIN st.data, NEW rs
    PROVE  IsServerStore(BroadcastRDo(st, me, tx, rs)) /\ Keeps(st, BroadcastRDo(st, me, tx, rs))
<1> DEFINE new == BroadcastRDo(st, me, tx, rs)
           Rs  == CombinedRs(st, me, tx, rs)
<1>1. DOMAIN st = {"alloc", "pre", "comm", "data"}
  BY DEF IsServerStore
<1>2. /\ DOMAIN new = DOMAIN st /\ new.alloc = st.alloc /\ new.pre = st.pre
      /\ new.comm = Drop(st.comm, {tx})
      /\ new.data = [st.data EXCEPT ![tx].R = Rs]
  BY <1>1 DEF BroadcastRDo
<1> HIDE DEF new, Rs
<1>3. DOMAIN new.comm \subseteq DOMAIN st.comm
  BY <1>2 DEF Drop
<1>4. /\ DOMAIN new.data = DOMAIN st.data
      /\ \A t \in DOMAIN st.data : t # tx => new.data[t] = st.data[t]
      /\ new.data[tx] = [st.data[tx] EXCEPT !.R = Rs]
  BY <1>2
<1>5. DOMAIN new.data[tx] = DOMAIN st.data[tx] /\ new.data[tx].k = st.data[tx].k
  BY <1>4, DOMAIN st.data[tx] = {"k", "R"} DEF IsServerStore
<1>6. IsServerStore(new)
  BY <1>1, <1>2, <1>3, <1>4, <1>5 DEF IsServerStore
<1>7. Keeps(st, new)
  BY <1>1, <1>2, <1>3, <1>4, <1>5 DEF Keeps
<1> QED BY <1>6, <1>7 DEF new

LEMMA BroadcastSiStore ==
    ASSUME NEW st, IsServerStore(st), NEW tx \in DOMAIN st.data, NEW psigs
    PROVE  IsServerStore(BroadcastSiDo(st, tx, psigs)) /\ Keeps(st, BroadcastSiDo(st, tx, psigs))
<1> DEFINE new  == BroadcastSiDo(st, tx, psigs)
           used == {Index(tx, b) : b \in Blocks}
           R    == [b \in Blocks |-> st.data[tx].R[b] (+) psigs[b].R]
           entry == [st.data[tx] EXCEPT !.R = R]
<1>1. DOMAIN st = {"alloc", "pre", "comm", "data"}
  BY DEF IsServerStore
<1>2. /\ DOMAIN new = DOMAIN st /\ new.alloc = st.alloc /\ new.comm = st.comm
      /\ new.pre = IF Strict THEN Drop(st.pre, used) ELSE st.pre
      /\ new.data = IF TwoPlayers THEN Drop(st.data, {tx})
                    ELSE Put(st.data, tx, entry)
  BY <1>1 DEF BroadcastSiDo
<1>3. DOMAIN st.data[tx] = {"k", "R"} /\ st.data[tx].k \in [Blocks -> Nonce]
  BY DEF IsServerStore
<1> HIDE DEF new, used, R
<1>4. DOMAIN entry = {"k", "R"} /\ entry.k = st.data[tx].k
  BY <1>3
<1> HIDE DEF entry
<1>5. DOMAIN new.pre \subseteq DOMAIN st.pre
  BY <1>2 DEF Drop
<1>6. /\ DOMAIN new.data \subseteq DOMAIN st.data
      /\ \A t \in DOMAIN new.data : t # tx => new.data[t] = st.data[t]
      /\ tx \in DOMAIN new.data => new.data[tx] = entry
  BY <1>2 DEF Drop, Put
<1>7. IsServerStore(new)
  BY <1>1, <1>2, <1>3, <1>4, <1>5, <1>6 DEF IsServerStore
<1>8. Keeps(st, new)
  BY <1>1, <1>2, <1>3, <1>4, <1>5, <1>6 DEF Keeps
<1> QED BY <1>7, <1>8 DEF new

LEMMA BroadcastSiFailStore ==
    ASSUME NEW st, IsServerStore(st), NEW tx, NEW psigs
    PROVE  IsServerStore(BroadcastSiFail(st, tx, psigs)) /\ Keeps(st, BroadcastSiFail(st, tx, psigs))
<1> DEFINE new == BroadcastSiFail(st, tx, psigs)
<1>1. DOMAIN st = {"alloc", "pre", "comm", "data"}
  BY DEF IsServerStore
<1>2. /\ DOMAIN new = DOMAIN st /\ new.alloc = st.alloc
      /\ DOMAIN new.pre \subseteq DOMAIN st.pre
      /\ new.comm = st.comm /\ new.data = st.data
  BY <1>1 DEF BroadcastSiFail, Drop
<1> HIDE DEF new
<1>3. IsServerStore(new)
  BY <1>1, <1>2 DEF IsServerStore
<1>4. Keeps(st, new)
  BY <1>1, <1>2 DEF Keeps
<1> QED BY <1>3, <1>4 DEF new

LEMMA GetSignatureStore ==
    ASSUME NEW st, IsServerStore(st), NEW tx
    PROVE  IsServerStore(GetSignatureDo(st, tx)) /\ Keeps(st, GetSignatureDo(st, tx))
<1> DEFINE new == GetSignatureDo(st, tx)
<1>1. DOMAIN st = {"alloc", "pre", "comm", "data"}
  BY DEF IsServerStore
<1>2. /\ DOMAIN new = DOMAIN st /\ new.alloc = st.alloc /\ new.pre = st.pre
      /\ new.comm = st.comm /\ new.data = Drop(st.data, {tx})
  BY <1>1 DEF GetSignatureDo
<1> HIDE DEF new
<1>3. /\ DOMAIN new.data \subseteq DOMAIN st.data
      /\ \A t \in DOMAIN new.data : new.data[t] = st.data[t]
  BY <1>2 DEF Drop
<1>4. IsServerStore(new)
  BY <1>1, <1>2, <1>3 DEF IsServerStore
<1>5. Keeps(st, new)
  BY <1>1, <1>2, <1>3 DEF Keeps
<1> QED BY <1>4, <1>5 DEF new

LEMMA CancelStore ==
    ASSUME NEW st, IsServerStore(st), NEW tx
    PROVE  IsServerStore(CancelDo(st, tx)) /\ Keeps(st, CancelDo(st, tx))
<1> DEFINE new == CancelDo(st, tx)
<1>1. DOMAIN st = {"alloc", "pre", "comm", "data"}
  BY DEF IsServerStore
<1>2. /\ DOMAIN new = DOMAIN st /\ new.alloc = st.alloc /\ new.pre = st.pre
      /\ new.comm = Drop(st.comm, {tx}) /\ new.data = Drop(st.data, {tx})
  BY <1>1 DEF CancelDo
<1> HIDE DEF new
<1>3. /\ DOMAIN new.comm \subseteq DOMAIN st.comm
      /\ DOMAIN new.data \subseteq DOMAIN st.data
      /\ \A t \in DOMAIN new.data : new.data[t] = st.data[t]
  BY <1>2 DEF Drop
<1>4. IsServerStore(new)
  BY <1>1, <1>2, <1>3 DEF IsServerStore
<1>5. Keeps(st, new)
  BY <1>1, <1>2, <1>3 DEF Keeps
<1> QED BY <1>4, <1>5 DEF new

-----------------------------------------------------------------------------
\* Typing

\* The commitments StorePresigning may be given are at indices that exist.
PresignOK ==
    \A m \in msgs : m.type = "presign" => DOMAIN m.commitments \subseteq Indices

\* Any action that replaces the store of one server by a well-formed one.
LEMMA OneServerChanges ==
    ASSUME NEW s \in Servers, NEW st, IsServerStore(st),
           srv = [p \in Servers |-> srv[p]],
           \A p \in Servers : IsServerStore(srv[p]),
           srv' = [srv EXCEPT ![s] = st]
    PROVE  /\ srv' = [p \in Servers |-> srv'[p]]
           /\ \A p \in Servers : IsServerStore(srv'[p])
<1>1. srv'[s] = st /\ \A p \in Servers \ {s} : srv'[p] = srv[p]
  OBVIOUS
<1>2. srv' = [p \in Servers |-> srv'[p]]
  OBVIOUS
<1>3. \A p \in Servers : IsServerStore(srv'[p])
  <2> TAKE p \in Servers
  <2>1. CASE p = s BY <2>1, <1>1
  <2>2. CASE p # s BY <2>2, <1>1
  <2> QED BY <2>1, <2>2
<1> QED BY <1>2, <1>3

Typed == TypeOK /\ PresignOK

LEMMA TypedInit == Init => Typed
<1> SUFFICES ASSUME Init PROVE Typed
  OBVIOUS
<1>1. IsClientStore(cli)
  BY DEF Init, EmptyClient, EmptyMap, IsClientStore, IsMap
<1>2. IsServerStore(EmptyServer)
  BY DEF EmptyServer, EmptyMap, IsServerStore
<1>3. srv = [s \in Servers |-> srv[s]] /\ \A s \in Servers : IsServerStore(srv[s])
  BY <1>2 DEF Init
<1>4. drawn \in [Players -> Nat] /\ uses = {} /\ msgs = {}
  BY DEF Init
<1> QED BY <1>1, <1>3, <1>4 DEF Typed, TypeOK, PresignOK

LEMMA TypedNext == Typed /\ [Next]_vars => Typed'
<1> SUFFICES ASSUME Typed, [Next]_vars PROVE Typed'
  OBVIOUS
<1> USE DEF Typed
<1>t. /\ IsClientStore(cli)
      /\ srv = [s \in Servers |-> srv[s]]
      /\ \A s \in Servers : IsServerStore(srv[s])
      /\ drawn \in [Players -> Nat]
      /\ \A u \in uses : u = <<u[1], u[2], u[3]>> /\ u[1] \in Players /\ u[2] \in Nonce
      /\ PresignOK
  BY DEF TypeOK
\* It is enough that the store of one server is replaced by a good one.
<1>s. ASSUME NEW s \in Servers, NEW st, IsServerStore(st), srv' = [srv EXCEPT ![s] = st]
      PROVE  /\ srv' = [p \in Servers |-> srv'[p]]
             /\ \A p \in Servers : IsServerStore(srv'[p])
  BY <1>t, <1>s, OneServerChanges
<1>1. CASE StartPreprocessing
  <2> DEFINE ks == [i \in Indices |-> <<Client, drawn[Client] + i + 1>>]
             m  == [type |-> "presign", commitments |-> PreprocessOut(ks)]
  <2>1. /\ cli' = [alloc |-> TRUE, pre |-> ks] /\ msgs' = msgs \cup {m}
        /\ drawn' = [drawn EXCEPT ![Client] = @ + NIndex]
        /\ srv' = srv /\ uses' = uses
    BY <1>1 DEF StartPreprocessing, PreprocessDo
  <2>2. Client \in Players /\ drawn[Client] \in Nat /\ Indices \subseteq Nat /\ NIndex \in Nat
    BY <1>t, SizeAssumption DEF Players, Indices
  <2>3. ks \in [Indices -> Nonce]
    BY <2>2 DEF Nonce
  <2>4. IsClientStore(cli')
    BY <2>1, <2>3 DEF IsClientStore, IsMap
  <2>5. DOMAIN m.commitments = Indices
    BY DEF PreprocessOut
  <2>6. PresignOK'
    BY <1>t, <2>1, <2>5 DEF PresignOK
  <2>7. drawn' \in [Players -> Nat]
    BY <1>t, <2>1, <2>2
  <2> HIDE DEF ks, m
  <2> QED BY <1>t, <2>1, <2>4, <2>6, <2>7 DEF TypeOK
<1>2. ASSUME NEW s \in Servers, StorePresigning(s) PROVE Typed'
  <2>1. PICK m \in msgs :
            /\ m.type = "presign"
            /\ srv' = [srv EXCEPT ![s] = StorePresigningDo(@, m.commitments)]
    BY <1>2 DEF StorePresigning
  <2>2. IsServerStore(StorePresigningDo(srv[s], m.commitments))
    BY <1>t, <2>1, StorePresigningStore DEF PresignOK
  <2>3. srv' = [srv EXCEPT ![s] = StorePresigningDo(srv[s], m.commitments)]
    BY <1>t, <2>1
  <2>4. UNCHANGED <<cli, drawn, msgs, uses>>
    BY <1>2 DEF StorePresigning
  <2> QED BY <1>s, <1>t, <2>2, <2>3, <2>4 DEF TypeOK, PresignOK
<1>3. ASSUME NEW tx \in Txs, ClientSign(tx) PROVE Typed'
  <2>1. PICK rs :
            /\ ClientSignOk(cli, tx, rs)
            /\ cli' = ClientSignDo(cli, tx)
            /\ msgs' = msgs \cup {[type |-> "psig", tx |-> tx,
                                   sigs |-> ClientSignOut(cli, tx, rs)]}
            /\ uses' = uses \cup {<<Client, cli.pre[Index(tx, b)],
                                    ClientHram(cli, tx, rs, b)>> : b \in Blocks}
            /\ UNCHANGED <<srv, drawn, finals>>
    BY <1>3 DEF ClientSign
  <2>2. \A b \in Blocks : cli.pre[Index(tx, b)] \in Nonce
    BY <1>t, <2>1 DEF ClientSignOk, ClientLoaded, IsClientStore, IsMap
  <2>3. \A u \in uses' : u = <<u[1], u[2], u[3]>> /\ u[1] \in Players /\ u[2] \in Nonce
    BY <1>t, <2>1, <2>2 DEF Players
  <2>4. IsClientStore(cli')
    BY <1>t, <2>1 DEF IsClientStore, IsMap, ClientSignDo, Drop
  <2>5. PresignOK'
    BY <1>t, <2>1 DEF PresignOK
  <2> QED BY <1>t, <2>1, <2>3, <2>4, <2>5 DEF TypeOK
<1>4. ASSUME NEW tx \in Txs, ClientSignFails(tx) PROVE Typed'
  <2>1. cli' = ClientSignFail(cli, tx) /\ UNCHANGED <<srv, drawn, msgs, uses>>
    BY <1>4 DEF ClientSignFails
  <2>2. IsClientStore(cli')
    BY <1>t, <2>1 DEF IsClientStore, IsMap, ClientSignFail, Drop
  <2> QED BY <1>t, <2>1, <2>2 DEF TypeOK, PresignOK
<1>5. ASSUME NEW s \in Servers, NEW tx \in Txs, SignOffline(s, tx) PROVE Typed'
  <2> DEFINE k == NextNonce(s)
             R == [b \in Blocks |-> GeneratorMul(k)]
             m == IF TwoPlayers
                  THEN [type |-> "Rs", tx |-> tx, from |-> s,
                        rs |-> [Rs |-> R, commitment |-> CommitToRs(tx, s, R)]]
                  ELSE [type |-> "commit", tx |-> tx, from |-> s,
                        commitments |-> SignOfflineOut(s, tx, k)]
  <2>1. /\ srv' = [srv EXCEPT ![s] = SignOfflineDo(@, tx, k)]
        /\ msgs' = msgs \cup {m}
        /\ drawn' = [drawn EXCEPT ![s] = @ + 1]
        /\ UNCHANGED <<cli, uses>>
    BY <1>5 DEF SignOffline
  <2>2. s \in Players /\ drawn[s] \in Nat
    BY <1>t DEF Players
  <2>3. k \in Nonce
    BY <2>2 DEF NextNonce, Nonce
  <2>4. m.type # "presign"
    OBVIOUS
  <2> HIDE DEF k, m
  <2>5. IsServerStore(SignOfflineDo(srv[s], tx, k))
    BY <1>t, <2>3, SignOfflineStore
  <2>6. srv' = [srv EXCEPT ![s] = SignOfflineDo(srv[s], tx, k)]
    BY <1>t, <2>1
  <2>7. PresignOK'
    BY <1>t, <2>1, <2>4 DEF PresignOK
  <2>8. drawn' \in [Players -> Nat]
    BY <1>t, <2>1, <2>2
  <2> QED BY <1>s, <1>t, <2>1, <2>5, <2>6, <2>7, <2>8 DEF TypeOK
<1>6. ASSUME NEW s \in Servers, NEW tx \in Txs, DecommitR(s, tx) PROVE Typed'
  <2>1. PICK commitments : srv' = [srv EXCEPT ![s] = DecommitDo(@, tx, commitments)]
    BY <1>6 DEF DecommitR
  <2>2. IsServerStore(DecommitDo(srv[s], tx, commitments))
    BY <1>t, DecommitStore
  <2>3. srv' = [srv EXCEPT ![s] = DecommitDo(srv[s], tx, commitments)]
    BY <1>t, <2>1
  <2>4. PresignOK' /\ UNCHANGED <<cli, drawn, uses>>
    BY <1>6, <1>t DEF DecommitR, PresignOK
  <2> QED BY <1>s, <1>t, <2>2, <2>3, <2>4 DEF TypeOK
<1>7. ASSUME NEW s \in Servers, NEW tx \in Txs, BroadcastR(s, tx) PROVE Typed'
  <2>1. PICK rs : /\ BroadcastROk(srv[s], tx, rs)
                  /\ srv' = [srv EXCEPT ![s] = BroadcastRDo(@, s, tx, rs)]
                  /\ msgs' = msgs \cup {[type |-> "Rs", tx |-> tx, from |-> s,
                                         rs |-> BroadcastROut(srv[s], s, tx, rs)]}
    BY <1>7 DEF BroadcastR
  <2>2. IsServerStore(BroadcastRDo(srv[s], s, tx, rs))
    BY <1>t, <2>1, BroadcastRStore DEF BroadcastROk
  <2>3. srv' = [srv EXCEPT ![s] = BroadcastRDo(srv[s], s, tx, rs)]
    BY <1>t, <2>1
  <2>4. PresignOK' /\ UNCHANGED <<cli, drawn, uses>>
    BY <1>7, <1>t, <2>1 DEF BroadcastR, PresignOK
  <2> QED BY <1>s, <1>t, <2>2, <2>3, <2>4 DEF TypeOK
<1>8. ASSUME NEW s \in Servers, NEW tx \in Txs, BroadcastSi(s, tx) PROVE Typed'
  <2>1. PICK psigs :
            /\ BroadcastSiOk(srv[s], tx, psigs)
            /\ srv' = [srv EXCEPT ![s] = BroadcastSiDo(@, tx, psigs)]
            /\ \/ msgs' = msgs
               \/ msgs' = msgs \cup {[type |-> "si", tx |-> tx, from |-> s,
                                      sigs |-> BroadcastSiOut(srv[s], s, tx, psigs)]}
            /\ uses' = uses \cup {<<s, srv[s].data[tx].k[b],
                                    ServerHram(srv[s], tx, psigs, b)>> : b \in Blocks}
            /\ UNCHANGED <<cli, drawn>>
    BY <1>8 DEF BroadcastSi
  <2>2. IsServerStore(BroadcastSiDo(srv[s], tx, psigs))
    BY <1>t, <2>1, BroadcastSiStore DEF BroadcastSiOk
  <2>3. srv' = [srv EXCEPT ![s] = BroadcastSiDo(srv[s], tx, psigs)]
    BY <1>t, <2>1
  <2>4. PresignOK'
    BY <1>t, <2>1 DEF PresignOK
  <2>5. \A b \in Blocks : srv[s].data[tx].k[b] \in Nonce
    BY <1>t, <2>1 DEF BroadcastSiOk, IsServerStore
  <2>6. \A u \in uses' : u = <<u[1], u[2], u[3]>> /\ u[1] \in Players /\ u[2] \in Nonce
    BY <1>t, <2>1, <2>5 DEF Players
  <2> QED BY <1>s, <1>t, <2>1, <2>2, <2>3, <2>4, <2>6 DEF TypeOK
<1>9. ASSUME NEW s \in Servers, NEW tx \in Txs, BroadcastSiFails(s, tx) PROVE Typed'
  <2>1. PICK psigs : srv' = [srv EXCEPT ![s] = BroadcastSiFail(@, tx, psigs)]
    BY <1>9 DEF BroadcastSiFails
  <2>2. IsServerStore(BroadcastSiFail(srv[s], tx, psigs))
    BY <1>t, BroadcastSiFailStore
  <2>3. srv' = [srv EXCEPT ![s] = BroadcastSiFail(srv[s], tx, psigs)]
    BY <1>t, <2>1
  <2>4. UNCHANGED <<cli, drawn, msgs, uses>>
    BY <1>9 DEF BroadcastSiFails
  <2> QED BY <1>s, <1>t, <2>2, <2>3, <2>4 DEF TypeOK, PresignOK
<1>10. ASSUME NEW s \in Servers, NEW tx \in Txs, GetSignature(s, tx) PROVE Typed'
  <2>1. srv' = [srv EXCEPT ![s] = GetSignatureDo(srv[s], tx)]
        /\ UNCHANGED <<cli, drawn, msgs, uses>>
    BY <1>10, <1>t DEF GetSignature
  <2>2. IsServerStore(GetSignatureDo(srv[s], tx))
    BY <1>t, GetSignatureStore
  <2> QED BY <1>s, <1>t, <2>1, <2>2 DEF TypeOK, PresignOK
<1>11. ASSUME NEW s \in Servers, NEW tx \in Txs, CancelSigning(s, tx) PROVE Typed'
  <2>1. srv' = [srv EXCEPT ![s] = CancelDo(srv[s], tx)]
        /\ UNCHANGED <<cli, drawn, msgs, uses>>
    BY <1>11, <1>t DEF CancelSigning
  <2>2. IsServerStore(CancelDo(srv[s], tx))
    BY <1>t, CancelStore
  <2> QED BY <1>s, <1>t, <2>1, <2>2 DEF TypeOK, PresignOK
<1>12. CASE UNCHANGED vars
  BY <1>12, <1>t DEF vars, TypeOK, PresignOK
<1> QED
  BY <1>1, <1>2, <1>3, <1>4, <1>5, <1>6, <1>7, <1>8, <1>9, <1>10, <1>11, <1>12
  DEF Next, ServerStep

\* What the actions without a say in the use of nonces do.
LEMMA KeepingSteps ==
    ASSUME Typed, NEW s \in Servers, NEW tx \in Txs,
           \/ DecommitR(s, tx)
           \/ BroadcastR(s, tx)
           \/ BroadcastSiFails(s, tx)
           \/ GetSignature(s, tx)
           \/ CancelSigning(s, tx)
    PROVE  \E st : /\ Keeps(srv[s], st)
                   /\ srv' = [srv EXCEPT ![s] = st]
                   /\ UNCHANGED <<cli, drawn, uses>>
<1>t. srv = [p \in Servers |-> srv[p]] /\ IsServerStore(srv[s])
  BY DEF Typed, TypeOK
<1>1. CASE DecommitR(s, tx)
  <2>1. PICK commitments : srv' = [srv EXCEPT ![s] = DecommitDo(srv[s], tx, commitments)]
    BY <1>1, <1>t DEF DecommitR
  <2>2. Keeps(srv[s], DecommitDo(srv[s], tx, commitments))
    BY <1>t, DecommitStore
  <2> QED BY <1>1, <2>1, <2>2 DEF DecommitR
<1>2. CASE BroadcastR(s, tx)
  <2>1. PICK rs : /\ BroadcastROk(srv[s], tx, rs)
                  /\ srv' = [srv EXCEPT ![s] = BroadcastRDo(srv[s], s, tx, rs)]
    BY <1>2, <1>t DEF BroadcastR
  <2>2. Keeps(srv[s], BroadcastRDo(srv[s], s, tx, rs))
    BY <1>t, <2>1, BroadcastRStore DEF BroadcastROk
  <2> QED BY <1>2, <2>1, <2>2 DEF BroadcastR
<1>3. CASE BroadcastSiFails(s, tx)
  <2>1. PICK psigs : srv' = [srv EXCEPT ![s] = BroadcastSiFail(srv[s], tx, psigs)]
    BY <1>3, <1>t DEF BroadcastSiFails
  <2>2. Keeps(srv[s], BroadcastSiFail(srv[s], tx, psigs))
    BY <1>t, BroadcastSiFailStore
  <2> QED BY <1>3, <2>1, <2>2 DEF BroadcastSiFails
<1>4. CASE GetSignature(s, tx)
  <2>1. srv' = [srv EXCEPT ![s] = GetSignatureDo(srv[s], tx)]
    BY <1>4, <1>t DEF GetSignature
  <2>2. Keeps(srv[s], GetSignatureDo(srv[s], tx))
    BY <1>t, GetSignatureStore
  <2> QED BY <1>4, <2>1, <2>2 DEF GetSignature
<1>5. CASE CancelSigning(s, tx)
  <2>1. srv' = [srv EXCEPT ![s] = CancelDo(srv[s], tx)]
    BY <1>5, <1>t DEF CancelSigning
  <2>2. Keeps(srv[s], CancelDo(srv[s], tx))
    BY <1>t, CancelStore
  <2> QED BY <1>5, <2>1, <2>2 DEF CancelSigning
<1> QED BY <1>1, <1>2, <1>3, <1>4, <1>5

\* The stores of all players stay well formed, and every recorded use of a
\* nonce is one of a player and a nonce, whatever callers do.
THEOREM TypeCorrect == Spec => []TypeOK
<1>1. Spec => []Typed
  BY TypedInit, TypedNext, PTL DEF Spec
<1>2. Typed => TypeOK
  BY DEF Typed
<1> QED BY <1>1, <1>2, PTL

-----------------------------------------------------------------------------
(***************************************************************************)
(* No nonce answers two challenges, under the persistency contract         *)
(* (Strict).                                                               *)
(*                                                                         *)
(* The invariant behind both says that a nonce waiting to be used has not  *)
(* been used.  The client's wait in its store, and leave it when loaded.   *)
(* A server's k stays with its transaction until the transaction ends, so  *)
(* what must be gone after its use is the client's commitment at the index *)
(* of the transaction, which nothing brings back.                          *)
(***************************************************************************)

\* n is one of the nonces p has drawn, when d[p] nonces have been.
DrawnBy(d, p, n) == n[1] = p /\ n[2] <= d[p]

NoncesDrawn ==
    /\ \A u \in uses : DrawnBy(drawn, u[1], u[2])
    /\ \A i \in DOMAIN cli.pre : DrawnBy(drawn, Client, cli.pre[i])
    /\ \A s \in Servers : \A tx \in DOMAIN srv[s].data : \A b \in Blocks :
            DrawnBy(drawn, s, srv[s].data[tx].k[b])

ClientUnspent ==
    /\ \A i, j \in DOMAIN cli.pre : cli.pre[i] = cli.pre[j] => i = j
    /\ \A i \in DOMAIN cli.pre, u \in uses : u[2] # cli.pre[i]

ServerSpentOnce ==
    \A s \in Servers :
        /\ ~srv[s].alloc => DOMAIN srv[s].pre = {} /\ \A u \in uses : u[1] # s
        /\ \A tx, ty \in DOMAIN srv[s].data :
                srv[s].data[tx].k[0] = srv[s].data[ty].k[0] => tx = ty
        /\ \A tx \in DOMAIN srv[s].data, u \in uses :
                u[2] = srv[s].data[tx].k[0] => Index(tx, 0) \notin DOMAIN srv[s].pre

-----------------------------------------------------------------------------
\* The three actions of a server that do matter, on the fields that do.

LEMMA StorePresigningStep ==
    ASSUME Typed, NEW s \in Servers, StorePresigning(s)
    PROVE  \E st : /\ srv' = [srv EXCEPT ![s] = st]
                   /\ st.alloc /\ st.data = srv[s].data
                   /\ Strict => ~srv[s].alloc
                   /\ UNCHANGED <<cli, drawn, uses>>
<1>1. PICK m \in msgs : srv' = [srv EXCEPT ![s] = StorePresigningDo(@, m.commitments)]
  BY DEF StorePresigning
<1> DEFINE st == StorePresigningDo(srv[s], m.commitments)
<1>2. DOMAIN srv[s] = {"alloc", "pre", "comm", "data"} /\ srv = [p \in Servers |-> srv[p]]
  BY DEF Typed, TypeOK, IsServerStore
<1>3. st.alloc /\ st.data = srv[s].data
  BY <1>2 DEF StorePresigningDo
<1>4. srv' = [srv EXCEPT ![s] = st]
  BY <1>1, <1>2
<1>5. (Strict => ~srv[s].alloc) /\ UNCHANGED <<cli, drawn, uses>>
  BY DEF StorePresigning, StorePresigningOk
<1> QED BY <1>3, <1>4, <1>5

LEMMA SignOfflineStep ==
    ASSUME Typed, NEW s \in Servers, NEW tx \in Txs, SignOffline(s, tx)
    PROVE  \E st : /\ srv' = [srv EXCEPT ![s] = st]
                   /\ st.alloc = srv[s].alloc /\ st.pre = srv[s].pre
                   /\ DOMAIN st.data = DOMAIN srv[s].data \cup {tx}
                   /\ \A b \in Blocks : st.data[tx].k[b] = <<s, drawn[s] + 1>>
                   /\ \A t \in DOMAIN srv[s].data :
                            t # tx => st.data[t] = srv[s].data[t]
                   /\ drawn' = [drawn EXCEPT ![s] = @ + 1]
                   /\ UNCHANGED <<cli, uses>>
<1> DEFINE k == NextNonce(s)
           entry == [k |-> [b \in Blocks |-> k], R |-> [b \in Blocks |-> GeneratorMul(k)]]
           st == SignOfflineDo(srv[s], tx, k)
<1>1. DOMAIN srv[s] = {"alloc", "pre", "comm", "data"} /\ srv = [p \in Servers |-> srv[p]]
  BY DEF Typed, TypeOK, IsServerStore
<1>2. /\ srv' = [srv EXCEPT ![s] = st]
      /\ drawn' = [drawn EXCEPT ![s] = @ + 1] /\ UNCHANGED <<cli, uses>>
  BY <1>1 DEF SignOffline
<1>3. st = [srv[s] EXCEPT !.data = Put(@, tx, entry)]
  BY DEF SignOfflineDo
<1>4. \A b \in Blocks : entry.k[b] = <<s, drawn[s] + 1>>
  BY DEF NextNonce
<1> HIDE DEF st, entry
<1>5. /\ st.alloc = srv[s].alloc /\ st.pre = srv[s].pre
      /\ st.data = Put(srv[s].data, tx, entry)
  BY <1>1, <1>3
<1>6. /\ DOMAIN st.data = DOMAIN srv[s].data \cup {tx}
      /\ st.data[tx] = entry
      /\ \A t \in DOMAIN srv[s].data : t # tx => st.data[t] = srv[s].data[t]
  BY <1>5 DEF Put
<1>7. \A b \in Blocks : st.data[tx].k[b] = <<s, drawn[s] + 1>>
  BY <1>4, <1>6
<1> QED BY <1>2, <1>5, <1>6, <1>7

LEMMA BroadcastSiStep ==
    ASSUME Typed, NEW s \in Servers, NEW tx \in Txs, BroadcastSi(s, tx)
    PROVE  /\ tx \in DOMAIN srv[s].data
           /\ \A b \in Blocks : Index(tx, b) \in DOMAIN srv[s].pre
           /\ \E st : /\ srv' = [srv EXCEPT ![s] = st]
                      /\ Keeps(srv[s], st)
                      /\ Strict => \A b \in Blocks : Index(tx, b) \notin DOMAIN st.pre
           /\ \E h : uses' = uses \cup {<<s, srv[s].data[tx].k[b], h[b]>> : b \in Blocks}
           /\ UNCHANGED <<cli, drawn>>
<1>1. PICK psigs :
          /\ BroadcastSiOk(srv[s], tx, psigs)
          /\ srv' = [srv EXCEPT ![s] = BroadcastSiDo(@, tx, psigs)]
          /\ uses' = uses \cup {<<s, srv[s].data[tx].k[b],
                                  ServerHram(srv[s], tx, psigs, b)>> : b \in Blocks}
          /\ UNCHANGED <<cli, drawn>>
  BY DEF BroadcastSi
<1> DEFINE st == BroadcastSiDo(srv[s], tx, psigs)
           h  == [b \in Blocks |-> ServerHram(srv[s], tx, psigs, b)]
<1>2. /\ DOMAIN srv[s] = {"alloc", "pre", "comm", "data"}
      /\ srv = [p \in Servers |-> srv[p]] /\ IsServerStore(srv[s])
  BY DEF Typed, TypeOK, IsServerStore
<1>3. tx \in DOMAIN srv[s].data /\ \A b \in Blocks : Index(tx, b) \in DOMAIN srv[s].pre
  BY <1>1 DEF BroadcastSiOk, ClientRMatches
<1>4. srv' = [srv EXCEPT ![s] = st]
  BY <1>1, <1>2
<1>5. Keeps(srv[s], st)
  BY <1>2, <1>3, BroadcastSiStore
<1>6. ASSUME Strict, NEW b \in Blocks PROVE Index(tx, b) \notin DOMAIN st.pre
  BY <1>2, <1>6 DEF BroadcastSiDo, Drop
<1>7. {<<s, srv[s].data[tx].k[b], h[b]>> : b \in Blocks}
        = {<<s, srv[s].data[tx].k[b], ServerHram(srv[s], tx, psigs, b)>> : b \in Blocks}
  OBVIOUS
<1> HIDE DEF st, h
<1>8. \E g : uses' = uses \cup {<<s, srv[s].data[tx].k[b], g[b]>> : b \in Blocks}
  BY <1>1, <1>7
<1> QED BY <1>1, <1>3, <1>4, <1>5, <1>6, <1>8

LEMMA ClientSignStep ==
    ASSUME Typed, NEW tx \in Txs, ClientSign(tx)
    PROVE  /\ \A b \in Blocks : Index(tx, b) \in DOMAIN cli.pre
           /\ DOMAIN cli'.pre \subseteq DOMAIN cli.pre
           /\ \A i \in DOMAIN cli'.pre : cli'.pre[i] = cli.pre[i]
           /\ Strict => \A b \in Blocks : Index(tx, b) \notin DOMAIN cli'.pre
           /\ \E h : uses' = uses \cup {<<Client, cli.pre[Index(tx, b)], h[b]>> : b \in Blocks}
           /\ UNCHANGED <<srv, drawn>>
<1>1. PICK rs :
          /\ ClientSignOk(cli, tx, rs)
          /\ cli' = ClientSignDo(cli, tx)
          /\ uses' = uses \cup {<<Client, cli.pre[Index(tx, b)],
                                  ClientHram(cli, tx, rs, b)>> : b \in Blocks}
          /\ UNCHANGED <<srv, drawn>>
  BY DEF ClientSign
<1> DEFINE h == [b \in Blocks |-> ClientHram(cli, tx, rs, b)]
<1>2. DOMAIN cli = {"alloc", "pre"}
  BY DEF Typed, TypeOK, IsClientStore
<1>3. \A b \in Blocks : Index(tx, b) \in DOMAIN cli.pre
  BY <1>1 DEF ClientSignOk, ClientLoaded
<1>4. /\ DOMAIN cli'.pre \subseteq DOMAIN cli.pre
      /\ \A i \in DOMAIN cli'.pre : cli'.pre[i] = cli.pre[i]
      /\ Strict => \A b \in Blocks : Index(tx, b) \notin DOMAIN cli'.pre
  BY <1>1, <1>2 DEF ClientSignDo, Drop
<1>5. {<<Client, cli.pre[Index(tx, b)], h[b]>> : b \in Blocks}
        = {<<Client, cli.pre[Index(tx, b)], ClientHram(cli, tx, rs, b)>> : b \in Blocks}
  OBVIOUS
<1> HIDE DEF h
<1>6. \E g : uses' = uses \cup {<<Client, cli.pre[Index(tx, b)], g[b]>> : b \in Blocks}
  BY <1>1, <1>5
<1> QED BY <1>1, <1>3, <1>4, <1>6

\* The client draws fresh nonces, forgets some, or has nothing to do with it.
LEMMA PreprocessingStep ==
    ASSUME Typed, StartPreprocessing
    PROVE  /\ DOMAIN cli'.pre = Indices
           /\ \A i \in Indices : cli'.pre[i] = <<Client, drawn[Client] + i + 1>>
           /\ drawn' = [drawn EXCEPT ![Client] = @ + NIndex]
           /\ UNCHANGED <<srv, uses>>
  BY DEF StartPreprocessing, PreprocessDo

LEMMA ClientSignFailsStep ==
    ASSUME Typed, NEW tx \in Txs, ClientSignFails(tx)
    PROVE  /\ DOMAIN cli'.pre \subseteq DOMAIN cli.pre
           /\ \A i \in DOMAIN cli'.pre : cli'.pre[i] = cli.pre[i]
           /\ UNCHANGED <<srv, drawn, uses>>
<1>1. DOMAIN cli = {"alloc", "pre"}
  BY DEF Typed, TypeOK, IsClientStore
<1>2. cli' = ClientSignFail(cli, tx) /\ UNCHANGED <<srv, drawn, uses>>
  BY DEF ClientSignFails
<1> QED BY <1>1, <1>2 DEF ClientSignFail, Drop

-----------------------------------------------------------------------------
\* Every nonce in use, waiting or spent, has been drawn by its owner.

LEMMA NoncesDrawnInit == Init => NoncesDrawn
  BY DEF Init, NoncesDrawn, EmptyClient, EmptyServer, EmptyMap

LEMMA NoncesDrawnNext == Typed /\ NoncesDrawn /\ [Next]_vars => NoncesDrawn'
<1> SUFFICES ASSUME Typed, NoncesDrawn, [Next]_vars PROVE NoncesDrawn'
  OBVIOUS
<1>t. /\ drawn \in [Players -> Nat] /\ NIndex \in Nat
      /\ srv = [p \in Servers |-> srv[p]]
      /\ Client \in Players /\ Servers \subseteq Players /\ Client \notin Servers
      /\ \A u \in uses : u[1] \in Players /\ u[2][2] \in Nat
      /\ \A i \in DOMAIN cli.pre : cli.pre[i][2] \in Nat
      /\ \A s \in Servers : \A tx \in DOMAIN srv[s].data : \A b \in Blocks :
            srv[s].data[tx].k[b][2] \in Nat
  BY PlayersAssumption, SizeAssumption
  DEF Typed, TypeOK, IsClientStore, IsServerStore, IsMap, Nonce, Players
<1>u. \A u \in uses : DrawnBy(drawn, u[1], u[2])
  BY DEF NoncesDrawn
<1>c. \A i \in DOMAIN cli.pre : DrawnBy(drawn, Client, cli.pre[i])
  BY DEF NoncesDrawn
<1>s. \A s \in Servers : \A tx \in DOMAIN srv[s].data : \A b \in Blocks :
         DrawnBy(drawn, s, srv[s].data[tx].k[b])
  BY DEF NoncesDrawn
<1>1. CASE StartPreprocessing
  <2>1. /\ DOMAIN cli'.pre = Indices
        /\ \A i \in Indices : cli'.pre[i] = <<Client, drawn[Client] + i + 1>>
        /\ drawn' = [drawn EXCEPT ![Client] = @ + NIndex]
        /\ UNCHANGED <<srv, uses>>
    BY <1>1, PreprocessingStep
  <2>2. \A p \in Players : drawn'[p] \in Nat /\ drawn[p] <= drawn'[p]
    BY <1>t, <2>1
  <2>3. \A i \in DOMAIN cli'.pre : DrawnBy(drawn', Client, cli'.pre[i])
    BY <1>t, <2>1 DEF DrawnBy, Indices
  <2>4. \A u \in uses' : DrawnBy(drawn', u[1], u[2])
    BY <1>t, <1>u, <2>1, <2>2 DEF DrawnBy
  <2>5. \A s \in Servers : \A tx \in DOMAIN srv'[s].data : \A b \in Blocks :
           DrawnBy(drawn', s, srv'[s].data[tx].k[b])
    BY <1>t, <1>s, <2>1, <2>2 DEF DrawnBy
  <2> QED BY <2>3, <2>4, <2>5 DEF NoncesDrawn
<1>2. ASSUME NEW s \in Servers, StorePresigning(s) PROVE NoncesDrawn'
  <2>1. PICK st : /\ srv' = [srv EXCEPT ![s] = st] /\ st.data = srv[s].data
                  /\ UNCHANGED <<cli, drawn, uses>>
    BY <1>2, StorePresigningStep
  <2>2. \A p \in Servers : srv'[p].data = srv[p].data
    BY <1>t, <2>1
  <2> QED BY <1>u, <1>c, <1>s, <2>1, <2>2 DEF NoncesDrawn, DrawnBy
<1>3. ASSUME NEW tx \in Txs, ClientSign(tx) PROVE NoncesDrawn'
  <2>1. PICK h : /\ \A b \in Blocks : Index(tx, b) \in DOMAIN cli.pre
                 /\ DOMAIN cli'.pre \subseteq DOMAIN cli.pre
                 /\ \A i \in DOMAIN cli'.pre : cli'.pre[i] = cli.pre[i]
                 /\ uses' = uses \cup {<<Client, cli.pre[Index(tx, b)], h[b]>> : b \in Blocks}
                 /\ UNCHANGED <<srv, drawn>>
    BY <1>3, ClientSignStep
  <2>2. \A u \in uses' : DrawnBy(drawn, u[1], u[2])
    BY <1>u, <1>c, <2>1
  <2> QED BY <1>c, <1>s, <2>1, <2>2 DEF NoncesDrawn, DrawnBy
<1>4. ASSUME NEW tx \in Txs, ClientSignFails(tx) PROVE NoncesDrawn'
  BY <1>4, <1>u, <1>c, <1>s, ClientSignFailsStep DEF NoncesDrawn, DrawnBy
<1>5. ASSUME NEW s \in Servers, NEW tx \in Txs, SignOffline(s, tx) PROVE NoncesDrawn'
  <2>1. PICK st : /\ srv' = [srv EXCEPT ![s] = st]
                  /\ st.alloc = srv[s].alloc /\ st.pre = srv[s].pre
                  /\ DOMAIN st.data = DOMAIN srv[s].data \cup {tx}
                  /\ \A b \in Blocks : st.data[tx].k[b] = <<s, drawn[s] + 1>>
                  /\ \A t \in DOMAIN srv[s].data :
                            t # tx => st.data[t] = srv[s].data[t]
                  /\ drawn' = [drawn EXCEPT ![s] = @ + 1]
                  /\ UNCHANGED <<cli, uses>>
    BY <1>5, SignOfflineStep
  <2>2. \A p \in Players : drawn'[p] \in Nat /\ drawn[p] <= drawn'[p]
    BY <1>t, <2>1
  <2>3. \A u \in uses' : DrawnBy(drawn', u[1], u[2])
    BY <1>t, <1>u, <2>1, <2>2 DEF DrawnBy
  <2>4. \A i \in DOMAIN cli'.pre : DrawnBy(drawn', Client, cli'.pre[i])
    BY <1>t, <1>c, <2>1, <2>2 DEF DrawnBy
  <2>5. ASSUME NEW p \in Servers, NEW t \in DOMAIN srv'[p].data, NEW b \in Blocks
        PROVE  DrawnBy(drawn', p, srv'[p].data[t].k[b])
    <3>1. CASE p = s /\ t = tx
      BY <1>t, <2>1, <3>1 DEF DrawnBy
    <3>2. CASE ~(p = s /\ t = tx)
      <4>1. t \in DOMAIN srv[p].data /\ srv'[p].data[t] = srv[p].data[t]
        BY <1>t, <2>1, <2>5, <3>2
      <4> QED BY <1>t, <1>s, <2>2, <4>1 DEF DrawnBy
    <3> QED BY <3>1, <3>2
  <2> QED BY <2>3, <2>4, <2>5 DEF NoncesDrawn
<1>6. ASSUME NEW s \in Servers, NEW tx \in Txs, BroadcastSi(s, tx) PROVE NoncesDrawn'
  <2>1. PICK h : /\ tx \in DOMAIN srv[s].data
                 /\ uses' = uses \cup {<<s, srv[s].data[tx].k[b], h[b]>> : b \in Blocks}
                 /\ UNCHANGED <<cli, drawn>>
    BY <1>6, BroadcastSiStep
  <2>2. PICK st : srv' = [srv EXCEPT ![s] = st] /\ Keeps(srv[s], st)
    BY <1>6, BroadcastSiStep
  <2>3. \A u \in uses' : DrawnBy(drawn, u[1], u[2])
    BY <1>u, <1>s, <2>1
  <2>4. \A p \in Servers : \A t \in DOMAIN srv'[p].data :
            t \in DOMAIN srv[p].data /\ srv'[p].data[t].k = srv[p].data[t].k
    BY <1>t, <2>2 DEF Keeps
  <2> QED BY <1>c, <1>s, <2>1, <2>3, <2>4 DEF NoncesDrawn, DrawnBy
<1>7. ASSUME NEW s \in Servers, NEW st, Keeps(srv[s], st),
             srv' = [srv EXCEPT ![s] = st], UNCHANGED <<cli, drawn, uses>>
      PROVE  NoncesDrawn'
  <2>1. \A p \in Servers : \A t \in DOMAIN srv'[p].data :
            t \in DOMAIN srv[p].data /\ srv'[p].data[t].k = srv[p].data[t].k
    BY <1>t, <1>7 DEF Keeps
  <2> QED BY <1>7, <1>u, <1>c, <1>s, <2>1 DEF NoncesDrawn, DrawnBy
<1>8. CASE UNCHANGED vars
  BY <1>8, <1>u, <1>c, <1>s DEF vars, NoncesDrawn, DrawnBy
<1> QED
  BY <1>1, <1>2, <1>3, <1>4, <1>5, <1>6, <1>7, <1>8, KeepingSteps DEF Next, ServerStep

-----------------------------------------------------------------------------
\* The client: what waits in its store has not been used.

LEMMA ClientUnspentInit == Init => ClientUnspent /\ ClientNonceOnce
  BY DEF Init, ClientUnspent, ClientNonceOnce, EmptyClient, EmptyMap

LEMMA ClientUnspentNext ==
    ASSUME Strict, Typed, NoncesDrawn, ClientUnspent, ClientNonceOnce, [Next]_vars
    PROVE  ClientUnspent' /\ ClientNonceOnce'
<1>t. /\ drawn \in [Players -> Nat] /\ Indices \subseteq Nat
      /\ Client \in Players /\ Client \notin Servers
      /\ \A u \in uses : u = <<u[1], u[2], u[3]>> /\ u[2][2] \in Nat
  BY PlayersAssumption, SizeAssumption
  DEF Typed, TypeOK, Nonce, Players, Indices
<1>u. \A u \in uses : u[2][1] = u[1] /\ u[2][2] <= drawn[u[1]]
  BY DEF NoncesDrawn, DrawnBy
<1>c. \A i \in DOMAIN cli.pre : cli.pre[i][1] = Client
  BY DEF NoncesDrawn, DrawnBy
<1>i. /\ \A i, j \in DOMAIN cli.pre : cli.pre[i] = cli.pre[j] => i = j
      /\ \A i \in DOMAIN cli.pre, u \in uses : u[2] # cli.pre[i]
      /\ \A u, v \in uses : u[1] = Client /\ u[2] = v[2] => u = v
  BY DEF ClientUnspent, ClientNonceOnce
<1>1. CASE StartPreprocessing
  <2>1. /\ DOMAIN cli'.pre = Indices
        /\ \A i \in Indices : cli'.pre[i] = <<Client, drawn[Client] + i + 1>>
        /\ UNCHANGED uses
    BY <1>1, PreprocessingStep
  <2>2. \A i, j \in DOMAIN cli'.pre : cli'.pre[i] = cli'.pre[j] => i = j
    BY <1>t, <2>1
  <2>3. ASSUME NEW i \in DOMAIN cli'.pre, NEW u \in uses', u[2] = cli'.pre[i] PROVE FALSE
    <3>1. u[2][1] = Client /\ u[2][2] = drawn[Client] + i + 1
      BY <2>1, <2>3
    <3> QED BY <1>t, <1>u, <2>1, <3>1
  <2> QED BY <1>i, <2>1, <2>2, <2>3 DEF ClientUnspent, ClientNonceOnce
<1>2. ASSUME NEW s \in Servers, StorePresigning(s) PROVE ClientUnspent' /\ ClientNonceOnce'
  <2>1. UNCHANGED <<cli, uses>>
    BY <1>2 DEF StorePresigning
  <2> QED BY <1>i, <2>1 DEF ClientUnspent, ClientNonceOnce
<1>3. ASSUME NEW tx \in Txs, ClientSign(tx) PROVE ClientUnspent' /\ ClientNonceOnce'
  <2>1. PICK h : /\ \A b \in Blocks : Index(tx, b) \in DOMAIN cli.pre
                 /\ DOMAIN cli'.pre \subseteq DOMAIN cli.pre
                 /\ \A i \in DOMAIN cli'.pre : cli'.pre[i] = cli.pre[i]
                 /\ Strict => \A b \in Blocks : Index(tx, b) \notin DOMAIN cli'.pre
                 /\ uses' = uses \cup {<<Client, cli.pre[Index(tx, b)], h[b]>> : b \in Blocks}
                 /\ UNCHANGED <<srv, drawn>>
    BY <1>3, ClientSignStep
  <2>2. \A i, j \in DOMAIN cli'.pre : cli'.pre[i] = cli'.pre[j] => i = j
    BY <1>i, <2>1
  <2>3. ASSUME NEW i \in DOMAIN cli'.pre, NEW u \in uses' PROVE u[2] # cli'.pre[i]
    <3>1. CASE u \in uses
      BY <1>i, <2>1, <2>3, <3>1
    <3>2. ASSUME NEW b \in Blocks, u = <<Client, cli.pre[Index(tx, b)], h[b]>>
          PROVE  u[2] # cli'.pre[i]
      BY <1>i, <2>1, <2>3, <3>2
    <3> QED BY <2>1, <2>3, <3>1, <3>2
  \* Two blocks use two indices, and so two nonces.
  <2>4. \A b, c \in Blocks : Index(tx, b) = Index(tx, c) => b = c
    BY SizeAssumption DEF Index, Blocks
  <2>5. ASSUME NEW u \in uses', NEW v \in uses', u[1] = Client, u[2] = v[2] PROVE u = v
    <3>1. CASE u \in uses /\ v \in uses
      BY <1>i, <2>5, <3>1
    <3>2. ASSUME NEW x \in uses, NEW b \in Blocks, x[2] = cli.pre[Index(tx, b)] PROVE FALSE
      BY <1>i, <2>1, <3>2
    <3>3. ASSUME NEW b \in Blocks, NEW c \in Blocks,
                 u = <<Client, cli.pre[Index(tx, b)], h[b]>>,
                 v = <<Client, cli.pre[Index(tx, c)], h[c]>>
          PROVE  u = v
      <4>1. Index(tx, b) = Index(tx, c)
        BY <1>i, <2>1, <2>5, <3>3
      <4> QED BY <2>4, <3>3, <4>1
    <3> QED BY <2>1, <2>5, <3>1, <3>2, <3>3
  <2> QED BY <2>2, <2>3, <2>5 DEF ClientUnspent, ClientNonceOnce
<1>4. ASSUME NEW tx \in Txs, ClientSignFails(tx) PROVE ClientUnspent' /\ ClientNonceOnce'
  BY <1>4, <1>i, ClientSignFailsStep DEF ClientUnspent, ClientNonceOnce
<1>5. ASSUME NEW s \in Servers, NEW tx \in Txs, SignOffline(s, tx)
      PROVE  ClientUnspent' /\ ClientNonceOnce'
  <2>1. UNCHANGED <<cli, uses>>
    BY <1>5 DEF SignOffline
  <2> QED BY <1>i, <2>1 DEF ClientUnspent, ClientNonceOnce
<1>6. ASSUME NEW s \in Servers, NEW tx \in Txs, BroadcastSi(s, tx)
      PROVE  ClientUnspent' /\ ClientNonceOnce'
  <2>1. PICK h : /\ uses' = uses \cup {<<s, srv[s].data[tx].k[b], h[b]>> : b \in Blocks}
                 /\ tx \in DOMAIN srv[s].data
                 /\ UNCHANGED cli
    BY <1>6, BroadcastSiStep
  <2>2. \A b \in Blocks : srv[s].data[tx].k[b][1] = s
    BY <2>1 DEF NoncesDrawn, DrawnBy
  <2>3. \A u \in uses' : u \in uses \/ (u[1] = s /\ u[2][1] = s)
    BY <2>1, <2>2
  <2>4. \A u \in uses' : u[1] = Client => u \in uses
    BY <1>t, <2>3
  <2>5. \A u \in uses' : u[2][1] = u[1]
    BY <1>u, <2>3
  <2>6. \A u, v \in uses' : u[1] = Client /\ u[2] = v[2] => u = v
    BY <1>i, <2>4, <2>5
  <2>7. \A i \in DOMAIN cli.pre, u \in uses' : u[2] # cli.pre[i]
    BY <1>c, <1>i, <2>4, <2>5
  <2> QED BY <1>i, <2>1, <2>6, <2>7 DEF ClientUnspent, ClientNonceOnce
<1>7. ASSUME UNCHANGED <<cli, uses>> PROVE ClientUnspent' /\ ClientNonceOnce'
  BY <1>7, <1>i DEF ClientUnspent, ClientNonceOnce
<1> QED
  BY <1>1, <1>2, <1>3, <1>4, <1>5, <1>6, <1>7, KeepingSteps DEF Next, ServerStep, vars

\* Under the persistency contract a nonce of the client answers at most one
\* challenge, whatever callers do (eddsa_sign_offline, and the deleting load).
THEOREM ClientNonces ==
    ASSUME Strict
    PROVE  Spec => []ClientNonceOnce
<1> DEFINE I == Typed /\ NoncesDrawn /\ ClientUnspent /\ ClientNonceOnce
<1>1. Init => I
  BY TypedInit, NoncesDrawnInit, ClientUnspentInit
<1>2. I /\ [Next]_vars => I'
  BY TypedNext, NoncesDrawnNext, ClientUnspentNext
<1>3. I => ClientNonceOnce
  OBVIOUS
<1> QED BY <1>1, <1>2, <1>3, PTL DEF Spec

-----------------------------------------------------------------------------
\* The servers: a nonce that was used has lost its commitment of the client.

LEMMA ServerSpentOnceInit == Init => ServerSpentOnce /\ ServerNonceOnce
  BY DEF Init, ServerSpentOnce, ServerNonceOnce, EmptyServer, EmptyMap

LEMMA ServerSpentOnceNext ==
    ASSUME Strict, NBlocks = 1,
           Typed, NoncesDrawn, ServerSpentOnce, ServerNonceOnce, [Next]_vars
    PROVE  ServerSpentOnce' /\ ServerNonceOnce'
<1>t. /\ drawn \in [Players -> Nat] /\ Servers \subseteq Players
      /\ Client \notin Servers /\ Blocks = {0}
      /\ srv = [p \in Servers |-> srv[p]]
      /\ \A u \in uses : u = <<u[1], u[2], u[3]>> /\ u[2][2] \in Nat
      /\ \A s \in Servers : \A tx \in DOMAIN srv[s].data : srv[s].data[tx].k[0][2] \in Nat
  BY PlayersAssumption DEF Typed, TypeOK, IsServerStore, Nonce, Players, Blocks
<1>u. \A u \in uses : u[2][1] = u[1] /\ u[2][2] <= drawn[u[1]]
  BY DEF NoncesDrawn, DrawnBy
<1>k. \A s \in Servers : \A tx \in DOMAIN srv[s].data :
         srv[s].data[tx].k[0][1] = s /\ srv[s].data[tx].k[0][2] <= drawn[s]
  BY <1>t DEF NoncesDrawn, DrawnBy
<1>a. \A s \in Servers :
         ~srv[s].alloc => DOMAIN srv[s].pre = {} /\ \A u \in uses : u[1] # s
  BY DEF ServerSpentOnce
<1>d. \A s \in Servers : \A tx, ty \in DOMAIN srv[s].data :
         srv[s].data[tx].k[0] = srv[s].data[ty].k[0] => tx = ty
  BY DEF ServerSpentOnce
<1>p. \A s \in Servers : \A tx \in DOMAIN srv[s].data, u \in uses :
         u[2] = srv[s].data[tx].k[0] => Index(tx, 0) \notin DOMAIN srv[s].pre
  BY DEF ServerSpentOnce
<1>o. \A u, v \in uses : u[1] \in Servers /\ u[2] = v[2] => u = v
  BY DEF ServerNonceOnce
\* A step that only forgets keeps the invariant.
<1>7. ASSUME NEW s \in Servers, NEW st, Keeps(srv[s], st),
             srv' = [srv EXCEPT ![s] = st], UNCHANGED uses
      PROVE  ServerSpentOnce' /\ ServerNonceOnce'
  <2>1. \A p \in Servers :
            /\ srv'[p].alloc = srv[p].alloc
            /\ DOMAIN srv'[p].pre \subseteq DOMAIN srv[p].pre
            /\ DOMAIN srv'[p].data \subseteq DOMAIN srv[p].data
            /\ \A t \in DOMAIN srv'[p].data : srv'[p].data[t].k = srv[p].data[t].k
    BY <1>t, <1>7 DEF Keeps
  <2> QED BY <1>7, <1>a, <1>d, <1>p, <1>o, <2>1 DEF ServerSpentOnce, ServerNonceOnce
<1>8. ASSUME UNCHANGED <<srv, uses>> PROVE ServerSpentOnce' /\ ServerNonceOnce'
  BY <1>8, <1>a, <1>d, <1>p, <1>o DEF ServerSpentOnce, ServerNonceOnce
<1>1. CASE StartPreprocessing
  BY <1>1, <1>8, PreprocessingStep
\* The commitments arrive once, and before them nothing was signed.
<1>2. ASSUME NEW s \in Servers, StorePresigning(s) PROVE ServerSpentOnce' /\ ServerNonceOnce'
  <2>1. PICK st : /\ srv' = [srv EXCEPT ![s] = st]
                  /\ st.alloc /\ st.data = srv[s].data
                  /\ Strict => ~srv[s].alloc
                  /\ UNCHANGED <<cli, drawn, uses>>
    BY <1>2, StorePresigningStep
  <2>2. \A u \in uses : u[1] # s
    BY <1>a, <2>1
  <2>3. \A p \in Servers : p # s => srv'[p] = srv[p]
    BY <1>t, <2>1
  <2>4. srv'[s].alloc /\ srv'[s].data = srv[s].data
    BY <1>t, <2>1
  <2>5. \A tx \in DOMAIN srv[s].data, u \in uses : u[2] # srv[s].data[tx].k[0]
    BY <1>u, <1>k, <2>2
  <2> QED BY <1>a, <1>d, <1>p, <1>o, <2>1, <2>3, <2>4, <2>5
          DEF ServerSpentOnce, ServerNonceOnce
<1>3. ASSUME NEW tx \in Txs, ClientSign(tx) PROVE ServerSpentOnce' /\ ServerNonceOnce'
  <2>1. PICK h : /\ \A b \in Blocks : Index(tx, b) \in DOMAIN cli.pre
                 /\ uses' = uses \cup {<<Client, cli.pre[Index(tx, b)], h[b]>> : b \in Blocks}
                 /\ UNCHANGED srv
    BY <1>3, ClientSignStep
  <2>2. \A u \in uses' : u \in uses \/ (u[1] = Client /\ u[2][1] = Client)
    BY <2>1 DEF NoncesDrawn, DrawnBy
  <2>3. \A u \in uses' : u[1] \in Servers \/ u[2][1] \in Servers => u \in uses
    BY <1>t, <2>2
  <2>4. \A s \in Servers : ~srv'[s].alloc => DOMAIN srv'[s].pre = {} /\ \A u \in uses' : u[1] # s
    BY <1>a, <2>1, <2>3
  <2>5. \A s \in Servers : \A t \in DOMAIN srv'[s].data, u \in uses' :
            u[2] = srv'[s].data[t].k[0] => Index(t, 0) \notin DOMAIN srv'[s].pre
    BY <1>k, <1>p, <2>1, <2>3
  <2>6. \A u, v \in uses' : u[1] \in Servers /\ u[2] = v[2] => u = v
    BY <1>u, <1>o, <2>3
  <2> QED BY <1>d, <2>1, <2>4, <2>5, <2>6 DEF ServerSpentOnce, ServerNonceOnce
<1>4. ASSUME NEW tx \in Txs, ClientSignFails(tx) PROVE ServerSpentOnce' /\ ServerNonceOnce'
  BY <1>4, <1>8, ClientSignFailsStep
\* The new k is unlike every one drawn before.
<1>5. ASSUME NEW s \in Servers, NEW tx \in Txs, SignOffline(s, tx)
      PROVE  ServerSpentOnce' /\ ServerNonceOnce'
  <2>1. PICK st : /\ srv' = [srv EXCEPT ![s] = st]
                  /\ st.alloc = srv[s].alloc /\ st.pre = srv[s].pre
                  /\ DOMAIN st.data = DOMAIN srv[s].data \cup {tx}
                  /\ \A b \in Blocks : st.data[tx].k[b] = <<s, drawn[s] + 1>>
                  /\ \A t \in DOMAIN srv[s].data :
                            t # tx => st.data[t] = srv[s].data[t]
                  /\ drawn' = [drawn EXCEPT ![s] = @ + 1]
                  /\ UNCHANGED <<cli, uses>>
    BY <1>5, SignOfflineStep
  <2>2. \A p \in Servers : p # s => srv'[p] = srv[p]
    BY <1>t, <2>1
  <2>3. /\ srv'[s].alloc = srv[s].alloc /\ srv'[s].pre = srv[s].pre
        /\ DOMAIN srv'[s].data = DOMAIN srv[s].data \cup {tx}
        /\ srv'[s].data[tx].k[0] = <<s, drawn[s] + 1>>
        /\ \A t \in DOMAIN srv[s].data : t # tx => srv'[s].data[t] = srv[s].data[t]
    BY <1>t, <2>1
  <2>4. drawn[s] \in Nat
    BY <1>t
  <2>5. \A t \in DOMAIN srv[s].data : srv[s].data[t].k[0] # <<s, drawn[s] + 1>>
    BY <1>t, <1>k, <2>4
  <2>6. \A u \in uses : u[2] # <<s, drawn[s] + 1>>
    BY <1>t, <1>u, <2>4
  <2>7. \A t, ty \in DOMAIN srv'[s].data :
            srv'[s].data[t].k[0] = srv'[s].data[ty].k[0] => t = ty
    BY <1>d, <2>3, <2>5
  <2>8. \A t \in DOMAIN srv'[s].data, u \in uses :
            u[2] = srv'[s].data[t].k[0] => Index(t, 0) \notin DOMAIN srv'[s].pre
    BY <1>p, <2>3, <2>6
  <2>9. \A p \in Servers :
            /\ ~srv'[p].alloc => DOMAIN srv'[p].pre = {} /\ \A u \in uses' : u[1] # p
            /\ \A t, ty \in DOMAIN srv'[p].data :
                    srv'[p].data[t].k[0] = srv'[p].data[ty].k[0] => t = ty
            /\ \A t \in DOMAIN srv'[p].data, u \in uses' :
                    u[2] = srv'[p].data[t].k[0] => Index(t, 0) \notin DOMAIN srv'[p].pre
    <3> TAKE p \in Servers
    <3>1. CASE p = s BY <1>a, <2>1, <2>3, <2>7, <2>8, <3>1
    <3>2. CASE p # s BY <1>a, <1>d, <1>p, <2>1, <2>2, <3>2
    <3> QED BY <3>1, <3>2
  <2> QED BY <1>o, <2>1, <2>9 DEF ServerSpentOnce, ServerNonceOnce
\* The commitment at the index of tx is there before, so k was not used, and
\* gone after, so it will not be used again.
<1>6. ASSUME NEW s \in Servers, NEW tx \in Txs, BroadcastSi(s, tx)
      PROVE  ServerSpentOnce' /\ ServerNonceOnce'
  <2>1. PICK h : /\ tx \in DOMAIN srv[s].data
                 /\ \A b \in Blocks : Index(tx, b) \in DOMAIN srv[s].pre
                 /\ uses' = uses \cup {<<s, srv[s].data[tx].k[b], h[b]>> : b \in Blocks}
    BY <1>6, BroadcastSiStep
  <2>2. PICK st : /\ srv' = [srv EXCEPT ![s] = st] /\ Keeps(srv[s], st)
                  /\ Strict => \A b \in Blocks : Index(tx, b) \notin DOMAIN st.pre
    BY <1>6, BroadcastSiStep
  <2> DEFINE new == <<s, srv[s].data[tx].k[0], h[0]>>
  <2>3. uses' = uses \cup {new} /\ new[1] = s /\ new[2] = srv[s].data[tx].k[0]
    BY <1>t, <2>1
  <2> HIDE DEF new
  <2>4. /\ srv'[s].alloc = srv[s].alloc
        /\ DOMAIN srv'[s].pre \subseteq DOMAIN srv[s].pre
        /\ DOMAIN srv'[s].data \subseteq DOMAIN srv[s].data
        /\ \A t \in DOMAIN srv'[s].data : srv'[s].data[t].k = srv[s].data[t].k
        /\ Index(tx, 0) \notin DOMAIN srv'[s].pre
    BY <1>t, <2>2 DEF Keeps
  <2>5. \A p \in Servers : p # s => srv'[p] = srv[p]
    BY <1>t, <2>2
  <2>6. srv[s].alloc /\ \A u \in uses : u[2] # new[2]
    BY <1>t, <1>a, <1>p, <2>1, <2>3
  <2>7. \A u, v \in uses' : u[1] \in Servers /\ u[2] = v[2] => u = v
    BY <1>o, <2>3, <2>6
  <2>8. \A t \in DOMAIN srv'[s].data, u \in uses' :
            u[2] = srv'[s].data[t].k[0] => Index(t, 0) \notin DOMAIN srv'[s].pre
    BY <1>d, <1>p, <2>1, <2>3, <2>4
  <2>9. \A p \in Servers :
            /\ ~srv'[p].alloc => DOMAIN srv'[p].pre = {} /\ \A u \in uses' : u[1] # p
            /\ \A t, ty \in DOMAIN srv'[p].data :
                    srv'[p].data[t].k[0] = srv'[p].data[ty].k[0] => t = ty
            /\ \A t \in DOMAIN srv'[p].data, u \in uses' :
                    u[2] = srv'[p].data[t].k[0] => Index(t, 0) \notin DOMAIN srv'[p].pre
    <3> TAKE p \in Servers
    <3>1. CASE p = s
      <4>1. srv'[s].alloc
        BY <2>4, <2>6
      <4>2. \A t, ty \in DOMAIN srv'[s].data :
                srv'[s].data[t].k[0] = srv'[s].data[ty].k[0] => t = ty
        BY <1>d, <2>4
      <4> QED BY <2>8, <3>1, <4>1, <4>2
    <3>2. CASE p # s
      <4>1. \A t \in DOMAIN srv[p].data : srv[p].data[t].k[0] # new[2]
        BY <1>k, <2>1, <2>3, <3>2
      <4> QED BY <1>a, <1>d, <1>p, <2>3, <2>5, <3>2, <4>1
    <3> QED BY <3>1, <3>2
  <2> QED BY <2>7, <2>9 DEF ServerSpentOnce, ServerNonceOnce
<1>9. CASE UNCHANGED vars
  BY <1>8, <1>9 DEF vars
<1> QED
  BY <1>1, <1>2, <1>3, <1>4, <1>5, <1>6, <1>7, <1>9, KeepingSteps DEF Next, ServerStep

\* Under the persistency contract a nonce of a server answers at most one
\* challenge, when a transaction has a single block.  (With more blocks the
\* property is false: eddsa_sign_offline draws k for the first block only.)
THEOREM ServerNonces ==
    ASSUME Strict, NBlocks = 1
    PROVE  Spec => []ServerNonceOnce
<1> DEFINE I == Typed /\ NoncesDrawn /\ ServerSpentOnce /\ ServerNonceOnce
<1>1. Init => I
  BY TypedInit, NoncesDrawnInit, ServerSpentOnceInit
<1>2. I /\ [Next]_vars => I'
  BY TypedNext, NoncesDrawnNext, ServerSpentOnceNext
<1>3. I => ServerNonceOnce
  OBVIOUS
<1> QED BY <1>1, <1>2, <1>3, PTL DEF Spec
=============================================================================
