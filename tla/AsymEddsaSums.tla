---------------------------- MODULE AsymEddsaSums ----------------------------
(***************************************************************************)
(* One sum of Rs per nonce of a server, and one set of signatures per      *)
(* transaction: OneSumPerNonce and FinalsAgree as theorems of AsymEddsa,   *)
(* under the persistency contract (Strict), for every number of servers,   *)
(* transactions, indices and blocks.                                       *)
(*                                                                         *)
(* Behind the second: broadcast_si takes the client's commitments with it, *)
(* which come once, so a server's share of a transaction exists once, and  *)
(* what get_eddsa_signature adds up is the same whoever adds.  Behind the  *)
(* first: decommit_r refuses commitments while it keeps some, broadcast_r  *)
(* drops what it has used, and the sum it stores instead of the own R is   *)
(* one that no own commitment opens to, so decommit_r refuses from then on.*)
(***************************************************************************)
EXTENDS AsymEddsaProofs, FiniteSetTheorems

SiMsgs == {m \in msgs : m.type = "si"}

\* The commitment that broadcast_si loads is gone, and cannot come back.
Answered(s, tx) == srv[s].alloc /\ Index(tx, 0) \notin DOMAIN srv[s].pre

\* A server answers the client's signatures of a transaction once, with a
\* share of s or, of two players, with the signatures.
AnsweredOnce ==
    /\ \A s \in Servers : ~srv[s].alloc => DOMAIN srv[s].pre = {}
    /\ \A m \in SiMsgs : m.from \in Servers /\ Answered(m.from, m.tx)
    /\ \A m, o \in SiMsgs : m.from = o.from /\ m.tx = o.tx => m = o

\* The sum of a batch of shares, which no longer depends on who adds it up.
Anyone == CHOOSE p \in Servers : TRUE
Total(f) ==
    [b \in Blocks |-> [R |-> f[Anyone].sigs[b].R,
                       s |-> SumScalars([p \in Servers |-> f[p].sigs[b].s])]]

FinalsFromShares ==
    IF TwoPlayers
    THEN /\ SiMsgs = {}
         /\ \A f \in finals : f.by \in Servers /\ Answered(f.by, f.tx)
         /\ \A f, g \in finals : f.by = g.by /\ f.tx = g.tx => f = g
    ELSE \A f \in finals : \E batch \in Batches("si", f.tx) : f.sigs = Total(batch)

-----------------------------------------------------------------------------
\* The number of players.

LEMMA OneServerOfTwoPlayers ==
    ASSUME TwoPlayers
    PROVE  \A p, q \in Servers : p = q
<1>1. IsFiniteSet(Servers) /\ Client \notin Servers
  BY PlayersAssumption
<1>2. Cardinality(Servers \cup {Client}) = Cardinality(Servers) + 1
  BY <1>1, FS_AddElement
<1>3. Cardinality(Servers) \in Nat
  BY <1>1, FS_CardinalityType
<1>4. Cardinality(Servers) = 1
  BY <1>2, <1>3 DEF TwoPlayers, Players
<1>5. \E x : Servers = {x}
  BY <1>1, <1>4, FS_Singleton
<1> QED BY <1>5

LEMMA AnotherServer ==
    ASSUME ~TwoPlayers, NEW s \in Servers
    PROVE  \E q \in Servers : q # s
<1> SUFFICES ASSUME \A q \in Servers : q = s PROVE FALSE
  OBVIOUS
<1>1. Players = {s, Client} /\ s # Client
  BY PlayersAssumption DEF Players
<1>2. Cardinality({s}) = 1 /\ IsFiniteSet({s})
  BY FS_Singleton
<1>3. Cardinality({s} \cup {Client}) = Cardinality({s}) + 1
  BY <1>1, <1>2, FS_AddElement
<1>4. {s} \cup {Client} = Players
  BY <1>1
<1> QED BY <1>2, <1>3, <1>4 DEF TwoPlayers

LEMMA BlockZero == 0 \in Blocks
  BY SizeAssumption DEF Blocks

-----------------------------------------------------------------------------
\* FinalsAgree.

\* The client's commitments come once, and only go after that.
LEMMA AnsweredStays ==
    ASSUME Strict, Typed, [Next]_vars, NEW s \in Servers, NEW tx, Answered(s, tx)
    PROVE  Answered(s, tx)'
<1>t. srv = [p \in Servers |-> srv[p]]
  BY DEF Typed, TypeOK
<1>1. ASSUME NEW p \in Servers, StorePresigning(p) PROVE Answered(s, tx)'
  BY <1>1, <1>t, StorePresigningStep DEF Answered
<1>2. ASSUME UNCHANGED srv PROVE Answered(s, tx)'
  BY <1>2 DEF Answered
<1>3. ASSUME NEW p \in Servers, NEW st, Keeps(srv[p], st), srv' = [srv EXCEPT ![p] = st]
      PROVE  Answered(s, tx)'
  BY <1>3, <1>t DEF Answered, Keeps
<1>4. ASSUME NEW p \in Servers, NEW ty \in Txs, SignOffline(p, ty) PROVE Answered(s, tx)'
  <2>1. PICK st : /\ srv' = [srv EXCEPT ![p] = st]
                  /\ st.alloc = srv[p].alloc /\ st.pre = srv[p].pre
    BY <1>4, SignOfflineStep
  <2> QED BY <2>1, <1>t DEF Answered
<1>5. ASSUME NEW p \in Servers, NEW ty \in Txs, BroadcastSi(p, ty) PROVE Answered(s, tx)'
  <2>1. PICK st : srv' = [srv EXCEPT ![p] = st] /\ Keeps(srv[p], st)
    BY <1>5, BroadcastSiStep
  <2> QED BY <1>3, <2>1
<1>6. ASSUME NEW p \in Servers, NEW ty \in Txs,
             \/ DecommitR(p, ty) \/ BroadcastR(p, ty) \/ BroadcastSiFails(p, ty)
             \/ GetSignature(p, ty) \/ CancelSigning(p, ty)
      PROVE  Answered(s, tx)'
  BY <1>3, <1>6, KeepingSteps
<1> QED
  BY <1>1, <1>2, <1>4, <1>5, <1>6
  DEF Next, ServerStep, StartPreprocessing, ClientSign, ClientSignFails, vars

\* The messages of an action that returns no share and no signature.
LEMMA NoAnswer ==
    ASSUME NEW s \in Servers, NEW tx,
           \/ StartPreprocessing \/ StorePresigning(s) \/ ClientSign(tx) \/ ClientSignFails(tx)
           \/ SignOffline(s, tx) \/ DecommitR(s, tx) \/ BroadcastR(s, tx)
           \/ BroadcastSiFails(s, tx) \/ CancelSigning(s, tx) \/ UNCHANGED vars
    PROVE  /\ \E m : msgs' \subseteq msgs \cup {m} /\ m.type # "si"
           /\ msgs \subseteq msgs'
           /\ finals' = finals
<1>0. \E m : m.type # "si"
  <2>1. [type |-> "no"].type # "si"
    OBVIOUS
  <2> QED BY <2>1
<1>1. CASE StartPreprocessing
  <2>1. finals' = finals /\ \E x : msgs' = msgs \cup {[type |-> "presign", commitments |-> x]}
    BY <1>1 DEF StartPreprocessing
  <2>2. PICK x : msgs' = msgs \cup {[type |-> "presign", commitments |-> x]}
    BY <2>1
  <2>3. [type |-> "presign", commitments |-> x].type = "presign"
    OBVIOUS
  <2> QED BY <2>1, <2>2, <2>3
<1>2. CASE StorePresigning(s) \/ ClientSignFails(tx) \/ BroadcastSiFails(s, tx)
           \/ CancelSigning(s, tx) \/ UNCHANGED vars
  <2>1. msgs' = msgs /\ finals' = finals
    BY <1>2 DEF StorePresigning, ClientSignFails, BroadcastSiFails, CancelSigning, vars
  <2> QED BY <1>0, <2>1
<1>3. CASE ClientSign(tx)
  <2>1. finals' = finals /\ \E x : msgs' = msgs \cup {[type |-> "psig", tx |-> tx, sigs |-> x]}
    BY <1>3 DEF ClientSign
  <2>2. PICK x : msgs' = msgs \cup {[type |-> "psig", tx |-> tx, sigs |-> x]}
    BY <2>1
  <2>3. [type |-> "psig", tx |-> tx, sigs |-> x].type = "psig"
    OBVIOUS
  <2> QED BY <2>1, <2>2, <2>3
<1>4. CASE SignOffline(s, tx)
  <2> DEFINE R == [b \in Blocks |-> GeneratorMul(NextNonce(s))]
             one == [type |-> "Rs", tx |-> tx, from |-> s,
                     rs |-> [Rs |-> R, commitment |-> CommitToRs(tx, s, R)]]
             two == [type |-> "commit", tx |-> tx, from |-> s,
                     commitments |-> SignOfflineOut(s, tx, NextNonce(s))]
  <2>1. one.type # "si" /\ two.type # "si"
    OBVIOUS
  <2>2. msgs' = msgs \cup {IF TwoPlayers THEN one ELSE two} /\ finals' = finals
    BY <1>4 DEF SignOffline
  <2> HIDE DEF one, two
  <2> QED BY <2>1, <2>2
<1>5. CASE DecommitR(s, tx)
  <2>1. finals' = finals /\ \E x : msgs' = msgs \cup {[type |-> "reveal", tx |-> tx, from |-> s, Rs |-> x]}
    BY <1>5 DEF DecommitR
  <2>2. PICK x : msgs' = msgs \cup {[type |-> "reveal", tx |-> tx, from |-> s, Rs |-> x]}
    BY <2>1
  <2>3. [type |-> "reveal", tx |-> tx, from |-> s, Rs |-> x].type = "reveal"
    OBVIOUS
  <2> QED BY <2>1, <2>2, <2>3
<1>6. CASE BroadcastR(s, tx)
  <2>1. finals' = finals /\ \E x : msgs' = msgs \cup {[type |-> "Rs", tx |-> tx, from |-> s, rs |-> x]}
    BY <1>6 DEF BroadcastR
  <2>2. PICK x : msgs' = msgs \cup {[type |-> "Rs", tx |-> tx, from |-> s, rs |-> x]}
    BY <2>1
  <2>3. [type |-> "Rs", tx |-> tx, from |-> s, rs |-> x].type = "Rs"
    OBVIOUS
  <2> QED BY <2>1, <2>2, <2>3
<1> QED BY <1>1, <1>2, <1>3, <1>4, <1>5, <1>6

\* broadcast_si answers once more, and takes the commitment with it.
LEMMA BroadcastSiAnswer ==
    ASSUME Strict, Typed, AnsweredOnce, NEW s \in Servers, NEW tx \in Txs, BroadcastSi(s, tx)
    PROVE  /\ ~Answered(s, tx) /\ Answered(s, tx)'
           /\ TwoPlayers => msgs' = msgs /\ \E f : /\ f.by = s /\ f.tx = tx
                                                  /\ finals' = finals \cup {f}
           /\ ~TwoPlayers => finals' = finals /\ \E m : /\ m.type = "si" /\ m.from = s /\ m.tx = tx
                                                       /\ msgs' = msgs \cup {m}
<1>t. srv = [p \in Servers |-> srv[p]]
  BY DEF Typed, TypeOK
<1>1. \A b \in Blocks : Index(tx, b) \in DOMAIN srv[s].pre
  BY BroadcastSiStep
<1>2. PICK st : /\ srv' = [srv EXCEPT ![s] = st] /\ Keeps(srv[s], st)
                /\ Strict => \A b \in Blocks : Index(tx, b) \notin DOMAIN st.pre
  BY BroadcastSiStep
<1>3. srv[s].alloc
  BY <1>1, BlockZero DEF AnsweredOnce
<1>4. ~Answered(s, tx)
  BY <1>1, BlockZero DEF Answered
<1>5. Answered(s, tx)'
  BY <1>t, <1>2, <1>3, BlockZero DEF Answered, Keeps
<1>6. ASSUME TwoPlayers
      PROVE  msgs' = msgs /\ \E f : f.by = s /\ f.tx = tx /\ finals' = finals \cup {f}
  BY <1>6 DEF BroadcastSi
<1>7. ASSUME ~TwoPlayers
      PROVE  finals' = finals /\ \E m : /\ m.type = "si" /\ m.from = s /\ m.tx = tx
                                       /\ msgs' = msgs \cup {m}
  BY <1>7 DEF BroadcastSi
<1> QED BY <1>4, <1>5, <1>6, <1>7

\* get_eddsa_signature returns the sum of shares whose Rs are all the stored one.
LEMMA GetSignatureSum ==
    ASSUME NEW s \in Servers, NEW tx \in Txs, GetSignature(s, tx)
    PROVE  /\ msgs' = msgs
           /\ \E f, batch : /\ finals' = finals \cup {f}
                           /\ batch \in Batches("si", tx)
                           /\ f.tx = tx /\ f.sigs = Total(batch)
<1>1. PICK batch \in Batches("si", tx) :
          LET sigs == [p \in Servers |-> batch[p].sigs]
          IN  /\ GetSignatureOk(srv[s], tx, sigs)
              /\ finals' = finals \cup {[tx |-> tx, by |-> s,
                                         sigs |-> GetSignatureOut(srv[s], tx, sigs)]}
  BY DEF GetSignature
<1> DEFINE sigs == [p \in Servers |-> batch[p].sigs]
           out == GetSignatureOut(srv[s], tx, sigs)
           f == [tx |-> tx, by |-> s, sigs |-> out]
<1>2. Anyone \in Servers
  BY PlayersAssumption DEF Anyone
<1>3. ASSUME NEW b \in Blocks
      PROVE  /\ srv[s].data[tx].R[b] = batch[Anyone].sigs[b].R
             /\ [p \in Servers |-> sigs[p][b].s] = [p \in Servers |-> batch[p].sigs[b].s]
  BY <1>1, <1>2 DEF GetSignatureOk
<1>4. out = Total(batch)
  BY <1>3 DEF GetSignatureOut, Total
<1>5. finals' = finals \cup {f}
  BY <1>1
<1>6. f.tx = tx /\ f.sigs = out
  OBVIOUS
<1>7. msgs' = msgs
  BY DEF GetSignature
<1> HIDE DEF f, out
<1> QED BY <1>4, <1>5, <1>6, <1>7

LEMMA AnsweredInit == Init => AnsweredOnce /\ FinalsFromShares
  BY DEF Init, AnsweredOnce, FinalsFromShares, SiMsgs, EmptyServer, EmptyMap

\* A batch of a state is one of the next.
LEMMA BatchesStay ==
    ASSUME msgs \subseteq msgs', NEW type, NEW tx, NEW f \in Batches(type, tx)
    PROVE  f \in Batches(type, tx)'
<1>1. Of(type, tx) \subseteq Of(type, tx)'
  BY DEF Of
<1> QED BY <1>1 DEF Batches

LEMMA UnallocatedStays ==
    ASSUME Strict, Typed, AnsweredOnce, [Next]_vars, NEW s \in Servers, ~srv'[s].alloc
    PROVE  DOMAIN srv'[s].pre = {}
<1>t. srv = [p \in Servers |-> srv[p]] /\ (~srv[s].alloc => DOMAIN srv[s].pre = {})
  BY DEF Typed, TypeOK, AnsweredOnce
<1>1. ASSUME NEW p \in Servers, StorePresigning(p) PROVE DOMAIN srv'[s].pre = {}
  BY <1>1, <1>t, StorePresigningStep
<1>2. ASSUME UNCHANGED srv PROVE DOMAIN srv'[s].pre = {}
  BY <1>2, <1>t
<1>3. ASSUME NEW p \in Servers, NEW st, Keeps(srv[p], st), srv' = [srv EXCEPT ![p] = st]
      PROVE  DOMAIN srv'[s].pre = {}
  BY <1>3, <1>t DEF Keeps
<1>4. ASSUME NEW p \in Servers, NEW ty \in Txs, SignOffline(p, ty) PROVE DOMAIN srv'[s].pre = {}
  BY <1>4, <1>t, SignOfflineStep
<1>5. ASSUME NEW p \in Servers, NEW ty \in Txs, BroadcastSi(p, ty) PROVE DOMAIN srv'[s].pre = {}
  <2>1. PICK st : srv' = [srv EXCEPT ![p] = st] /\ Keeps(srv[p], st)
    BY <1>5, BroadcastSiStep
  <2> QED BY <1>3, <2>1
<1>6. ASSUME NEW p \in Servers, NEW ty \in Txs,
             \/ DecommitR(p, ty) \/ BroadcastR(p, ty) \/ BroadcastSiFails(p, ty)
             \/ GetSignature(p, ty) \/ CancelSigning(p, ty)
      PROVE  DOMAIN srv'[s].pre = {}
  BY <1>3, <1>6, KeepingSteps
<1> QED
  BY <1>1, <1>2, <1>4, <1>5, <1>6
  DEF Next, ServerStep, StartPreprocessing, ClientSign, ClientSignFails, vars

LEMMA AnsweredNext ==
    ASSUME Strict, Typed, AnsweredOnce, FinalsFromShares, [Next]_vars
    PROVE  AnsweredOnce' /\ FinalsFromShares'
<1>a. \A m \in SiMsgs : m.from \in Servers /\ Answered(m.from, m.tx) /\ Answered(m.from, m.tx)'
  BY AnsweredStays DEF AnsweredOnce
<1>o. \A m, o \in SiMsgs : m.from = o.from /\ m.tx = o.tx => m = o
  BY DEF AnsweredOnce
<1>u. \A s \in Servers : ~srv'[s].alloc => DOMAIN srv'[s].pre = {}
  BY UnallocatedStays
<1>f. TwoPlayers => /\ SiMsgs = {}
                    /\ \A f \in finals : /\ f.by \in Servers
                                         /\ Answered(f.by, f.tx) /\ Answered(f.by, f.tx)'
                    /\ \A f, g \in finals : f.by = g.by /\ f.tx = g.tx => f = g
  BY AnsweredStays DEF FinalsFromShares
<1>b. ASSUME msgs \subseteq msgs', ~TwoPlayers
      PROVE  \A f \in finals : \E batch \in Batches("si", f.tx)' : f.sigs = Total(batch)
  BY <1>b, BatchesStay DEF FinalsFromShares
\* No share more.
<1>1. ASSUME SiMsgs' = SiMsgs PROVE AnsweredOnce'
  BY <1>1, <1>a, <1>o, <1>u DEF AnsweredOnce
<1>2. ASSUME SiMsgs' = SiMsgs, msgs \subseteq msgs', finals' = finals PROVE FinalsFromShares'
  BY <1>2, <1>f, <1>b DEF FinalsFromShares
<1>3. ASSUME NEW s \in Servers, NEW tx,
             \/ StartPreprocessing \/ StorePresigning(s) \/ ClientSign(tx) \/ ClientSignFails(tx)
             \/ SignOffline(s, tx) \/ DecommitR(s, tx) \/ BroadcastR(s, tx)
             \/ BroadcastSiFails(s, tx) \/ CancelSigning(s, tx) \/ UNCHANGED vars
      PROVE  AnsweredOnce' /\ FinalsFromShares'
  <2>1. /\ \E m : msgs' \subseteq msgs \cup {m} /\ m.type # "si"
        /\ msgs \subseteq msgs' /\ finals' = finals
    BY <1>3, NoAnswer
  <2>2. SiMsgs' = SiMsgs
    BY <2>1 DEF SiMsgs
  <2> QED BY <1>1, <1>2, <2>1, <2>2
<1>4. ASSUME NEW s \in Servers, NEW tx \in Txs, GetSignature(s, tx)
      PROVE  AnsweredOnce' /\ FinalsFromShares'
  <2>1. PICK f, batch : /\ finals' = finals \cup {f} /\ batch \in Batches("si", tx)
                        /\ f.tx = tx /\ f.sigs = Total(batch)
    BY <1>4, GetSignatureSum
  <2>2. msgs' = msgs /\ SiMsgs' = SiMsgs
    BY <1>4, GetSignatureSum DEF SiMsgs
  <2>3. ~TwoPlayers
    <3>1. batch[Anyone] \in SiMsgs
      BY <2>1, PlayersAssumption DEF Anyone, Batches, Of, SiMsgs
    <3> QED BY <1>f, <3>1
  <2>4. batch \in Batches("si", tx)'
    BY <2>1, <2>2, BatchesStay
  <2>5. \A g \in finals' : \E h \in Batches("si", g.tx)' : g.sigs = Total(h)
    BY <1>b, <2>1, <2>2, <2>3, <2>4
  <2> QED BY <1>1, <2>2, <2>3, <2>5 DEF FinalsFromShares
<1>5. ASSUME NEW s \in Servers, NEW tx \in Txs, BroadcastSi(s, tx)
      PROVE  AnsweredOnce' /\ FinalsFromShares'
  <2>1. ~Answered(s, tx) /\ Answered(s, tx)'
    BY <1>5, BroadcastSiAnswer
  <2>2. CASE TwoPlayers
    <3>1. PICK f : f.by = s /\ f.tx = tx /\ finals' = finals \cup {f}
      BY <1>5, <2>2, BroadcastSiAnswer
    <3>2. SiMsgs' = SiMsgs
      BY <1>5, <2>2, BroadcastSiAnswer DEF SiMsgs
    <3> QED BY <1>1, <1>f, <2>1, <2>2, <3>1, <3>2 DEF FinalsFromShares
  <2>3. CASE ~TwoPlayers
    <3>1. PICK m : m.type = "si" /\ m.from = s /\ m.tx = tx /\ msgs' = msgs \cup {m}
      BY <1>5, <2>3, BroadcastSiAnswer
    <3>2. SiMsgs' = SiMsgs \cup {m}
      BY <3>1 DEF SiMsgs
    <3>3. AnsweredOnce'
      BY <1>a, <1>o, <1>u, <2>1, <3>1, <3>2 DEF AnsweredOnce
    <3>4. finals' = finals
      BY <1>5, <2>3, BroadcastSiAnswer
    <3> QED BY <1>b, <2>3, <3>1, <3>3, <3>4 DEF FinalsFromShares
  <2> QED BY <2>2, <2>3
<1>6. \E s \in Servers : TRUE
  BY PlayersAssumption
<1> QED
  <2>1. CASE UNCHANGED vars \/ StartPreprocessing \/ \E s \in Servers : StorePresigning(s)
    BY <1>3, <1>6, <2>1
  <2> QED BY <1>3, <1>4, <1>5, <1>6, <2>1 DEF Next, ServerStep

\* Servers that finish a transaction return the same signatures: at most one
\* share of each of them exists (the loads of broadcast_si delete), and the sum
\* in get_eddsa_signature is the sum of one batch of shares.
THEOREM OneResult ==
    ASSUME Strict
    PROVE  Spec => []FinalsAgree
<1> DEFINE I == Typed /\ AnsweredOnce /\ FinalsFromShares
<1>1. Init => I
  BY TypedInit, AnsweredInit
<1>2. I /\ [Next]_vars => I'
  BY TypedNext, AnsweredNext
<1>3. I => FinalsAgree
  <2> SUFFICES ASSUME AnsweredOnce, FinalsFromShares, NEW f \in finals, NEW g \in finals, f.tx = g.tx
               PROVE  f.sigs = g.sigs
    BY DEF FinalsAgree
  <2>1. CASE TwoPlayers
    BY <2>1, OneServerOfTwoPlayers DEF FinalsFromShares
  <2>2. CASE ~TwoPlayers
    <3>1. PICK fs \in Batches("si", f.tx) : f.sigs = Total(fs)
      BY <2>2 DEF FinalsFromShares
    <3>2. PICK gs \in Batches("si", f.tx) : g.sigs = Total(gs)
      BY <2>2 DEF FinalsFromShares
    <3>3. \A p \in Servers : fs[p] = gs[p]
      BY DEF AnsweredOnce, Batches, Of, SiMsgs
    <3>4. fs = gs
      BY <3>3 DEF Batches
    <3> QED BY <3>1, <3>2, <3>4
  <2> QED BY <2>1, <2>2
<1> QED BY <1>1, <1>2, <1>3, PTL DEF Spec

-----------------------------------------------------------------------------
\* OneSumPerNonce.

RsMsgs == {m \in msgs : m.type = "Rs"}

\* The nonces of player p in the point R, and the points of one such nonce.
OwnNonces(p, R) == {n \in DOMAIN R : n[1] = p}
OwnPoint(p, R) == \E n : n[1] = p /\ R = GeneratorMul(n)

\* What the messages of the players are made of.
CommitsOwn ==
    \A m \in msgs : m.type = "commit" =>
        /\ ~TwoPlayers
        /\ \A b \in Blocks : \E n :
            /\ n[1] = m.from
            /\ m.commitments[b] = CommitToR(m.tx, Index(m.tx, b), m.from, GeneratorMul(n))

RevealsOwn ==
    \A m \in msgs : m.type = "reveal" => \A b \in Blocks : OwnPoint(m.from, m.Rs[b])

PsigsOwn ==
    \A m \in msgs : m.type = "psig" =>
        \A b \in Blocks : \A n \in DOMAIN m.sigs[b].R : n[1] = Client

SumsOwn ==
    \A m \in RsMsgs :
        /\ m.from \in Servers
        /\ \A b, c \in Blocks : OwnNonces(m.from, m.rs.Rs[b]) = OwnNonces(m.from, m.rs.Rs[c])
        /\ \A b \in Blocks : \A n \in OwnNonces(m.from, m.rs.Rs[b]) : n[2] \in 0 .. drawn[m.from]

\* A stored R has one nonce of the server it is stored at: the stored k.
EntryOwn(s, e) ==
    \A b \in Blocks : e.k[b] = e.k[0] /\ OwnNonces(s, e.R[b]) = {e.k[0]}

StoredOwn ==
    \A s \in Servers :
        /\ \A tx \in DOMAIN srv[s].data : EntryOwn(s, srv[s].data[tx])
        /\ \A tx, ty \in DOMAIN srv[s].data :
                srv[s].data[tx].k[0] = srv[s].data[ty].k[0] => tx = ty

\* Once a sum with k was sent, no commitments are stored for its transaction,
\* and the stored R is one that no own commitment opens to.
Summed(s, k) == \E m \in RsMsgs, b \in Blocks : m.from = s /\ k \in DOMAIN m.rs.Rs[b]
OthersIn(s, R) == \E n \in DOMAIN R : n[1] # s

SumSettled ==
    \A s \in Servers :
        /\ TwoPlayers => DOMAIN srv[s].comm = {}
        /\ ~TwoPlayers => \A tx \in DOMAIN srv[s].data : Summed(s, srv[s].data[tx].k[0]) =>
                /\ tx \notin DOMAIN srv[s].comm
                /\ OthersIn(s, srv[s].data[tx].R[0])

MessagesOwn == CommitsOwn /\ RevealsOwn /\ PsigsOwn /\ SumsOwn
SumInv == MessagesOwn /\ StoredOwn /\ SumSettled /\ OneSumPerNonce

\* Points.

LEMMA NonceOfPoint ==
    ASSUME NEW k
    PROVE  DOMAIN GeneratorMul(k) = {k}
  BY DEF GeneratorMul, SetToBag

LEMMA OwnOfPoint ==
    ASSUME NEW k, NEW p
    PROVE  OwnNonces(p, GeneratorMul(k)) = IF k[1] = p THEN {k} ELSE {}
<1>1. OwnNonces(p, GeneratorMul(k)) = {n \in {k} : n[1] = p}
  BY NonceOfPoint DEF OwnNonces
<1> QED BY <1>1

LEMMA NoncesOfOwnPoint ==
    ASSUME NEW p, NEW R, OwnPoint(p, R)
    PROVE  \E n : n[1] = p /\ DOMAIN R = {n}
<1>1. PICK n : n[1] = p /\ R = GeneratorMul(n)
  BY DEF OwnPoint
<1> QED BY <1>1, NonceOfPoint

LEMMA NoncesOfSum ==
    ASSUME NEW A, NEW B
    PROVE  DOMAIN (A (+) B) = DOMAIN A \cup DOMAIN B
  BY DEF (+)

\* The combined R has the nonces of the stored own R, and of the others' Rs.
LEMMA NoncesOfCombined ==
    ASSUME NEW st, NEW s \in Servers, NEW tx, NEW rs, NEW b \in Blocks
    PROVE  \A x : x \in DOMAIN CombinedRs(st, s, tx, rs)[b] <=>
                    \/ x \in DOMAIN st.data[tx].R[b]
                    \/ \E q \in Servers \ {s} : x \in DOMAIN rs[q][b]
<1> DEFINE points == [p \in Servers |-> IF p = s THEN st.data[tx].R[b] ELSE rs[p][b]]
<1>1. CombinedRs(st, s, tx, rs)[b] = AddAll(points)
  BY DEF CombinedRs
<1>2. DOMAIN points = Servers
  OBVIOUS
<1>3. points[s] = st.data[tx].R[b] /\ \A q \in Servers \ {s} : points[q] = rs[q][b]
  OBVIOUS
<1> HIDE DEF points
<1>4. DOMAIN AddAll(points) = UNION {DOMAIN points[q] : q \in Servers}
  BY <1>2 DEF AddAll
<1>5. \A x : x \in UNION {DOMAIN points[q] : q \in Servers} <=>
               \/ x \in DOMAIN st.data[tx].R[b]
               \/ \E q \in Servers \ {s} : x \in DOMAIN rs[q][b]
  BY <1>3
<1> QED BY <1>1, <1>4, <1>5

\* Frames: what a message that is not of its type leaves alone.

LEMMA OtherMessages ==
    ASSUME NEW m, msgs' \subseteq msgs \cup {m}, msgs \subseteq msgs'
    PROVE  /\ m.type # "commit" /\ CommitsOwn => CommitsOwn'
           /\ m.type # "reveal" /\ RevealsOwn => RevealsOwn'
           /\ m.type # "psig" /\ PsigsOwn => PsigsOwn'
           /\ m.type # "Rs" => RsMsgs' = RsMsgs
<1>1. ASSUME m.type # "commit", CommitsOwn PROVE CommitsOwn'
  BY <1>1 DEF CommitsOwn
<1>2. ASSUME m.type # "reveal", RevealsOwn PROVE RevealsOwn'
  BY <1>2 DEF RevealsOwn
<1>3. ASSUME m.type # "psig", PsigsOwn PROVE PsigsOwn'
  BY <1>3 DEF PsigsOwn
<1>4. ASSUME m.type # "Rs" PROVE RsMsgs' = RsMsgs
  BY <1>4 DEF RsMsgs
<1> QED BY <1>1, <1>2, <1>3, <1>4

\* No sum more, and what is stored was stored before.
LEMMA NoSumMore ==
    ASSUME SumsOwn, StoredOwn, SumSettled, OneSumPerNonce,
           RsMsgs' = RsMsgs, \A p \in Servers : drawn[p] \in Nat /\ drawn'[p] \in Nat /\ drawn[p] <= drawn'[p],
           \A p \in Servers :
                /\ DOMAIN srv'[p].comm \subseteq DOMAIN srv[p].comm
                /\ DOMAIN srv'[p].data \subseteq DOMAIN srv[p].data
                /\ \A t \in DOMAIN srv'[p].data : srv'[p].data[t] = srv[p].data[t]
    PROVE  SumsOwn' /\ StoredOwn' /\ SumSettled' /\ OneSumPerNonce'
<1>1. SumsOwn'
  BY DEF SumsOwn
<1>2. StoredOwn'
  BY DEF StoredOwn
<1>3. \A s, k : Summed(s, k)' = Summed(s, k)
  BY DEF Summed
<1>4. SumSettled'
  BY <1>3 DEF SumSettled
<1>5. OneSumPerNonce'
  BY DEF OneSumPerNonce, RsMsgs
<1> QED BY <1>1, <1>2, <1>4, <1>5

\* The actions of the client, and those of a server that only forget.

LEMMA DrawnGrows ==
    ASSUME Typed, [Next]_vars, NEW p \in Servers
    PROVE  drawn[p] \in Nat /\ drawn'[p] \in Nat /\ drawn[p] <= drawn'[p]
<1>t. drawn \in [Players -> Nat] /\ p \in Players /\ NIndex \in Nat
  BY SizeAssumption DEF Typed, TypeOK, Players
<1>1. CASE StartPreprocessing
  BY <1>1, <1>t, PreprocessingStep
<1>2. ASSUME NEW s \in Servers, NEW tx \in Txs, SignOffline(s, tx)
      PROVE  drawn[p] \in Nat /\ drawn'[p] \in Nat /\ drawn[p] <= drawn'[p]
  BY <1>2, <1>t, SignOfflineStep
<1>3. ASSUME drawn' = drawn
      PROVE  drawn[p] \in Nat /\ drawn'[p] \in Nat /\ drawn[p] <= drawn'[p]
  BY <1>3, <1>t
<1>4. ASSUME NEW s \in Servers, StorePresigning(s) PROVE drawn' = drawn
  BY <1>4, StorePresigningStep
<1>5. ASSUME NEW tx \in Txs, ClientSign(tx) \/ ClientSignFails(tx) PROVE drawn' = drawn
  BY <1>5, ClientSignStep, ClientSignFailsStep
<1>6. ASSUME NEW s \in Servers, NEW tx \in Txs, BroadcastSi(s, tx) PROVE drawn' = drawn
  BY <1>6, BroadcastSiStep
<1>7. ASSUME NEW s \in Servers, NEW tx \in Txs,
             \/ DecommitR(s, tx) \/ BroadcastR(s, tx) \/ BroadcastSiFails(s, tx)
             \/ GetSignature(s, tx) \/ CancelSigning(s, tx)
      PROVE  drawn' = drawn
  BY <1>7, KeepingSteps
<1>8. CASE UNCHANGED vars
  BY <1>8, <1>t DEF vars
<1> QED BY <1>1, <1>2, <1>3, <1>4, <1>5, <1>6, <1>7, <1>8 DEF Next, ServerStep

LEMMA PreprocessingSums ==
    ASSUME Typed, SumInv, [Next]_vars, StartPreprocessing
    PROVE  SumInv'
<1>1. srv' = srv /\ \E x : msgs' = msgs \cup {[type |-> "presign", commitments |-> x]}
  BY DEF StartPreprocessing
<1>2. PICK x : msgs' = msgs \cup {[type |-> "presign", commitments |-> x]}
  BY <1>1
<1>3. [type |-> "presign", commitments |-> x].type = "presign"
  OBVIOUS
<1>4. CommitsOwn' /\ RevealsOwn' /\ PsigsOwn' /\ RsMsgs' = RsMsgs
  BY <1>2, <1>3, OtherMessages DEF SumInv, MessagesOwn
<1>5. SumsOwn' /\ StoredOwn' /\ SumSettled' /\ OneSumPerNonce'
  BY <1>1, <1>4, DrawnGrows, NoSumMore DEF SumInv, MessagesOwn
<1> QED BY <1>4, <1>5 DEF SumInv, MessagesOwn

LEMMA ClientSignSums ==
    ASSUME Typed, NoncesDrawn, SumInv, [Next]_vars, NEW tx \in Txs, ClientSign(tx)
    PROVE  SumInv'
<1>1. PICK rs : msgs' = msgs \cup {[type |-> "psig", tx |-> tx, sigs |-> ClientSignOut(cli, tx, rs)]}
  BY DEF ClientSign
<1> DEFINE m == [type |-> "psig", tx |-> tx, sigs |-> ClientSignOut(cli, tx, rs)]
<1>2. m.type = "psig" /\ m.sigs = ClientSignOut(cli, tx, rs)
  OBVIOUS
<1>3. msgs' = msgs \cup {m}
  BY <1>1
<1> HIDE DEF m
<1>4. CommitsOwn' /\ RevealsOwn' /\ RsMsgs' = RsMsgs
  BY <1>2, <1>3, OtherMessages DEF SumInv, MessagesOwn
<1>5. \A b \in Blocks : cli.pre[Index(tx, b)][1] = Client
  BY ClientSignStep DEF NoncesDrawn, DrawnBy
<1>6. ASSUME NEW b \in Blocks PROVE m.sigs[b].R = GeneratorMul(cli.pre[Index(tx, b)])
  BY <1>2 DEF ClientSignOut
<1>7. \A b \in Blocks : \A n \in DOMAIN m.sigs[b].R : n[1] = Client
  <2> TAKE b \in Blocks
  <2>1. DOMAIN m.sigs[b].R = {cli.pre[Index(tx, b)]}
    BY <1>6, NonceOfPoint
  <2> QED BY <1>5, <2>1
<1>8. PsigsOwn'
  BY <1>3, <1>7 DEF PsigsOwn, SumInv, MessagesOwn
<1>9. srv' = srv
  BY DEF ClientSign
<1>10. SumsOwn' /\ StoredOwn' /\ SumSettled' /\ OneSumPerNonce'
  BY <1>4, <1>9, DrawnGrows, NoSumMore DEF SumInv, MessagesOwn
<1> QED BY <1>4, <1>8, <1>10 DEF SumInv, MessagesOwn

LEMMA NoMessageSums ==
    ASSUME Typed, SumInv, [Next]_vars, msgs' = msgs,
           \A p \in Servers :
                /\ DOMAIN srv'[p].comm \subseteq DOMAIN srv[p].comm
                /\ DOMAIN srv'[p].data \subseteq DOMAIN srv[p].data
                /\ \A t \in DOMAIN srv'[p].data : srv'[p].data[t] = srv[p].data[t]
    PROVE  SumInv'
<1>1. CommitsOwn' /\ RevealsOwn' /\ PsigsOwn' /\ RsMsgs' = RsMsgs
  BY DEF SumInv, MessagesOwn, CommitsOwn, RevealsOwn, PsigsOwn, RsMsgs
<1>2. SumsOwn' /\ StoredOwn' /\ SumSettled' /\ OneSumPerNonce'
  BY <1>1, DrawnGrows, NoSumMore DEF SumInv, MessagesOwn
<1> QED BY <1>1, <1>2 DEF SumInv, MessagesOwn

LEMMA ForgettingSums ==
    ASSUME Typed, SumInv, [Next]_vars, NEW s \in Servers, NEW tx,
           \/ StorePresigning(s) \/ ClientSignFails(tx) \/ BroadcastSiFails(s, tx)
           \/ GetSignature(s, tx) \/ CancelSigning(s, tx) \/ UNCHANGED vars
    PROVE  SumInv'
<1>t. /\ srv = [p \in Servers |-> srv[p]]
      /\ DOMAIN srv[s] = {"alloc", "pre", "comm", "data"}
  BY DEF Typed, TypeOK, IsServerStore
<1>m. msgs' = msgs
  BY DEF StorePresigning, ClientSignFails, BroadcastSiFails, GetSignature, CancelSigning, vars
<1>s. ASSUME NEW st, srv' = [srv EXCEPT ![s] = st],
             DOMAIN st.comm \subseteq DOMAIN srv[s].comm,
             DOMAIN st.data \subseteq DOMAIN srv[s].data,
             \A t \in DOMAIN st.data : st.data[t] = srv[s].data[t]
      PROVE  SumInv'
  <2>1. \A p \in Servers : p # s => srv'[p] = srv[p]
    BY <1>t, <1>s
  <2>2. srv'[s] = st
    BY <1>t, <1>s
  <2> QED BY <1>m, <1>s, <2>1, <2>2, NoMessageSums
<1>1. CASE StorePresigning(s)
  <2>1. PICK cs : srv' = [srv EXCEPT ![s] = StorePresigningDo(srv[s], cs)]
    BY <1>1, <1>t DEF StorePresigning
  <2>2. /\ StorePresigningDo(srv[s], cs).comm = srv[s].comm
        /\ StorePresigningDo(srv[s], cs).data = srv[s].data
    BY <1>t DEF StorePresigningDo
  <2> QED BY <1>s, <2>1, <2>2
<1>2. CASE ClientSignFails(tx) \/ UNCHANGED vars
  <2>1. srv' = srv
    BY <1>2 DEF ClientSignFails, vars
  <2> QED BY <1>m, <2>1, NoMessageSums
<1>3. CASE BroadcastSiFails(s, tx)
  <2>1. PICK psigs : srv' = [srv EXCEPT ![s] = BroadcastSiFail(srv[s], tx, psigs)]
    BY <1>3, <1>t DEF BroadcastSiFails
  <2>2. /\ BroadcastSiFail(srv[s], tx, psigs).comm = srv[s].comm
        /\ BroadcastSiFail(srv[s], tx, psigs).data = srv[s].data
    BY <1>t DEF BroadcastSiFail
  <2> QED BY <1>s, <2>1, <2>2
<1>4. CASE GetSignature(s, tx)
  <2>1. srv' = [srv EXCEPT ![s] = GetSignatureDo(srv[s], tx)]
    BY <1>4, <1>t DEF GetSignature
  <2>2. /\ GetSignatureDo(srv[s], tx).comm = srv[s].comm
        /\ GetSignatureDo(srv[s], tx).data = Drop(srv[s].data, {tx})
    BY <1>t DEF GetSignatureDo
  <2> QED BY <1>s, <2>1, <2>2 DEF Drop
<1>5. CASE CancelSigning(s, tx)
  <2>1. srv' = [srv EXCEPT ![s] = CancelDo(srv[s], tx)]
    BY <1>5, <1>t DEF CancelSigning
  <2>2. /\ CancelDo(srv[s], tx).comm = Drop(srv[s].comm, {tx})
        /\ CancelDo(srv[s], tx).data = Drop(srv[s].data, {tx})
    BY <1>t DEF CancelDo
  <2> QED BY <1>s, <2>1, <2>2 DEF Drop
<1> QED BY <1>1, <1>2, <1>3, <1>4, <1>5

\* eddsa_sign_offline: the new R is the point of a nonce that is in no sum yet.

\* The signing data e with the nonce n that the server stores, and the message
\* m of them that it returns.
StoresEntry(s, tx, e, n) ==
    /\ \A b \in Blocks : e.k[b] = n /\ e.R[b] = GeneratorMul(n)
    /\ srv'[s].comm = srv[s].comm
    /\ srv'[s].data = Put(srv[s].data, tx, e)
    /\ \A p \in Servers : p # s => srv'[p] = srv[p]

SendsOwn(s, m, n) ==
    /\ msgs' = msgs \cup {m} /\ m.from = s
    /\ TwoPlayers => m.type = "Rs" /\ \A b \in Blocks : m.rs.Rs[b] = GeneratorMul(n)
    /\ ~TwoPlayers =>
            /\ m.type = "commit"
            /\ \A b \in Blocks : m.commitments[b] =
                    CommitToR(m.tx, Index(m.tx, b), s, GeneratorMul(n))

LEMMA SignOfflineStores ==
    ASSUME Typed, NEW s \in Servers, NEW tx \in Txs, SignOffline(s, tx)
    PROVE  \E e : StoresEntry(s, tx, e, <<s, drawn[s] + 1>>)
<1> DEFINE k == NextNonce(s)
           e == [k |-> [b \in Blocks |-> k], R |-> [b \in Blocks |-> GeneratorMul(k)]]
           st == SignOfflineDo(srv[s], tx, k)
<1>1. DOMAIN srv[s] = {"alloc", "pre", "comm", "data"} /\ srv = [p \in Servers |-> srv[p]]
  BY DEF Typed, TypeOK, IsServerStore
<1>2. srv' = [srv EXCEPT ![s] = st]
  BY <1>1 DEF SignOffline
<1>3. st = [srv[s] EXCEPT !.data = Put(@, tx, e)]
  BY DEF SignOfflineDo
<1>4. \A b \in Blocks : e.k[b] = <<s, drawn[s] + 1>> /\ e.R[b] = GeneratorMul(<<s, drawn[s] + 1>>)
  BY DEF NextNonce
<1> HIDE DEF st, e
<1>5. st.comm = srv[s].comm /\ st.data = Put(srv[s].data, tx, e)
  BY <1>1, <1>3
<1>6. srv'[s] = st /\ \A p \in Servers : p # s => srv'[p] = srv[p]
  BY <1>1, <1>2
<1> QED BY <1>4, <1>5, <1>6 DEF StoresEntry

LEMMA SignOfflineSends ==
    ASSUME NEW s \in Servers, NEW tx \in Txs, SignOffline(s, tx)
    PROVE  \E m : SendsOwn(s, m, <<s, drawn[s] + 1>>)
<1> DEFINE k == NextNonce(s)
           R == [b \in Blocks |-> GeneratorMul(k)]
           one == [type |-> "Rs", tx |-> tx, from |-> s,
                   rs |-> [Rs |-> R, commitment |-> CommitToRs(tx, s, R)]]
           two == [type |-> "commit", tx |-> tx, from |-> s,
                   commitments |-> SignOfflineOut(s, tx, k)]
<1>1. msgs' = msgs \cup {IF TwoPlayers THEN one ELSE two}
  BY DEF SignOffline
<1>2. one.type = "Rs" /\ one.from = s /\ \A b \in Blocks : one.rs.Rs[b] = GeneratorMul(<<s, drawn[s] + 1>>)
  BY DEF NextNonce
<1>3. /\ two.type = "commit" /\ two.from = s
      /\ \A b \in Blocks : two.commitments[b] =
            CommitToR(two.tx, Index(two.tx, b), s, GeneratorMul(<<s, drawn[s] + 1>>))
  BY DEF NextNonce, SignOfflineOut
<1> HIDE DEF one, two
<1> QED BY <1>1, <1>2, <1>3 DEF SendsOwn

\* A new sum of m without an own nonce that a sum of the sender had before.
LEMMA SumMore ==
    ASSUME OneSumPerNonce, NEW m, RsMsgs' = RsMsgs \cup {m},
           \A o \in RsMsgs, b, c \in Blocks :
                o.from = m.from => \A k \in OwnNonces(m.from, m.rs.Rs[b]) : k \notin DOMAIN o.rs.Rs[c]
    PROVE  OneSumPerNonce'
<1> SUFFICES ASSUME NEW x \in RsMsgs', NEW o \in RsMsgs', NEW b \in Blocks, NEW c \in Blocks,
                    NEW k \in DOMAIN x.rs.Rs[b] \cap DOMAIN o.rs.Rs[c],
                    k[1] = x.from, k[1] = o.from
             PROVE  x = o
  BY DEF OneSumPerNonce, RsMsgs
<1>1. CASE x \in RsMsgs /\ o \in RsMsgs
  BY <1>1 DEF OneSumPerNonce, RsMsgs
<1>2. CASE x = m /\ o \in RsMsgs
  BY <1>2 DEF OwnNonces
<1>3. CASE x \in RsMsgs /\ o = m
  BY <1>3 DEF OwnNonces
<1> QED BY <1>1, <1>2, <1>3

LEMMA SignOfflineSums ==
    ASSUME Typed, NoncesDrawn, SumInv, [Next]_vars,
           NEW s \in Servers, NEW tx \in Txs, SignOffline(s, tx)
    PROVE  SumInv'
<1> DEFINE n == <<s, drawn[s] + 1>>
<1>t. /\ drawn \in [Players -> Nat] /\ s \in Players
      /\ \A t \in DOMAIN srv[s].data : srv[s].data[t].k[0] \in Nonce
  BY BlockZero DEF Typed, TypeOK, IsServerStore, Players
<1>d. drawn' = [drawn EXCEPT ![s] = @ + 1]
  BY SignOfflineStep
<1>n. n[1] = s /\ n[2] = drawn[s] + 1 /\ drawn[s] \in Nat /\ drawn'[s] = drawn[s] + 1
  BY <1>t, <1>d
<1>a. PICK e : StoresEntry(s, tx, e, n)
  BY SignOfflineStores
<1>b. PICK m : SendsOwn(s, m, n)
  BY SignOfflineSends
<1>3. \A t \in DOMAIN srv[s].data : srv[s].data[t].k[0] # n
  BY <1>t, <1>n, BlockZero DEF NoncesDrawn, DrawnBy, Nonce
<1> HIDE DEF n
<1>1. /\ \A b \in Blocks : e.k[b] = n /\ e.R[b] = GeneratorMul(n)
      /\ srv'[s].comm = srv[s].comm
      /\ srv'[s].data = Put(srv[s].data, tx, e)
      /\ \A p \in Servers : p # s => srv'[p] = srv[p]
  BY <1>a DEF StoresEntry
<1>2. msgs' = msgs \cup {m} /\ m.from = s
  BY <1>b DEF SendsOwn
<1>4. ~Summed(s, n)
  BY <1>n DEF Summed, SumInv, MessagesOwn, SumsOwn, OwnNonces
<1>5. EntryOwn(s, e)
  BY <1>1, <1>n, BlockZero, OwnOfPoint DEF EntryOwn
<1>6. /\ DOMAIN srv'[s].data = DOMAIN srv[s].data \cup {tx} /\ srv'[s].data[tx] = e
      /\ \A t \in DOMAIN srv[s].data : t # tx => srv'[s].data[t] = srv[s].data[t]
  BY <1>1 DEF Put
<1>7. e.k[0] = n
  BY <1>1, BlockZero
<1>8. StoredOwn'
  <2>1. \A t, u \in DOMAIN srv'[s].data : srv'[s].data[t].k[0] = srv'[s].data[u].k[0] => t = u
    BY <1>3, <1>6, <1>7 DEF SumInv, StoredOwn
  <2>2. \A t \in DOMAIN srv'[s].data : EntryOwn(s, srv'[s].data[t])
    BY <1>5, <1>6 DEF SumInv, StoredOwn
  <2> QED BY <1>1, <2>1, <2>2 DEF SumInv, StoredOwn
<1>9. CASE TwoPlayers
  <2>1. m.type = "Rs" /\ \A b \in Blocks : m.rs.Rs[b] = GeneratorMul(n)
    BY <1>b, <1>9 DEF SendsOwn
  <2>2. CommitsOwn' /\ RevealsOwn' /\ PsigsOwn'
    BY <1>2, <2>1, OtherMessages DEF SumInv, MessagesOwn
  <2>3. RsMsgs' = RsMsgs \cup {m}
    BY <1>2, <2>1 DEF RsMsgs
  <2>4. \A b \in Blocks : DOMAIN m.rs.Rs[b] = {n} /\ OwnNonces(s, m.rs.Rs[b]) = {n}
    BY <1>n, <2>1, NonceOfPoint, OwnOfPoint
  <2>5. SumsOwn'
    <3>1. \A o \in RsMsgs : \A b \in Blocks : \A x \in OwnNonces(o.from, o.rs.Rs[b]) :
              x[2] \in 0 .. drawn'[o.from]
      BY DrawnGrows DEF SumInv, MessagesOwn, SumsOwn
    <3>2. \A b \in Blocks : \A x \in OwnNonces(s, m.rs.Rs[b]) : x[2] \in 0 .. drawn'[s]
      BY <1>n, <2>4
    <3> QED BY <1>2, <2>3, <2>4, <3>1, <3>2 DEF SumInv, MessagesOwn, SumsOwn
  <2>6. SumSettled'
    BY <1>1, <1>9 DEF SumInv, SumSettled
  <2>7. \A o \in RsMsgs, b, c \in Blocks : o.from = s => n \notin DOMAIN o.rs.Rs[b]
    BY <1>4 DEF Summed
  <2>8. OneSumPerNonce'
    <3>1. \A o \in RsMsgs, b, c \in Blocks :
            o.from = m.from => \A k \in OwnNonces(m.from, m.rs.Rs[b]) : k \notin DOMAIN o.rs.Rs[c]
      BY <1>2, <2>4, <2>7
    <3>2. OneSumPerNonce
      BY DEF SumInv
    <3> QED BY <2>3, <3>1, <3>2, SumMore
  <2> QED BY <1>8, <2>2, <2>5, <2>6, <2>8 DEF SumInv, MessagesOwn
<1>10. CASE ~TwoPlayers
  <2>1. m.type = "commit" /\ \A b \in Blocks : m.commitments[b] =
                            CommitToR(m.tx, Index(m.tx, b), s, GeneratorMul(n))
    BY <1>b, <1>10 DEF SendsOwn
  <2>2. RevealsOwn' /\ PsigsOwn' /\ RsMsgs' = RsMsgs
    BY <1>2, <2>1, OtherMessages DEF SumInv, MessagesOwn
  <2>3. CommitsOwn'
    BY <1>2, <1>n, <1>10, <2>1 DEF SumInv, MessagesOwn, CommitsOwn
  <2>4. SumsOwn'
    BY <2>2, DrawnGrows DEF SumInv, MessagesOwn, SumsOwn
  <2>5. \A p, k : Summed(p, k)' = Summed(p, k)
    BY <2>2 DEF Summed
  <2>6. SumSettled'
    BY <1>1, <1>4, <1>6, <1>7, <1>10, <2>5 DEF SumInv, SumSettled
  <2>7. OneSumPerNonce'
    BY <2>2 DEF OneSumPerNonce, RsMsgs, SumInv
  <2> QED BY <1>8, <2>2, <2>3, <2>4, <2>6, <2>7 DEF SumInv, MessagesOwn
<1> QED BY <1>9, <1>10

\* decommit_r: the own commitment opens to the stored R, which therefore is the
\* point of one nonce, and in no sum yet.

LEMMA DecommitStores ==
    ASSUME Strict, Typed, CommitsOwn, NEW s \in Servers, NEW tx \in Txs, DecommitR(s, tx)
    PROVE  /\ ~TwoPlayers /\ tx \in DOMAIN srv[s].data
           /\ \A b \in Blocks : OwnPoint(s, srv[s].data[tx].R[b])
           /\ srv'[s].data = srv[s].data
           /\ DOMAIN srv'[s].comm = DOMAIN srv[s].comm \cup {tx}
           /\ \A p \in Servers : p # s => srv'[p] = srv[p]
<1>t. DOMAIN srv[s] = {"alloc", "pre", "comm", "data"} /\ srv = [p \in Servers |-> srv[p]]
  BY DEF Typed, TypeOK, IsServerStore
<1>1. PICK f \in Batches("commit", tx) :
          LET commitments == [p \in Servers |-> f[p].commitments]
          IN  /\ DecommitOk(srv[s], s, tx, commitments)
              /\ srv' = [srv EXCEPT ![s] = DecommitDo(srv[s], tx, commitments)]
  BY <1>t DEF DecommitR
<1> DEFINE commitments == [p \in Servers |-> f[p].commitments]
<1>2. f[s] \in msgs /\ f[s].type = "commit" /\ f[s].from = s /\ f[s].tx = tx
  BY DEF Batches, Of
<1>3. ~TwoPlayers /\ \A b \in Blocks : \E n :
          /\ n[1] = s
          /\ f[s].commitments[b] = CommitToR(tx, Index(tx, b), s, GeneratorMul(n))
  BY <1>2 DEF CommitsOwn
<1>4. \A b \in Blocks : f[s].commitments[b] = CommitToR(tx, Index(tx, b), s, srv[s].data[tx].R[b])
  BY <1>1 DEF DecommitOk, Opens
<1>5. \A b \in Blocks : OwnPoint(s, srv[s].data[tx].R[b])
  BY <1>3, <1>4 DEF OwnPoint, CommitToR
<1>6. /\ DecommitDo(srv[s], tx, commitments).data = srv[s].data
      /\ DecommitDo(srv[s], tx, commitments).comm = Put(srv[s].comm, tx, commitments)
  BY <1>t DEF DecommitDo
<1> HIDE DEF commitments
<1>7. srv'[s] = DecommitDo(srv[s], tx, commitments) /\ \A p \in Servers : p # s => srv'[p] = srv[p]
  BY <1>1, <1>t DEF commitments
<1>8. tx \in DOMAIN srv[s].data
  BY <1>1 DEF DecommitOk
<1> QED BY <1>3, <1>5, <1>6, <1>7, <1>8 DEF Put

LEMMA DecommitSums ==
    ASSUME Strict, Typed, SumInv, [Next]_vars, NEW s \in Servers, NEW tx \in Txs, DecommitR(s, tx)
    PROVE  SumInv'
<1>1. /\ ~TwoPlayers /\ tx \in DOMAIN srv[s].data
      /\ \A b \in Blocks : OwnPoint(s, srv[s].data[tx].R[b])
      /\ srv'[s].data = srv[s].data
      /\ DOMAIN srv'[s].comm = DOMAIN srv[s].comm \cup {tx}
      /\ \A p \in Servers : p # s => srv'[p] = srv[p]
  BY DecommitStores DEF SumInv, MessagesOwn
<1> DEFINE m == [type |-> "reveal", tx |-> tx, from |-> s, Rs |-> srv[s].data[tx].R]
<1>2. msgs' = msgs \cup {m}
  BY DEF DecommitR, DecommitOut
<1>3. m.type = "reveal" /\ m.from = s /\ m.Rs = srv[s].data[tx].R
  OBVIOUS
<1> HIDE DEF m
<1>4. CommitsOwn' /\ PsigsOwn' /\ RsMsgs' = RsMsgs
  BY <1>2, <1>3, OtherMessages DEF SumInv, MessagesOwn
<1>5. RevealsOwn'
  BY <1>1, <1>2, <1>3 DEF SumInv, MessagesOwn, RevealsOwn
<1>6. SumsOwn'
  BY <1>4, DrawnGrows DEF SumInv, MessagesOwn, SumsOwn
<1>7. StoredOwn'
  BY <1>1 DEF SumInv, StoredOwn
<1>8. ~OthersIn(s, srv[s].data[tx].R[0])
  <2>1. OwnPoint(s, srv[s].data[tx].R[0])
    BY <1>1, BlockZero
  <2>2. PICK n : n[1] = s /\ DOMAIN srv[s].data[tx].R[0] = {n}
    BY <2>1, NoncesOfOwnPoint
  <2> QED BY <2>2 DEF OthersIn
<1>9. \A p, k : Summed(p, k)' = Summed(p, k)
  BY <1>4 DEF Summed
<1>10. SumSettled'
  BY <1>1, <1>8, <1>9 DEF SumInv, SumSettled
<1>11. OneSumPerNonce'
  BY <1>4 DEF OneSumPerNonce, RsMsgs, SumInv
<1> QED BY <1>4, <1>5, <1>6, <1>7, <1>10, <1>11 DEF SumInv, MessagesOwn

\* broadcast_r: the sum has the own nonce and one of each other server, and goes
\* where it was checked against commitments, which are dropped.

BroadcastsSum(s, tx, rs) ==
    /\ tx \in DOMAIN srv[s].data /\ tx \in DOMAIN srv[s].comm
    /\ \A q \in Servers, b \in Blocks : OwnPoint(q, rs[q][b])
    /\ srv' = [srv EXCEPT ![s] = BroadcastRDo(srv[s], s, tx, rs)]
    /\ msgs' = msgs \cup {[type |-> "Rs", tx |-> tx, from |-> s,
                           rs |-> BroadcastROut(srv[s], s, tx, rs)]}

LEMMA BroadcastRStores ==
    ASSUME Typed, RevealsOwn, NEW s \in Servers, NEW tx \in Txs, BroadcastR(s, tx)
    PROVE  \E rs : BroadcastsSum(s, tx, rs)
<1>t. srv = [p \in Servers |-> srv[p]]
  BY DEF Typed, TypeOK
<1>1. PICK f \in Batches("reveal", tx) :
          LET rs == [p \in Servers |-> f[p].Rs]
          IN  /\ BroadcastROk(srv[s], tx, rs)
              /\ srv' = [srv EXCEPT ![s] = BroadcastRDo(srv[s], s, tx, rs)]
              /\ msgs' = msgs \cup {[type |-> "Rs", tx |-> tx, from |-> s,
                                     rs |-> BroadcastROut(srv[s], s, tx, rs)]}
  BY <1>t DEF BroadcastR
<1> DEFINE rs == [p \in Servers |-> f[p].Rs]
<1>2. \A q \in Servers : f[q] \in msgs /\ f[q].type = "reveal" /\ f[q].from = q
  BY DEF Batches, Of
<1>3. \A q \in Servers, b \in Blocks : OwnPoint(q, rs[q][b])
  BY <1>2 DEF RevealsOwn
<1>4. tx \in DOMAIN srv[s].data /\ tx \in DOMAIN srv[s].comm
  BY <1>1 DEF BroadcastROk
<1>5. /\ srv' = [srv EXCEPT ![s] = BroadcastRDo(srv[s], s, tx, rs)]
      /\ msgs' = msgs \cup {[type |-> "Rs", tx |-> tx, from |-> s,
                             rs |-> BroadcastROut(srv[s], s, tx, rs)]}
  BY <1>1
<1> HIDE DEF rs
<1> QED BY <1>3, <1>4, <1>5 DEF BroadcastsSum

LEMMA BroadcastRSums ==
    ASSUME Typed, NoncesDrawn, SumInv, [Next]_vars,
           NEW s \in Servers, NEW tx \in Txs, BroadcastR(s, tx)
    PROVE  SumInv'
<1>t. /\ srv = [p \in Servers |-> srv[p]] /\ DOMAIN srv[s] = {"alloc", "pre", "comm", "data"}
      /\ \A t \in DOMAIN srv[s].data : /\ DOMAIN srv[s].data[t] = {"k", "R"}
                                       /\ srv[s].data[t].k \in [Blocks -> Nonce]
      /\ drawn \in [Players -> Nat] /\ s \in Players
  BY DEF Typed, TypeOK, IsServerStore, Players
<1>a. PICK rs : BroadcastsSum(s, tx, rs)
  BY BroadcastRStores DEF SumInv, MessagesOwn
<1>1. /\ tx \in DOMAIN srv[s].data /\ tx \in DOMAIN srv[s].comm
      /\ \A q \in Servers, b \in Blocks : OwnPoint(q, rs[q][b])
      /\ srv' = [srv EXCEPT ![s] = BroadcastRDo(srv[s], s, tx, rs)]
      /\ msgs' = msgs \cup {[type |-> "Rs", tx |-> tx, from |-> s,
                             rs |-> BroadcastROut(srv[s], s, tx, rs)]}
  BY <1>a DEF BroadcastsSum
<1> DEFINE e == srv[s].data[tx]
           R == CombinedRs(srv[s], s, tx, rs)
           m == [type |-> "Rs", tx |-> tx, from |-> s, rs |-> BroadcastROut(srv[s], s, tx, rs)]
<1>2. m.type = "Rs" /\ m.from = s /\ m.rs.Rs = R /\ msgs' = msgs \cup {m}
  BY <1>1 DEF BroadcastROut
<1>3. ~TwoPlayers
  BY <1>1 DEF SumInv, SumSettled
<1>4. /\ \A b \in Blocks : e.k[b] = e.k[0] /\ OwnNonces(s, e.R[b]) = {e.k[0]}
      /\ e.k[0] \in Nonce /\ e.k[0][1] = s /\ e.k[0][2] \in 0 .. drawn[s]
  <2>1. EntryOwn(s, e)
    BY <1>1 DEF SumInv, StoredOwn
  <2>2. e.k[0] \in Nonce /\ DrawnBy(drawn, s, e.k[0])
    BY <1>1, <1>t, BlockZero DEF NoncesDrawn
  <2>3. e.k[0][2] \in Nat /\ drawn[s] \in Nat
    BY <1>t, <2>2 DEF Nonce
  <2>4. e.k[0][2] \in 0 .. drawn[s] /\ e.k[0][1] = s
    BY <2>2, <2>3 DEF DrawnBy
  <2>5. \A b \in Blocks : e.k[b] = e.k[0] /\ OwnNonces(s, e.R[b]) = {e.k[0]}
    BY <2>1 DEF EntryOwn
  <2> QED BY <2>2, <2>4, <2>5
<1>5. /\ BroadcastRDo(srv[s], s, tx, rs).comm = Drop(srv[s].comm, {tx})
      /\ BroadcastRDo(srv[s], s, tx, rs).data = [srv[s].data EXCEPT ![tx].R = R]
  BY <1>t DEF BroadcastRDo
<1> HIDE DEF m, R
<1>6. /\ DOMAIN srv'[s].comm = DOMAIN srv[s].comm \ {tx}
      /\ srv'[s].data = [srv[s].data EXCEPT ![tx].R = R]
      /\ \A p \in Servers : p # s => srv'[p] = srv[p]
  BY <1>1, <1>5, <1>t DEF Drop
<1>7. /\ DOMAIN srv'[s].data = DOMAIN srv[s].data
      /\ srv'[s].data[tx].k = e.k /\ srv'[s].data[tx].R = R
      /\ \A t \in DOMAIN srv[s].data : t # tx => srv'[s].data[t] = srv[s].data[t]
  BY <1>1, <1>6, <1>t
<1>8. ASSUME NEW b \in Blocks
      PROVE  OwnNonces(s, R[b]) = {e.k[0]} /\ OthersIn(s, R[b])
  <2>1. \A x : x \in DOMAIN R[b] <=>
                 x \in DOMAIN e.R[b] \/ \E q \in Servers \ {s} : x \in DOMAIN rs[q][b]
    BY NoncesOfCombined DEF R
  <2>2. \A q \in Servers \ {s} : \E n : n[1] = q /\ DOMAIN rs[q][b] = {n}
    BY <1>1, NoncesOfOwnPoint
  <2>3. OwnNonces(s, R[b]) = OwnNonces(s, e.R[b])
    BY <2>1, <2>2 DEF OwnNonces
  <2>4. PICK q \in Servers : q # s
    BY <1>3, AnotherServer
  <2>5. PICK n : n[1] = q /\ DOMAIN rs[q][b] = {n}
    BY <2>2, <2>4
  <2>6. n \in DOMAIN R[b]
    BY <2>1, <2>4, <2>5
  <2> QED BY <1>4, <2>3, <2>4, <2>5, <2>6 DEF OthersIn
<1>9. CommitsOwn' /\ RevealsOwn' /\ PsigsOwn'
  BY <1>2, OtherMessages DEF SumInv, MessagesOwn
<1>10. RsMsgs' = RsMsgs \cup {m}
  BY <1>2 DEF RsMsgs
<1>11. SumsOwn'
  <2>1. \A o \in RsMsgs : \A b \in Blocks : \A x \in OwnNonces(o.from, o.rs.Rs[b]) :
            x[2] \in 0 .. drawn'[o.from]
    BY DrawnGrows DEF SumInv, MessagesOwn, SumsOwn
  <2>2. \A b \in Blocks : \A x \in OwnNonces(s, m.rs.Rs[b]) : x[2] \in 0 .. drawn'[s]
    BY <1>2, <1>4, <1>8, DrawnGrows
  <2>3. \A b, c \in Blocks : OwnNonces(s, m.rs.Rs[b]) = OwnNonces(s, m.rs.Rs[c])
    BY <1>2, <1>8
  <2> QED BY <1>2, <1>10, <2>1, <2>2, <2>3 DEF SumInv, MessagesOwn, SumsOwn
<1>12. StoredOwn'
  <2>1. EntryOwn(s, srv'[s].data[tx])
    BY <1>4, <1>7, <1>8 DEF EntryOwn
  <2>2. \A t \in DOMAIN srv'[s].data : EntryOwn(s, srv'[s].data[t])
    BY <1>7, <2>1 DEF SumInv, StoredOwn
  <2>3. \A t \in DOMAIN srv'[s].data : srv'[s].data[t].k[0] = srv[s].data[t].k[0]
    BY <1>7
  <2>4. \A t, u \in DOMAIN srv'[s].data : srv'[s].data[t].k[0] = srv'[s].data[u].k[0] => t = u
    BY <1>7, <2>3 DEF SumInv, StoredOwn
  <2>5. ASSUME NEW p \in Servers
        PROVE  /\ \A t \in DOMAIN srv'[p].data : EntryOwn(p, srv'[p].data[t])
               /\ \A t, u \in DOMAIN srv'[p].data :
                        srv'[p].data[t].k[0] = srv'[p].data[u].k[0] => t = u
    <3>1. CASE p = s BY <2>2, <2>4, <3>1
    <3>2. CASE p # s BY <1>6, <3>2 DEF SumInv, StoredOwn
    <3> QED BY <3>1, <3>2
  <2> QED BY <2>5 DEF StoredOwn
<1>13. ~Summed(s, e.k[0])
  BY <1>1, <1>3 DEF SumInv, SumSettled
<1>14. OneSumPerNonce'
  <2>1. \A o \in RsMsgs, b, c \in Blocks :
            o.from = m.from => \A k \in OwnNonces(m.from, m.rs.Rs[b]) : k \notin DOMAIN o.rs.Rs[c]
    BY <1>2, <1>8, <1>13 DEF Summed
  <2>2. OneSumPerNonce
    BY DEF SumInv
  <2> QED BY <1>10, <2>1, <2>2, SumMore
<1>15. SumSettled'
  <2>1. ASSUME NEW t \in DOMAIN srv[s].data, t # tx
        PROVE  Summed(s, srv[s].data[t].k[0])' => Summed(s, srv[s].data[t].k[0])
    <3>1. srv[s].data[t].k[0] # e.k[0] /\ srv[s].data[t].k[0][1] = s
      BY <1>1, <2>1, BlockZero DEF SumInv, StoredOwn, NoncesDrawn, DrawnBy
    <3>2. \A b \in Blocks : srv[s].data[t].k[0] \notin DOMAIN m.rs.Rs[b]
      BY <1>2, <1>8, <3>1 DEF OwnNonces
    <3>3. srv'[s].data[t].k[0] = srv[s].data[t].k[0]
      BY <1>7, <2>1
    <3> QED BY <1>10, <3>2, <3>3 DEF Summed
  <2>2. \A p \in Servers : \A k : p # s /\ Summed(p, k)' => Summed(p, k)
    BY <1>2, <1>10 DEF Summed
  <2>3. tx \notin DOMAIN srv'[s].comm /\ OthersIn(s, srv'[s].data[tx].R[0])
    BY <1>6, <1>7, <1>8, BlockZero
  <2>4. ASSUME NEW t \in DOMAIN srv'[s].data, Summed(s, srv[s].data[t].k[0])'
        PROVE  t \notin DOMAIN srv'[s].comm /\ OthersIn(s, srv'[s].data[t].R[0])
    <3>1. CASE t = tx BY <2>3, <3>1
    <3>2. CASE t # tx
      BY <1>3, <1>6, <1>7, <2>1, <2>4, <3>2 DEF SumInv, SumSettled
    <3> QED BY <3>1, <3>2
  <2>5. ASSUME NEW p \in Servers, NEW t \in DOMAIN srv'[p].data, Summed(p, srv[p].data[t].k[0])'
        PROVE  t \notin DOMAIN srv'[p].comm /\ OthersIn(p, srv'[p].data[t].R[0])
    <3>1. CASE p = s BY <2>4, <2>5, <3>1
    <3>2. CASE p # s
      <4>1. srv'[p] = srv[p] /\ Summed(p, srv[p].data[t].k[0])
        BY <1>6, <2>2, <2>5, <3>2
      <4> QED BY <1>3, <2>5, <4>1 DEF SumInv, SumSettled
    <3> QED BY <3>1, <3>2
  <2> QED BY <1>3, <2>5 DEF SumSettled
<1> QED BY <1>9, <1>11, <1>12, <1>14, <1>15 DEF SumInv, MessagesOwn

\* broadcast_si: the client's R is added to the stored one, or the data are gone.

AddsClientR(s, tx, psigs, e) ==
    /\ \A b \in Blocks : \A n \in DOMAIN psigs[b].R : n[1] = Client
    /\ tx \in DOMAIN srv[s].data
    /\ e.k = srv[s].data[tx].k
    /\ \A b \in Blocks : e.R[b] = srv[s].data[tx].R[b] (+) psigs[b].R
    /\ srv'[s].comm = srv[s].comm
    /\ srv'[s].data = IF TwoPlayers THEN Drop(srv[s].data, {tx}) ELSE Put(srv[s].data, tx, e)
    /\ \A p \in Servers : p # s => srv'[p] = srv[p]
    /\ \E m : m.type = "si" /\ msgs' = IF TwoPlayers THEN msgs ELSE msgs \cup {m}

LEMMA BroadcastSiSumStores ==
    ASSUME Typed, PsigsOwn, NEW s \in Servers, NEW tx \in Txs, BroadcastSi(s, tx)
    PROVE  \E psigs, e : AddsClientR(s, tx, psigs, e)
<1>t. /\ srv = [p \in Servers |-> srv[p]] /\ DOMAIN srv[s] = {"alloc", "pre", "comm", "data"}
      /\ \A t \in DOMAIN srv[s].data : DOMAIN srv[s].data[t] = {"k", "R"}
  BY DEF Typed, TypeOK, IsServerStore
<1>1. PICK c \in Of("psig", tx) :
          /\ BroadcastSiOk(srv[s], tx, c.sigs)
          /\ srv' = [srv EXCEPT ![s] = BroadcastSiDo(srv[s], tx, c.sigs)]
          /\ LET sigs == BroadcastSiOut(srv[s], s, tx, c.sigs)
             IN  IF TwoPlayers
                 THEN msgs' = msgs
                 ELSE msgs' = msgs \cup {[type |-> "si", tx |-> tx, from |-> s, sigs |-> sigs]}
  BY <1>t DEF BroadcastSi
<1> DEFINE psigs == c.sigs
           R == [b \in Blocks |-> srv[s].data[tx].R[b] (+) psigs[b].R]
           e == [srv[s].data[tx] EXCEPT !.R = R]
           st == BroadcastSiDo(srv[s], tx, psigs)
           m == [type |-> "si", tx |-> tx, from |-> s, sigs |-> BroadcastSiOut(srv[s], s, tx, psigs)]
<1>2. \A b \in Blocks : \A n \in DOMAIN psigs[b].R : n[1] = Client
  BY DEF PsigsOwn, Of
<1>3. tx \in DOMAIN srv[s].data
  BY <1>1 DEF BroadcastSiOk
<1>4. st.comm = srv[s].comm /\ st.data = IF TwoPlayers THEN Drop(srv[s].data, {tx}) ELSE Put(srv[s].data, tx, e)
  BY <1>t DEF BroadcastSiDo
<1>5. e.k = srv[s].data[tx].k /\ e.R = R
  BY <1>t, <1>3
<1>6. \A b \in Blocks : e.R[b] = srv[s].data[tx].R[b] (+) psigs[b].R
  BY <1>5
<1>7. m.type = "si" /\ msgs' = IF TwoPlayers THEN msgs ELSE msgs \cup {m}
  BY <1>1
<1>8. srv'[s] = st /\ \A p \in Servers : p # s => srv'[p] = srv[p]
  BY <1>1, <1>t
<1> HIDE DEF m, st, e, psigs
<1>9. AddsClientR(s, tx, psigs, e)
  BY <1>2, <1>3, <1>4, <1>5, <1>6, <1>7, <1>8 DEF AddsClientR
<1> QED BY <1>9

LEMMA BroadcastSiSums ==
    ASSUME Typed, NoncesDrawn, SumInv, [Next]_vars,
           NEW s \in Servers, NEW tx \in Txs, BroadcastSi(s, tx)
    PROVE  SumInv'
<1>a. PICK psigs, e : AddsClientR(s, tx, psigs, e)
  BY BroadcastSiSumStores DEF SumInv, MessagesOwn
<1>1. /\ \A b \in Blocks : \A n \in DOMAIN psigs[b].R : n[1] = Client
      /\ tx \in DOMAIN srv[s].data
      /\ e.k = srv[s].data[tx].k
      /\ \A b \in Blocks : e.R[b] = srv[s].data[tx].R[b] (+) psigs[b].R
      /\ srv'[s].comm = srv[s].comm
      /\ \A p \in Servers : p # s => srv'[p] = srv[p]
  BY <1>a DEF AddsClientR
<1>2. CASE TwoPlayers
  <2>1. msgs' = msgs /\ srv'[s].data = Drop(srv[s].data, {tx})
    BY <1>a, <1>2 DEF AddsClientR
  <2> QED BY <1>1, <2>1, NoMessageSums DEF Drop
<1>3. CASE ~TwoPlayers
  <2>1. PICK m : m.type = "si" /\ msgs' = msgs \cup {m}
    BY <1>a, <1>3 DEF AddsClientR
  <2>2. CommitsOwn' /\ RevealsOwn' /\ PsigsOwn' /\ RsMsgs' = RsMsgs
    BY <2>1, OtherMessages DEF SumInv, MessagesOwn
  <2>3. srv'[s].data = Put(srv[s].data, tx, e)
    BY <1>a, <1>3 DEF AddsClientR
  <2>4. /\ DOMAIN srv'[s].data = DOMAIN srv[s].data /\ srv'[s].data[tx] = e
        /\ \A t \in DOMAIN srv[s].data : t # tx => srv'[s].data[t] = srv[s].data[t]
    BY <1>1, <2>3 DEF Put
  <2>5. \A b \in Blocks : DOMAIN e.R[b] = DOMAIN srv[s].data[tx].R[b] \cup DOMAIN psigs[b].R
    <3> TAKE b \in Blocks
    <3>1. e.R[b] = srv[s].data[tx].R[b] (+) psigs[b].R
      BY <1>1
    <3>2. DOMAIN (srv[s].data[tx].R[b] (+) psigs[b].R) = DOMAIN srv[s].data[tx].R[b] \cup DOMAIN psigs[b].R
      BY NoncesOfSum
    <3> QED BY <3>1, <3>2
  <2>6. EntryOwn(s, e)
    <3>1. EntryOwn(s, srv[s].data[tx]) /\ s # Client
      BY <1>1, PlayersAssumption DEF SumInv, StoredOwn
    <3>2. \A b \in Blocks : OwnNonces(s, e.R[b]) = OwnNonces(s, srv[s].data[tx].R[b])
      BY <1>1, <2>5, <3>1 DEF OwnNonces
    <3> QED BY <1>1, <3>1, <3>2 DEF EntryOwn
  <2>7. OthersIn(s, srv[s].data[tx].R[0]) => OthersIn(s, e.R[0])
    BY <2>5, BlockZero DEF OthersIn
  <2>8. SumsOwn' /\ OneSumPerNonce'
    BY <2>2, DrawnGrows DEF SumInv, MessagesOwn, SumsOwn, OneSumPerNonce, RsMsgs
  <2>9. \A t \in DOMAIN srv'[s].data : srv'[s].data[t].k[0] = srv[s].data[t].k[0]
    BY <1>1, <2>4
  <2>10. StoredOwn'
    <3>1. ASSUME NEW p \in Servers
          PROVE  /\ \A t \in DOMAIN srv'[p].data : EntryOwn(p, srv'[p].data[t])
                 /\ \A t, u \in DOMAIN srv'[p].data :
                          srv'[p].data[t].k[0] = srv'[p].data[u].k[0] => t = u
      <4>1. CASE p = s BY <2>4, <2>6, <2>9, <4>1 DEF SumInv, StoredOwn
      <4>2. CASE p # s BY <1>1, <4>2 DEF SumInv, StoredOwn
      <4> QED BY <4>1, <4>2
    <3> QED BY <3>1 DEF StoredOwn
  <2>11. \A p, k : Summed(p, k)' = Summed(p, k)
    BY <2>2 DEF Summed
  <2>12. SumSettled'
    <3>1. ASSUME NEW p \in Servers, NEW t \in DOMAIN srv'[p].data, Summed(p, srv[p].data[t].k[0])'
          PROVE  t \notin DOMAIN srv'[p].comm /\ OthersIn(p, srv'[p].data[t].R[0])
      <4>1. CASE p = s
        <5>1. Summed(s, srv[s].data[t].k[0])
          BY <2>9, <2>11, <3>1, <4>1
        <5> QED BY <1>1, <1>3, <2>4, <2>7, <3>1, <4>1, <5>1 DEF SumInv, SumSettled
      <4>2. CASE p # s
        <5>1. srv'[p] = srv[p] /\ Summed(p, srv[p].data[t].k[0])
          BY <1>1, <2>11, <3>1, <4>2
        <5> QED BY <1>3, <3>1, <5>1 DEF SumInv, SumSettled
      <4> QED BY <4>1, <4>2
    <3> QED BY <1>3, <3>1 DEF SumSettled
  <2> QED BY <2>2, <2>8, <2>10, <2>12 DEF SumInv, MessagesOwn
<1> QED BY <1>2, <1>3

LEMMA SumInit == Init => SumInv
  BY DEF Init, SumInv, MessagesOwn, CommitsOwn, RevealsOwn, PsigsOwn, SumsOwn, RsMsgs,
         StoredOwn, SumSettled, OneSumPerNonce, EmptyServer, EmptyMap

LEMMA SumNext ==
    ASSUME Strict, Typed, NoncesDrawn, SumInv, [Next]_vars
    PROVE  SumInv'
<1>1. CASE StartPreprocessing
  BY <1>1, PreprocessingSums
<1>2. ASSUME NEW s \in Servers, StorePresigning(s) PROVE SumInv'
  BY <1>2, ForgettingSums
<1>3. ASSUME NEW tx \in Txs, ClientSign(tx) PROVE SumInv'
  BY <1>3, ClientSignSums
<1>4. ASSUME NEW tx \in Txs, ClientSignFails(tx) \/ UNCHANGED vars PROVE SumInv'
  BY <1>4, ForgettingSums, PlayersAssumption
<1>5. ASSUME NEW s \in Servers, NEW tx \in Txs, ServerStep(s, tx) PROVE SumInv'
  BY <1>5, SignOfflineSums, DecommitSums, BroadcastRSums, BroadcastSiSums, ForgettingSums DEF ServerStep
<1>6. CASE UNCHANGED vars
  BY <1>6, ForgettingSums, PlayersAssumption
<1> QED BY <1>1, <1>2, <1>3, <1>4, <1>5, <1>6 DEF Next

\* Once a server has drawn a nonce, one sum of Rs with it goes to the client at
\* most, whatever is cancelled, started again or replayed (the refusals of
\* decommit_r, and the commitments that broadcast_r drops).
THEOREM OneSum ==
    ASSUME Strict
    PROVE  Spec => []OneSumPerNonce
<1> DEFINE I == Typed /\ NoncesDrawn /\ SumInv
<1>1. Init => I
  BY TypedInit, NoncesDrawnInit, SumInit
<1>2. I /\ [Next]_vars => I'
  BY TypedNext, NoncesDrawnNext, SumNext
<1>3. I => OneSumPerNonce
  BY DEF SumInv
<1> QED BY <1>1, <1>2, <1>3, PTL DEF Spec
=============================================================================
