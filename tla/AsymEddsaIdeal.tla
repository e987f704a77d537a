---------------------------- MODULE AsymEddsaIdeal ----------------------------
(***************************************************************************)
(* AsymEddsa implements IdealSigner, under the persistency contract and    *)
(* when no transaction is cancelled, for every number of servers,          *)
(* transactions, presigning indices (which may overlap) and blocks.        *)
(***************************************************************************)
EXTENDS AsymEddsaSums, FoldLemmas

-----------------------------------------------------------------------------
\* Sums of bags.

\* How often the term k occurs in a form.
At(p, k) == IF k \in DOMAIN p THEN p[k] ELSE 0


Counted(points, I, k) ==
    /\ I = DOMAIN points
    /\ IsFiniteSet(I)
    /\ \A i \in I : At(points[i], k) \in Nat

\* g counts the term k in the points of a set of indices.
Counts(g, points, I, k) ==
    /\ g \in [SUBSET I -> Nat]
    /\ g[{}] = 0
    /\ \A s \in SUBSET I : s # {} => \E x \in s : g[s] = At(points[x], k) + g[s \ {x}]
    /\ k \in UNION {DOMAIN points[i] : i \in I} => AddAll(points)[k] = g[I]

LEMMA AddAllRecursion ==
    ASSUME NEW points, NEW I, NEW k, Counted(points, I, k)
    PROVE  \E g : Counts(g, points, I, k)
<1>0. I = DOMAIN points /\ IsFiniteSet(I) /\ \A i \in I : At(points[i], k) \in Nat
  BY DEF Counted
<1> DEFINE pick == [s \in SUBSET I |-> CHOOSE x \in s : TRUE]
           step == [e \in I \X Nat |-> At(points[e[1]], k) + e[2]]
           Added(g, s) == At(points[CHOOSE x \in s : TRUE], k) + g[s \ {CHOOSE x \in s : TRUE}]
           Iter(g) == g = [s \in SUBSET I |-> IF s = {} THEN 0 ELSE Added(g, s)]
<1>1. /\ \A s \in SUBSET I : s # {} => pick[s] \in s
      /\ \A x \in I, v \in Nat : step[<<x, v>>] \in Nat
  BY <1>0
<1>2. PICK g : g \in [SUBSET I -> Nat] /\ Recurs(g, I, 0, pick, step)
  <2> HIDE DEF pick, step
  <2> QED BY <1>0, <1>1, RecursionExists
<1>3. ASSUME NEW s \in SUBSET I, s # {}
      PROVE  step[<<pick[s], g[s \ {pick[s]}]>>] = Added(g, s)
  <2>1. pick[s] = (CHOOSE x \in s : TRUE) /\ pick[s] \in I
    BY <1>1, <1>3
  <2>2. g[s \ {pick[s]}] \in Nat
    BY <1>2
  <2>3. \A x \in I, v \in Nat : step[<<x, v>>] = At(points[x], k) + v
    OBVIOUS
  <2> HIDE DEF pick, step
  <2> QED BY <2>1, <2>2, <2>3
<1>4. Iter(g)
  <2>1. [s \in SUBSET I |-> IF s = {} THEN 0 ELSE step[<<pick[s], g[s \ {pick[s]}]>>]]
            = [s \in SUBSET I |-> IF s = {} THEN 0 ELSE Added(g, s)]
    <3> HIDE DEF pick, step, Added
    <3> QED BY <1>3
  <2> QED BY <1>2, <2>1 DEF Recurs
<1>5. PICK h : Iter(h) /\ h = CHOOSE f : Iter(f)
  <2> HIDE DEF Iter
  <2> QED BY <1>4
<1>6. k \in UNION {DOMAIN points[i] : i \in I} => AddAll(points)[k] = h[I]
  <2>1. h = CHOOSE f : Iter(f)
    BY <1>5
  <2>2. FoldFunction(LAMBDA p, n : (IF k \in DOMAIN p THEN p[k] ELSE 0) + n, 0, points) = (CHOOSE f : Iter(f))[I]
    BY <1>0, Zenon DEF FoldFunction, FoldFunctionOnSet, MapThenFoldSet, At
  <2>3. k \in UNION {DOMAIN points[i] : i \in I} => AddAll(points)[k] =
         FoldFunction(LAMBDA p, n : (IF k \in DOMAIN p THEN p[k] ELSE 0) + n, 0, points)
    BY <1>0, Zenon DEF AddAll
  <2> HIDE DEF Iter
  <2> QED BY <2>1, <2>2, <2>3
<1>7. ASSUME NEW s \in SUBSET I, NEW f, Iter(f)
      PROVE  f[s] = IF s = {} THEN 0 ELSE Added(f, s)
  BY <1>7
<1>8. \A s \in SUBSET I : h[s] = g[s]
  <2> DEFINE Same == {s \in SUBSET I : h[s] = g[s]}
  <2>1. {} \in Same
    BY <1>4, <1>5, <1>7
  <2>2. ASSUME NEW s \in SUBSET I, s # {} PROVE \E x \in s : s \ {x} \in Same => s \in Same
    <3>1. h[s] = Added(h, s) /\ g[s] = Added(g, s)
      <4> HIDE DEF Iter, Added
      <4> QED BY <1>4, <1>5, <1>7, <2>2
    <3>2. (CHOOSE x \in s : TRUE) \in s
      BY <2>2
    <3> QED BY <3>1, <3>2
  <2> HIDE DEF Same
  <2>3. Inductive(I, Same)
    BY <2>1, <2>2 DEF Inductive
  <2>5. SUBSET I \subseteq Same
    BY <1>0, <2>3, SubsetInduction
  <2> QED BY <2>5 DEF Same
<1>9. g[{}] = 0
  BY <1>4, <1>7
<1>10. ASSUME NEW s \in SUBSET I, s # {}
       PROVE  \E x \in s : g[s] = At(points[x], k) + g[s \ {x}]
  <2>1. g[s] = Added(g, s)
    BY <1>4, <1>7, <1>10
  <2>2. (CHOOSE x \in s : TRUE) \in s
    BY <1>10
  <2> QED BY <2>1, <2>2
<1>11. I \in SUBSET I
  OBVIOUS
<1> HIDE DEF Iter, Added, pick, step
<1>12. Counts(g, points, I, k)
  BY <1>0, <1>2, <1>6, <1>8, <1>9, <1>10, <1>11 DEF Counts
<1> QED BY <1>12

\* The bags of disjoint sets.
DisjointBags(points, sets, I) ==
    /\ IsFiniteSet(I)
    /\ DOMAIN points = I
    /\ \A i \in I : points[i] = SetToBag(sets[i])
    /\ \A i, j \in I : i # j => sets[i] \cap sets[j] = {}

\* The sum of the bags of disjoint sets is the bag of their union.
LEMMA SumOfDisjoint ==
    ASSUME NEW points, NEW sets, NEW I, DisjointBags(points, sets, I)
    PROVE  AddAll(points) = SetToBag(UNION {sets[i] : i \in I})
<1>0. /\ IsFiniteSet(I) /\ DOMAIN points = I
      /\ \A i \in I : points[i] = SetToBag(sets[i])
      /\ \A i, j \in I : i # j => sets[i] \cap sets[j] = {}
  BY DEF DisjointBags
<1>1. \A i \in I : DOMAIN points[i] = sets[i]
  BY <1>0 DEF SetToBag
<1> DEFINE all == UNION {DOMAIN points[i] : i \in DOMAIN points}
<1>2. all = UNION {sets[i] : i \in I}
  BY <1>0, <1>1
<1>3. ASSUME NEW k \in all PROVE AddAll(points)[k] = 1
  <2>1. PICK j \in I : k \in sets[j]
    BY <1>2
  <2>2. \A i \in I : At(points[i], k) = IF i = j THEN 1 ELSE 0
    BY <1>0, <1>1, <2>1 DEF At, SetToBag
  <2>3. Counted(points, I, k)
    BY <1>0, <1>1, <2>2 DEF Counted
  <2>7. PICK g : Counts(g, points, I, k)
    BY <2>3, AddAllRecursion
  <2> DEFINE Right == {s \in SUBSET I : g[s] = IF j \in s THEN 1 ELSE 0}
  <2>4. {} \in Right
    BY <2>7 DEF Counts
  <2>5. ASSUME NEW s \in SUBSET I, s # {} PROVE \E x \in s : s \ {x} \in Right => s \in Right
    <3>1. PICK x \in s : g[s] = At(points[x], k) + g[s \ {x}]
      BY <2>7, <2>5 DEF Counts
    <3>3. g[s \ {x}] \in Nat
      BY <2>7 DEF Counts
    <3>2. ASSUME s \ {x} \in Right PROVE s \in Right
      <4>1. CASE x = j
        BY <2>2, <3>1, <3>2, <4>1
      <4>2. CASE x # j
        BY <2>2, <3>1, <3>2, <4>2
      <4> QED BY <4>1, <4>2
    <3> QED BY <3>2
  <2>6. I \in Right
    <3> HIDE DEF Right
    <3>1. Inductive(I, Right)
      BY <2>4, <2>5 DEF Inductive
    <3>2. SUBSET I \subseteq Right
      BY <1>0, <3>1, SubsetInduction
    <3> QED BY <3>2
  <2> QED BY <1>0, <1>3, <2>1, <2>7, <2>6 DEF Counts
<1>4. AddAll(points) = [k \in all |-> AddAll(points)[k]]
  BY DEF AddAll
<1>5. AddAll(points) = [k \in all |-> 1]
  BY <1>3, <1>4
<1> QED BY <1>2, <1>5 DEF SetToBag

\* Adding two bags of disjoint sets.
LEMMA DisjointPlus ==
    ASSUME NEW A, NEW B, A \cap B = {}
    PROVE  SetToBag(A) (+) SetToBag(B) = SetToBag(A \cup B)
  BY DEF (+), SetToBag

\* The least id of the servers exists.
LEMMA LeastServer ==
    /\ MinSigner \in Servers
    /\ \A q \in Servers : MinSigner <= q
<1> DEFINE Least == {s \in SUBSET Servers : s = {} \/ \E p \in s : \A q \in s : p <= q}
<1>1. {} \in Least
  OBVIOUS
<1>2. ASSUME NEW s \in SUBSET Servers, s # {} PROVE \E x \in s : s \ {x} \in Least => s \in Least
  <2>1. PICK x \in s : TRUE
    BY <1>2
  <2>2. ASSUME s \ {x} \in Least PROVE s \in Least
    <3>1. \A q \in s : q \in Nat
      BY PlayersAssumption
    <3>2. CASE s \ {x} = {}
      BY <2>1, <3>1, <3>2
    <3>3. CASE s \ {x} # {}
      <4>1. PICK p \in s \ {x} : \A q \in s \ {x} : p <= q
        BY <2>2, <3>3
      <4>2. p <= x \/ x <= p
        BY <2>1, <3>1
      <4>3. \E y \in s : \A q \in s : y <= q
        <5>1. CASE p <= x
          BY <4>1, <5>1
        <5>2. CASE x <= p
          BY <2>1, <3>1, <4>1, <5>2
        <5> QED BY <4>2, <5>1, <5>2
      <4> QED BY <4>3
    <3> QED BY <3>2, <3>3
  <2> QED BY <2>1, <2>2
<1>3. Servers \in Least
  <2> HIDE DEF Least
  <2>1. Inductive(Servers, Least)
    BY <1>1, <1>2 DEF Inductive
  <2> QED BY <2>1, PlayersAssumption, SubsetInduction
<1>4. \E p \in Servers : \A q \in Servers : p <= q
  BY <1>3, PlayersAssumption
<1> QED BY <1>4 DEF MinSigner

-----------------------------------------------------------------------------
\* The invariant: what the messages are made of.

Psigs == {m \in msgs : m.type = "psig"}

\* R is made of one nonce of each server.
FullSum(R) ==
    \E n : (\A p \in Servers : n[p][1] = p) /\ R = SetToBag({n[p] : p \in Servers})

SumsFull == \A m \in RsMsgs : \A b \in Blocks : FullSum(m.rs.Rs[b])

\* A stored R is the own point until a sum with it was sent; as no transaction
\* is cancelled, the sum that was sent is stored until it has been answered.
PlainUntilSummed ==
    \A s \in Servers : \A tx \in DOMAIN srv[s].data :
        \/ Summed(s, srv[s].data[tx].k[0])
        \/ \A b \in Blocks : srv[s].data[tx].R[b] = GeneratorMul(srv[s].data[tx].k[b])

Holds(m) ==
    /\ m.tx \in DOMAIN srv[m.from].data
    /\ \A b \in Blocks : srv[m.from].data[m.tx].R[b] = m.rs.Rs[b]
SumsStored == \A m \in RsMsgs : m.tx \in Txs /\ (Answered(m.from, m.tx) \/ Holds(m))

\* The client signs a sum that every server has sent it, with a nonce k.
SignsSum(w, X, ks) ==
    /\ \A p \in Servers : \E m \in RsMsgs : m.from = p /\ m.tx = w.tx /\ m.rs.Rs = X
    /\ \A b \in Blocks :
        /\ ks[b][1] = Client
        /\ w.sigs[b].R = GeneratorMul(ks[b])
        /\ w.sigs[b].s = MulAdd(Hram(GeneratorMul(ks[b]) (+) X[b], Block(w.tx, b)), Client, ks[b])
        /\ <<Client, ks[b], Hram(GeneratorMul(ks[b]) (+) X[b], Block(w.tx, b))>> \in uses
PsigsGood == \A w \in Psigs : \E X, ks : SignsSum(w, X, ks)

\* R is the sum of a nonce of each server, sent for that transaction, and of the
\* client's k, which has answered the challenge of R.
Signers(R, tx, b, n, k) ==
    /\ \A p \in Servers :
        /\ n[p][1] = p
        /\ \E m \in RsMsgs : m.from = p /\ m.tx = tx /\ n[p] \in DOMAIN m.rs.Rs[b]
    /\ k[1] = Client
    /\ <<Client, k, Hram(R, Block(tx, b))>> \in uses
    /\ R = SetToBag({n[p] : p \in Servers} \cup {k})

\* The share of s of a server p with nonce n: that of the client goes with the
\* least id.
ShareNonces(p, n, k) == IF p = MinSigner THEN {n, k} ELSE {n}
ShareKeys(p, h) == IF p = MinSigner THEN {<<p, h>>, <<Client, h>>} ELSE {<<p, h>>}
Share(p, n, k, h) ==
    [nonces |-> SetToBag(ShareNonces(p, n, k)), keys |-> SetToBag(ShareKeys(p, h))]

GoodShare(p, tx, b, sig) ==
    \E n, k : /\ Signers(sig.R, tx, b, n, k)
              /\ sig.s = Share(p, n[p], k, Hram(sig.R, Block(tx, b)))
SharesGood == \A m \in SiMsgs : \A b \in Blocks : GoodShare(m.from, m.tx, b, m.sigs[b])

GoodFinal(tx, b, sig) ==
    /\ \E n, k : Signers(sig.R, tx, b, n, k)
    /\ Ed25519Verify(Players, Block(tx, b), sig)
FinalsGood == \A f \in finals : f.tx \in Txs /\ \A b \in Blocks : GoodFinal(f.tx, b, f.sigs[b])

-----------------------------------------------------------------------------
\* What the sums are.

\* The sum of points of which each is of one nonce of a server of its own.
LEMMA SumOfPoints ==
    ASSUME NEW points, DOMAIN points = Servers,
           \A p \in Servers : OwnPoint(p, points[p])
    PROVE  FullSum(AddAll(points))
<1> DEFINE n == [p \in Servers |-> CHOOSE x : x[1] = p /\ points[p] = GeneratorMul(x)]
           sets == [p \in Servers |-> {n[p]}]
<1>1. \A p \in Servers : n[p][1] = p /\ points[p] = GeneratorMul(n[p])
  BY DEF OwnPoint
<1> HIDE DEF n
<1>2. \A p \in Servers : points[p] = SetToBag(sets[p])
  BY <1>1 DEF GeneratorMul
<1>3. \A p, q \in Servers : p # q => sets[p] \cap sets[q] = {}
  BY <1>1
<1>4. UNION {sets[p] : p \in Servers} = {n[p] : p \in Servers}
  OBVIOUS
<1> HIDE DEF sets
<1>5. DisjointBags(points, sets, Servers)
  BY <1>2, <1>3, PlayersAssumption DEF DisjointBags
<1>6. AddAll(points) = SetToBag({n[p] : p \in Servers})
  BY <1>4, <1>5, SumOfDisjoint
<1>7. \A p \in Servers : n[p][1] = p
  BY <1>1
<1> QED BY <1>6, <1>7 DEF FullSum

\* The shares of all servers.
AllShares(scalars, n, k, h) ==
    /\ DOMAIN scalars = Servers
    /\ \A p \in Servers : n[p][1] = p /\ scalars[p] = Share(p, n[p], k, h)
    /\ k[1] = Client

\* The s of a signature of all players.
FullScalar(n, k, h) ==
    [nonces |-> SetToBag({n[p] : p \in Servers} \cup {k}),
     keys   |-> SetToBag({<<p, h>> : p \in Players})]

LEMMA SumOfShares ==
    ASSUME NEW scalars, NEW n, NEW k, NEW h, AllShares(scalars, n, k, h)
    PROVE  SumScalars(scalars) = FullScalar(n, k, h)
<1> DEFINE ns == [p \in Servers |-> ShareNonces(p, n[p], k)]
           ks == [p \in Servers |-> ShareKeys(p, h)]
           nonces == [p \in Servers |-> scalars[p].nonces]
           keys == [p \in Servers |-> scalars[p].keys]
<1>a. /\ DOMAIN scalars = Servers /\ k[1] = Client
      /\ \A p \in Servers : n[p][1] = p /\ scalars[p] = Share(p, n[p], k, h)
  BY DEF AllShares
<1>0. MinSigner \in Servers /\ Client \notin Servers
  BY LeastServer, PlayersAssumption
<1>1. /\ \A p \in Servers : nonces[p] = SetToBag(ns[p]) /\ keys[p] = SetToBag(ks[p])
      /\ DOMAIN nonces = Servers /\ DOMAIN keys = Servers
  BY <1>a DEF Share
<1>2. \A p, q \in Servers : p # q => ns[p] \cap ns[q] = {}
  BY <1>0, <1>a DEF ShareNonces
<1>3. \A p, q \in Servers : p # q => ks[p] \cap ks[q] = {}
  BY <1>0 DEF ShareKeys
<1>4. UNION {ns[p] : p \in Servers} = {n[p] : p \in Servers} \cup {k}
  BY <1>0, <1>a DEF ShareNonces
<1>5. UNION {ks[p] : p \in Servers} = {<<p, h>> : p \in Players}
  BY <1>0 DEF ShareKeys, Players
<1>6. SumScalars(scalars) = [nonces |-> AddAll(nonces), keys |-> AddAll(keys)]
  BY <1>a DEF SumScalars
<1> HIDE DEF ns, ks, nonces, keys
<1>7. AddAll(nonces) = SetToBag(UNION {ns[p] : p \in Servers})
  <2>1. DisjointBags(nonces, ns, Servers)
    BY <1>1, <1>2, PlayersAssumption DEF DisjointBags
  <2> QED BY <2>1, SumOfDisjoint
<1>8. AddAll(keys) = SetToBag(UNION {ks[p] : p \in Servers})
  <2>1. DisjointBags(keys, ks, Servers)
    BY <1>1, <1>3, PlayersAssumption DEF DisjointBags
  <2> QED BY <2>1, SumOfDisjoint
<1> QED BY <1>4, <1>5, <1>6, <1>7, <1>8 DEF FullScalar

-----------------------------------------------------------------------------
\* What the actions produce.

LEMMA NothingLost ==
    ASSUME [Next]_vars
    PROVE  msgs \subseteq msgs' /\ uses \subseteq uses' /\ finals \subseteq finals'
<1>1. CASE UNCHANGED vars
  BY <1>1 DEF vars
<1>2. CASE StartPreprocessing
  BY <1>2 DEF StartPreprocessing
<1>3. ASSUME NEW s \in Servers, StorePresigning(s)
      PROVE  msgs \subseteq msgs' /\ uses \subseteq uses' /\ finals \subseteq finals'
  BY <1>3 DEF StorePresigning
<1>4. ASSUME NEW tx \in Txs, ClientSign(tx) \/ ClientSignFails(tx)
      PROVE  msgs \subseteq msgs' /\ uses \subseteq uses' /\ finals \subseteq finals'
  BY <1>4 DEF ClientSign, ClientSignFails
<1>5. ASSUME NEW s \in Servers, NEW tx \in Txs, ServerStep(s, tx)
      PROVE  msgs \subseteq msgs' /\ uses \subseteq uses' /\ finals \subseteq finals'
  <2>1. CASE SignOffline(s, tx) BY <2>1 DEF SignOffline
  <2>2. CASE DecommitR(s, tx) BY <2>2 DEF DecommitR
  <2>3. CASE BroadcastR(s, tx) BY <2>3 DEF BroadcastR
  <2>4. CASE BroadcastSi(s, tx)
    <3>1. uses \subseteq uses'
      BY <2>4 DEF BroadcastSi
    <3>2. msgs \subseteq msgs' /\ finals \subseteq finals'
      BY <2>4 DEF BroadcastSi
    <3> QED BY <3>1, <3>2
  <2>5. CASE BroadcastSiFails(s, tx) BY <2>5 DEF BroadcastSiFails
  <2>6. CASE GetSignature(s, tx) BY <2>6 DEF GetSignature
  <2>7. CASE CancelSigning(s, tx) BY <2>7 DEF CancelSigning
  <2> QED BY <1>5, <2>1, <2>2, <2>3, <2>4, <2>5, <2>6, <2>7 DEF ServerStep
<1> QED BY <1>1, <1>2, <1>3, <1>4, <1>5 DEF Next

\* Signatures of the client come from the client.
LEMMA PsigOrigin ==
    ASSUME [Next]_vars, NEW w \in Psigs', w \notin Psigs
    PROVE  \E tx \in Txs : ClientSign(tx) /\ msgs' = msgs \cup {w}
<1>0. w \in msgs' /\ w \notin msgs /\ w.type = "psig"
  BY DEF Psigs
<1>1. CASE StartPreprocessing
  <2>1. \E x : w = [type |-> "presign", commitments |-> x]
    BY <1>0, <1>1 DEF StartPreprocessing
  <2> QED BY <1>0, <2>1
<1>2. ASSUME msgs' = msgs PROVE FALSE
  BY <1>0, <1>2
<1>3. ASSUME NEW tx \in Txs, ClientSign(tx) PROVE msgs' = msgs \cup {w}
  BY <1>0, <1>3 DEF ClientSign
<1>4. ASSUME NEW s \in Servers, NEW tx \in Txs, SignOffline(s, tx) PROVE FALSE
  <2>1. \/ \E x : w = [type |-> "Rs", tx |-> tx, from |-> s, rs |-> x]
        \/ \E x : w = [type |-> "commit", tx |-> tx, from |-> s, commitments |-> x]
    BY <1>0, <1>4 DEF SignOffline
  <2> QED BY <1>0, <2>1
<1>5. ASSUME NEW s \in Servers, NEW tx \in Txs, DecommitR(s, tx) PROVE FALSE
  <2>1. \E x : w = [type |-> "reveal", tx |-> tx, from |-> s, Rs |-> x]
    BY <1>0, <1>5 DEF DecommitR
  <2> QED BY <1>0, <2>1
<1>6. ASSUME NEW s \in Servers, NEW tx \in Txs, BroadcastR(s, tx) PROVE FALSE
  <2>1. \E x : w = [type |-> "Rs", tx |-> tx, from |-> s, rs |-> x]
    BY <1>0, <1>6 DEF BroadcastR
  <2> QED BY <1>0, <2>1
<1>7. ASSUME NEW s \in Servers, NEW tx \in Txs, BroadcastSi(s, tx) PROVE FALSE
  <2>1. \E x : w = [type |-> "si", tx |-> tx, from |-> s, sigs |-> x]
    BY <1>0, <1>7 DEF BroadcastSi
  <2> QED BY <1>0, <2>1
<1> QED BY <1>1, <1>2, <1>3, <1>4, <1>5, <1>6, <1>7
    DEF Next, ServerStep, vars, StorePresigning, ClientSignFails, BroadcastSiFails, GetSignature, CancelSigning

\* Shares come from broadcast_si.
LEMMA ShareOrigin ==
    ASSUME [Next]_vars, NEW m \in SiMsgs', m \notin SiMsgs
    PROVE  \E s \in Servers, tx \in Txs : BroadcastSi(s, tx) /\ msgs' = msgs \cup {m}
<1>0. m \in msgs' /\ m \notin msgs /\ m.type = "si"
  BY DEF SiMsgs
<1>1. CASE StartPreprocessing
  <2>1. \E x : m = [type |-> "presign", commitments |-> x]
    BY <1>0, <1>1 DEF StartPreprocessing
  <2> QED BY <1>0, <2>1
<1>2. ASSUME msgs' = msgs PROVE FALSE
  BY <1>0, <1>2
<1>3. ASSUME NEW tx \in Txs, ClientSign(tx) PROVE FALSE
  <2>1. \E x : m = [type |-> "psig", tx |-> tx, sigs |-> x]
    BY <1>0, <1>3 DEF ClientSign
  <2> QED BY <1>0, <2>1
<1>4. ASSUME NEW s \in Servers, NEW tx \in Txs, SignOffline(s, tx) PROVE FALSE
  <2>1. \/ \E x : m = [type |-> "Rs", tx |-> tx, from |-> s, rs |-> x]
        \/ \E x : m = [type |-> "commit", tx |-> tx, from |-> s, commitments |-> x]
    BY <1>0, <1>4 DEF SignOffline
  <2> QED BY <1>0, <2>1
<1>5. ASSUME NEW s \in Servers, NEW tx \in Txs, DecommitR(s, tx) PROVE FALSE
  <2>1. \E x : m = [type |-> "reveal", tx |-> tx, from |-> s, Rs |-> x]
    BY <1>0, <1>5 DEF DecommitR
  <2> QED BY <1>0, <2>1
<1>6. ASSUME NEW s \in Servers, NEW tx \in Txs, BroadcastR(s, tx) PROVE FALSE
  <2>1. \E x : m = [type |-> "Rs", tx |-> tx, from |-> s, rs |-> x]
    BY <1>0, <1>6 DEF BroadcastR
  <2> QED BY <1>0, <2>1
<1>7. ASSUME NEW s \in Servers, NEW tx \in Txs, BroadcastSi(s, tx) PROVE msgs' = msgs \cup {m}
  BY <1>0, <1>7 DEF BroadcastSi
<1> QED BY <1>1, <1>2, <1>3, <1>4, <1>5, <1>6, <1>7
    DEF Next, ServerStep, vars, StorePresigning, ClientSignFails, BroadcastSiFails, GetSignature, CancelSigning

\* Sums come from eddsa_sign_offline of the only server, or from broadcast_r.
LEMMA SumOrigin ==
    ASSUME [Next]_vars, NEW m \in RsMsgs', m \notin RsMsgs
    PROVE  \E s \in Servers, tx \in Txs :
                /\ (TwoPlayers /\ SignOffline(s, tx)) \/ BroadcastR(s, tx)
                /\ msgs' = msgs \cup {m} /\ m.from = s /\ m.tx = tx
<1>0. m \in msgs' /\ m \notin msgs /\ m.type = "Rs"
  BY DEF RsMsgs
<1>1. CASE StartPreprocessing
  <2>1. \E x : m = [type |-> "presign", commitments |-> x]
    BY <1>0, <1>1 DEF StartPreprocessing
  <2> QED BY <1>0, <2>1
<1>2. ASSUME msgs' = msgs PROVE FALSE
  BY <1>0, <1>2
<1>3. ASSUME NEW tx \in Txs, ClientSign(tx) PROVE FALSE
  <2>1. \E x : m = [type |-> "psig", tx |-> tx, sigs |-> x]
    BY <1>0, <1>3 DEF ClientSign
  <2> QED BY <1>0, <2>1
<1>4. ASSUME NEW s \in Servers, NEW tx \in Txs, SignOffline(s, tx)
      PROVE  TwoPlayers /\ msgs' = msgs \cup {m} /\ m.from = s /\ m.tx = tx
  <2> DEFINE R == [b \in Blocks |-> GeneratorMul(NextNonce(s))]
             one == [type |-> "Rs", tx |-> tx, from |-> s,
                     rs |-> [Rs |-> R, commitment |-> CommitToRs(tx, s, R)]]
             two == [type |-> "commit", tx |-> tx, from |-> s,
                     commitments |-> SignOfflineOut(s, tx, NextNonce(s))]
  <2>1. two.type # "Rs" /\ one.from = s /\ one.tx = tx
    OBVIOUS
  <2>2. msgs' = msgs \cup {IF TwoPlayers THEN one ELSE two}
    BY <1>4 DEF SignOffline
  <2> HIDE DEF one, two
  <2> QED BY <1>0, <2>1, <2>2
<1>5. ASSUME NEW s \in Servers, NEW tx \in Txs, DecommitR(s, tx) PROVE FALSE
  <2>1. \E x : m = [type |-> "reveal", tx |-> tx, from |-> s, Rs |-> x]
    BY <1>0, <1>5 DEF DecommitR
  <2> QED BY <1>0, <2>1
<1>6. ASSUME NEW s \in Servers, NEW tx \in Txs, BroadcastR(s, tx)
      PROVE  msgs' = msgs \cup {m} /\ m.from = s /\ m.tx = tx
  <2>1. \E x : m = [type |-> "Rs", tx |-> tx, from |-> s, rs |-> x] /\ msgs' = msgs \cup {m}
    BY <1>0, <1>6 DEF BroadcastR
  <2> QED BY <2>1
<1>7. ASSUME NEW s \in Servers, NEW tx \in Txs, BroadcastSi(s, tx) PROVE FALSE
  <2>1. \E x : m = [type |-> "si", tx |-> tx, from |-> s, sigs |-> x]
    BY <1>0, <1>7 DEF BroadcastSi
  <2> QED BY <1>0, <2>1
<1> QED BY <1>1, <1>2, <1>3, <1>4, <1>5, <1>6, <1>7
    DEF Next, ServerStep, vars, StorePresigning, ClientSignFails, BroadcastSiFails, GetSignature, CancelSigning

\* What happens to the signing data of a transaction at a server.
LEMMA DataChange ==
    ASSUME Strict, ~Cancels, Typed, [Next]_vars, NEW s \in Servers, NEW tx \in DOMAIN srv[s].data,
           ~BroadcastR(s, tx), ~BroadcastSi(s, tx), ~GetSignature(s, tx)
    PROVE  tx \in DOMAIN srv'[s].data /\ srv'[s].data[tx] = srv[s].data[tx]
<1> DEFINE Kept == tx \in DOMAIN srv'[s].data /\ srv'[s].data[tx] = srv[s].data[tx]
<1>t. /\ srv = [p \in Servers |-> srv[p]]
      /\ \A p \in Servers : DOMAIN srv[p] = {"alloc", "pre", "comm", "data"}
  BY DEF Typed, TypeOK, IsServerStore
<1>1. ASSUME UNCHANGED srv PROVE Kept
  BY <1>1
<1>2. ASSUME NEW p \in Servers, StorePresigning(p) PROVE Kept
  BY <1>2, <1>t, StorePresigningStep
<1>3. ASSUME NEW p \in Servers, NEW ty \in Txs, SignOffline(p, ty) PROVE Kept
  <2>1. ty \notin DOMAIN srv[p].data
    BY <1>3 DEF SignOffline, SignOfflineOk
  <2> QED BY <1>3, <1>t, <2>1, SignOfflineStep
<1>4. ASSUME NEW p \in Servers, NEW st, srv' = [srv EXCEPT ![p] = st],
             p = s => tx \in DOMAIN st.data /\ st.data[tx] = srv[s].data[tx]
      PROVE  Kept
  BY <1>4, <1>t
<1>5. ASSUME NEW p \in Servers, NEW ty \in Txs, DecommitR(p, ty) PROVE Kept
  <2>1. PICK cs : srv' = [srv EXCEPT ![p] = DecommitDo(srv[p], ty, cs)]
    BY <1>5, <1>t DEF DecommitR
  <2>2. DecommitDo(srv[p], ty, cs).data = srv[p].data
    BY <1>t DEF DecommitDo
  <2> QED BY <1>4, <2>1, <2>2
<1>6. ASSUME NEW p \in Servers, NEW ty \in Txs, BroadcastR(p, ty) PROVE Kept
  <2>1. PICK rs : srv' = [srv EXCEPT ![p] = BroadcastRDo(srv[p], p, ty, rs)]
    BY <1>6, <1>t DEF BroadcastR
  <2>2. BroadcastRDo(srv[p], p, ty, rs).data = [srv[p].data EXCEPT ![ty].R = CombinedRs(srv[p], p, ty, rs)]
    BY <1>t DEF BroadcastRDo
  <2>3. p = s => ty # tx
    BY <1>6
  <2>4. p = s => tx \in DOMAIN [srv[p].data EXCEPT ![ty].R = CombinedRs(srv[p], p, ty, rs)]
                /\ [srv[p].data EXCEPT ![ty].R = CombinedRs(srv[p], p, ty, rs)][tx] = srv[s].data[tx]
    BY <2>3
  <2> QED BY <1>4, <2>1, <2>2, <2>4
<1>7. ASSUME NEW p \in Servers, NEW ty \in Txs, BroadcastSi(p, ty) PROVE Kept
  <2>1. PICK psigs : srv' = [srv EXCEPT ![p] = BroadcastSiDo(srv[p], ty, psigs)]
    BY <1>7, <1>t DEF BroadcastSi
  <2>2. \E e : BroadcastSiDo(srv[p], ty, psigs).data =
                    IF TwoPlayers THEN Drop(srv[p].data, {ty}) ELSE Put(srv[p].data, ty, e)
    BY <1>t DEF BroadcastSiDo
  <2>3. p = s => ty # tx
    BY <1>7
  <2> QED BY <1>4, <2>1, <2>2, <2>3 DEF Drop, Put
<1>8. ASSUME NEW p \in Servers, NEW ty \in Txs, BroadcastSiFails(p, ty) PROVE Kept
  <2>1. PICK psigs : srv' = [srv EXCEPT ![p] = BroadcastSiFail(srv[p], ty, psigs)]
    BY <1>8, <1>t DEF BroadcastSiFails
  <2>2. BroadcastSiFail(srv[p], ty, psigs).data = srv[p].data
    BY <1>t DEF BroadcastSiFail
  <2> QED BY <1>4, <2>1, <2>2
<1>9. ASSUME NEW p \in Servers, NEW ty \in Txs, GetSignature(p, ty) PROVE Kept
  <2>1. srv' = [srv EXCEPT ![p] = GetSignatureDo(srv[p], ty)]
    BY <1>9, <1>t DEF GetSignature
  <2>2. GetSignatureDo(srv[p], ty).data = Drop(srv[p].data, {ty})
    BY <1>t DEF GetSignatureDo
  <2>3. p = s => ty # tx
    BY <1>9
  <2> QED BY <1>4, <2>1, <2>2, <2>3 DEF Drop
<1> QED
  BY <1>1, <1>2, <1>3, <1>5, <1>6, <1>7, <1>8, <1>9
  DEF Next, ServerStep, StartPreprocessing, ClientSign, ClientSignFails, CancelSigning, vars

\* Data come to a server with eddsa_sign_offline.
LEMMA DataOrigin ==
    ASSUME Strict, Typed, [Next]_vars, NEW s \in Servers, NEW tx,
           tx \in DOMAIN srv'[s].data, tx \notin DOMAIN srv[s].data
    PROVE  tx \in Txs /\ SignOffline(s, tx)
<1>t. srv = [p \in Servers |-> srv[p]]
  BY DEF Typed, TypeOK
<1>1. ASSUME UNCHANGED srv PROVE FALSE
  BY <1>1
<1>2. ASSUME NEW p \in Servers, StorePresigning(p) PROVE FALSE
  BY <1>2, <1>t, StorePresigningStep
<1>3. ASSUME NEW p \in Servers, NEW ty \in Txs, SignOffline(p, ty) PROVE p = s /\ ty = tx
  BY <1>3, <1>t, SignOfflineStep
<1>4. ASSUME NEW p \in Servers, NEW st, Keeps(srv[p], st), srv' = [srv EXCEPT ![p] = st]
      PROVE  FALSE
  BY <1>4, <1>t DEF Keeps
<1>5. ASSUME NEW p \in Servers, NEW ty \in Txs, BroadcastSi(p, ty) PROVE FALSE
  <2>1. PICK st : srv' = [srv EXCEPT ![p] = st] /\ Keeps(srv[p], st)
    BY <1>5, BroadcastSiStep
  <2> QED BY <1>4, <2>1
<1>6. ASSUME NEW p \in Servers, NEW ty \in Txs,
             \/ DecommitR(p, ty) \/ BroadcastR(p, ty) \/ BroadcastSiFails(p, ty)
             \/ GetSignature(p, ty) \/ CancelSigning(p, ty)
      PROVE  FALSE
  BY <1>4, <1>6, KeepingSteps
<1> QED
  BY <1>1, <1>2, <1>3, <1>5, <1>6
  DEF Next, ServerStep, StartPreprocessing, ClientSign, ClientSignFails, vars

-----------------------------------------------------------------------------
\* Sums sent to the client.

\* Everything that was proved of the states before.
Before == Typed /\ NoncesDrawn /\ SumInv /\ AnsweredOnce

\* A player that sends a sum stores it.
SendsSum(s, tx, m) ==
    /\ msgs' = msgs \cup {m} /\ m.type = "Rs" /\ m.from = s /\ m.tx = tx
    /\ tx \in DOMAIN srv'[s].data
    /\ \A b \in Blocks :
        /\ FullSum(m.rs.Rs[b])
        /\ srv'[s].data[tx].R[b] = m.rs.Rs[b]
        /\ srv'[s].data[tx].k[b] \in DOMAIN m.rs.Rs[b]

\* A stored R has the nonce that is stored with it.
LEMMA OwnNonceStored ==
    ASSUME SumInv, NEW s \in Servers, NEW tx \in DOMAIN srv[s].data, NEW b \in Blocks
    PROVE  /\ srv[s].data[tx].k[b] = srv[s].data[tx].k[0]
           /\ srv[s].data[tx].k[b] \in DOMAIN srv[s].data[tx].R[b]
           /\ \A n \in DOMAIN srv[s].data[tx].R[b] : n[1] = s => n = srv[s].data[tx].k[b]
<1>1. EntryOwn(s, srv[s].data[tx])
  BY DEF SumInv, StoredOwn
<1>2. /\ srv[s].data[tx].k[b] = srv[s].data[tx].k[0]
      /\ OwnNonces(s, srv[s].data[tx].R[b]) = {srv[s].data[tx].k[0]}
  BY <1>1 DEF EntryOwn
<1> QED BY <1>2 DEF OwnNonces

LEMMA SignOfflineSum ==
    ASSUME Before, TwoPlayers, NEW s \in Servers, NEW tx \in Txs, SignOffline(s, tx),
           NEW m, m \in RsMsgs', m \notin RsMsgs, m.from = s, m.tx = tx
    PROVE  SendsSum(s, tx, m)
<1> DEFINE n == <<s, drawn[s] + 1>>
<1>1. PICK e : StoresEntry(s, tx, e, n)
  BY SignOfflineStores DEF Before
<1>2. PICK o : SendsOwn(s, o, n)
  BY SignOfflineSends
<1>3. o = m /\ msgs' = msgs \cup {m}
  BY <1>2 DEF SendsOwn, RsMsgs
<1>4. \A b \in Blocks : m.rs.Rs[b] = GeneratorMul(n)
  BY <1>2, <1>3 DEF SendsOwn
<1>5. n[1] = s
  OBVIOUS
<1> HIDE DEF n
<1>6. FullSum(GeneratorMul(n))
  <2> DEFINE ns == [p \in Servers |-> n]
  <2>1. \A p \in Servers : ns[p][1] = p
    BY <1>5, OneServerOfTwoPlayers
  <2>2. {ns[p] : p \in Servers} = {n}
    OBVIOUS
  <2> HIDE DEF ns
  <2> QED BY <2>1, <2>2 DEF FullSum, GeneratorMul
<1>7. /\ tx \in DOMAIN srv'[s].data
      /\ \A b \in Blocks : srv'[s].data[tx].R[b] = GeneratorMul(n) /\ srv'[s].data[tx].k[b] = n
  BY <1>1 DEF StoresEntry, Put
<1>8. n \in DOMAIN GeneratorMul(n)
  BY NonceOfPoint
<1> QED BY <1>3, <1>4, <1>6, <1>7, <1>8 DEF SendsSum, RsMsgs

LEMMA BroadcastRSum ==
    ASSUME Before, PlainUntilSummed, NEW s \in Servers, NEW tx \in Txs, BroadcastR(s, tx)
    PROVE  /\ tx \in DOMAIN srv[s].data
           /\ ~Summed(s, srv[s].data[tx].k[0])
           /\ \E m : SendsSum(s, tx, m)
           /\ srv'[s].data[tx].k = srv[s].data[tx].k
<1>t. /\ srv = [p \in Servers |-> srv[p]] /\ DOMAIN srv[s] = {"alloc", "pre", "comm", "data"}
      /\ \A t \in DOMAIN srv[s].data : DOMAIN srv[s].data[t] = {"k", "R"}
  BY DEF Before, Typed, TypeOK, IsServerStore
<1>1. PICK rs : BroadcastsSum(s, tx, rs)
  BY BroadcastRStores DEF Before, SumInv, MessagesOwn
<1>2. tx \in DOMAIN srv[s].data /\ tx \in DOMAIN srv[s].comm
  BY <1>1 DEF BroadcastsSum
<1>3. ~Summed(s, srv[s].data[tx].k[0])
  BY <1>2 DEF Before, SumInv, SumSettled
<1>4. \A b \in Blocks : OwnPoint(s, srv[s].data[tx].R[b])
  <2> TAKE b \in Blocks
  <2>1. srv[s].data[tx].R[b] = GeneratorMul(srv[s].data[tx].k[b])
    BY <1>2, <1>3 DEF PlainUntilSummed
  <2>2. srv[s].data[tx].k[b][1] = s
    BY <1>2 DEF Before, NoncesDrawn, DrawnBy
  <2> QED BY <2>1, <2>2 DEF OwnPoint
<1> DEFINE Rs == CombinedRs(srv[s], s, tx, rs)
           m == [type |-> "Rs", tx |-> tx, from |-> s, rs |-> BroadcastROut(srv[s], s, tx, rs)]
<1>5. \A b \in Blocks : FullSum(Rs[b])
  <2> TAKE b \in Blocks
  <2> DEFINE points == [p \in Servers |-> IF p = s THEN srv[s].data[tx].R[b] ELSE rs[p][b]]
  <2>1. Rs[b] = AddAll(points)
    BY DEF CombinedRs
  <2>2. \A p \in Servers : OwnPoint(p, points[p])
    BY <1>1, <1>4 DEF BroadcastsSum
  <2>3. DOMAIN points = Servers
    OBVIOUS
  <2> HIDE DEF points
  <2> QED BY <2>1, <2>2, <2>3, SumOfPoints
<1>6. \A b \in Blocks : srv[s].data[tx].k[b] \in DOMAIN Rs[b]
  <2> TAKE b \in Blocks
  <2>1. srv[s].data[tx].k[b] \in DOMAIN srv[s].data[tx].R[b]
    BY <1>2, OwnNonceStored DEF Before
  <2> QED BY <2>1, NoncesOfCombined
<1>7. /\ srv'[s].data = [srv[s].data EXCEPT ![tx].R = Rs]
      /\ msgs' = msgs \cup {m}
  <2>1. srv'[s] = BroadcastRDo(srv[s], s, tx, rs)
    BY <1>1, <1>t DEF BroadcastsSum
  <2>2. BroadcastRDo(srv[s], s, tx, rs).data = [srv[s].data EXCEPT ![tx].R = Rs]
    BY <1>t DEF BroadcastRDo
  <2> QED BY <1>1, <2>1, <2>2 DEF BroadcastsSum
<1>8. m.type = "Rs" /\ m.from = s /\ m.tx = tx /\ m.rs.Rs = Rs
  BY DEF BroadcastROut
<1> HIDE DEF m, Rs
<1>9. tx \in DOMAIN srv'[s].data /\ srv'[s].data[tx].R = Rs /\ srv'[s].data[tx].k = srv[s].data[tx].k
  BY <1>t, <1>2, <1>7
<1>10. SendsSum(s, tx, m)
  BY <1>5, <1>6, <1>7, <1>8, <1>9 DEF SendsSum
<1> QED BY <1>2, <1>3, <1>9, <1>10

\* Each new sum is full, and stored by the server that sends it.
LEMMA NewSum ==
    ASSUME Before, PlainUntilSummed, [Next]_vars, NEW m, m \in RsMsgs', m \notin RsMsgs
    PROVE  m.from \in Servers /\ m.tx \in Txs /\ SendsSum(m.from, m.tx, m)
<1>1. PICK s \in Servers, tx \in Txs :
            /\ (TwoPlayers /\ SignOffline(s, tx)) \/ BroadcastR(s, tx)
            /\ msgs' = msgs \cup {m} /\ m.from = s /\ m.tx = tx
  BY SumOrigin
<1>2. CASE TwoPlayers /\ SignOffline(s, tx)
  BY <1>1, <1>2, SignOfflineSum
<1>3. CASE BroadcastR(s, tx)
  <2>1. PICK o : SendsSum(s, tx, o)
    BY <1>3, BroadcastRSum
  <2>2. o = m
    BY <2>1 DEF SendsSum, RsMsgs
  <2> QED BY <1>1, <2>1, <2>2
<1> QED BY <1>1, <1>2, <1>3

LEMMA SumsFullNext ==
    ASSUME Before, PlainUntilSummed, SumsFull, [Next]_vars
    PROVE  SumsFull'
<1> SUFFICES ASSUME NEW m, m \in RsMsgs', NEW b \in Blocks PROVE FullSum(m.rs.Rs[b])
  BY DEF SumsFull, FullSum
<1>1. CASE m \in RsMsgs
  BY <1>1 DEF SumsFull
<1>2. CASE m \notin RsMsgs
  BY <1>2, NewSum DEF SendsSum
<1> QED BY <1>1, <1>2

\* A server that answers the client still stores the sum that it sent.
LEMMA AnswersSum ==
    ASSUME Strict, Before, SumsStored, PsigsGood,
           NEW s \in Servers, NEW tx \in Txs, BroadcastSi(s, tx),
           NEW w, NEW X, NEW ks, SignsSum(w, X, ks), w.tx = tx
    PROVE  \A b \in Blocks : srv[s].data[tx].R[b] = X[b]
<1>1. PICK m \in RsMsgs : m.from = s /\ m.tx = tx /\ m.rs.Rs = X
  BY DEF SignsSum
<1>2. ~Answered(s, tx)
  BY BroadcastSiAnswer DEF Before
<1>3. Holds(m)
  BY <1>1, <1>2 DEF SumsStored
<1> QED BY <1>1, <1>3 DEF Holds

LEMMA SummedStored ==
    ASSUME SumInv, NEW m \in RsMsgs, Holds(m)
    PROVE  Summed(m.from, srv[m.from].data[m.tx].k[0])
<1>1. m.from \in Servers /\ m.tx \in DOMAIN srv[m.from].data
  BY DEF SumInv, MessagesOwn, SumsOwn, Holds
<1>2. srv[m.from].data[m.tx].k[0] \in DOMAIN srv[m.from].data[m.tx].R[0]
  BY <1>1, OwnNonceStored, BlockZero
<1>3. srv[m.from].data[m.tx].k[0] \in DOMAIN m.rs.Rs[0]
  BY <1>2, BlockZero DEF Holds
<1> QED BY <1>3, BlockZero DEF Summed

\* broadcast_si leaves the k of the transaction, or drops its data.
LEMMA BroadcastSiKeepsK ==
    ASSUME Before, NEW s \in Servers, NEW tx \in Txs, BroadcastSi(s, tx), tx \in DOMAIN srv'[s].data
    PROVE  srv'[s].data[tx].k = srv[s].data[tx].k
<1>1. PICK psigs, e : AddsClientR(s, tx, psigs, e)
  BY BroadcastSiSumStores DEF Before, SumInv, MessagesOwn
<1> QED BY <1>1 DEF AddsClientR, Put, Drop

LEMMA GetSignatureDrops ==
    ASSUME Before, NEW s \in Servers, NEW tx \in Txs, GetSignature(s, tx)
    PROVE  tx \notin DOMAIN srv'[s].data /\ Answered(s, tx)
<1>t. srv = [p \in Servers |-> srv[p]] /\ DOMAIN srv[s] = {"alloc", "pre", "comm", "data"}
  BY DEF Before, Typed, TypeOK, IsServerStore
<1>1. PICK f \in Batches("si", tx) : srv' = [srv EXCEPT ![s] = GetSignatureDo(srv[s], tx)]
  BY <1>t DEF GetSignature
<1>2. GetSignatureDo(srv[s], tx).data = Drop(srv[s].data, {tx})
  BY <1>t DEF GetSignatureDo
<1>3. tx \notin DOMAIN srv'[s].data
  BY <1>1, <1>2, <1>t DEF Drop
<1>4. f[s] \in SiMsgs /\ f[s].from = s /\ f[s].tx = tx
  BY DEF Batches, Of, SiMsgs
<1> QED BY <1>3, <1>4 DEF Before, AnsweredOnce

LEMMA PlainNext ==
    ASSUME Strict, ~Cancels, Before, PlainUntilSummed, SumsStored, PsigsGood, [Next]_vars
    PROVE  PlainUntilSummed'
<1> DEFINE Plain(s, tx) ==
        \/ \E m \in RsMsgs', b \in Blocks : m.from = s /\ srv'[s].data[tx].k[0] \in DOMAIN m.rs.Rs[b]
        \/ \A b \in Blocks : srv'[s].data[tx].R[b] = GeneratorMul(srv'[s].data[tx].k[b])
<1> SUFFICES ASSUME NEW s \in Servers, NEW tx, tx \in DOMAIN srv'[s].data PROVE Plain(s, tx)
  BY DEF PlainUntilSummed, Summed
<1>1. CASE tx \notin DOMAIN srv[s].data
  <2>1. tx \in Txs /\ SignOffline(s, tx)
    BY <1>1, DataOrigin DEF Before
  <2>2. PICK e : StoresEntry(s, tx, e, <<s, drawn[s] + 1>>)
    BY <2>1, SignOfflineStores DEF Before
  <2> QED BY <2>2 DEF StoresEntry, Put
<1>2. CASE tx \in DOMAIN srv[s].data
  <2>0. tx \in Txs
    BY <1>2 DEF Before, Typed, TypeOK, IsServerStore
  <2>s. ASSUME Summed(s, srv[s].data[tx].k[0]), srv'[s].data[tx].k = srv[s].data[tx].k
        PROVE  Plain(s, tx)
    BY <2>s, NothingLost DEF Summed, RsMsgs
  <2>1. CASE BroadcastR(s, tx)
    <3>1. PICK m : SendsSum(s, tx, m)
      BY <2>0, <2>1, BroadcastRSum
    <3> QED BY <3>1, BlockZero DEF SendsSum, RsMsgs
  <2>2. CASE BroadcastSi(s, tx)
    <3>1. PICK w \in Psigs : w.tx = tx
      BY <2>2 DEF BroadcastSi, Of, Psigs
    <3>2. PICK X, ks : SignsSum(w, X, ks)
      BY DEF PsigsGood
    <3>3. PICK m \in RsMsgs : m.from = s /\ m.tx = tx
      BY <3>1, <3>2 DEF SignsSum
    <3>4. Holds(m)
      BY <2>0, <2>2, <3>3, BroadcastSiAnswer DEF SumsStored, Before
    <3> QED BY <2>0, <2>2, <2>s, <3>3, <3>4, SummedStored, BroadcastSiKeepsK DEF Before
  <2>3. CASE GetSignature(s, tx)
    BY <2>0, <2>3, GetSignatureDrops
  <2>4. CASE ~BroadcastR(s, tx) /\ ~BroadcastSi(s, tx) /\ ~GetSignature(s, tx)
    <3>1. srv'[s].data[tx] = srv[s].data[tx]
      BY <1>2, <2>4, DataChange DEF Before
    <3> QED BY <1>2, <2>s, <3>1 DEF PlainUntilSummed
  <2> QED BY <2>1, <2>2, <2>3, <2>4
<1> QED BY <1>1, <1>2

LEMMA SumsStoredNext ==
    ASSUME Strict, ~Cancels, Before, PlainUntilSummed, SumsStored, [Next]_vars
    PROVE  SumsStored'
<1> SUFFICES ASSUME NEW m, m \in RsMsgs'
             PROVE  m.tx \in Txs /\ (Answered(m.from, m.tx)' \/ Holds(m)')
  BY DEF SumsStored, Answered, Holds
<1>1. CASE m \notin RsMsgs
  BY <1>1, NewSum DEF SendsSum, Holds
<1>2. CASE m \in RsMsgs
  <2> DEFINE s == m.from
             tx == m.tx
  <2>0. s \in Servers /\ tx \in Txs
    BY <1>2 DEF Before, SumInv, MessagesOwn, SumsOwn, SumsStored
  <2>1. ASSUME Answered(s, tx) PROVE Answered(s, tx)'
    BY <2>0, <2>1, AnsweredStays DEF Before
  <2>2. CASE Holds(m)
    <3>1. tx \in DOMAIN srv[s].data /\ \A b \in Blocks : srv[s].data[tx].R[b] = m.rs.Rs[b]
      BY <2>2 DEF Holds
    <3>2. CASE BroadcastR(s, tx)
      BY <1>2, <2>0, <2>2, <3>2, BroadcastRSum, SummedStored DEF Before
    <3>3. CASE BroadcastSi(s, tx)
      BY <2>0, <3>3, BroadcastSiAnswer DEF Before
    <3>4. CASE GetSignature(s, tx)
      BY <2>0, <2>1, <3>4, GetSignatureDrops
    <3>5. CASE ~BroadcastR(s, tx) /\ ~BroadcastSi(s, tx) /\ ~GetSignature(s, tx)
      <4>1. tx \in DOMAIN srv'[s].data /\ srv'[s].data[tx] = srv[s].data[tx]
        BY <2>0, <3>1, <3>5, DataChange DEF Before
      <4> QED BY <2>0, <3>1, <4>1 DEF Holds
    <3> QED BY <3>2, <3>3, <3>4, <3>5
  <2> QED BY <1>2, <2>0, <2>1, <2>2 DEF SumsStored
<1> QED BY <1>1, <1>2

-----------------------------------------------------------------------------
\* Signatures of the client.

LEMMA ClientSigns ==
    ASSUME Before, NEW tx \in Txs, ClientSign(tx), NEW w, w \in Psigs', msgs' = msgs \cup {w}, w \notin msgs
    PROVE  \E X, ks : SignsSum(w, X, ks)'
<1>1. PICK f \in Batches("Rs", tx) :
        LET rs == [p \in Servers |-> f[p].rs]
        IN  /\ ClientSignOk(cli, tx, rs)
            /\ msgs' = msgs \cup {[type |-> "psig", tx |-> tx, sigs |-> ClientSignOut(cli, tx, rs)]}
            /\ uses' = uses \cup {<<Client, cli.pre[Index(tx, b)], ClientHram(cli, tx, rs, b)>> : b \in Blocks}
  BY DEF ClientSign
<1> DEFINE rs == [p \in Servers |-> f[p].rs]
<1>0. PICK X, ks : X = rs[MinSigner].Rs /\ ks = [b \in Blocks |-> cli.pre[Index(tx, b)]]
  OBVIOUS
<1>2. w = [type |-> "psig", tx |-> tx, sigs |-> ClientSignOut(cli, tx, rs)]
  BY <1>1
<1>3. \A p \in Servers : f[p] \in RsMsgs /\ f[p].from = p /\ f[p].tx = tx /\ f[p].rs.Rs = X
  <2>1. \A p, q \in Servers : rs[p].Rs = rs[q].Rs
    BY <1>1 DEF ClientSignOk, ClientRsOk
  <2>2. \A p \in Servers : f[p].rs.Rs = X
    BY <1>0, <2>1, LeastServer
  <2> QED BY <2>2 DEF Batches, Of, RsMsgs
<1>4. \A b \in Blocks : ClientHram(cli, tx, rs, b) = Hram(GeneratorMul(ks[b]) (+) X[b], Block(tx, b))
  BY <1>0 DEF ClientHram, MinSigner
<1>5. \A b \in Blocks : /\ w.sigs[b].R = GeneratorMul(ks[b])
                        /\ w.sigs[b].s = MulAdd(ClientHram(cli, tx, rs, b), Client, ks[b])
  BY <1>0, <1>2 DEF ClientSignOut
<1>6. \A b \in Blocks : ks[b][1] = Client
  BY <1>0, <1>1 DEF Before, NoncesDrawn, DrawnBy, ClientSignOk, ClientLoaded
<1>7. \A b \in Blocks : <<Client, ks[b], ClientHram(cli, tx, rs, b)>> \in uses'
  BY <1>0, <1>1
<1>8. w.tx = tx
  BY <1>2
<1> HIDE DEF rs
<1>9. RsMsgs \subseteq RsMsgs'
  BY DEF RsMsgs
<1>10. SignsSum(w, X, ks)'
  BY <1>3, <1>4, <1>5, <1>6, <1>7, <1>8, <1>9 DEF SignsSum
<1> QED BY <1>10

LEMMA PsigsNext ==
    ASSUME Before, PsigsGood, [Next]_vars
    PROVE  PsigsGood'
<1> SUFFICES ASSUME NEW w, w \in Psigs' PROVE \E X, ks : SignsSum(w, X, ks)'
  BY DEF PsigsGood, SignsSum
<1>1. CASE w \in Psigs
  <2>1. PICK X, ks : SignsSum(w, X, ks)
    BY <1>1 DEF PsigsGood
  <2>2. SignsSum(w, X, ks)'
    BY <2>1, NothingLost DEF SignsSum, RsMsgs
  <2> QED BY <2>2
<1>2. CASE w \notin Psigs
  <2>1. PICK tx \in Txs : ClientSign(tx) /\ msgs' = msgs \cup {w}
    BY <1>2, PsigOrigin
  <2>2. w \notin msgs
    BY <1>2 DEF Psigs
  <2> QED BY <2>1, <2>2, ClientSigns
<1> QED BY <1>1, <1>2

-----------------------------------------------------------------------------
\* Shares of s.

\* What broadcast_si returns for a block is a share of a signature by one nonce
\* of each server and the client's.
LEMMA ShareOfBlock ==
    ASSUME Strict, Before, SumsFull, SumsStored, PsigsGood, [Next]_vars,
           NEW s \in Servers, NEW tx \in Txs, BroadcastSi(s, tx),
           NEW w \in Of("psig", tx), NEW b \in Blocks
    PROVE  \E sig : sig = BroadcastSiOut(srv[s], s, tx, w.sigs)[b] /\ GoodShare(s, tx, b, sig)'
<1>w. w \in Psigs /\ w.tx = tx
  BY DEF Of, Psigs
<1>1. PICK X, ks : SignsSum(w, X, ks)
  BY <1>w DEF PsigsGood
<1>d. tx \in DOMAIN srv[s].data
  BY BroadcastSiStep DEF Before
<1>2. srv[s].data[tx].R[b] = X[b]
  BY <1>w, <1>1, AnswersSum
<1>3. \A p \in Servers : \E m \in RsMsgs : m.from = p /\ m.tx = tx /\ m.rs.Rs = X
  BY <1>w, <1>1 DEF SignsSum
<1>4. FullSum(X[b])
  BY <1>3 DEF SumsFull
<1>5. PICK n : (\A p \in Servers : n[p][1] = p) /\ X[b] = SetToBag({n[p] : p \in Servers})
  BY <1>4 DEF FullSum
<1>6. PICK k, h, own : k = ks[b] /\ h = ServerHram(srv[s], tx, w.sigs, b) /\ own = srv[s].data[tx].k[b]
  OBVIOUS
<1> DEFINE A == {n[p] : p \in Servers}
<1>7. /\ k[1] = Client
      /\ w.sigs[b].R = GeneratorMul(k)
      /\ w.sigs[b].s = MulAdd(Hram(GeneratorMul(k) (+) X[b], Block(tx, b)), Client, k)
      /\ <<Client, k, Hram(GeneratorMul(k) (+) X[b], Block(tx, b))>> \in uses
  BY <1>w, <1>1, <1>6 DEF SignsSum
<1>8. k \notin A
  BY <1>5, <1>7, PlayersAssumption
<1>9. X[b] (+) GeneratorMul(k) = SetToBag(A \cup {k}) /\ GeneratorMul(k) (+) X[b] = SetToBag(A \cup {k})
  <2>1. A \cap {k} = {} /\ {k} \cap A = {}
    BY <1>8
  <2>2. X[b] = SetToBag(A) /\ GeneratorMul(k) = SetToBag({k})
    BY <1>5 DEF GeneratorMul
  <2>3. SetToBag(A) (+) SetToBag({k}) = SetToBag(A \cup {k}) /\ SetToBag({k}) (+) SetToBag(A) = SetToBag({k} \cup A)
    BY <2>1, DisjointPlus
  <2>4. {k} \cup A = A \cup {k}
    OBVIOUS
  <2> HIDE DEF A
  <2> QED BY <2>2, <2>3, <2>4
<1>10. PICK R : R = SetToBag(A \cup {k})
  OBVIOUS
<1>11. srv[s].data[tx].R[b] (+) w.sigs[b].R = R
  BY <1>2, <1>7, <1>9, <1>10
<1>12. h = Hram(R, Block(tx, b))
  BY <1>6, <1>11 DEF ServerHram
<1>13. Hram(GeneratorMul(k) (+) X[b], Block(tx, b)) = h
  BY <1>9, <1>10, <1>12
<1>14. own = n[s]
  <2>1. DOMAIN X[b] = A
    BY <1>5 DEF SetToBag
  <2>2. n[s] \in DOMAIN X[b] /\ n[s][1] = s
    BY <1>5, <2>1
  <2> QED BY <1>2, <1>6, <1>d, <2>2, OwnNonceStored DEF Before
<1>15. \A p \in Servers : n[p] \in DOMAIN X[b]
  BY <1>5 DEF SetToBag
<1>16. Signers(R, tx, b, n, k)'
  <2>1. \A p \in Servers : \E m \in RsMsgs' : m.from = p /\ m.tx = tx /\ n[p] \in DOMAIN m.rs.Rs[b]
    BY <1>3, <1>15, NothingLost DEF RsMsgs
  <2>2. <<Client, k, Hram(R, Block(tx, b))>> \in uses'
    BY <1>7, <1>12, <1>13, NothingLost
  <2> QED BY <1>5, <1>7, <1>10, <2>1, <2>2 DEF Signers
<1>17. PICK sig : sig = BroadcastSiOut(srv[s], s, tx, w.sigs)[b]
  OBVIOUS
<1>18. sig.R = R
  BY <1>11, <1>17 DEF BroadcastSiOut
<1>19. sig.s = IF s = MinSigner THEN AddScalars(MulAdd(h, s, own), w.sigs[b].s) ELSE MulAdd(h, s, own)
  <2>1. TwoPlayers => s = MinSigner
    BY OneServerOfTwoPlayers, LeastServer
  <2> QED BY <1>6, <1>17, <2>1 DEF BroadcastSiOut
<1>20. sig.s = Share(s, n[s], k, h)
  <2>0. s # Client /\ n[s] # k
    BY <1>8, PlayersAssumption
  <2>1. CASE s = MinSigner
    <3>1. w.sigs[b].s = MulAdd(h, Client, k)
      BY <1>7, <1>13
    <3>2. sig.s = [nonces |-> SetToBag({n[s]}) (+) SetToBag({k}),
                   keys |-> SetToBag({<<s, h>>}) (+) SetToBag({<<Client, h>>})]
      BY <1>14, <1>19, <2>1, <3>1 DEF AddScalars, MulAdd
    <3>3. {n[s]} \cap {k} = {} /\ {<<s, h>>} \cap {<<Client, h>>} = {}
      BY <2>0
    <3>4. /\ SetToBag({n[s]}) (+) SetToBag({k}) = SetToBag({n[s]} \cup {k})
          /\ SetToBag({<<s, h>>}) (+) SetToBag({<<Client, h>>}) = SetToBag({<<s, h>>} \cup {<<Client, h>>})
      BY <3>3, DisjointPlus
    <3>5. {n[s]} \cup {k} = {n[s], k} /\ {<<s, h>>} \cup {<<Client, h>>} = {<<s, h>>, <<Client, h>>}
      OBVIOUS
    <3> QED BY <2>1, <3>2, <3>4, <3>5 DEF Share, ShareNonces, ShareKeys
  <2>2. CASE s # MinSigner
    BY <1>14, <1>19, <2>2 DEF Share, ShareNonces, ShareKeys, MulAdd
  <2> QED BY <2>1, <2>2
<1>21. GoodShare(s, tx, b, sig)'
  BY <1>12, <1>16, <1>18, <1>20 DEF GoodShare
<1> QED BY <1>17, <1>21

\* What broadcast_si returns goes to the servers or, of two players, out.
LEMMA SharesReturned ==
    ASSUME Strict, Before, SumsFull, SumsStored, PsigsGood, [Next]_vars,
           NEW s \in Servers, NEW tx \in Txs, BroadcastSi(s, tx)
    PROVE  \E out :
            /\ \A b \in Blocks : GoodShare(s, tx, b, out[b])'
            /\ TwoPlayers => msgs' = msgs /\ finals' = finals \cup {[tx |-> tx, by |-> s, sigs |-> out]}
            /\ ~TwoPlayers => /\ finals' = finals
                              /\ msgs' = msgs \cup {[type |-> "si", tx |-> tx, from |-> s, sigs |-> out]}
<1>1. PICK w \in Of("psig", tx) :
        LET sigs == BroadcastSiOut(srv[s], s, tx, w.sigs)
        IN  IF TwoPlayers
            THEN /\ finals' = finals \cup {[tx |-> tx, by |-> s, sigs |-> sigs]}
                 /\ msgs' = msgs
            ELSE /\ msgs' = msgs \cup {[type |-> "si", tx |-> tx, from |-> s, sigs |-> sigs]}
                 /\ finals' = finals
  BY DEF BroadcastSi
<1>2. PICK out : out = BroadcastSiOut(srv[s], s, tx, w.sigs)
  OBVIOUS
<1>3. \A b \in Blocks : GoodShare(s, tx, b, out[b])'
  <2> TAKE b \in Blocks
  <2>1. PICK sig : sig = out[b] /\ GoodShare(s, tx, b, sig)'
    BY <1>2, ShareOfBlock
  <2> QED BY <2>1
<1> QED BY <1>1, <1>2, <1>3

LEMMA SharesNext ==
    ASSUME Strict, Before, SumsFull, SumsStored, PsigsGood, SharesGood, [Next]_vars
    PROVE  SharesGood'
<1> SUFFICES ASSUME NEW m, m \in SiMsgs', NEW b \in Blocks PROVE GoodShare(m.from, m.tx, b, m.sigs[b])'
  BY DEF SharesGood
<1>1. CASE m \in SiMsgs
  <2>1. GoodShare(m.from, m.tx, b, m.sigs[b])
    BY <1>1 DEF SharesGood
  <2> QED BY <2>1, NothingLost DEF GoodShare, Signers, RsMsgs
<1>2. CASE m \notin SiMsgs
  <2>1. PICK s \in Servers, tx \in Txs : BroadcastSi(s, tx) /\ msgs' = msgs \cup {m}
    BY <1>2, ShareOrigin
  <2>2. m \notin msgs /\ m \in msgs'
    BY <1>2 DEF SiMsgs
  <2>3. PICK out : /\ \A c \in Blocks : GoodShare(s, tx, c, out[c])'
                   /\ m = [type |-> "si", tx |-> tx, from |-> s, sigs |-> out]
    BY <2>1, <2>2, SharesReturned
  <2>4. m.from = s /\ m.tx = tx /\ m.sigs = out
    BY <2>3
  <2> QED BY <2>3, <2>4
<1> QED BY <1>1, <1>2

-----------------------------------------------------------------------------
\* Signatures returned as final.

\* The signers of a point are one only.
LEMMA OneSetOfSigners ==
    ASSUME NEW R, NEW tx, NEW b, NEW n, NEW k, NEW m, NEW j,
           Signers(R, tx, b, n, k), Signers(R, tx, b, m, j)
    PROVE  j = k /\ \A p \in Servers : m[p] = n[p]
<1>1. DOMAIN R = {n[p] : p \in Servers} \cup {k} /\ DOMAIN R = {m[p] : p \in Servers} \cup {j}
  BY DEF Signers, SetToBag
<1>2. k[1] = Client /\ j[1] = Client /\ \A p \in Servers : n[p][1] = p /\ m[p][1] = p
  BY DEF Signers
<1>3. Client \notin Servers
  BY PlayersAssumption
<1>4. j = k
  BY <1>1, <1>2, <1>3
<1> QED BY <1>1, <1>2, <1>3

\* The shares of all servers with the same R add up to a signature that verifies.
LEMMA SharesVerify ==
    ASSUME NEW R, NEW tx, NEW b \in Blocks, NEW sigs, DOMAIN sigs = Servers,
           \A p \in Servers : sigs[p][b].R = R /\ GoodShare(p, tx, b, sigs[p][b])
    PROVE  GoodFinal(tx, b, [R |-> R, s |-> SumScalars([p \in Servers |-> sigs[p][b].s])])
<1> DEFINE h == Hram(R, Block(tx, b))
           scalars == [p \in Servers |-> sigs[p][b].s]
<1>1. \A p \in Servers : \E n, k : Signers(R, tx, b, n, k) /\ sigs[p][b].s = Share(p, n[p], k, h)
  BY DEF GoodShare
<1>2. PICK n, k : Signers(R, tx, b, n, k)
  BY <1>1, LeastServer
<1>3. \A p \in Servers : scalars[p] = Share(p, n[p], k, h)
  <2> TAKE p \in Servers
  <2>1. PICK m, j : Signers(R, tx, b, m, j) /\ sigs[p][b].s = Share(p, m[p], j, h)
    BY <1>1
  <2>2. j = k /\ m[p] = n[p]
    BY <1>2, <2>1, OneSetOfSigners
  <2> QED BY <2>1, <2>2
<1>4. k[1] = Client /\ (\A p \in Servers : n[p][1] = p) /\ R = SetToBag({n[p] : p \in Servers} \cup {k})
  BY <1>2 DEF Signers
<1>5. DOMAIN scalars = Servers
  OBVIOUS
<1> DEFINE sig == [R |-> R, s |-> SumScalars(scalars)]
<1>6. sig.R = R /\ sig.s = SumScalars(scalars)
  OBVIOUS
<1>7. GoodFinal(tx, b, sig)
  <2> HIDE DEF scalars, sig, h
  <2>1. SumScalars(scalars) = FullScalar(n, k, h)
    <3>1. AllShares(scalars, n, k, h)
      BY <1>3, <1>4, <1>5 DEF AllShares
    <3> QED BY <3>1, SumOfShares
  <2>2. h = Hram(sig.R, Block(tx, b))
    BY <1>6 DEF h
  <2>3. Ed25519Verify(Players, Block(tx, b), sig)
    BY <1>4, <1>6, <2>1, <2>2 DEF Ed25519Verify, FullScalar
  <2> QED BY <1>2, <1>6, <2>3 DEF GoodFinal
<1> QED BY <1>7

\* The share of the only server is a signature.
LEMMA OneShareVerifies ==
    ASSUME TwoPlayers, NEW s \in Servers, NEW tx, NEW b, NEW sig, NEW n, NEW k,
           sig.R = SetToBag({n[p] : p \in Servers} \cup {k}),
           sig.s = Share(s, n[s], k, Hram(sig.R, Block(tx, b)))
    PROVE  Ed25519Verify(Players, Block(tx, b), sig)
<1>1. Servers = {s} /\ s = MinSigner /\ Players = {s, Client}
  BY OneServerOfTwoPlayers, LeastServer DEF Players
<1> DEFINE h == Hram(sig.R, Block(tx, b))
<1>2. sig.s.nonces = SetToBag({n[s], k}) /\ sig.s.keys = SetToBag({<<s, h>>, <<Client, h>>})
  BY <1>1 DEF Share, ShareNonces, ShareKeys
<1>3. {n[p] : p \in Servers} \cup {k} = {n[s], k} /\ {<<p, h>> : p \in Players} = {<<s, h>>, <<Client, h>>}
  BY <1>1
<1> QED BY <1>2, <1>3 DEF Ed25519Verify

\* What a final signature is made of stays.
LEMMA GoodFinalStays ==
    ASSUME [Next]_vars, NEW tx, NEW b, NEW sig, GoodFinal(tx, b, sig)
    PROVE  GoodFinal(tx, b, sig)'
<1>1. PICK n, k : Signers(sig.R, tx, b, n, k)
  BY DEF GoodFinal
<1>2. Signers(sig.R, tx, b, n, k)'
  BY <1>1, NothingLost DEF Signers, RsMsgs
<1> QED BY <1>2 DEF GoodFinal

\* A signature becomes final with broadcast_si or get_eddsa_signature.
LEMMA FinalOrigin ==
    ASSUME [Next]_vars, finals' # finals
    PROVE  \E s \in Servers, tx \in Txs : BroadcastSi(s, tx) \/ GetSignature(s, tx)
  BY DEF Next, ServerStep, vars, StartPreprocessing, StorePresigning, ClientSign, ClientSignFails,
         SignOffline, DecommitR, BroadcastR, BroadcastSiFails, CancelSigning

LEMMA SumReturned ==
    ASSUME Before, SharesGood, [Next]_vars, NEW s \in Servers, NEW tx \in Txs, GetSignature(s, tx)
    PROVE  \E f : /\ finals' = finals \cup {f} /\ f.tx = tx
                  /\ \A b \in Blocks : GoodFinal(tx, b, f.sigs[b])
<1>1. PICK f \in Batches("si", tx) :
        LET sigs == [p \in Servers |-> f[p].sigs]
        IN  /\ GetSignatureOk(srv[s], tx, sigs)
            /\ finals' = finals \cup {[tx |-> tx, by |-> s, sigs |-> GetSignatureOut(srv[s], tx, sigs)]}
  BY DEF GetSignature
<1>2. \A p \in Servers : f[p] \in SiMsgs /\ f[p].from = p /\ f[p].tx = tx
  BY DEF Batches, Of, SiMsgs
<1>3. PICK sigs, out : sigs = [p \in Servers |-> f[p].sigs] /\ out = GetSignatureOut(srv[s], tx, sigs)
  OBVIOUS
<1>4. \A b \in Blocks : GoodFinal(tx, b, out[b])
  <2> TAKE b \in Blocks
  <2>1. PICK R, col : R = srv[s].data[tx].R[b] /\ col = [p \in Servers |-> sigs[p][b]]
    OBVIOUS
  <2>2. \A p \in Servers : col[p] = f[p].sigs[b] /\ col[p].R = R
    BY <1>1, <1>3, <2>1 DEF GetSignatureOk
  <2>3. \A p \in Servers : GoodShare(p, tx, b, col[p])
    BY <1>2, <2>2 DEF SharesGood
  <2>4. DOMAIN col = Servers
    BY <2>1
  <2>5. GoodFinal(tx, b, [R |-> R, s |-> SumScalars([p \in Servers |-> col[p].s])])
    <3>1. \A p \in Servers : col[p].R = R /\ GoodShare(p, tx, b, col[p])
      BY <2>2, <2>3
    <3> DEFINE rows == [p \in Servers |-> [c \in {b} |-> col[p]]]
    <3>2. \A p \in Servers : rows[p][b] = col[p]
      OBVIOUS
    <3>3. DOMAIN rows = Servers
      OBVIOUS
    <3>4. [p \in Servers |-> rows[p][b].s] = [p \in Servers |-> col[p].s]
      BY <3>2
    <3> HIDE DEF rows
    <3>5. \A p \in Servers : rows[p][b].R = R /\ GoodShare(p, tx, b, rows[p][b])
      BY <3>1, <3>2
    <3>6. GoodFinal(tx, b, [R |-> R, s |-> SumScalars([p \in Servers |-> rows[p][b].s])])
      BY <3>3, <3>5, SharesVerify
    <3> QED BY <3>4, <3>6
  <2>6. out[b] = [R |-> R, s |-> SumScalars([p \in Servers |-> col[p].s])]
    <3>1. [p \in Servers |-> sigs[p][b].s] = [p \in Servers |-> col[p].s]
      BY <2>1
    <3> QED BY <1>3, <2>1, <3>1 DEF GetSignatureOut
  <2> QED BY <2>5, <2>6
<1> DEFINE g == [tx |-> tx, by |-> s, sigs |-> out]
<1>5. finals' = finals \cup {g} /\ g.tx = tx /\ g.sigs = out
  BY <1>1, <1>3
<1> QED BY <1>4, <1>5

\* A step returns one signature at most.
LEMMA NewFinal ==
    ASSUME Strict, Before, SumsFull, SumsStored, PsigsGood, SharesGood, [Next]_vars, finals' # finals
    PROVE  \E f : /\ finals' = finals \cup {f} /\ f.tx \in Txs
                  /\ \A b \in Blocks : GoodFinal(f.tx, b, f.sigs[b])'
<1>1. PICK s \in Servers, tx \in Txs : BroadcastSi(s, tx) \/ GetSignature(s, tx)
  BY FinalOrigin
<1>2. CASE BroadcastSi(s, tx)
  <2>1. PICK out :
            /\ \A b \in Blocks : GoodShare(s, tx, b, out[b])'
            /\ TwoPlayers => finals' = finals \cup {[tx |-> tx, by |-> s, sigs |-> out]}
            /\ ~TwoPlayers => finals' = finals
    BY <1>2, SharesReturned
  <2>2. TwoPlayers
    BY <2>1
  <2> DEFINE f == [tx |-> tx, by |-> s, sigs |-> out]
  <2>3. \A b \in Blocks : GoodFinal(tx, b, out[b])'
    <3> TAKE b \in Blocks
    <3>1. PICK n, k : /\ Signers(out[b].R, tx, b, n, k)'
                      /\ out[b].s = Share(s, n[s], k, Hram(out[b].R, Block(tx, b)))
      BY <2>1 DEF GoodShare
    <3>2. out[b].R = SetToBag({n[p] : p \in Servers} \cup {k})
      BY <3>1 DEF Signers
    <3>3. Ed25519Verify(Players, Block(tx, b), out[b])
      BY <2>2, <3>1, <3>2, OneShareVerifies
    <3> QED BY <3>1, <3>3 DEF GoodFinal
  <2>4. finals' = finals \cup {f} /\ f.tx = tx /\ f.sigs = out
    BY <2>1, <2>2
  <2> QED BY <2>3, <2>4
<1>3. CASE GetSignature(s, tx)
  <2>1. PICK f : /\ finals' = finals \cup {f} /\ f.tx = tx
                 /\ \A b \in Blocks : GoodFinal(tx, b, f.sigs[b])
    BY <1>3, SumReturned
  <2>2. \A b \in Blocks : GoodFinal(tx, b, f.sigs[b])'
    BY <2>1, GoodFinalStays
  <2> QED BY <2>1, <2>2
<1> QED BY <1>1, <1>2, <1>3

LEMMA FinalsNext ==
    ASSUME Strict, Before, SumsFull, SumsStored, PsigsGood, SharesGood, FinalsGood, [Next]_vars
    PROVE  FinalsGood'
<1> SUFFICES ASSUME NEW f, f \in finals'
             PROVE  f.tx \in Txs /\ \A b \in Blocks : GoodFinal(f.tx, b, f.sigs[b])'
  BY DEF FinalsGood
<1>1. CASE f \in finals
  BY <1>1, GoodFinalStays DEF FinalsGood
<1>2. CASE f \notin finals
  <2>1. PICK g : /\ finals' = finals \cup {g} /\ g.tx \in Txs
                 /\ \A b \in Blocks : GoodFinal(g.tx, b, g.sigs[b])'
    BY <1>2, NewFinal
  <2>2. f = g
    BY <1>2, <2>1
  <2> QED BY <2>1, <2>2
<1> QED BY <1>1, <1>2

-----------------------------------------------------------------------------
\* The ideal signer.

\* Signatures of two transactions have no nonce in common.
FinalsApart ==
    \A f, g \in finals : f.tx # g.tx =>
        \A b, c \in Blocks : DOMAIN f.sigs[b].R \cap DOMAIN g.sigs[c].R = {}

LEMMA SignaturesApart ==
    ASSUME FinalsGood, OneSumPerNonce, ClientNonceOnce
    PROVE  FinalsApart
<1> SUFFICES ASSUME NEW f \in finals, NEW g \in finals, NEW b \in Blocks, NEW c \in Blocks,
                    NEW x, x \in DOMAIN f.sigs[b].R, x \in DOMAIN g.sigs[c].R
             PROVE  f.tx = g.tx
  BY DEF FinalsApart
<1>1. PICK n, k : Signers(f.sigs[b].R, f.tx, b, n, k)
  BY DEF FinalsGood, GoodFinal
<1>2. PICK m, j : Signers(g.sigs[c].R, g.tx, c, m, j)
  BY DEF FinalsGood, GoodFinal
<1>3. (x = k \/ \E p \in Servers : x = n[p]) /\ (x = j \/ \E p \in Servers : x = m[p])
  BY <1>1, <1>2 DEF Signers, SetToBag
<1>4. Client \notin Servers
  BY PlayersAssumption
<1>5. CASE x = k
  <2>1. x = j
    BY <1>1, <1>2, <1>3, <1>4, <1>5 DEF Signers
  <2> DEFINE u == <<Client, k, Hram(f.sigs[b].R, Block(f.tx, b))>>
             v == <<Client, j, Hram(g.sigs[c].R, Block(g.tx, c))>>
  <2>2. u \in uses /\ v \in uses
    BY <1>1, <1>2 DEF Signers
  <2>3. u[1] = Client /\ u[2] = v[2]
    BY <1>5, <2>1
  <2>4. u = v
    <3> HIDE DEF u, v
    <3> QED BY <2>2, <2>3 DEF ClientNonceOnce
  <2>5. Hram(f.sigs[b].R, Block(f.tx, b)) = Hram(g.sigs[c].R, Block(g.tx, c))
    BY <2>4
  <2> QED BY <2>5 DEF Hram, Block
<1>6. CASE x # k
  <2>1. PICK p \in Servers : x = n[p] /\ x = m[p] /\ x[1] = p
    BY <1>1, <1>2, <1>3, <1>4, <1>6 DEF Signers
  <2>2. PICK y \in RsMsgs : y.from = p /\ y.tx = f.tx /\ x \in DOMAIN y.rs.Rs[b]
    BY <1>1, <2>1 DEF Signers
  <2>3. PICK z \in RsMsgs : z.from = p /\ z.tx = g.tx /\ x \in DOMAIN z.rs.Rs[c]
    BY <1>2, <2>1 DEF Signers
  <2>4. y = z
    BY <2>1, <2>2, <2>3 DEF OneSumPerNonce, RsMsgs
  <2> QED BY <2>2, <2>3, <2>4
<1> QED BY <1>5, <1>6

\* The inductive invariant, and with it what follows from it.
Inductively ==
    /\ Before /\ FinalsFromShares /\ ClientUnspent /\ ClientNonceOnce
    /\ SumsFull /\ PlainUntilSummed /\ SumsStored /\ PsigsGood /\ SharesGood /\ FinalsGood

IdealInv == Inductively /\ FinalsAgree /\ FinalsApart

LEMMA IdealInit == Init => Inductively
<1> SUFFICES ASSUME Init PROVE Inductively
  OBVIOUS
<1>1. /\ SumsFull /\ PlainUntilSummed /\ SumsStored /\ PsigsGood
      /\ SharesGood /\ FinalsGood
  BY DEF Init, SumsFull, PlainUntilSummed, SumsStored, PsigsGood, SharesGood, FinalsGood,
         RsMsgs, SiMsgs, Psigs, EmptyServer, EmptyMap
<1> QED BY <1>1, TypedInit, NoncesDrawnInit, SumInit, AnsweredInit, ClientUnspentInit DEF Inductively, Before

LEMMA IdealInvNext ==
    ASSUME Strict, ~Cancels, Inductively, [Next]_vars
    PROVE  Inductively'
<1>1. Before' /\ FinalsFromShares'
  BY TypedNext, NoncesDrawnNext, SumNext, AnsweredNext DEF Inductively, Before
<1>2. ClientUnspent' /\ ClientNonceOnce'
  BY ClientUnspentNext DEF Inductively, Before
<1>3. SumsFull' /\ PlainUntilSummed' /\ SumsStored'
  BY SumsFullNext, PlainNext, SumsStoredNext DEF Inductively
<1>4. PsigsGood' /\ SharesGood' /\ FinalsGood'
  BY PsigsNext, SharesNext, FinalsNext DEF Inductively
<1> QED BY <1>1, <1>2, <1>3, <1>4 DEF Inductively

LEMMA SameVerify ==
    /\ \A sigs : Ideal!NoncesIn(sigs) = UNION {DOMAIN sigs[b].R : b \in Blocks}
    /\ \A block, sig : Ideal!Ed25519Verify(Players, block, sig) <=> Ed25519Verify(Players, block, sig)
  BY DEF Ideal!NoncesIn, Ideal!Ed25519Verify, Ed25519Verify, Ideal!SetToBag, SetToBag, Ideal!Hram, Hram

\* A step that returns a signature signs, or returns one that was signed before.
LEMMA StepSigns ==
    ASSUME Strict, IdealInv, IdealInv', [Next]_vars
    PROVE  [Ideal!Next]_({<<f.tx, f.sigs>> : f \in finals})
<1> DEFINE signed == {<<f.tx, f.sigs>> : f \in finals}
           then == {<<f.tx, f.sigs>> : f \in finals'}
<1>1. CASE finals' = finals
  BY <1>1
<1>2. CASE finals' # finals
  <2>1. PICK f : finals' = finals \cup {f} /\ f.tx \in Txs
    BY <1>2, NewFinal DEF IdealInv, Inductively
  <2>2. CASE \E g \in finals : g.tx = f.tx
    <3>1. PICK g \in finals : g.tx = f.tx
      BY <2>2
    <3>2. g.sigs = f.sigs
      BY <2>1, <3>1 DEF IdealInv, FinalsAgree
    <3>3. then = signed
      BY <2>1, <3>1, <3>2
    <3> QED BY <3>3
  <2>3. CASE \A g \in finals : g.tx # f.tx
    <3> DEFINE e == <<f.tx, f.sigs>>
    <3>1. \A d \in signed : d[1] # f.tx
      BY <2>3
    <3>2. e \in then /\ e[1] = f.tx /\ e[2] = f.sigs /\ then = signed \cup {e}
      BY <2>1
    <3>3. \A b \in Blocks : Ideal!Ed25519Verify(Players, <<f.tx, b>>, f.sigs[b])
      <4> TAKE b \in Blocks
      <4>1. GoodFinal(f.tx, b, f.sigs[b])'
        BY <2>1 DEF IdealInv, Inductively, FinalsGood
      <4>2. Ed25519Verify(Players, Block(f.tx, b), f.sigs[b])
        BY <4>1 DEF GoodFinal
      <4> QED BY <4>2, SameVerify DEF Block
    <3>4. \A d \in signed : Ideal!NoncesIn(f.sigs) \cap Ideal!NoncesIn(d[2]) = {}
      <4> TAKE d \in signed
      <4>1. PICK g \in finals : d = <<g.tx, g.sigs>>
        OBVIOUS
      <4>2. \A b, c \in Blocks : DOMAIN f.sigs[b].R \cap DOMAIN g.sigs[c].R = {}
        BY <2>1, <2>3 DEF IdealInv, FinalsApart
      <4>3. d[2] = g.sigs
        BY <4>1
      <4> QED BY <4>2, <4>3, SameVerify
    <3> HIDE DEF e, signed, then
    <3>5. /\ \A d \in signed : d[1] # f.tx
          /\ \E y \in then :
                /\ y[1] = f.tx
                /\ then = signed \cup {y}
                /\ \A b \in Blocks : Ideal!Ed25519Verify(Players, <<f.tx, b>>, y[2][b])
                /\ \A old \in signed : Ideal!NoncesIn(y[2]) \cap Ideal!NoncesIn(old[2]) = {}
      BY <3>1, <3>2, <3>3, <3>4
    <3>6. Ideal!Sign(f.tx)
      BY <3>5 DEF Ideal!Sign, signed, then
    <3> QED BY <2>1, <3>6 DEF Ideal!Next
  <2> QED BY <2>2, <2>3
<1> QED BY <1>1, <1>2

\* Under the persistency contract, and as long as no transaction is cancelled,
\* whatever order callers choose and whatever messages they repeat, each
\* transaction gets one signature, which verifies, on nonces of its own: the
\* services of the client and of any number of servers implement the ideal signer.
THEOREM SignerImplemented ==
    ASSUME Strict, ~Cancels
    PROVE  Spec => ImplementsIdealSigner
<1> DEFINE Stepwise == [Ideal!Next]_({<<f.tx, f.sigs>> : f \in finals})
<1>1. Spec => []Inductively
  BY IdealInit, IdealInvNext, PTL DEF Spec
<1>2. Inductively => FinalsApart
  BY SignaturesApart DEF Inductively, Before, SumInv
<1>3. Spec => []IdealInv
  BY <1>1, <1>2, OneResult, PTL DEF IdealInv
<1>4. IdealInv /\ IdealInv' /\ [Next]_vars => Stepwise
  BY StepSigns
<1>5. Init => Ideal!Init
  BY DEF Init, Ideal!Init
<1> QED BY <1>3, <1>4, <1>5, PTL DEF Spec, ImplementsIdealSigner, Ideal!Spec
=============================================================================
