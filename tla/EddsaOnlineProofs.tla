-------------------------- MODULE EddsaOnlineProofs --------------------------
(***************************************************************************)
(* Theorems about EddsaOnline, for any signers, transactions and blocks:   *)
(* a nonce answers one challenge over either kind of persistency, what a   *)
(* signer adds its R to is settled before it reveals R when the            *)
(* persistency refuses to overwrite, the timing map holds live             *)
(* transactions only, and signatures that share a nonce are the same.      *)
(***************************************************************************)
EXTENDS EddsaOnline, TLAPS

-----------------------------------------------------------------------------
\* The inductive invariant.

\* The nonces a player has drawn, and any point made of one nonce of a player.
Nonce(p) == {p} \X (1 .. drawn[p])
OwnPoint(p, R) == \E i \in Nat : R = GeneratorMul(<<p, i>>)

\* Nonces in signing data, uses and revealed were drawn, so the next is new.
NoncesDrawn ==
    /\ drawn \in [Players -> Nat]
    /\ DOMAIN data = Players /\ DOMAIN comm = Players /\ DOMAIN timing = Players
    /\ \A p \in Players : \A tx \in DOMAIN data[p] : data[p][tx].k \in [Blocks -> Nonce(p)]
    /\ \A u \in uses : \E p \in Players : u[1] \in Nonce(p)
    /\ \A r \in revealed : \E p \in Players : \A b \in Blocks : r[1][b] \in Nonce(p)

\* Signing data share no nonce.
NoncesApart ==
    \A p \in Players : \A t1, t2 \in DOMAIN data[p] : \A b, c \in Blocks :
        data[p][t1].k[b] = data[p][t2].k[c] => t1 = t2 /\ b = c

\* What is committed to and revealed are points of one nonce of the sender,
\* never a sum: store_commitments answers with R only when R opens an own
\* commitment.
MessagesOwnPoints ==
    \A m \in msgs :
        /\ m.type = "commit" =>
            \A b \in Blocks : \E R : m.body[b] = Commitment(R) /\ OwnPoint(m.from, R)
        /\ m.type = "R" => \A b \in Blocks : OwnPoint(m.from, m.body[b])

\* A live nonce that was used was used with the Rs that open the commitments
\* still stored, and their sum is stored as R.
UsedAsStored ==
    \A p \in Players : \A tx \in DOMAIN data[p] : \A b \in Blocks, u \in uses :
        u[1] = data[p][tx].k[b] =>
            /\ tx \in DOMAIN comm[p]
            /\ DOMAIN u[3] = Players
            /\ u[2] = Hram(AddR(u[3], b), Block(tx, b))
            /\ \A c \in Blocks :
                /\ data[p][tx].R[c] = AddR(u[3], c)
                /\ \A q \in Players :
                    /\ OwnPoint(q, u[3][q][c])
                    /\ comm[p][tx][q][c] = Commitment(u[3][q][c])

\* While the signing data of a revealed R live, the commitments stay those that
\* were stored when it was revealed.
RevealedAsStored ==
    strict => \A p \in Players : \A tx \in DOMAIN data[p] : \A r \in revealed :
        (\E b, c \in Blocks : r[1][b] = data[p][tx].k[c]) =>
            tx \in DOMAIN comm[p] /\ comm[p][tx] = r[2]

IInv ==
    /\ NoncesDrawn /\ NoncesApart
    /\ MessagesOwnPoints
    /\ UsedAsStored /\ NonceOnce
    /\ RevealedAsStored /\ AddendsSettled

-----------------------------------------------------------------------------
\* Points, commitments and batches.

LEMMA PointOfNonce ==
    ASSUME NEW k
    PROVE  DOMAIN GeneratorMul(k) = {k}
  BY DEF GeneratorMul, SetToBag

LEMMA GeneratorMulInjective ==
    ASSUME NEW k, NEW l, GeneratorMul(k) = GeneratorMul(l)
    PROVE  k = l
  BY PointOfNonce

\* A commitment binds: it is the commitment of one point only.
LEMMA CommitmentBinds ==
    ASSUME NEW R, NEW S, Commitment(R) = Commitment(S)
    PROVE  R = S
  BY DEF Commitment

\* Every nonce of an addend is in the sum.
LEMMA SumHasAddends ==
    ASSUME NEW Rs, DOMAIN Rs = Players, NEW b, NEW q \in Players
    PROVE  DOMAIN Rs[q][b] \subseteq DOMAIN AddR(Rs, b)
<1> DEFINE points == [p \in DOMAIN Rs |-> Rs[p][b]]
<1>1. DOMAIN AddR(Rs, b) = UNION {DOMAIN points[p] : p \in DOMAIN points}
  BY DEF AddR, AddAll
<1>2. q \in DOMAIN points /\ points[q] = Rs[q][b]
  OBVIOUS
<1> QED BY <1>1, <1>2

\* A sum that is the point of one nonce has one addend: there is one signer.
LEMMA SumOfOneNonce ==
    ASSUME NEW Rs, DOMAIN Rs = Players, NEW b, NEW k,
           \A q \in Players : OwnPoint(q, Rs[q][b]),
           AddR(Rs, b) = GeneratorMul(k), NEW p \in Players
    PROVE  Players = {p} /\ Rs[p][b] = AddR(Rs, b)
<1>1. \A q \in Players : \E i \in Nat : Rs[q][b] = GeneratorMul(<<q, i>>) /\ <<q, i>> = k
  <2> SUFFICES ASSUME NEW q \in Players
               PROVE  \E i \in Nat : Rs[q][b] = GeneratorMul(<<q, i>>) /\ <<q, i>> = k
    OBVIOUS
  <2>1. PICK i \in Nat : Rs[q][b] = GeneratorMul(<<q, i>>)
    BY DEF OwnPoint
  <2>2. <<q, i>> \in DOMAIN AddR(Rs, b)
    BY <2>1, SumHasAddends, PointOfNonce
  <2>3. <<q, i>> = k
    BY <2>2, PointOfNonce
  <2> QED BY <2>1, <2>3
<1>2. \A q \in Players : q = k[1]
  <2> SUFFICES ASSUME NEW q \in Players PROVE q = k[1]
    OBVIOUS
  <2>1. PICK i \in Nat : k = <<q, i>>
    BY <1>1
  <2> QED BY <2>1
<1>3. Rs[p][b] = GeneratorMul(k)
  BY <1>1
<1> QED BY <1>2, <1>3

\* The sum is determined by its addends.
LEMMA SumOfSameAddends ==
    ASSUME NEW Rs, DOMAIN Rs = Players, NEW Ss, DOMAIN Ss = Players, NEW b,
           \A q \in Players : Rs[q][b] = Ss[q][b]
    PROVE  AddR(Rs, b) = AddR(Ss, b)
<1>1. [p \in DOMAIN Rs |-> Rs[p][b]] = [p \in DOMAIN Ss |-> Ss[p][b]]
  OBVIOUS
<1> QED BY <1>1 DEF AddR

\* What a handler is given as the message of a player is one that player sent.
LEMMA BatchFromMessages ==
    ASSUME NEW type, NEW tx, NEW batch \in Batches(type, tx)
    PROVE  /\ DOMAIN batch = Players
           /\ \A q \in Players : \E m \in msgs :
                m.type = type /\ m.tx = tx /\ m.from = q /\ batch[q] = m.body
<1>1. PICK f \in {g \in [Players -> Of(type, tx)] : \A p \in Players : g[p].from = p} :
        batch = [p \in Players |-> f[p].body]
  BY DEF Batches
<1>2. \A q \in Players : f[q] \in Of(type, tx) /\ f[q].from = q /\ batch[q] = f[q].body
  BY <1>1
<1> QED BY <1>1, <1>2 DEF Of

-----------------------------------------------------------------------------
\* The invariant holds initially, and every action preserves it.

LEMMA OnlineInit == Init => IInv
  BY DEF Init, IInv, NoncesDrawn, NoncesApart, MessagesOwnPoints, UsedAsStored,
         NonceOnce, RevealedAsStored, AddendsSettled, EmptyMap

\* New signing data hold new nonces: no use and no reveal is theirs.
LEMMA StartSigningStep ==
    ASSUME IInv, NEW p \in Players, NEW tx \in Txs, StartSigning(p, tx)
    PROVE  IInv'
<1> DEFINE k == DrawPerBlock(p)
           R == [b \in Blocks |-> GeneratorMul(k[b])]
           entry == [k |-> k, R |-> R, s |-> [b \in Blocks |-> NoShare]]
<1> USE DEF IInv
<1>1. /\ data' = [data EXCEPT ![p] = Put(@, tx, entry)]
      /\ msgs' = msgs \cup {[type |-> "commit", tx |-> tx, from |-> p,
                             body |-> [b \in Blocks |-> Commitment(R[b])]]}
      /\ drawn' = [drawn EXCEPT ![p] = @ + NBlocks]
      /\ UNCHANGED <<strict, comm, timing, revealed, uses>>
  BY DEF StartSigning, Return
<1>2. drawn[p] \in Nat /\ NBlocks \in Nat \ {0}
  BY OnlineAssumption DEF NoncesDrawn
<1>3. /\ drawn' \in [Players -> Nat] /\ drawn'[p] = drawn[p] + NBlocks
      /\ \A q \in Players : q # p => drawn'[q] = drawn[q]
  BY <1>1, <1>2 DEF NoncesDrawn
<1>4. \A q \in Players : Nonce(q) \subseteq Nonce(q)'
  BY <1>2, <1>3 DEF Nonce, NoncesDrawn
<1>5. \A b \in Blocks : k[b] = <<p, drawn[p] + b>> /\ b \in 1 .. NBlocks
  BY DEF DrawPerBlock, Blocks
<1>6. /\ k \in [Blocks -> Nonce(p)']
      /\ \A b \in Blocks, q \in Players : k[b] \notin Nonce(q)
      /\ \A b, c \in Blocks : k[b] = k[c] => b = c
  <2>1. DOMAIN k = Blocks /\ k = [b \in Blocks |-> k[b]]
    BY DEF DrawPerBlock
  <2>2. \A b \in Blocks : k[b] \in Nonce(p)'
    BY <1>2, <1>3, <1>5 DEF Nonce
  <2> QED BY <2>1, <2>2, <1>2, <1>5 DEF Nonce
<1>7. entry.k = k
  OBVIOUS
<1>8. \A b \in Blocks : OwnPoint(p, R[b])
  <2> SUFFICES ASSUME NEW b \in Blocks PROVE OwnPoint(p, R[b])
    OBVIOUS
  <2>1. R[b] = GeneratorMul(<<p, drawn[p] + b>>) /\ drawn[p] + b \in Nat
    BY <1>2, <1>5
  <2> QED BY <2>1 DEF OwnPoint
<1> HIDE DEF k, R, entry
<1>9. /\ DOMAIN data' = Players
      /\ DOMAIN data'[p] = DOMAIN data[p] \cup {tx}
      /\ data'[p][tx] = entry
      /\ \A t \in DOMAIN data[p] : t # tx => data'[p][t] = data[p][t]
      /\ \A q \in Players : q # p => data'[q] = data[q]
  BY <1>1 DEF Put, NoncesDrawn
<1>10. NoncesDrawn'
  <2>1. \A q \in Players : \A t \in DOMAIN data'[q] : data'[q][t].k \in [Blocks -> Nonce(q)']
    BY <1>4, <1>6, <1>7, <1>9 DEF NoncesDrawn
  <2>2. \A u \in uses' : \E q \in Players : u[1] \in Nonce(q)'
    BY <1>1, <1>4 DEF NoncesDrawn
  <2>3. \A r \in revealed' : \E q \in Players : \A b \in Blocks : r[1][b] \in Nonce(q)'
    BY <1>1, <1>4 DEF NoncesDrawn
  <2>4. DOMAIN data' = Players /\ DOMAIN comm' = Players /\ DOMAIN timing' = Players
    BY <1>1, <1>9 DEF NoncesDrawn
  <2> QED BY <1>3, <2>1, <2>2, <2>3, <2>4 DEF NoncesDrawn
<1>11. NoncesApart'
  BY <1>6, <1>7, <1>9 DEF NoncesApart, NoncesDrawn
<1>12. MessagesOwnPoints'
  BY <1>1, <1>8 DEF MessagesOwnPoints
<1>13. UsedAsStored'
  <2> SUFFICES ASSUME NEW q \in Players, NEW t \in DOMAIN data'[q],
                      NEW b \in Blocks, NEW u \in uses, u[1] = data'[q][t].k[b]
               PROVE  q # p \/ t # tx
    BY <1>1, <1>9 DEF UsedAsStored
  <2> QED BY <1>6, <1>7, <1>9 DEF NoncesDrawn
<1>14. RevealedAsStored'
  <2> SUFFICES ASSUME strict, NEW q \in Players, NEW t \in DOMAIN data'[q], NEW r \in revealed,
                      NEW b \in Blocks, NEW c \in Blocks, r[1][b] = data'[q][t].k[c]
               PROVE  q # p \/ t # tx
    BY <1>1, <1>9 DEF RevealedAsStored
  <2> QED BY <1>6, <1>7, <1>9 DEF NoncesDrawn
<1>15. NonceOnce' /\ AddendsSettled'
  BY <1>1 DEF NonceOnce, AddendsSettled
<1> QED BY <1>10, <1>11, <1>12, <1>13, <1>14, <1>15

\* The new commitments open the stored R.  If a nonce of these data was used,
\* that R is a sum, so there is only one signer and the sum is its own R; under
\* strict no nonce was used or revealed, for nothing was stored yet.
LEMMA StoreCommitmentsStep ==
    ASSUME IInv, NEW p \in Players, NEW tx \in Txs, StoreCommitments(p, tx)
    PROVE  IInv'
<1> USE DEF IInv
<1>1. PICK commitments \in Batches("commit", tx) :
        /\ OwnCommitmentOk(p, tx, commitments)
        /\ strict => tx \notin DOMAIN comm[p]
        /\ comm' = [comm EXCEPT ![p] = Put(@, tx, commitments)]
        /\ revealed' = revealed \cup {r \in {<<data[p][tx].k, commitments>>} : strict}
  BY DEF StoreCommitments
<1>2. /\ tx \in DOMAIN data[p]
      /\ timing' = [timing EXCEPT ![p] = @ \cup {tx}]
      /\ msgs' = msgs \cup {[type |-> "R", tx |-> tx, from |-> p, body |-> data[p][tx].R]}
      /\ UNCHANGED <<strict, data, drawn, uses>>
  BY DEF StoreCommitments, TimingInsert, Return
<1>3. \A b \in Blocks : commitments[p][b] = Commitment(data[p][tx].R[b])
  BY <1>1 DEF OwnCommitmentOk
<1>4. \A b \in Blocks : OwnPoint(p, data[p][tx].R[b])
  <2> SUFFICES ASSUME NEW b \in Blocks PROVE OwnPoint(p, data[p][tx].R[b])
    OBVIOUS
  <2>1. PICK m \in msgs : m.type = "commit" /\ m.from = p /\ commitments[p] = m.body
    BY BatchFromMessages
  <2>2. PICK R : m.body[b] = Commitment(R) /\ OwnPoint(p, R)
    BY <2>1 DEF MessagesOwnPoints
  <2> QED BY <1>3, <2>1, <2>2, CommitmentBinds
<1>5. /\ DOMAIN comm' = Players
      /\ DOMAIN comm'[p] = DOMAIN comm[p] \cup {tx}
      /\ comm'[p][tx] = commitments
      /\ \A t \in DOMAIN comm[p] : t # tx => comm'[p][t] = comm[p][t]
      /\ \A q \in Players : q # p => comm'[q] = comm[q]
  BY <1>1 DEF Put, NoncesDrawn
<1>6. NoncesDrawn'
  <2>1. \A q \in Players : Nonce(q)' = Nonce(q)
    BY <1>2 DEF Nonce
  <2>2. \A r \in revealed' : \E q \in Players : \A b \in Blocks : r[1][b] \in Nonce(q)
    BY <1>1, <1>2 DEF NoncesDrawn
  <2>3. DOMAIN timing' = Players
    BY <1>2 DEF NoncesDrawn
  <2> QED BY <1>2, <1>5, <2>1, <2>2, <2>3 DEF NoncesDrawn
<1>7. NoncesApart' /\ NonceOnce'
  BY <1>2 DEF NoncesApart, NonceOnce
<1>8. MessagesOwnPoints'
  BY <1>2, <1>4 DEF MessagesOwnPoints
<1>9. UsedAsStored'
  <2> SUFFICES ASSUME NEW q \in Players, NEW t \in DOMAIN data[q], NEW b \in Blocks,
                      NEW u \in uses, u[1] = data[q][t].k[b]
               PROVE  /\ t \in DOMAIN comm'[q]
                      /\ DOMAIN u[3] = Players
                      /\ u[2] = Hram(AddR(u[3], b), Block(t, b))
                      /\ \A c \in Blocks :
                            /\ data[q][t].R[c] = AddR(u[3], c)
                            /\ \A r \in Players :
                                /\ OwnPoint(r, u[3][r][c])
                                /\ comm'[q][t][r][c] = Commitment(u[3][r][c])
    BY <1>2 DEF UsedAsStored
  <2> SUFFICES ASSUME q = p, t = tx, NEW c \in Blocks, NEW r \in Players
               PROVE  comm'[p][tx][r][c] = Commitment(u[3][r][c])
    BY <1>2, <1>5 DEF UsedAsStored
  <2>1. /\ DOMAIN u[3] = Players /\ data[p][tx].R[c] = AddR(u[3], c)
        /\ \A x \in Players : OwnPoint(x, u[3][x][c])
    BY <1>2 DEF UsedAsStored
  <2>2. PICK i \in Nat : AddR(u[3], c) = GeneratorMul(<<p, i>>)
    BY <1>4, <2>1 DEF OwnPoint
  <2>3. r = p /\ u[3][p][c] = AddR(u[3], c)
    BY <2>1, <2>2, SumOfOneNonce
  <2> QED BY <1>3, <1>5, <2>1, <2>3
<1>10. ASSUME strict PROVE \A b \in Blocks :
            /\ \A u \in uses : u[1] # data[p][tx].k[b]
            /\ \A r \in revealed, c \in Blocks : r[1][c] # data[p][tx].k[b]
  BY <1>1, <1>2, <1>10 DEF UsedAsStored, RevealedAsStored
<1>11. RevealedAsStored'
  <2> SUFFICES ASSUME strict, NEW q \in Players, NEW t \in DOMAIN data[q], NEW r \in revealed',
                      NEW b \in Blocks, NEW c \in Blocks, r[1][b] = data[q][t].k[c]
               PROVE  t \in DOMAIN comm'[q] /\ comm'[q][t] = r[2]
    BY <1>2 DEF RevealedAsStored
  <2>1. CASE r \in revealed
    <3>1. q # p \/ t # tx
      BY <1>10, <2>1
    <3>2. t \in DOMAIN comm[q] /\ comm[q][t] = r[2]
      BY <2>1 DEF RevealedAsStored
    <3> QED BY <1>5, <3>1, <3>2
  <2>2. CASE r = <<data[p][tx].k, commitments>>
    <3>1. data[p][tx].k[b] = data[q][t].k[c]
      BY <2>2
    <3>2. q = p
      <4>1. data[p][tx].k[b] \in Nonce(p) /\ data[q][t].k[c] \in Nonce(q)
        BY <1>2 DEF NoncesDrawn
      <4> QED BY <3>1, <4>1 DEF Nonce
    <3>3. t = tx
      BY <1>2, <3>1, <3>2 DEF NoncesApart
    <3> QED BY <1>5, <2>2, <3>2, <3>3
  <2> QED BY <1>1, <2>1, <2>2
<1>12. AddendsSettled'
  <2> SUFFICES ASSUME strict, NEW r \in revealed', NEW u \in uses,
                      NEW c \in Blocks, r[1][c] = u[1]
               PROVE  \A q \in Players, b \in Blocks : r[2][q][b] = Commitment(u[3][q][b])
    BY <1>2 DEF AddendsSettled
  <2>1. r \in revealed
    BY <1>1, <1>10
  <2> QED BY <2>1 DEF AddendsSettled
<1> QED BY <1>6, <1>7, <1>8, <1>9, <1>11, <1>12

LEMMA StoreCommitmentsFailsStep ==
    ASSUME IInv, NEW p \in Players, NEW tx \in Txs, StoreCommitmentsFails(p, tx)
    PROVE  IInv'
<1>1. /\ timing' = [timing EXCEPT ![p] = @ \cup {tx}]
      /\ UNCHANGED <<strict, data, comm, drawn, msgs, revealed, uses>>
  BY DEF StoreCommitmentsFails, TimingInsert
<1> QED
  BY <1>1 DEF IInv, NoncesDrawn, Nonce, NoncesApart, MessagesOwnPoints, UsedAsStored,
              NonceOnce, RevealedAsStored, AddendsSettled

\* The Rs a call of broadcast_si was given, and what it made of them.
LEMMA BroadcastSiEffect ==
    ASSUME NEW p, NEW tx, BroadcastSi(p, tx)
    PROVE  \E Rs \in Batches("R", tx) :
            /\ DecommitmentsOk(p, tx, Rs)
            /\ data' = [data EXCEPT ![p] = Put(@, tx, Signed(p, data[p][tx], tx, Rs))]
            /\ Return(p, tx, "s", Signed(p, data[p][tx], tx, Rs).s)
            /\ uses' = uses \cup
                {<<data[p][tx].k[b], Hram(AddR(Rs, b), Block(tx, b)), Rs>> : b \in Blocks}
<1>1. \A Rs : Signed(p, data[p][tx], tx, Rs).k = data[p][tx].k
  BY DEF Signed
<1> QED BY <1>1 DEF BroadcastSi, Signed

\* A nonce that was used before was used with the Rs that open the stored
\* commitments; so do the Rs of this call: they are the same.
LEMMA BroadcastSiStep ==
    ASSUME IInv, NEW p \in Players, NEW tx \in Txs, BroadcastSi(p, tx)
    PROVE  IInv'
<1> USE DEF IInv
<1>1. PICK Rs \in Batches("R", tx) :
        /\ DecommitmentsOk(p, tx, Rs)
        /\ data' = [data EXCEPT ![p] = Put(@, tx, Signed(p, data[p][tx], tx, Rs))]
        /\ Return(p, tx, "s", Signed(p, data[p][tx], tx, Rs).s)
        /\ uses' = uses \cup
            {<<data[p][tx].k[b], Hram(AddR(Rs, b), Block(tx, b)), Rs>> : b \in Blocks}
  BY BroadcastSiEffect
<1> DEFINE d == Signed(p, data[p][tx], tx, Rs)
<1>2. /\ tx \in DOMAIN data[p] /\ tx \in DOMAIN comm[p]
      /\ UNCHANGED <<strict, comm, timing, drawn, revealed>>
  BY DEF BroadcastSi
<1>3. d.k = data[p][tx].k /\ \A b \in Blocks : d.R[b] = AddR(Rs, b)
  BY DEF Signed
<1>4. \A q \in Players, b \in Blocks : comm[p][tx][q][b] = Commitment(Rs[q][b])
  BY <1>1 DEF DecommitmentsOk
<1>5. DOMAIN Rs = Players /\ \A q \in Players, b \in Blocks : OwnPoint(q, Rs[q][b])
  <2>1. \A q \in Players : \E m \in msgs : m.type = "R" /\ m.from = q /\ Rs[q] = m.body
    BY BatchFromMessages
  <2> QED BY <2>1, BatchFromMessages DEF MessagesOwnPoints
<1> HIDE DEF d
<1>6. /\ DOMAIN data' = Players
      /\ DOMAIN data'[p] = DOMAIN data[p]
      /\ data'[p][tx] = d
      /\ \A t \in DOMAIN data[p] : t # tx => data'[p][t] = data[p][t]
      /\ \A q \in Players : q # p => data'[q] = data[q]
  BY <1>1, <1>2 DEF Put, NoncesDrawn, d
<1>7. \A q \in Players : DOMAIN data'[q] = DOMAIN data[q]
                         /\ \A t \in DOMAIN data[q] : data'[q][t].k = data[q][t].k
  BY <1>2, <1>3, <1>6
\* The uses of the live nonces of this transaction all have these Rs.
<1>8. ASSUME NEW u \in uses', NEW b \in Blocks, u[1] = data[p][tx].k[b]
      PROVE  /\ DOMAIN u[3] = Players
             /\ u[2] = Hram(AddR(u[3], b), Block(tx, b))
             /\ \A q \in Players, c \in Blocks : u[3][q][c] = Rs[q][c]
  <2>1. CASE u \in uses
    <3>1. /\ DOMAIN u[3] = Players
          /\ u[2] = Hram(AddR(u[3], b), Block(tx, b))
          /\ \A q \in Players, c \in Blocks : comm[p][tx][q][c] = Commitment(u[3][q][c])
      BY <1>2, <1>8, <2>1 DEF UsedAsStored
    <3>2. \A q \in Players, c \in Blocks : u[3][q][c] = Rs[q][c]
      BY <1>4, <3>1, CommitmentBinds
    <3> QED BY <3>1, <3>2
  <2>2. ASSUME NEW c \in Blocks,
               u = <<data[p][tx].k[c], Hram(AddR(Rs, c), Block(tx, c)), Rs>>
        PROVE  u[2] = Hram(AddR(u[3], b), Block(tx, b)) /\ u[3] = Rs
    <3>1. c = b
      BY <1>2, <1>8, <2>2 DEF NoncesApart
    <3> QED BY <2>2, <3>1
  <2> QED BY <1>1, <1>5, <2>1, <2>2
<1>9. NoncesDrawn'
  <2>1. \A q \in Players : Nonce(q)' = Nonce(q)
    BY <1>2 DEF Nonce
  <2>2. \A u \in uses' : \E q \in Players : u[1] \in Nonce(q)
    BY <1>1, <1>2 DEF NoncesDrawn
  <2>3. \A q \in Players : \A t \in DOMAIN data'[q] : data'[q][t].k \in [Blocks -> Nonce(q)]
    BY <1>7 DEF NoncesDrawn
  <2> QED BY <1>2, <1>6, <2>1, <2>2, <2>3 DEF NoncesDrawn
<1>10. NoncesApart'
  BY <1>7 DEF NoncesApart
<1>11. MessagesOwnPoints'
  BY <1>1 DEF MessagesOwnPoints, Return
<1>12. ASSUME NEW q \in Players, NEW t \in DOMAIN data[q], q # p \/ t # tx,
              NEW b \in Blocks, NEW u \in uses', u[1] = data[q][t].k[b]
       PROVE  u \in uses
  <2> SUFFICES ASSUME NEW c \in Blocks, data[p][tx].k[c] = data[q][t].k[b] PROVE FALSE
    BY <1>1, <1>12
  <2>1. data[p][tx].k[c] \in Nonce(p) /\ data[q][t].k[b] \in Nonce(q)
    BY <1>2 DEF NoncesDrawn
  <2>2. q = p
    BY <2>1 DEF Nonce
  <2> QED BY <1>2, <1>12, <2>2 DEF NoncesApart
<1>13. UsedAsStored'
  <2> SUFFICES ASSUME NEW q \in Players, NEW t \in DOMAIN data[q], NEW b \in Blocks,
                      NEW u \in uses', u[1] = data[q][t].k[b]
               PROVE  /\ t \in DOMAIN comm[q]
                      /\ DOMAIN u[3] = Players
                      /\ u[2] = Hram(AddR(u[3], b), Block(t, b))
                      /\ \A c \in Blocks :
                            /\ data'[q][t].R[c] = AddR(u[3], c)
                            /\ \A r \in Players :
                                /\ OwnPoint(r, u[3][r][c])
                                /\ comm[q][t][r][c] = Commitment(u[3][r][c])
    BY <1>2, <1>7 DEF UsedAsStored
  <2>1. CASE q = p /\ t = tx
    <3>1. /\ DOMAIN u[3] = Players
          /\ u[2] = Hram(AddR(u[3], b), Block(tx, b))
          /\ \A r \in Players, c \in Blocks : u[3][r][c] = Rs[r][c]
      BY <1>8, <2>1
    <3>2. \A c \in Blocks : AddR(u[3], c) = AddR(Rs, c)
      BY <1>5, <3>1, SumOfSameAddends
    <3> QED BY <1>2, <1>3, <1>4, <1>5, <1>6, <2>1, <3>1, <3>2
  <2>2. CASE q # p \/ t # tx
    BY <1>6, <1>12, <2>2 DEF UsedAsStored
  <2> QED BY <2>1, <2>2
<1>14. NonceOnce'
  <2> SUFFICES ASSUME NEW u \in uses', NEW v \in uses', u[1] = v[1], v \notin uses
               PROVE  u[2] = v[2]
    BY DEF NonceOnce
  <2>1. PICK b \in Blocks : v = <<data[p][tx].k[b], Hram(AddR(Rs, b), Block(tx, b)), Rs>>
    BY <1>1
  <2>2. /\ DOMAIN u[3] = Players
        /\ u[2] = Hram(AddR(u[3], b), Block(tx, b))
        /\ \A q \in Players, c \in Blocks : u[3][q][c] = Rs[q][c]
    BY <1>8, <2>1
  <2>3. AddR(u[3], b) = AddR(Rs, b)
    BY <1>5, <2>2, SumOfSameAddends
  <2> QED BY <2>1, <2>2, <2>3
<1>15. RevealedAsStored'
  BY <1>2, <1>7 DEF RevealedAsStored
<1>16. AddendsSettled'
  <2> SUFFICES ASSUME strict, NEW r \in revealed, NEW u \in uses', u \notin uses,
                      NEW b \in Blocks, r[1][b] = u[1], NEW q \in Players, NEW c \in Blocks
               PROVE  r[2][q][c] = Commitment(u[3][q][c])
    BY <1>2 DEF AddendsSettled
  <2>1. PICK e \in Blocks : u = <<data[p][tx].k[e], Hram(AddR(Rs, e), Block(tx, e)), Rs>>
    BY <1>1
  <2>2. comm[p][tx] = r[2]
    BY <1>2, <2>1 DEF RevealedAsStored
  <2> QED BY <1>4, <2>1, <2>2
<1> QED BY <1>9, <1>10, <1>11, <1>13, <1>14, <1>15, <1>16

\* Data and commitments go together; what is left was there before.
LEMMA GetEddsaSignatureStep ==
    ASSUME IInv, NEW p \in Players, NEW tx \in Txs, GetEddsaSignature(p, tx)
    PROVE  IInv'
<1> USE DEF IInv
<1>1. /\ data' = [data EXCEPT ![p] = Drop(@, {tx})]
      /\ comm' = [comm EXCEPT ![p] = Drop(@, {tx})]
      /\ timing' = [timing EXCEPT ![p] = @ \ {tx}]
  BY DEF GetEddsaSignature, TimingExtract
<1>2. UNCHANGED <<strict, drawn, revealed, uses>>
  BY DEF GetEddsaSignature
<1>3. DOMAIN data' = Players /\ DOMAIN comm' = Players /\ DOMAIN timing' = Players
  BY <1>1 DEF NoncesDrawn
<1>4. ASSUME NEW q \in Players, NEW t \in DOMAIN data'[q]
      PROVE  /\ t \in DOMAIN data[q] /\ data'[q][t] = data[q][t]
             /\ t \in DOMAIN comm[q] => t \in DOMAIN comm'[q] /\ comm'[q][t] = comm[q][t]
  <2>1. CASE q = p
    <3>1. data'[p] = Drop(data[p], {tx}) /\ comm'[p] = Drop(comm[p], {tx})
      BY <1>1 DEF NoncesDrawn
    <3> QED BY <1>4, <2>1, <3>1 DEF Drop
  <2>2. CASE q # p
    BY <1>1, <1>4, <2>2 DEF NoncesDrawn
  <2> QED BY <2>1, <2>2
<1>5. NoncesDrawn'
  <2>1. \A q \in Players : Nonce(q)' = Nonce(q)
    BY <1>2 DEF Nonce
  <2>2. \A q \in Players : \A t \in DOMAIN data'[q] : data'[q][t].k \in [Blocks -> Nonce(q)]
    BY <1>4 DEF NoncesDrawn
  <2> QED BY <1>2, <1>3, <2>1, <2>2 DEF NoncesDrawn
<1>6. NoncesApart'
  BY <1>4 DEF NoncesApart
<1>7. NonceOnce' /\ AddendsSettled'
  BY <1>2 DEF NonceOnce, AddendsSettled
<1>8. MessagesOwnPoints'
  BY DEF MessagesOwnPoints, GetEddsaSignature, Return
<1>9. UsedAsStored'
  <2> SUFFICES ASSUME NEW q \in Players, NEW t \in DOMAIN data'[q], NEW b \in Blocks,
                      NEW u \in uses, u[1] = data'[q][t].k[b]
               PROVE  /\ t \in DOMAIN comm'[q]
                      /\ DOMAIN u[3] = Players
                      /\ u[2] = Hram(AddR(u[3], b), Block(t, b))
                      /\ \A c \in Blocks :
                            /\ data'[q][t].R[c] = AddR(u[3], c)
                            /\ \A r \in Players :
                                /\ OwnPoint(r, u[3][r][c])
                                /\ comm'[q][t][r][c] = Commitment(u[3][r][c])
    BY <1>2 DEF UsedAsStored
  <2> QED BY <1>4 DEF UsedAsStored
<1>10. RevealedAsStored'
  <2> SUFFICES ASSUME strict, NEW q \in Players, NEW t \in DOMAIN data'[q], NEW r \in revealed,
                      NEW b \in Blocks, NEW c \in Blocks, r[1][b] = data'[q][t].k[c]
               PROVE  t \in DOMAIN comm'[q] /\ comm'[q][t] = r[2]
    BY <1>2 DEF RevealedAsStored
  <2> QED BY <1>4 DEF RevealedAsStored
<1> QED BY <1>5, <1>6, <1>7, <1>8, <1>9, <1>10

LEMMA OnlineNext ==
    ASSUME IInv, [Next]_vars
    PROVE  IInv'
<1>1. ASSUME NEW p \in Players, NEW tx \in Txs, StartSigning(p, tx) PROVE IInv'
  BY <1>1, StartSigningStep
<1>2. ASSUME NEW p \in Players, NEW tx \in Txs, StoreCommitments(p, tx) PROVE IInv'
  BY <1>2, StoreCommitmentsStep
<1>3. ASSUME NEW p \in Players, NEW tx \in Txs, StoreCommitmentsFails(p, tx) PROVE IInv'
  BY <1>3, StoreCommitmentsFailsStep
<1>4. ASSUME NEW p \in Players, NEW tx \in Txs, BroadcastSi(p, tx) PROVE IInv'
  BY <1>4, BroadcastSiStep
<1>5. ASSUME NEW p \in Players, NEW tx \in Txs, GetEddsaSignature(p, tx) PROVE IInv'
  BY <1>5, GetEddsaSignatureStep
<1>6. CASE UNCHANGED vars
  BY <1>6 DEF vars, IInv, NoncesDrawn, Nonce, NoncesApart, MessagesOwnPoints,
              UsedAsStored, NonceOnce, RevealedAsStored, AddendsSettled
<1> QED BY <1>1, <1>2, <1>3, <1>4, <1>5, <1>6 DEF Next, PlayerStep

LEMMA OnlineInvariant == Spec => []IInv
<1>1. Init => IInv
  BY OnlineInit
<1>2. IInv /\ [Next]_vars => IInv'
  BY OnlineNext
<1> QED BY <1>1, <1>2, PTL DEF Spec

-----------------------------------------------------------------------------

\* No nonce answers two challenges, whichever of the four handlers are repeated
\* in whatever order, over a persistency that overwrites as well as over one
\* that does not: broadcast_si replaces R by the sum, and a sum opens no
\* commitment unless there is only one signer.
THEOREM OnlineNonces == Spec => []NonceOnce
<1>1. IInv => NonceOnce
  BY DEF IInv
<1> QED BY <1>1, OnlineInvariant, PTL

\* Over a persistency that refuses to overwrite, all shares made with a nonce
\* use the Rs whose commitments were stored when its R was first returned, so
\* nobody chose an R after seeing another's.
THEOREM OnlineAddends == Spec => []AddendsSettled
<1>1. IInv => AddendsSettled
  BY DEF IInv
<1> QED BY <1>1, OnlineInvariant, PTL

\* The timing map keeps entries of live transactions only: start_signing makes
\* none, store_commitments requires signing data, and get_eddsa_signature takes
\* the entry out with the data.
THEOREM OnlineTiming == Spec => []OnlyLiveAreTimed
<1>1. Init => OnlyLiveAreTimed
  BY DEF Init, OnlyLiveAreTimed
<1>2. IInv /\ OnlyLiveAreTimed /\ [Next]_vars => OnlyLiveAreTimed'
  <2> SUFFICES ASSUME NoncesDrawn, OnlyLiveAreTimed, [Next]_vars PROVE OnlyLiveAreTimed'
    BY DEF IInv
  <2> USE DEF OnlyLiveAreTimed
  <2>1. ASSUME NEW p \in Players, NEW tx \in Txs, StartSigning(p, tx) PROVE OnlyLiveAreTimed'
    <3>1. timing' = timing /\ \E e : data' = [data EXCEPT ![p] = Put(@, tx, e)]
      BY <2>1 DEF StartSigning
    <3> QED BY <3>1 DEF Put, NoncesDrawn
  <2>2. ASSUME NEW p \in Players, NEW tx \in Txs,
               StoreCommitments(p, tx) \/ StoreCommitmentsFails(p, tx)
        PROVE  OnlyLiveAreTimed'
    <3>1. /\ tx \in DOMAIN data[p] /\ data' = data
          /\ timing' = [timing EXCEPT ![p] = @ \cup {tx}]
      BY <2>2 DEF StoreCommitments, StoreCommitmentsFails, TimingInsert
    <3> QED BY <3>1 DEF NoncesDrawn
  <2>3. ASSUME NEW p \in Players, NEW tx \in Txs, BroadcastSi(p, tx) PROVE OnlyLiveAreTimed'
    <3>1. timing' = timing /\ \E e : data' = [data EXCEPT ![p] = Put(@, tx, e)]
      BY <2>3 DEF BroadcastSi
    <3> QED BY <3>1 DEF Put, NoncesDrawn
  <2>4. ASSUME NEW p \in Players, NEW tx \in Txs, GetEddsaSignature(p, tx)
        PROVE  OnlyLiveAreTimed'
    <3>1. /\ data' = [data EXCEPT ![p] = Drop(@, {tx})]
          /\ timing' = [timing EXCEPT ![p] = @ \ {tx}]
      BY <2>4 DEF GetEddsaSignature, TimingExtract
    <3> QED BY <3>1 DEF Drop, NoncesDrawn
  <2>5. CASE UNCHANGED vars
    BY <2>5 DEF vars
  <2> QED BY <2>1, <2>2, <2>3, <2>4, <2>5 DEF Next, PlayerStep
<1> QED BY <1>1, <1>2, OnlineInvariant, PTL DEF Spec

-----------------------------------------------------------------------------
\* The signatures returned.  Three more invariants, about the shares of s.

Shares == {m \in msgs : m.type = "s"}

\* A share of s was recorded as a use of a nonce of its sender, with the
\* challenge of some R and the block.
SharesWereUses ==
    \A m \in Shares, b \in Blocks : \E u \in uses, i \in Nat : \E R :
        /\ u[1] = <<m.from, i>>
        /\ u[2] = Hram(R, Block(m.tx, b))
        /\ m.body[b] = MulAdd(u[2], m.from, u[1])

\* Shares made with a nonce still stored are those the stored R gives.
SharesAsStored ==
    \A p \in Players : \A tx \in DOMAIN data[p] : \A m \in Shares, b, c \in Blocks :
        m.body[b].nonces = SetToBag({data[p][tx].k[c]}) =>
            m.body = [x \in Blocks |->
                MulAdd(Hram(data[p][tx].R[x], Block(tx, x)), p, data[p][tx].k[x])]

\* Two messages that used one nonce used the same nonces, for the same.
SharesAgree ==
    \A m, n \in Shares, b, c \in Blocks :
        m.body[b].nonces = n.body[c].nonces => m.body = n.body

\* A signature was added up from a share of every signer, and verified.
AddedUp(f, s, R) ==
    /\ DOMAIN s = Players
    /\ f.body = [b \in Blocks |-> [R |-> R[b], s |-> SumS(s, b)]]
    /\ SignatureChecked(f.tx, f.body)

SharesFrom(f, s) ==
    \A q \in Players : \E m \in Shares : m.tx = f.tx /\ m.from = q /\ s[q] = m.body

FinalsVerified == \A f \in Finals : \E s, R : AddedUp(f, s, R) /\ SharesFrom(f, s)

SharesInv == SharesWereUses /\ SharesAsStored /\ SharesAgree /\ FinalsVerified

LEMMA ShareTerms ==
    ASSUME NEW hram, NEW q, NEW k
    PROVE  /\ MulAdd(hram, q, k).nonces = SetToBag({k})
           /\ DOMAIN MulAdd(hram, q, k).nonces = {k}
           /\ DOMAIN MulAdd(hram, q, k).keys = {<<q, hram>>}
  BY DEF MulAdd, SetToBag

LEMMA SetToBagInjective ==
    ASSUME NEW k, NEW l, SetToBag({k}) = SetToBag({l})
    PROVE  k = l
  BY GeneratorMulInjective DEF GeneratorMul

\* A handler that returns no share and no signature keeps the invariant if the
\* signing data it leaves were there before, or hold nonces never used.
LEMMA NoNewShares ==
    ASSUME SharesInv, uses \subseteq uses', Shares' = Shares,
           \A f \in Finals' : f \in Finals,
           \A q \in Players : \A t \in DOMAIN data'[q] :
                \/ t \in DOMAIN data[q] /\ data'[q][t] = data[q][t]
                \/ \A u \in uses, b \in Blocks : u[1] # data'[q][t].k[b]
    PROVE  SharesInv'
<1> USE DEF SharesInv
<1>1. SharesWereUses'
  BY DEF SharesWereUses
<1>2. SharesAgree'
  BY DEF SharesAgree
<1>3. FinalsVerified'
  BY DEF FinalsVerified, SharesFrom
<1>4. SharesAsStored'
  <2> SUFFICES ASSUME NEW q \in Players, NEW t \in DOMAIN data'[q], NEW m \in Shares,
                      NEW b \in Blocks, NEW c \in Blocks,
                      m.body[b].nonces = SetToBag({data'[q][t].k[c]})
               PROVE  m.body = [x \in Blocks |->
                        MulAdd(Hram(data'[q][t].R[x], Block(t, x)), q, data'[q][t].k[x])]
    BY DEF SharesAsStored
  <2>1. PICK u \in uses : m.body[b].nonces = SetToBag({u[1]})
    BY ShareTerms DEF SharesWereUses
  <2>2. u[1] = data'[q][t].k[c]
    BY <2>1, SetToBagInjective
  <2>3. t \in DOMAIN data[q] /\ data'[q][t] = data[q][t]
    BY <2>2
  <2> QED BY <2>3 DEF SharesAsStored
<1> QED BY <1>1, <1>2, <1>3, <1>4

\* The new share is made of the R now stored; if a nonce of it was used before,
\* that R was stored then as well.
LEMMA BroadcastSiShares ==
    ASSUME IInv, IInv', SharesInv, NEW p \in Players, NEW tx \in Txs, BroadcastSi(p, tx)
    PROVE  SharesInv'
<1> USE DEF SharesInv
<1>1. PICK Rs :
        /\ data' = [data EXCEPT ![p] = Put(@, tx, Signed(p, data[p][tx], tx, Rs))]
        /\ Return(p, tx, "s", Signed(p, data[p][tx], tx, Rs).s)
        /\ uses' = uses \cup
            {<<data[p][tx].k[b], Hram(AddR(Rs, b), Block(tx, b)), Rs>> : b \in Blocks}
  BY BroadcastSiEffect
<1> DEFINE d == Signed(p, data[p][tx], tx, Rs)
           k == data[p][tx].k
           new == [type |-> "s", tx |-> tx, from |-> p, body |-> d.s]
<1>2. /\ d.k = k /\ \A x \in Blocks : d.R[x] = AddR(Rs, x)
      /\ d.s = [x \in Blocks |-> MulAdd(Hram(d.R[x], Block(tx, x)), p, d.k[x])]
  BY DEF Signed
<1>3. msgs' = msgs \cup {new} /\ new.type = "s" /\ new.tx = tx /\ new.from = p /\ new.body = d.s
  BY <1>1 DEF Return
<1> HIDE DEF d, new
<1>4. /\ tx \in DOMAIN data[p]
      /\ data'[p][tx] = d
      /\ \A q \in Players : DOMAIN data'[q] = DOMAIN data[q]
      /\ \A q \in Players : \A t \in DOMAIN data[q] : q # p \/ t # tx => data'[q][t] = data[q][t]
  <2>1. tx \in DOMAIN data[p] /\ DOMAIN data = Players
    BY DEF BroadcastSi, IInv, NoncesDrawn
  <2>2. data' = [data EXCEPT ![p] = Put(@, tx, d)]
    BY <1>1 DEF d
  <2> QED BY <2>1, <2>2 DEF Put
<1>5. Shares' = Shares \cup {new} /\ Finals' = Finals
  BY <1>3 DEF Shares, Finals
<1>6. \A b \in Blocks : \E i \in Nat : k[b] = <<p, i>>
  <2> SUFFICES ASSUME NEW b \in Blocks PROVE \E i \in Nat : k[b] = <<p, i>>
    OBVIOUS
  <2>1. k[b] \in Nonce(p) /\ drawn[p] \in Nat
    BY <1>4 DEF IInv, NoncesDrawn
  <2> QED BY <2>1 DEF Nonce
<1>7. SharesWereUses'
  <2> SUFFICES ASSUME NEW m \in Shares', NEW b \in Blocks
               PROVE  \E u \in uses', i \in Nat : \E R :
                        /\ u[1] = <<m.from, i>>
                        /\ u[2] = Hram(R, Block(m.tx, b))
                        /\ m.body[b] = MulAdd(u[2], m.from, u[1])
    BY DEF SharesWereUses
  <2>1. CASE m \in Shares
    BY <1>1, <2>1 DEF SharesWereUses
  <2>2. CASE m = new
    <3> DEFINE u == <<k[b], Hram(AddR(Rs, b), Block(tx, b)), Rs>>
    <3>1. u \in uses' /\ u[1] = k[b] /\ u[2] = Hram(AddR(Rs, b), Block(tx, b))
      BY <1>1
    <3>2. m.body[b] = MulAdd(u[2], p, u[1])
      BY <1>2, <1>3, <2>2, <3>1
    <3> HIDE DEF u
    <3> QED BY <1>3, <1>6, <2>2, <3>1, <3>2
  <2> QED BY <1>5, <2>1, <2>2
\* Old shares made with a nonce of these data equal the new one.
<1>8. ASSUME NEW m \in Shares, NEW b \in Blocks, NEW c \in Blocks,
             m.body[b].nonces = SetToBag({k[c]})
      PROVE  m.body = d.s
  <2>1. PICK u \in uses : m.body[b].nonces = SetToBag({u[1]})
    BY ShareTerms DEF SharesWereUses
  <2>2. u[1] = k[c]
    BY <1>8, <2>1, SetToBagInjective
  <2>3. \A x \in Blocks : data[p][tx].R[x] = AddR(u[3], x)
    BY <1>4, <2>2 DEF IInv, UsedAsStored
  <2>4. \A x \in Blocks : d.R[x] = AddR(u[3], x)
    <3>1. u \in uses' /\ u[1] = data'[p][tx].k[c] /\ tx \in DOMAIN data'[p]
      BY <1>1, <1>2, <1>4, <2>2
    <3>2. \A x \in Blocks : data'[p][tx].R[x] = AddR(u[3], x)
      BY <3>1 DEF IInv, UsedAsStored
    <3> QED BY <1>4, <3>2
  <2>5. m.body = [x \in Blocks |-> MulAdd(Hram(data[p][tx].R[x], Block(tx, x)), p, k[x])]
    BY <1>4, <1>8 DEF SharesAsStored
  <2> QED BY <1>2, <2>3, <2>4, <2>5
<1>9. SharesAsStored'
  <2> SUFFICES ASSUME NEW q \in Players, NEW t \in DOMAIN data'[q], NEW m \in Shares',
                      NEW b \in Blocks, NEW c \in Blocks,
                      m.body[b].nonces = SetToBag({data'[q][t].k[c]})
               PROVE  m.body = [x \in Blocks |->
                        MulAdd(Hram(data'[q][t].R[x], Block(t, x)), q, data'[q][t].k[x])]
    BY DEF SharesAsStored
  <2>1. CASE q = p /\ t = tx
    <3>1. m.body = d.s
      BY <1>2, <1>3, <1>4, <1>5, <1>8, <2>1
    <3> QED BY <1>2, <1>4, <2>1, <3>1
  <2>2. CASE q # p \/ t # tx
    <3>1. t \in DOMAIN data[q] /\ data'[q][t] = data[q][t]
      BY <1>4, <2>2
    <3>2. m # new
      <4> SUFFICES ASSUME m = new PROVE FALSE
        OBVIOUS
      <4>1. m.body[b].nonces = SetToBag({k[b]})
        BY <1>2, <1>3, ShareTerms
      <4>2. k[b] = data[q][t].k[c]
        BY <3>1, <4>1, SetToBagInjective
      <4>3. data[q][t].k[c] \in Nonce(q) /\ k[b] \in Nonce(p)
        BY <1>4, <3>1 DEF IInv, NoncesDrawn
      <4>4. q = p
        BY <4>2, <4>3 DEF Nonce
      <4> QED BY <1>4, <2>2, <3>1, <4>2, <4>4 DEF IInv, NoncesApart
    <3> QED BY <1>5, <3>1, <3>2 DEF SharesAsStored
  <2> QED BY <2>1, <2>2
<1>10. SharesAgree'
  <2>1. ASSUME NEW m \in Shares, NEW b \in Blocks, NEW c \in Blocks,
               m.body[b].nonces = new.body[c].nonces
        PROVE  m.body = new.body
    <3>1. new.body[c].nonces = SetToBag({k[c]})
      BY <1>2, <1>3, ShareTerms
    <3> QED BY <1>3, <1>8, <2>1, <3>1
  <2> QED BY <1>5, <2>1 DEF SharesAgree
<1>11. FinalsVerified'
  <2>1. Shares \subseteq Shares'
    BY <1>5
  <2> QED BY <1>5, <2>1 DEF FinalsVerified, SharesFrom
<1> QED BY <1>7, <1>9, <1>10, <1>11

LEMMA GetEddsaSignatureShares ==
    ASSUME IInv, SharesInv, NEW p \in Players, NEW tx \in Txs, GetEddsaSignature(p, tx)
    PROVE  SharesInv'
<1>1. PICK s \in Batches("s", tx) :
        /\ SignatureChecked(tx, Signature(data[p][tx], s))
        /\ Return(p, tx, "signature", Signature(data[p][tx], s))
  BY DEF GetEddsaSignature
<1> DEFINE new == [type |-> "signature", tx |-> tx, from |-> p,
                   body |-> Signature(data[p][tx], s)]
<1>2. /\ msgs' = msgs \cup {new} /\ new.type = "signature" /\ new.tx = tx
      /\ new.body = [b \in Blocks |-> [R |-> data[p][tx].R[b], s |-> SumS(s, b)]]
      /\ SignatureChecked(tx, new.body)
  BY <1>1 DEF Return, Signature
<1> HIDE DEF new
<1>3. Shares' = Shares /\ Finals' = Finals \cup {new}
  BY <1>2 DEF Shares, Finals
<1>4. AddedUp(new, s, data[p][tx].R) /\ SharesFrom(new, s)
  BY <1>2, BatchFromMessages DEF AddedUp, SharesFrom, Shares
<1>5. FinalsVerified'
  BY <1>3, <1>4 DEF SharesInv, FinalsVerified, SharesFrom
<1>6. data' = [data EXCEPT ![p] = Drop(@, {tx})] /\ uses' = uses
  BY DEF GetEddsaSignature
<1>7. ASSUME NEW q \in Players, NEW t \in DOMAIN data'[q]
      PROVE  t \in DOMAIN data[q] /\ data'[q][t] = data[q][t]
  BY <1>6, <1>7 DEF Drop, IInv, NoncesDrawn
<1>8. SharesWereUses' /\ SharesAgree'
  BY <1>3, <1>6 DEF SharesInv, SharesWereUses, SharesAgree
<1>9. SharesAsStored'
  BY <1>3, <1>7 DEF SharesInv, SharesAsStored
<1> QED BY <1>5, <1>8, <1>9 DEF SharesInv

LEMMA SharesInit == Init => SharesInv
  BY DEF Init, SharesInv, SharesWereUses, SharesAsStored, SharesAgree, FinalsVerified,
         Shares, Finals

LEMMA StartSigningShares ==
    ASSUME IInv, SharesInv, NEW p \in Players, NEW tx \in Txs, StartSigning(p, tx)
    PROVE  SharesInv'
<1> DEFINE k == DrawPerBlock(p)
<1>1. /\ \E e : e.k = k /\ data' = [data EXCEPT ![p] = Put(@, tx, e)]
      /\ uses' = uses
  BY DEF StartSigning
<1>2. \E body : msgs' = msgs \cup {[type |-> "commit", tx |-> tx, from |-> p, body |-> body]}
  BY DEF StartSigning, Return
<1>3. Shares' = Shares /\ Finals' = Finals
  BY <1>2 DEF Shares, Finals
<1>4. \A u \in uses, b \in Blocks : u[1] # k[b]
  <2> SUFFICES ASSUME NEW u \in uses, NEW b \in Blocks, u[1] = k[b] PROVE FALSE
    OBVIOUS
  <2>1. PICK q \in Players : k[b] \in Nonce(q)
    BY DEF IInv, NoncesDrawn
  <2>2. k[b] = <<p, drawn[p] + b>> /\ b \in 1 .. NBlocks /\ drawn[p] \in Nat
    BY DEF DrawPerBlock, Blocks, IInv, NoncesDrawn
  <2> QED BY <2>1, <2>2, OnlineAssumption DEF Nonce
<1>5. \A q \in Players : \A t \in DOMAIN data'[q] :
        \/ t \in DOMAIN data[q] /\ data'[q][t] = data[q][t]
        \/ data'[q][t].k = k
  BY <1>1 DEF Put, IInv, NoncesDrawn
<1> HIDE DEF k
<1> QED BY <1>1, <1>3, <1>4, <1>5, NoNewShares

LEMMA StoreCommitmentsShares ==
    ASSUME IInv, SharesInv, NEW p \in Players, NEW tx \in Txs, StoreCommitments(p, tx)
    PROVE  SharesInv'
<1>1. msgs' = msgs \cup {[type |-> "R", tx |-> tx, from |-> p, body |-> data[p][tx].R]}
  BY DEF StoreCommitments, Return
<1>2. Shares' = Shares /\ Finals' = Finals
  BY <1>1 DEF Shares, Finals
<1>3. UNCHANGED <<data, uses>>
  BY DEF StoreCommitments
<1> QED BY <1>2, <1>3, NoNewShares

LEMMA SharesNext ==
    ASSUME IInv, IInv', SharesInv, [Next]_vars
    PROVE  SharesInv'
<1>1. ASSUME NEW p \in Players, NEW tx \in Txs, StartSigning(p, tx) PROVE SharesInv'
  BY <1>1, StartSigningShares
<1>2. ASSUME NEW p \in Players, NEW tx \in Txs, StoreCommitments(p, tx) PROVE SharesInv'
  BY <1>2, StoreCommitmentsShares
<1>3. CASE UNCHANGED <<data, msgs, uses>>
  BY <1>3, NoNewShares DEF Shares, Finals
<1>4. ASSUME NEW p \in Players, NEW tx \in Txs, BroadcastSi(p, tx) PROVE SharesInv'
  BY <1>4, BroadcastSiShares
<1>5. ASSUME NEW p \in Players, NEW tx \in Txs, GetEddsaSignature(p, tx) PROVE SharesInv'
  BY <1>5, GetEddsaSignatureShares
<1> QED
  BY <1>1, <1>2, <1>3, <1>4, <1>5 DEF Next, PlayerStep, StoreCommitmentsFails, vars

\* u is the use behind the share of q for block x of the signature f.
UseBehind(f, s, q, x, u) ==
    /\ u \in uses /\ u[1][1] = q
    /\ u[2] = Hram(f.body[x].R, Block(f.tx, x))
    /\ s[q][x].nonces = SetToBag({u[1]}) /\ DOMAIN s[q][x].nonces = {u[1]}
    /\ u[1] \in DOMAIN f.body[x].R

\* What the verification of a sum says of its addends: each share was made for
\* the R of the signature, and R is made of their nonces.
LEMMA VerifiedShares ==
    ASSUME SharesInv, NEW f \in Finals, NEW s, NEW R, AddedUp(f, s, R), SharesFrom(f, s),
           NEW b \in Blocks
    PROVE  /\ \A q \in Players : \E u : UseBehind(f, s, q, b, u)
           /\ \A k \in DOMAIN f.body[b].R : \E q \in Players : k \in DOMAIN s[q][b].nonces
           /\ f.body[b].R = SumS(s, b).nonces
<1> DEFINE sig == f.body[b]
           addends == [q \in DOMAIN s |-> s[q][b]]
           nonces == [q \in DOMAIN addends |-> addends[q].nonces]
           keys == [q \in DOMAIN addends |-> addends[q].keys]
<1>1. sig.s = SumS(s, b) /\ Ed25519Verify(Players, Block(f.tx, b), sig) /\ DOMAIN s = Players
  BY DEF AddedUp, SignatureChecked
<1>2. sig.s.nonces = AddAll(nonces) /\ sig.s.keys = AddAll(keys)
  BY <1>1 DEF SumS, SumScalars
<1>3. /\ sig.R = AddAll(nonces)
      /\ SetToBag({<<q, Hram(sig.R, Block(f.tx, b))>> : q \in Players}) = AddAll(keys)
  BY <1>1, <1>2 DEF Ed25519Verify
<1>4. DOMAIN sig.R = UNION {DOMAIN nonces[q] : q \in DOMAIN nonces}
  BY <1>3 DEF AddAll
<1>5. {<<q, Hram(sig.R, Block(f.tx, b))>> : q \in Players}
        = UNION {DOMAIN keys[q] : q \in DOMAIN keys}
  BY <1>3 DEF AddAll, SetToBag
<1>6. ASSUME NEW q \in Players
      PROVE  /\ q \in DOMAIN nonces /\ nonces[q] = s[q][b].nonces
             /\ q \in DOMAIN keys /\ keys[q] = s[q][b].keys
  BY <1>1
<1> HIDE DEF sig, nonces, keys
<1>7. ASSUME NEW q \in Players PROVE \E u : UseBehind(f, s, q, b, u)
  <2>1. PICK m \in Shares : m.tx = f.tx /\ m.from = q /\ s[q] = m.body
    BY DEF SharesFrom
  <2>2. PICK u \in uses, i \in Nat : u[1] = <<q, i>> /\ s[q][b] = MulAdd(u[2], q, u[1])
    BY <2>1 DEF SharesInv, SharesWereUses
  <2> DEFINE share == s[q][b]
  <2>3. share = MulAdd(u[2], q, u[1])
    BY <2>2
  <2> HIDE DEF share
  <2>4. share.nonces = SetToBag({u[1]})
    BY <2>3, ShareTerms
  <2>5. DOMAIN share.nonces = {u[1]}
    BY <2>4 DEF SetToBag
  <2>6. DOMAIN share.keys = {<<q, u[2]>>}
    BY <2>3, ShareTerms
  <2>7. /\ s[q][b].nonces = SetToBag({u[1]}) /\ DOMAIN s[q][b].nonces = {u[1]}
        /\ DOMAIN s[q][b].keys = {<<q, u[2]>>}
    BY <2>4, <2>5, <2>6 DEF share
  <2>8. <<q, u[2]>> \in DOMAIN keys[q] /\ q \in DOMAIN keys
    BY <1>6, <2>7
  <2>9. <<q, u[2]>> \in UNION {DOMAIN keys[p] : p \in DOMAIN keys}
    BY <2>8
  <2>10. <<q, u[2]>> \in {<<p, Hram(sig.R, Block(f.tx, b))>> : p \in Players}
    BY <1>5, <2>9
  <2>11. u[2] = Hram(sig.R, Block(f.tx, b))
    BY <2>10
  <2>12. u[1] \in DOMAIN sig.R
    BY <1>4, <1>6, <2>7
  <2>13. u[1][1] = q
    BY <2>2
  <2> QED BY <2>7, <2>11, <2>12, <2>13 DEF UseBehind, sig
<1>8. ASSUME NEW k \in DOMAIN sig.R PROVE \E q \in Players : k \in DOMAIN s[q][b].nonces
  <2>1. DOMAIN nonces = Players
    BY <1>1 DEF nonces
  <2> QED BY <1>4, <1>6, <2>1
<1>9. sig.R = SumS(s, b).nonces
  BY <1>1 DEF Ed25519Verify
<1> QED BY <1>7, <1>8, <1>9 DEF sig

\* Two signatures with a nonce in common have all their shares in common.
LEMMA IndependentFinals ==
    ASSUME NonceOnce, SharesInv
    PROVE  FinalsIndependent
<1> SUFFICES ASSUME NEW f \in Finals, NEW g \in Finals, NEW b \in Blocks, NEW c \in Blocks,
                    NEW k \in DOMAIN f.body[b].R \cap DOMAIN g.body[c].R
             PROVE  f.body = g.body
  BY DEF FinalsIndependent
<1>1. PICK s, R : AddedUp(f, s, R) /\ SharesFrom(f, s)
  BY DEF SharesInv, FinalsVerified
<1>2. PICK t, S : AddedUp(g, t, S) /\ SharesFrom(g, t)
  BY DEF SharesInv, FinalsVerified
<1>3. \A q \in Players : \E u : UseBehind(f, s, q, b, u)
  BY <1>1, VerifiedShares
<1>4. \A q \in Players : \E u : UseBehind(g, t, q, c, u)
  BY <1>2, VerifiedShares
<1>5. Hram(f.body[b].R, Block(f.tx, b)) = Hram(g.body[c].R, Block(g.tx, c))
  <2>1. PICK p \in Players : k \in DOMAIN s[p][b].nonces
    BY <1>1, VerifiedShares
  <2>2. PICK u \in uses : u[1] = k /\ u[2] = Hram(f.body[b].R, Block(f.tx, b))
    <3>1. PICK w : UseBehind(f, s, p, b, w)
      BY <1>3
    <3>2. w \in uses /\ w[1] = k
      BY <2>1, <3>1 DEF UseBehind
    <3>3. w[2] = Hram(f.body[b].R, Block(f.tx, b))
      BY <3>1 DEF UseBehind
    <3> QED BY <3>2, <3>3
  <2>3. PICK q \in Players : k \in DOMAIN t[q][c].nonces
    BY <1>2, VerifiedShares
  <2>4. PICK v \in uses : v[1] = k /\ v[2] = Hram(g.body[c].R, Block(g.tx, c))
    <3>1. PICK w : UseBehind(g, t, q, c, w)
      BY <1>4
    <3>2. w \in uses /\ w[1] = k
      BY <2>3, <3>1 DEF UseBehind
    <3>3. w[2] = Hram(g.body[c].R, Block(g.tx, c))
      BY <3>1 DEF UseBehind
    <3> QED BY <3>2, <3>3
  <2> QED BY <2>2, <2>4 DEF NonceOnce
<1>6. f.body[b].R = g.body[c].R
  BY <1>5 DEF Hram
<1>7. \A q \in Players : s[q] = t[q]
  <2> SUFFICES ASSUME NEW q \in Players PROVE s[q] = t[q]
    OBVIOUS
  <2>1. PICK u : UseBehind(f, s, q, b, u)
    BY <1>3
  <2>2. PICK p \in Players : u[1] \in DOMAIN t[p][c].nonces
    BY <1>2, <1>6, <2>1, VerifiedShares DEF UseBehind
  <2>3. PICK v : UseBehind(g, t, p, c, v)
    BY <1>4
  <2>4. v[1] = u[1] /\ p = q
    BY <2>1, <2>2, <2>3 DEF UseBehind
  <2>5. s[q][b].nonces = t[q][c].nonces
    BY <2>1, <2>3, <2>4 DEF UseBehind
  <2>6. PICK m \in Shares : s[q] = m.body
    BY <1>1 DEF SharesFrom
  <2>7. PICK n \in Shares : t[q] = n.body
    BY <1>2 DEF SharesFrom
  <2> QED BY <2>5, <2>6, <2>7 DEF SharesInv, SharesAgree
<1>8. \A x \in Blocks : SumS(s, x) = SumS(t, x)
  <2> SUFFICES ASSUME NEW x \in Blocks PROVE SumS(s, x) = SumS(t, x)
    OBVIOUS
  <2>1. [p \in DOMAIN s |-> s[p][x]] = [p \in DOMAIN t |-> t[p][x]]
    BY <1>1, <1>2, <1>7 DEF AddedUp
  <2> QED BY <2>1 DEF SumS
<1>9. \A x \in Blocks : f.body[x].R = g.body[x].R
  BY <1>1, <1>2, <1>8, VerifiedShares
<1>10. \A x \in Blocks : R[x] = S[x]
  BY <1>1, <1>2, <1>9 DEF AddedUp
<1> QED BY <1>1, <1>2, <1>8, <1>10 DEF AddedUp

\* Any two signatures that any two signers return are the same or have no nonce
\* in common, however often transactions were started again: the verification
\* in get_eddsa_signature lets nothing through that mixes shares of two starts.
THEOREM OnlineFinals == Spec => []FinalsIndependent
<1>1. Init => SharesInv
  BY SharesInit
<1>2. IInv /\ IInv' /\ SharesInv /\ [Next]_vars => SharesInv'
  BY SharesNext
<1>3. IInv /\ SharesInv => FinalsIndependent
  BY IndependentFinals DEF IInv
<1> QED BY <1>1, <1>2, <1>3, OnlineInvariant, PTL DEF Spec
=============================================================================
