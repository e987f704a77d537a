------------------------------ MODULE CmpProofs ------------------------------
(***************************************************************************)
(* Proofs about the CMP services as MCCmp composes them, in every plan and *)
(* for any players, requests, spans and bounds. A nonce of the setup's     *)
(* Schnorr proof answers one challenge, and a presignature makes one       *)
(* partial signature unless it was put back: these two use nothing of the  *)
(* curve. Players that count each other's keys finish with the same key,   *)
(* which their shares add up to; new players that all finish hold the key  *)
(* handed to them; and the shares of one refresh add up to what the first  *)
(* shares did. These use that what the players draw are scalars, and the   *)
(* second and third also GroupLaw, that the multiples of the generator are *)
(* a group of its order.                                                   *)
(***************************************************************************)
EXTENDS MCCmp, FoldLemmas

AllPlayers == Players \cup NewPlayers
KeyFields == {"meta", "data", "aux", "x", "comms"}
DataFields == {"k", "seed", "X", "Rs"}

\* The challenge that the commitments c of all players and the own X fix.
FixedChallenge(p, c, X) == <<SetupAad(p, {c[q].seed : q \in Peers(p)}), X>>

\* An entry e of the player p in its n-th life.
KeyWellFormed(p, n, e) ==
    /\ DOMAIN e = KeyFields
    /\ e.meta = {} => e.data = {} /\ e.comms = {}
    /\ \A c, d \in e.comms : c = d
    /\ \A d \in e.data : DOMAIN d = DataFields /\ d.k = <<p, n>>

\* A nonce still stored has answered what the stored commitments fix.
AnsweredAsStored(p, e, ans) ==
    \A d \in e.data : \A a \in ans : a.k = d.k =>
        /\ e.comms # {}
        /\ \A c \in e.comms : a.challenge = FixedChallenge(p, c, d.X)

KeysKept ==
    /\ DOMAIN keys = AllPlayers
    /\ \A p \in AllPlayers : /\ KeyWellFormed(p, life[p], keys[p])
                             /\ AnsweredAsStored(p, keys[p], answered)

AnsweredOfLives ==
    \A a \in answered : \E p \in AllPlayers, n \in Nat : a.k = <<p, n>> /\ n <= life[p]

SetupInv ==
    /\ life \in [AllPlayers -> Nat]
    /\ KeysKept
    /\ AnsweredOfLives
    /\ SetupNonceOnce

\* What p stores, when it neither begins a life nor answers.
Stores(p, e) == keys' = [keys EXCEPT ![p] = e] /\ life' = life /\ answered' = answered

LEMMA StoringKeepsSetup ==
    ASSUME SetupInv, NEW p \in AllPlayers, NEW e, Stores(p, e),
           KeyWellFormed(p, life[p], e), AnsweredAsStored(p, e, answered)
    PROVE  SetupInv'
<1>1. /\ DOMAIN keys' = AllPlayers /\ keys'[p] = e
      /\ \A q \in AllPlayers : q # p => keys'[q] = keys[q]
  BY DEF Stores, SetupInv, KeysKept
<1>2. life' = life /\ answered' = answered
  BY DEF Stores
<1>3. KeysKept'
  <2>1. ASSUME NEW q \in AllPlayers
        PROVE  KeyWellFormed(q, life'[q], keys'[q]) /\ AnsweredAsStored(q, keys'[q], answered')
    <3>1. CASE q = p BY <1>1, <1>2, <3>1
    <3>2. CASE q # p BY <1>1, <1>2, <3>2 DEF SetupInv, KeysKept
    <3> QED BY <3>1, <3>2
  <2> QED BY <1>1, <2>1 DEF KeysKept
<1> QED BY <1>2, <1>3 DEF SetupInv, AnsweredOfLives, SetupNonceOnce

\* A new life begins without commitments, with a nonce that answered nothing.
LEMMA MakeKeyKeepsSetup ==
    ASSUME SetupInv, NEW p \in AllPlayers, NEW x, NEW pub, MakeKey(p, x, pub)
    PROVE  SetupInv'
<1>1. /\ life' = [life EXCEPT ![p] = @ + 1] /\ answered' = answered
      /\ keys[p].meta = {}
  BY DEF MakeKey, KeyExists
<1>2. life' \in [AllPlayers -> Nat] /\ life'[p] = life[p] + 1
      /\ \A q \in AllPlayers : q # p => life'[q] = life[q]
  BY <1>1 DEF SetupInv
<1>3. DOMAIN keys[p] = KeyFields /\ keys[p].data = {} /\ keys[p].comms = {}
  BY <1>1 DEF SetupInv, KeysKept, KeyWellFormed
<1>4. PICK e : /\ keys' = [keys EXCEPT ![p] = e]
               /\ DOMAIN e = KeyFields /\ e.comms = {} /\ e.meta # {}
               /\ \A d \in e.data : DOMAIN d = DataFields /\ d.k = <<p, life[p] + 1>>
  <2> DEFINE id == <<p, life[p] + 1>>
             data == [k |-> id, seed |-> id, X |-> GeneratorMul(x), Rs |-> EmptyMap]
             stored == <<"meta", "data", "aux", "x">>
             m == [pub |-> pub, seed |-> {}, info |-> EmptyMap]
             entry == [keys[p] EXCEPT !.meta = {m}, !.data = {data}, !.aux = {id}, !.x = {x}]
             part(n) == [f \in DOMAIN entry |->
                            IF \E i \in 1 .. n : stored[i] = f THEN entry[f] ELSE keys[p][f]]
  <2>1. keys' = [keys EXCEPT ![p] = entry] \/ \E n \in 1 .. 4 : keys' = [keys EXCEPT ![p] = part(n)]
    BY DEF MakeKey, Store
  <2>2. DOMAIN data = DataFields /\ data.k = id
    BY DEF DataFields
  <2> HIDE DEF data, m
  <2>3. /\ DOMAIN entry = KeyFields /\ entry.meta = {m} /\ entry.data = {data}
        /\ entry.comms = {}
    BY <1>3 DEF KeyFields
  <2> HIDE DEF entry
  <2>4. ASSUME NEW n \in 1 .. 4
        PROVE  /\ DOMAIN part(n) = KeyFields /\ part(n).comms = {} /\ part(n).meta # {}
               /\ part(n).data \in {{}, {data}}
    <3>1. stored[1] = "meta" /\ 1 \in 1 .. n
      OBVIOUS
    <3>2. \A i \in 1 .. n : stored[i] # "comms"
      OBVIOUS
    <3> HIDE DEF stored
    <3> QED BY <1>3, <2>3, <3>1, <3>2 DEF KeyFields
  <2>5. CASE keys' = [keys EXCEPT ![p] = entry]
    BY <2>2, <2>3, <2>5
  <2>6. ASSUME NEW n \in 1 .. 4, keys' = [keys EXCEPT ![p] = part(n)]
        PROVE  \E e : /\ keys' = [keys EXCEPT ![p] = e]
                      /\ DOMAIN e = KeyFields /\ e.comms = {} /\ e.meta # {}
                      /\ \A d \in e.data : DOMAIN d = DataFields /\ d.k = <<p, life[p] + 1>>
    <3> HIDE DEF part
    <3> QED BY <2>2, <2>4, <2>6
  <2> QED BY <2>1, <2>5, <2>6
<1>5. /\ DOMAIN keys' = AllPlayers /\ keys'[p] = e
      /\ \A q \in AllPlayers : q # p => keys'[q] = keys[q]
  BY <1>4 DEF SetupInv, KeysKept
<1>6. \A a \in answered : a.k # <<p, life[p] + 1>>
  BY DEF SetupInv, AnsweredOfLives
<1>7. KeysKept'
  <2>1. ASSUME NEW q \in AllPlayers
        PROVE  KeyWellFormed(q, life'[q], keys'[q]) /\ AnsweredAsStored(q, keys'[q], answered')
    <3>1. CASE q = p
      <4>1. KeyWellFormed(p, life[p] + 1, e)
        BY <1>4 DEF KeyWellFormed
      <4>2. AnsweredAsStored(p, e, answered)
        BY <1>4, <1>6 DEF AnsweredAsStored
      <4> QED BY <1>1, <1>2, <1>5, <3>1, <4>1, <4>2
    <3>2. CASE q # p BY <1>1, <1>2, <1>5, <3>2 DEF SetupInv, KeysKept
    <3> QED BY <3>1, <3>2
  <2> QED BY <1>5, <2>1 DEF KeysKept
<1>8. AnsweredOfLives'
  BY <1>1, <1>2 DEF SetupInv, AnsweredOfLives
<1> QED BY <1>1, <1>2, <1>7, <1>8 DEF SetupInv, SetupNonceOnce

\* The commitments are stored once in a life, so before any answer of it.
LEMMA StoreCommitmentsKeepsSetup ==
    ASSUME SetupInv, NEW p \in AllPlayers, StoreSetupCommitments(p)
    PROVE  SetupInv'
<1>1. PICK batch : /\ keys[p].comms = {} /\ keys[p].data # {}
                   /\ Stores(p, [keys[p] EXCEPT !.comms = {batch}])
  BY DEF StoreSetupCommitments, CommitmentsStorable, Store, Stores
<1> DEFINE e == [keys[p] EXCEPT !.comms = {batch}]
<1>2. KeyWellFormed(p, life[p], keys[p]) /\ AnsweredAsStored(p, keys[p], answered)
  BY DEF SetupInv, KeysKept
<1>3. /\ DOMAIN e = KeyFields /\ e.meta = keys[p].meta /\ e.data = keys[p].data
      /\ e.comms = {batch}
  BY <1>2 DEF KeyWellFormed, KeyFields
<1>4. Stores(p, e)
  BY <1>1
<1> HIDE DEF e
<1>5. KeyWellFormed(p, life[p], e)
  BY <1>1, <1>2, <1>3 DEF KeyWellFormed
<1>6. AnsweredAsStored(p, e, answered)
  BY <1>1, <1>2, <1>3 DEF AnsweredAsStored
<1> QED BY <1>4, <1>5, <1>6, StoringKeepsSetup

\* The seed is that of the commitments, which every decommitment opens.
LEMMA SetupProofsKeepSetup ==
    ASSUME SetupInv, NEW p \in AllPlayers, GenerateSetupProofs(p)
    PROVE  SetupInv'
<1>0. KeyWellFormed(p, life[p], keys[p]) /\ AnsweredAsStored(p, keys[p], answered)
  BY DEF SetupInv, KeysKept
<1>1. PICK mt \in keys[p].meta, comms \in keys[p].comms, data \in keys[p].data,
           aux \in keys[p].aux, batch \in BatchesTo(p, "decommitment") :
        AnswerDecommitments(p, mt, comms, data, aux, batch)
  BY DEF GenerateSetupProofs
<1> DEFINE seed == {batch[q].open.seed : q \in Peers(p)}
           aad == SetupAad(p, seed)
           d == [data EXCEPT !.Rs = [q \in Peers(p) |-> batch[q].open.R]]
           entry == [keys[p] EXCEPT !.data = {d}]
           m == [mt EXCEPT !.seed = seed,
                             !.info = [q \in Peers(p) |-> [X |-> batch[q].open.X, aux |-> batch[q].open.aux]]]
           whole == [entry EXCEPT !.meta = {m}]
           a == [k |-> data.k, challenge |-> <<aad, data.X>>]
<1>2. life' = life
  BY DEF GenerateSetupProofs
<1>3. /\ \A q \in Peers(p) : Commit(q, batch[q].open) = comms[q]
      /\ \/ Store(p, whole) /\ answered' = answered \cup {a}
         \/ \E e \in {entry, whole} : Store(p, e) /\ answered' = answered
  BY <1>1 DEF AnswerDecommitments
<1>4. aad = SetupAad(p, {comms[q].seed : q \in Peers(p)})
  <2>1. \A q \in Peers(p) : comms[q].seed = batch[q].open.seed
    <3> TAKE q \in Peers(p)
    <3>1. Commit(q, batch[q].open) = comms[q]
      BY <1>3
    <3>2. Commit(q, batch[q].open).seed = batch[q].open.seed
      BY DEF Commit
    <3> QED BY <3>1, <3>2
  <2>2. seed = {comms[q].seed : q \in Peers(p)}
    BY <2>1
  <2> QED BY <2>2
<1>5. a.k = data.k /\ a.challenge = FixedChallenge(p, comms, data.X)
  BY <1>4 DEF FixedChallenge
<1>6. /\ DOMAIN d = DataFields /\ d.k = data.k /\ d.X = data.X /\ data.k = <<p, life[p]>>
  BY <1>0 DEF KeyWellFormed, DataFields
<1> HIDE DEF m, d, a, aad, seed
<1>7. /\ DOMAIN entry = KeyFields /\ entry.data = {d} /\ entry.comms = keys[p].comms
      /\ entry.meta = keys[p].meta
  BY <1>0 DEF KeyWellFormed, KeyFields
<1> HIDE DEF entry
<1>8. /\ DOMAIN whole = KeyFields /\ whole.data = {d} /\ whole.comms = keys[p].comms
      /\ whole.meta = {m}
  BY <1>7 DEF KeyFields
<1> HIDE DEF whole
<1>9. ASSUME NEW e \in {entry, whole}
      PROVE  KeyWellFormed(p, life[p], e) /\ AnsweredAsStored(p, e, answered)
  <2>1. DOMAIN e = KeyFields /\ e.data = {d} /\ e.comms = keys[p].comms /\ e.meta # {}
    BY <1>1, <1>7, <1>8
  <2>2. KeyWellFormed(p, life[p], e)
    BY <1>0, <1>6, <2>1 DEF KeyWellFormed
  <2>3. AnsweredAsStored(p, e, answered)
    BY <1>0, <1>1, <1>6, <2>1 DEF AnsweredAsStored
  <2> QED BY <2>2, <2>3
<1>10. CASE \E e \in {entry, whole} : Store(p, e) /\ answered' = answered
  <2>1. PICK e \in {entry, whole} : Stores(p, e)
    BY <1>2, <1>10 DEF Store, Stores
  <2> QED BY <1>9, <2>1, StoringKeepsSetup
<1>11. CASE Store(p, whole) /\ answered' = answered \cup {a}
  <2>1. /\ DOMAIN keys' = AllPlayers /\ keys'[p] = whole
        /\ \A q \in AllPlayers : q # p => keys'[q] = keys[q]
    BY <1>11 DEF Store, SetupInv, KeysKept
  <2>2. answered' = answered \cup {a} /\ a.k = <<p, life[p]>> /\ life[p] \in Nat
    BY <1>5, <1>6, <1>11 DEF SetupInv
  <2>3. \A b \in answered : b.k = a.k => b.challenge = a.challenge
    BY <1>0, <1>1, <1>5 DEF AnsweredAsStored
  <2>4. AnsweredAsStored(p, whole, {a})
    <3>1. \A c \in whole.comms : c = comms
      BY <1>0, <1>1, <1>8 DEF KeyWellFormed
    <3> QED BY <1>1, <1>5, <1>6, <1>8, <3>1 DEF AnsweredAsStored
  <2>5. KeysKept'
    <3>1. ASSUME NEW q \in AllPlayers
          PROVE  KeyWellFormed(q, life'[q], keys'[q]) /\ AnsweredAsStored(q, keys'[q], answered')
      <4>1. CASE q = p
        <5>1. AnsweredAsStored(p, whole, answered \cup {a})
          BY <1>9, <2>4 DEF AnsweredAsStored
        <5> QED BY <1>2, <1>9, <2>1, <2>2, <4>1, <5>1
      <4>2. CASE q # p
        <5>1. KeyWellFormed(q, life[q], keys[q]) /\ AnsweredAsStored(q, keys[q], answered)
          BY DEF SetupInv, KeysKept
        <5>2. \A b \in keys[q].data : a.k # b.k
          BY <2>2, <4>2, <5>1 DEF KeyWellFormed
        <5>3. AnsweredAsStored(q, keys[q], answered \cup {a})
          BY <5>1, <5>2 DEF AnsweredAsStored
        <5> QED BY <1>2, <2>1, <2>2, <4>2, <5>1, <5>3
      <4> QED BY <4>1, <4>2
    <3> QED BY <2>1, <3>1 DEF KeysKept
  <2>6. SetupNonceOnce'
    BY <2>2, <2>3 DEF SetupInv, SetupNonceOnce
  <2>7. AnsweredOfLives'
    BY <1>2, <2>2 DEF SetupInv, AnsweredOfLives
  <2> QED BY <1>2, <2>5, <2>6, <2>7 DEF SetupInv
<1> QED BY <1>3, <1>10, <1>11

LEMMA VerifyProofsKeepsSetup ==
    ASSUME SetupInv, NEW p \in AllPlayers, VerifySetupProofs(p)
    PROVE  SetupInv'
<1>1. PICK m : Stores(p, [keys[p] EXCEPT !.meta = {m}])
  BY DEF VerifySetupProofs, Store, Stores
<1> DEFINE e == [keys[p] EXCEPT !.meta = {m}]
<1>2. KeyWellFormed(p, life[p], keys[p]) /\ AnsweredAsStored(p, keys[p], answered)
  BY DEF SetupInv, KeysKept
<1>3. /\ DOMAIN e = KeyFields /\ e.meta = {m} /\ e.data = keys[p].data
      /\ e.comms = keys[p].comms
  BY <1>2 DEF KeyWellFormed, KeyFields
<1>4. Stores(p, e)
  BY <1>1
<1> HIDE DEF e
<1>5. KeyWellFormed(p, life[p], e) /\ AnsweredAsStored(p, e, answered)
  BY <1>2, <1>3 DEF KeyWellFormed, AnsweredAsStored
<1> QED BY <1>4, <1>5, StoringKeepsSetup

\* The data are deleted with the commitments, also when the whole key is.
LEMMA CreateSecretKeepsSetup ==
    ASSUME SetupInv, NEW p \in AllPlayers, CreateSecret(p)
    PROVE  SetupInv'
<1> DEFINE e == [keys[p] EXCEPT !.data = {}, !.comms = {}]
<1>1. PICK s \in {e, NoKey} : Stores(p, s)
  BY DEF CreateSecret, Store, Stores
<1>2. DOMAIN keys[p] = KeyFields
  BY DEF SetupInv, KeysKept, KeyWellFormed
<1>3. DOMAIN e = KeyFields /\ e.data = {} /\ e.comms = {}
  BY <1>2 DEF KeyFields
<1>4. DOMAIN NoKey = KeyFields /\ NoKey.data = {} /\ NoKey.comms = {}
  BY DEF NoKey, KeyFields
<1> HIDE DEF e
<1>5. KeyWellFormed(p, life[p], s) /\ AnsweredAsStored(p, s, answered)
  BY <1>3, <1>4 DEF KeyWellFormed, AnsweredAsStored
<1> QED BY <1>1, <1>5, StoringKeepsSetup

\* Whoever moves, and whatever the bounds on lives and requests.
LEMMA SetupStepKeepsSetup ==
    ASSUME SetupInv, NEW p \in AllPlayers, NEW players, NEW maxLives, NEW maxRequests,
           SetupStep(p, players, maxLives, maxRequests)
    PROVE  SetupInv'
<1>1. CASE \E x, pub : MakeKey(p, x, pub)
  BY <1>1, MakeKeyKeepsSetup
<1>2. CASE StoreSetupCommitments(p) \/ GenerateSetupProofs(p) \/ VerifySetupProofs(p) \/ CreateSecret(p)
  BY <1>2, StoreCommitmentsKeepsSetup, SetupProofsKeepSetup, VerifyProofsKeepsSetup,
     CreateSecretKeepsSetup
<1>3. CASE \E n \in 1 .. maxRequests : AddUserRequest(p, n)
  <2>1. setupVars' = setupVars
    BY <1>3 DEF AddUserRequest
  <2> QED BY <2>1 DEF setupVars, SetupInv, KeysKept, AnsweredOfLives, SetupNonceOnce
<1> QED BY <1>1, <1>2, <1>3 DEF SetupStep, GenerateSetupCommitments, AddUser

LEMMA SetupInitInv ==
    ASSUME NEW made, SetupInit(made)
    PROVE  SetupInv
<1>1. ASSUME NEW p \in AllPlayers
      PROVE  DOMAIN keys[p] = KeyFields /\ keys[p].data = {} /\ keys[p].comms = {}
  BY DEF SetupInit, NoKey, KeyFields, AllPlayers
<1>2. KeysKept
  BY <1>1 DEF SetupInit, KeysKept, KeyWellFormed, AnsweredAsStored, AllPlayers
<1> QED BY <1>2 DEF SetupInit, SetupInv, AnsweredOfLives, SetupNonceOnce, AllPlayers

LEMMA SetupNext ==
    ASSUME SetupInv, [Next]_allVars
    PROVE  SetupInv'
<1>1. ASSUME NEW p \in AllPlayers, Setup(p) PROVE SetupInv'
  BY <1>1, SetupStepKeepsSetup DEF Setup
<1>2. ASSUME UNCHANGED setupVars PROVE SetupInv'
  BY <1>2 DEF setupVars, SetupInv, KeysKept, AnsweredOfLives, SetupNonceOnce
<1> QED BY <1>1, <1>2 DEF Next, Step, allVars, AllPlayers

\* A nonce of the setup's Schnorr proof answers one challenge, however often
\* rounds are repeated with other messages, answers lost and keys begun again.
THEOREM SetupNonces == Spec => []SetupNonceOnce
<1>1. Init => SetupInv
  BY SetupInitInv DEF Init
<1>2. SetupInv => SetupNonceOnce
  BY DEF SetupInv
<1> QED BY <1>1, <1>2, SetupNext, PTL DEF Spec

-----------------------------------------------------------------------------
\* Presignatures.  What player p holds at index i under the name id: as data
\* of a request, as a presignature, or as one a refresh has put aside.

HasName(d, id) == "id" \in DOMAIN d /\ d.id = id

HoldsAt(p, i, id) ==
    \/ \E r \in DOMAIN work[p] : i \in Span(r) /\ work[p][r][i].id = id
    \/ i \in DOMAIN pre[p] /\ pre[p][i].id = id
    \/ \E store \in tempPre[p] : i \in DOMAIN store /\ store[i].id = id

Tables ==
    /\ DOMAIN drawn = Players /\ \A p \in Players : drawn[p] \in Int
    /\ DOMAIN work = Players /\ DOMAIN meta = Players
    /\ DOMAIN pre = Players /\ DOMAIN tempPre = Players
    /\ \A p \in Players : DOMAIN work[p] = DOMAIN meta[p]

\* Everything held has a name.
Named ==
    \A p \in Players :
        /\ \A r \in DOMAIN work[p] : \A i \in Span(r) : "id" \in DOMAIN work[p][r][i]
        /\ \A i \in DOMAIN pre[p] : "id" \in DOMAIN pre[p][i]
        /\ \A store \in tempPre[p] : \A i \in DOMAIN store : "id" \in DOMAIN store[i]

\* A name is held at one index, wherever it is held,
OneIndex ==
    \A p \in Players : \A i, j, id : HoldsAt(p, i, id) /\ HoldsAt(p, j, id) => i = j

\* and was drawn by the player.
NamesDrawn ==
    \A p \in Players : \A i, id : HoldsAt(p, i, id) =>
        \E n \in Int : n <= drawn[p] /\ id = <<p, n>>

\* A presignature in the store that was used before was put back.
SpentInStore ==
    \A p \in Players : \A i \in DOMAIN pre[p] :
        <<p, pre[p][i].id>> \in spent => <<p, pre[p][i].id>> \in restored

UsesSpent == \A u \in uses : <<u.player, u.id>> \in spent

Held == OneIndex /\ NamesDrawn
PreInv == Tables /\ Named /\ Held /\ SpentInStore /\ UsesSpent /\ PresignatureOnce

LEMMA NoNewNames ==
    ASSUME PreInv, Tables', Named', SpentInStore',
           \A p \in Players : drawn[p] <= drawn'[p],
           \A p \in Players : \A i, id : HoldsAt(p, i, id)' => HoldsAt(p, i, id),
           uses' = uses, spent' = spent, restored \subseteq restored'
    PROVE  PreInv'
<1>1. OneIndex'
  BY DEF PreInv, Held, OneIndex
<1>2. NamesDrawn'
  <2> SUFFICES ASSUME NEW p \in Players, NEW i, NEW id, HoldsAt(p, i, id)'
               PROVE  \E n \in Int : n <= drawn'[p] /\ id = <<p, n>>
    BY DEF NamesDrawn
  <2>1. PICK n \in Int : n <= drawn[p] /\ id = <<p, n>>
    BY DEF PreInv, Held, NamesDrawn
  <2>2. drawn[p] \in Int /\ drawn'[p] \in Int /\ drawn[p] <= drawn'[p]
    BY DEF PreInv, Tables
  <2>3. n <= drawn'[p]
    BY <2>1, <2>2
  <2> QED BY <2>1, <2>3
<1>3. UsesSpent' /\ PresignatureOnce'
  BY DEF PreInv, UsesSpent, PresignatureOnce
<1> QED BY <1>1, <1>2, <1>3 DEF PreInv, Held

\* A step that touches nothing but the number of secrets drawn.
LEMMA PreUntouched ==
    ASSUME PreInv, Tables', \A p \in Players : drawn[p] <= drawn'[p],
           UNCHANGED <<work, pre, tempPre, uses, spent, restored>>
    PROVE  PreInv'
<1>1. \A p \in Players : \A i, id : HoldsAt(p, i, id)' => HoldsAt(p, i, id)
  BY DEF HoldsAt
<1>2. Named' /\ SpentInStore'
  BY DEF PreInv, Named, SpentInStore
<1> QED BY <1>1, <1>2, NoNewNames

\* The steps that replace the data of one request by others of the same names.
Renews(p, r, data) ==
    /\ r \in DOMAIN work[p]
    /\ work' = [work EXCEPT ![p][r] = data]
    /\ \A i \in Span(r) : "id" \in DOMAIN data[i] /\ data[i].id = work[p][r][i].id

LEMMA RenewKeepsPre ==
    ASSUME PreInv, NEW p \in Players, NEW r, NEW data, Renews(p, r, data),
           DOMAIN meta' = Players, \A q \in Players : DOMAIN meta'[q] = DOMAIN meta[q],
           UNCHANGED <<drawn, pre, tempPre, uses, spent, restored>>
    PROVE  PreInv'
<1>1. /\ DOMAIN work' = Players
      /\ \A q \in Players : q # p => work'[q] = work[q]
      /\ DOMAIN work'[p] = DOMAIN work[p] /\ work'[p][r] = data
      /\ \A o \in DOMAIN work[p] : o # r => work'[p][o] = work[p][o]
  BY DEF Renews, PreInv, Tables
<1>2. Tables'
  BY <1>1 DEF PreInv, Tables
<1>3. \A q \in Players : \A o \in DOMAIN work'[q] : \A i \in Span(o) :
            /\ "id" \in DOMAIN work'[q][o][i]
            /\ o \in DOMAIN work[q] /\ work'[q][o][i].id = work[q][o][i].id
  BY <1>1 DEF Renews, PreInv, Named
<1>4. Named' /\ SpentInStore'
  BY <1>3 DEF PreInv, Named, SpentInStore
<1>5. \A q \in Players : \A i, id : HoldsAt(q, i, id)' => HoldsAt(q, i, id)
  BY <1>3 DEF HoldsAt
<1>6. \A q \in Players : drawn[q] <= drawn'[q]
  BY DEF PreInv, Tables
<1> QED BY <1>2, <1>4, <1>5, <1>6, NoNewNames

-----------------------------------------------------------------------------
\* The steps of the offline service

LEMMA StartKeepsPre ==
    ASSUME PreInv, NEW p \in Players, NEW r \in Reqs, StartPreprocessing(p, r),
           tempPre' = tempPre
    PROVE  PreInv'
<1> DEFINE data == [i \in Span(r) |-> NewData(p, drawn[p] + 1 + i - First(r))]
           name(i) == <<p, drawn[p] + 1 + i - First(r)>>
<1>1. /\ r \notin DOMAIN meta[p]
      /\ work' = [work EXCEPT ![p] = Put(@, r, data)]
      /\ meta' = [meta EXCEPT ![p] = Put(@, r, NoAck)]
      /\ drawn' = [drawn EXCEPT ![p] = @ + Count(r)]
      /\ UNCHANGED <<pre, uses, spent, restored>>
  BY DEF StartPreprocessing, useVars
<1>2. First(r) \in Nat /\ Count(r) \in Nat /\ drawn[p] \in Int
  BY OfflineAssumption DEF PreInv, Tables
<1>3. \A i \in Span(r) : data[i].id = name(i) /\ "id" \in DOMAIN data[i]
  BY DEF NewData
<1> HIDE DEF data, name
<1>4. /\ DOMAIN work' = Players
      /\ \A q \in Players : q # p => work'[q] = work[q]
      /\ DOMAIN work'[p] = DOMAIN work[p] \cup {r} /\ work'[p][r] = data
      /\ \A o \in DOMAIN work[p] : o # r => work'[p][o] = work[p][o]
  BY <1>1 DEF Put, PreInv, Tables
<1>5. /\ DOMAIN meta' = Players
      /\ \A q \in Players : q # p => meta'[q] = meta[q]
      /\ DOMAIN meta'[p] = DOMAIN meta[p] \cup {r}
  BY <1>1 DEF Put, PreInv, Tables
<1>6. r \notin DOMAIN work[p]
  BY <1>1 DEF PreInv, Tables
<1>7. /\ DOMAIN drawn' = Players /\ drawn'[p] = drawn[p] + Count(r)
      /\ \A q \in Players : q # p => drawn'[q] = drawn[q]
  BY <1>1 DEF PreInv, Tables
<1>8. Tables'
  BY <1>1, <1>2, <1>4, <1>5, <1>7 DEF PreInv, Tables
<1>a. \A q \in Players : \A o \in DOMAIN work'[q] :
            \/ o \in DOMAIN work[q] /\ work'[q][o] = work[q][o]
            \/ q = p /\ o = r /\ work'[q][o] = data
  BY <1>4
<1>9. Named' /\ SpentInStore'
  <2>1. \A q \in Players : \A o \in DOMAIN work'[q] : \A i \in Span(o) : "id" \in DOMAIN work'[q][o][i]
    BY <1>3, <1>a DEF PreInv, Named
  <2>2. Named'
    BY <1>1, <2>1 DEF PreInv, Named
  <2>3. SpentInStore'
    BY <1>1 DEF PreInv, SpentInStore
  <2> QED BY <2>2, <2>3
<1>10. ASSUME NEW q \in Players, NEW i, NEW id, HoldsAt(q, i, id)', ~HoldsAt(q, i, id)
       PROVE  q = p /\ i \in Span(r) /\ id = <<p, drawn[p] + 1 + i - First(r)>>
  <2>1. PICK o \in DOMAIN work'[q] : i \in Span(o) /\ work'[q][o][i].id = id
    BY <1>1, <1>10 DEF HoldsAt
  <2>2. q = p /\ o = r /\ work'[q][o] = data
    BY <1>10, <1>a, <2>1 DEF HoldsAt
  <2> QED BY <1>3, <2>1, <2>2 DEF name
<1>11. \A i \in Span(r) : /\ i \in Int
                          /\ drawn[p] < drawn[p] + 1 + i - First(r)
                          /\ drawn[p] + 1 + i - First(r) <= drawn[p] + Count(r)
  BY <1>2 DEF Span
<1>12. \A i, id : HoldsAt(p, i, id) => \E n \in Int : n <= drawn[p] /\ id = <<p, n>>
  BY DEF PreInv, Held, NamesDrawn
<1>13. OneIndex'
  <2> SUFFICES ASSUME NEW q \in Players, NEW i, NEW j, NEW id,
                      HoldsAt(q, i, id)', HoldsAt(q, j, id)'
               PROVE  i = j
    BY DEF OneIndex
  <2>1. CASE HoldsAt(q, i, id) /\ HoldsAt(q, j, id)
    BY <2>1 DEF PreInv, Held, OneIndex
  <2>2. CASE ~HoldsAt(q, i, id) /\ ~HoldsAt(q, j, id)
    BY <1>2, <1>10, <1>11, <2>2
  <2>3. CASE ~HoldsAt(q, i, id) /\ HoldsAt(q, j, id)
    BY <1>2, <1>10, <1>11, <1>12, <2>3
  <2>4. CASE HoldsAt(q, i, id) /\ ~HoldsAt(q, j, id)
    BY <1>2, <1>10, <1>11, <1>12, <2>4
  <2> QED BY <2>1, <2>2, <2>3, <2>4
<1>14. NamesDrawn'
  <2> SUFFICES ASSUME NEW q \in Players, NEW i, NEW id, HoldsAt(q, i, id)'
               PROVE  \E n \in Int : n <= drawn'[q] /\ id = <<q, n>>
    BY DEF NamesDrawn
  <2>1. CASE HoldsAt(q, i, id)
    <3>1. PICK n \in Int : n <= drawn[q] /\ id = <<q, n>>
      BY <2>1 DEF PreInv, Held, NamesDrawn
    <3>2. drawn[q] \in Int /\ drawn'[q] \in Int /\ drawn[q] <= drawn'[q]
      BY <1>2, <1>7 DEF PreInv, Tables
    <3> QED BY <3>1, <3>2
  <2>2. CASE ~HoldsAt(q, i, id)
    <3>1. q = p /\ i \in Span(r) /\ id = <<p, drawn[p] + 1 + i - First(r)>>
      BY <1>10, <2>2
    <3> QED BY <1>2, <1>7, <1>11, <3>1
  <2> QED BY <2>1, <2>2
<1>15. UsesSpent' /\ PresignatureOnce'
  BY <1>1 DEF PreInv, UsesSpent, PresignatureOnce
<1> QED BY <1>8, <1>9, <1>13, <1>14, <1>15 DEF PreInv, Held

\* The handlers and a refresh change values, never a name.
LEMMA NamesStay ==
    ASSUME NEW data, "id" \in DOMAIN data
    PROVE  /\ \A requests, i, e : HasName(Responded(data, requests, i, e), data.id)
           /\ \A responses, i : HasName(Verified(data, responses, i), data.id)
           /\ \A i, p, r, set, x, y : HasName(Transform(data, i, p, r, set, x, y), data.id)
  BY DEF HasName, Responded, Verified, VerifiedDropsChi, Transform

LEMMA MtaResponseKeepsPre ==
    ASSUME PreInv, NEW p \in Players, NEW r, OfflineMtaResponse(p, r), tempPre' = tempPre
    PROVE  PreInv'
<1>1. /\ DOMAIN meta' = Players /\ \A q \in Players : DOMAIN meta'[q] = DOMAIN meta[q]
      /\ r \in DOMAIN work[p] /\ DOMAIN work = Players
      /\ \A i \in Span(r) : "id" \in DOMAIN work[p][r][i]
      /\ UNCHANGED <<drawn, pre, uses, spent, restored>>
  <2>1. PICK requests, j : RespondToRequests(p, r, requests, j)
    BY DEF OfflineMtaResponse
  <2>2. meta' = [meta EXCEPT ![p][r] = Ack(requests)]
    BY <2>1 DEF RespondToRequests
  <2> QED BY <2>2 DEF OfflineMtaResponse, PreInv, Tables, Named, useVars
<1>a. PICK requests, j : RespondToRequests(p, r, requests, j)
  BY DEF OfflineMtaResponse
<1> DEFINE data == [i \in Span(r) |-> IF Covered(r, j, i)
                        THEN Responded(work[p][r][i], requests, i, epoch[p]) ELSE work[p][r][i]]
<1>2. work' = [work EXCEPT ![p][r] = data] \/ work' = work
  BY <1>a DEF RespondToRequests
<1>3. CASE work' = work
  <2>1. /\ Tables' /\ \A q \in Players : drawn[q] <= drawn'[q]
    BY <1>1, <1>3 DEF PreInv, Tables
  <2> QED BY <1>1, <1>3, <2>1, PreUntouched
<1>4. CASE work' = [work EXCEPT ![p][r] = data]
  <2>1. \A i \in Span(r) : "id" \in DOMAIN data[i] /\ data[i].id = work[p][r][i].id
    BY <1>1, NamesStay DEF HasName
  <2> HIDE DEF data
  <2>2. Renews(p, r, data)
    BY <1>1, <1>4, <2>1 DEF Renews
  <2> QED BY <1>1, <2>2, RenewKeepsPre
<1> QED BY <1>1, <1>2, <1>3, <1>4

LEMMA MtaVerifyKeepsPre ==
    ASSUME PreInv, NEW p \in Players, NEW r, OfflineMtaVerify(p, r), tempPre' = tempPre
    PROVE  PreInv'
<1>1. /\ DOMAIN meta' = Players /\ \A q \in Players : DOMAIN meta'[q] = DOMAIN meta[q]
      /\ r \in DOMAIN work[p] /\ DOMAIN work = Players
      /\ \A i \in Span(r) : "id" \in DOMAIN work[p][r][i]
      /\ UNCHANGED <<drawn, pre, uses, spent, restored>>
  BY DEF OfflineMtaVerify, PreInv, Tables, Named, useVars
<1>2. PICK responses, j : VerifyResponses(p, r, responses, j)
  BY DEF OfflineMtaVerify
<1> DEFINE data == [i \in Span(r) |-> IF Covered(r, j, i)
                        THEN Verified(work[p][r][i], responses, i) ELSE work[p][r][i]]
<1>3. \A i \in Span(r) : "id" \in DOMAIN data[i] /\ data[i].id = work[p][r][i].id
  BY <1>1, NamesStay DEF HasName
<1>4. work' = [work EXCEPT ![p][r] = data]
  BY <1>2 DEF VerifyResponses
<1> HIDE DEF data
<1>5. Renews(p, r, data)
  BY <1>1, <1>3, <1>4 DEF Renews
<1> QED BY <1>1, <1>5, RenewKeepsPre

\* The end of a request, or its cancellation.
LEMMA ForgettingKeepsPre ==
    ASSUME PreInv, NEW p \in Players, NEW r, CancelPreprocessing(p, r), tempPre' = tempPre
    PROVE  PreInv'
<1>1. /\ work' = [work EXCEPT ![p] = Without(@, {r})]
      /\ meta' = [meta EXCEPT ![p] = Without(@, {r})]
      /\ UNCHANGED <<drawn, pre, uses, spent, restored>>
  BY DEF CancelPreprocessing, useVars
<1>2. /\ DOMAIN work' = Players
      /\ \A q \in Players : \A o \in DOMAIN work'[q] : o \in DOMAIN work[q] /\ work'[q][o] = work[q][o]
  BY <1>1 DEF Without, PreInv, Tables
<1>3. Tables'
  BY <1>1 DEF Without, PreInv, Tables
<1>a. UNCHANGED <<drawn, pre, tempPre, uses, spent, restored>>
  BY <1>1
<1>4. Named' /\ SpentInStore'
  <2>1. \A q \in Players : \A o \in DOMAIN work'[q] : \A i \in Span(o) : "id" \in DOMAIN work'[q][o][i]
    BY <1>2 DEF PreInv, Named
  <2> QED BY <1>a, <2>1 DEF PreInv, Named, SpentInStore
<1>5. \A q \in Players : \A i, id : HoldsAt(q, i, id)' => HoldsAt(q, i, id)
  <2> TAKE q \in Players
  <2> QED BY <1>a, <1>2 DEF HoldsAt
<1>6. \A q \in Players : drawn[q] <= drawn'[q]
  BY <1>1 DEF PreInv, Tables
<1> QED BY <1>1, <1>3, <1>4, <1>5, <1>6, NoNewNames

\* A presignature that is stored again after its use is recorded as put back.
LEMMA StoreKeepsPre ==
    ASSUME PreInv, NEW p \in Players, NEW r, StorePresigningData(p, r), tempPre' = tempPre
    PROVE  PreInv'
<1>1. PICK deltas, j : StoreDeltas(p, r, deltas, j)
  BY DEF StorePresigningData
<1>2. /\ r \in DOMAIN work[p]
      /\ UNCHANGED <<drawn, tempPre, uses, spent>>
  BY DEF StorePresigningData, PreInv, Tables
<1> DEFINE stored == {i \in Span(r) : Covered(r, j, i)}
           New(i) == Presignature(work[p][r][i], deltas, i)
           ids == {work[p][r][i].id : i \in stored}
<1>3. /\ pre' = [pre EXCEPT ![p] = [i \in stored \cup DOMAIN @ |-> IF i \in stored THEN New(i) ELSE @[i]]]
      /\ Restore(p, ids)
      /\ \/ /\ meta' = [meta EXCEPT ![p] = Without(@, {r})]
            /\ work' = [work EXCEPT ![p] = Without(@, {r})]
         \/ UNCHANGED <<meta, work>>
  BY <1>1 DEF StoreDeltas
<1>4. \A i \in stored : "id" \in DOMAIN New(i) /\ New(i).id = work[p][r][i].id /\ i \in Span(r)
  BY DEF Presignature
<1>5. restored' = restored \cup ({<<p, id>> : id \in ids} \cap spent)
  BY <1>3 DEF Restore
<1>6. \A i \in stored : <<p, New(i).id>> \in spent => <<p, New(i).id>> \in restored'
  BY <1>4, <1>5
<1> HIDE DEF New, ids
<1>7. /\ DOMAIN pre' = Players
      /\ \A q \in Players : q # p => pre'[q] = pre[q]
      /\ pre'[p] = [i \in stored \cup DOMAIN pre[p] |-> IF i \in stored THEN New(i) ELSE pre[p][i]]
  BY <1>3 DEF PreInv, Tables
<1> HIDE DEF stored
<1>8. \A q \in Players : \A i \in DOMAIN pre'[q] :
        \/ i \in DOMAIN pre[q] /\ pre'[q][i] = pre[q][i]
        \/ q = p /\ i \in stored /\ pre'[q][i] = New(i)
  <2> TAKE q \in Players
  <2>1. CASE q = p BY <1>7, <2>1
  <2>2. CASE q # p BY <1>7, <2>2
  <2> QED BY <2>1, <2>2
<1>9. \A q \in Players : \A o \in DOMAIN work'[q] : o \in DOMAIN work[q] /\ work'[q][o] = work[q][o]
  BY <1>3 DEF Without, PreInv, Tables
<1>10. Tables'
  BY <1>2, <1>3, <1>7 DEF Without, PreInv, Tables
<1>11. Named'
  <2>1. \A q \in Players : \A o \in DOMAIN work'[q] : \A i \in Span(o) : "id" \in DOMAIN work'[q][o][i]
    BY <1>9 DEF PreInv, Named
  <2>2. \A q \in Players : \A i \in DOMAIN pre'[q] : "id" \in DOMAIN pre'[q][i]
    BY <1>4, <1>8 DEF PreInv, Named
  <2> QED BY <1>2, <2>1, <2>2 DEF PreInv, Named
<1>12. restored \subseteq restored'
  BY <1>5
<1>13. SpentInStore'
  <2> SUFFICES ASSUME NEW q \in Players, NEW i \in DOMAIN pre'[q], <<q, pre'[q][i].id>> \in spent
               PROVE  <<q, pre'[q][i].id>> \in restored'
    BY <1>2 DEF SpentInStore
  <2>1. CASE i \in DOMAIN pre[q] /\ pre'[q][i] = pre[q][i]
    BY <1>12, <2>1 DEF PreInv, SpentInStore
  <2>2. CASE q = p /\ i \in stored /\ pre'[q][i] = New(i)
    BY <1>6, <2>2
  <2> QED BY <1>8, <2>1, <2>2
<1>14. ASSUME NEW q \in Players, NEW i, NEW id, HoldsAt(q, i, id)'
       PROVE  HoldsAt(q, i, id)
  <2>1. CASE i \in DOMAIN pre'[q] /\ pre'[q][i].id = id
    BY <1>2, <1>4, <1>8, <2>1 DEF HoldsAt
  <2>2. CASE ~(i \in DOMAIN pre'[q] /\ pre'[q][i].id = id)
    BY <1>2, <1>9, <1>14, <2>2 DEF HoldsAt
  <2> QED BY <2>1, <2>2
<1>15. \A q \in Players : drawn[q] <= drawn'[q]
  BY <1>2 DEF PreInv, Tables
<1> QED BY <1>2, <1>10, <1>11, <1>12, <1>13, <1>14, <1>15, NoNewNames

\* A presignature is deleted when it is loaded, and held nowhere else in the
\* store; one used before was put back.
LEMMA SignKeepsPre ==
    ASSUME PreInv, NEW p \in Players, NEW tx, NEW i, EcdsaSign(p, tx, i), tempPre' = tempPre
    PROVE  PreInv'
<1> DEFINE id == pre[p][i].id
           use == [player |-> p, id |-> id, tx |-> tx]
<1>1. /\ i \in DOMAIN pre[p]
      /\ pre' = [pre EXCEPT ![p] = Without(@, {i})]
      /\ uses' = uses \cup {use} /\ spent' = spent \cup {<<p, id>>}
      /\ UNCHANGED <<drawn, meta, work, tempPre, restored>>
  BY DEF EcdsaSign, Consume, offlineVars
<1>a. use.player = p /\ use.id = id
  OBVIOUS
<1> HIDE DEF id, use
<1>2. /\ DOMAIN pre' = Players
      /\ \A q \in Players : q # p => pre'[q] = pre[q]
      /\ DOMAIN pre'[p] = DOMAIN pre[p] \ {i}
      /\ \A j \in DOMAIN pre'[p] : pre'[p][j] = pre[p][j]
  BY <1>1 DEF Without, PreInv, Tables
<1>3. \A q \in Players : \A j \in DOMAIN pre'[q] :
        j \in DOMAIN pre[q] /\ pre'[q][j] = pre[q][j] /\ ~(q = p /\ j = i)
  BY <1>2
<1>4. Tables'
  BY <1>1, <1>2 DEF PreInv, Tables
<1>5. Named'
  <2>1. \A q \in Players : \A j \in DOMAIN pre'[q] : "id" \in DOMAIN pre'[q][j]
    BY <1>3 DEF PreInv, Named
  <2>2. UNCHANGED <<work, tempPre>>
    BY <1>1
  <2> QED BY <2>1, <2>2 DEF PreInv, Named
<1>6. \A q \in Players : \A j, x : HoldsAt(q, j, x)' => HoldsAt(q, j, x)
  <2> TAKE q \in Players
  <2> QED BY <1>1, <1>3 DEF HoldsAt
<1>7. OneIndex' /\ NamesDrawn'
  BY <1>1, <1>6 DEF PreInv, Held, OneIndex, NamesDrawn
<1>8. SpentInStore'
  <2> SUFFICES ASSUME NEW q \in Players, NEW j \in DOMAIN pre'[q], <<q, pre'[q][j].id>> \in spent'
               PROVE  <<q, pre'[q][j].id>> \in restored
    BY <1>1 DEF SpentInStore
  <2>1. j \in DOMAIN pre[q] /\ pre'[q][j] = pre[q][j]
    BY <1>3
  <2>2. CASE <<q, pre[q][j].id>> \in spent
    BY <2>1, <2>2 DEF PreInv, SpentInStore
  <2>3. CASE q = p /\ pre[q][j].id = id
    <3>1. HoldsAt(p, i, id) /\ HoldsAt(p, j, id)
      BY <1>1, <2>1, <2>3 DEF HoldsAt, id
    <3>2. i = j
      BY <3>1 DEF PreInv, Held, OneIndex
    <3> QED BY <1>3, <2>3, <3>2
  <2> QED BY <1>1, <2>1, <2>2, <2>3
<1>9. UsesSpent'
  BY <1>1, <1>a DEF PreInv, UsesSpent
<1>10. PresignatureOnce'
  <2>1. <<p, id>> \in spent => <<p, id>> \in restored
    BY <1>1 DEF PreInv, SpentInStore, id
  <2>2. \A u \in uses : u.player = p /\ u.id = id => <<p, id>> \in restored
    BY <2>1 DEF PreInv, UsesSpent
  <2> QED BY <1>1, <1>a, <2>2 DEF PreInv, PresignatureOnce
<1> QED BY <1>4, <1>5, <1>7, <1>8, <1>9, <1>10 DEF PreInv, Held

-----------------------------------------------------------------------------
\* The steps of a refresh

LEMMA RefreshKeyKeepsPre ==
    ASSUME PreInv, NEW p \in Players, NEW r, NEW set, RefreshKey(p, r, set)
    PROVE  PreInv'
<1> DEFINE y == AddScalars(share[p], Shift(p, r, set, "x", 0))
           aside == [i \in DOMAIN pre[p] |-> Transform(pre[p][i], i, p, r, set, share[p], y)]
<1>1. /\ tempPre' = [tempPre EXCEPT ![p] = {aside}]
      /\ UNCHANGED <<drawn, meta, work, pre, uses, spent, restored>>
  BY DEF RefreshKey, useVars
<1>2. \A i \in DOMAIN pre[p] : "id" \in DOMAIN pre[p][i]
  BY DEF PreInv, Named
<1>3. /\ DOMAIN aside = DOMAIN pre[p]
      /\ \A i \in DOMAIN aside : "id" \in DOMAIN aside[i] /\ aside[i].id = pre[p][i].id
  BY <1>2, NamesStay DEF HasName
<1> HIDE DEF aside
<1>4. /\ DOMAIN tempPre' = Players /\ tempPre'[p] = {aside}
      /\ \A q \in Players : q # p => tempPre'[q] = tempPre[q]
  BY <1>1 DEF PreInv, Tables
<1>5. /\ Tables' /\ \A q \in Players : drawn[q] <= drawn'[q]
  BY <1>1, <1>4 DEF PreInv, Tables
<1>6. \A q \in Players : \A store \in tempPre'[q] :
        store \in tempPre[q] \/ (q = p /\ store = aside)
  BY <1>4
<1>7. Named' /\ SpentInStore'
  BY <1>1, <1>3, <1>6 DEF PreInv, Named, SpentInStore
<1>8. \A q \in Players : \A i, id : HoldsAt(q, i, id)' => HoldsAt(q, i, id)
  <2> TAKE q \in Players
  <2> QED BY <1>1, <1>3, <1>6 DEF HoldsAt
<1> QED BY <1>1, <1>5, <1>7, <1>8, NoNewNames

LEMMA RefreshAckKeepsPre ==
    ASSUME PreInv, NEW p \in Players, NEW r, RefreshKeyFastAck(p, r)
    PROVE  PreInv'
<1> DEFINE store == CommitPre(p)
           ids == {store[i].id : i \in DOMAIN store}
<1>1. /\ pre' = [pre EXCEPT ![p] = store]
      /\ restored' = restored \cup ({<<p, id>> : id \in ids} \cap spent)
      /\ tempPre' = [tempPre EXCEPT ![p] = {}]
      /\ tempPre[p] # {}
      /\ UNCHANGED <<drawn, meta, work, uses, spent>>
  BY DEF RefreshKeyFastAck, Restore, offlineVars
<1>2. store \in tempPre[p]
  BY <1>1 DEF CommitPre
<1> HIDE DEF store
<1>3. \A i \in DOMAIN store : <<p, store[i].id>> \in spent => <<p, store[i].id>> \in restored'
  BY <1>1
<1>4. /\ DOMAIN pre' = Players /\ pre'[p] = store
      /\ \A q \in Players : q # p => pre'[q] = pre[q]
      /\ DOMAIN tempPre' = Players /\ tempPre'[p] = {}
      /\ \A q \in Players : q # p => tempPre'[q] = tempPre[q]
  BY <1>1 DEF PreInv, Tables
<1>5. Tables' /\ restored \subseteq restored' /\ \A q \in Players : drawn[q] <= drawn'[q]
  BY <1>1, <1>4 DEF PreInv, Tables
<1>a. UNCHANGED <<work, uses, spent>>
  BY <1>1
<1>6. Named'
  <2>1. ASSUME NEW q \in Players
        PROVE  /\ \A o \in DOMAIN work[q] : \A i \in Span(o) : "id" \in DOMAIN work[q][o][i]
               /\ \A i \in DOMAIN pre'[q] : "id" \in DOMAIN pre'[q][i]
               /\ \A s \in tempPre'[q] : \A i \in DOMAIN s : "id" \in DOMAIN s[i]
    <3>1. CASE q = p BY <1>2, <1>4, <3>1 DEF PreInv, Named
    <3>2. CASE q # p BY <1>4, <3>2 DEF PreInv, Named
    <3> QED BY <3>1, <3>2
  <2> QED BY <1>a, <2>1 DEF Named
<1>7. SpentInStore'
  <2>1. ASSUME NEW q \in Players, NEW i \in DOMAIN pre'[q], <<q, pre'[q][i].id>> \in spent
        PROVE  <<q, pre'[q][i].id>> \in restored'
    <3>1. CASE q = p BY <1>3, <1>4, <2>1, <3>1
    <3>2. CASE q # p BY <1>4, <1>5, <2>1, <3>2 DEF PreInv, SpentInStore
    <3> QED BY <3>1, <3>2
  <2> QED BY <1>a, <2>1 DEF SpentInStore
<1>8. ASSUME NEW q \in Players, NEW i, NEW id, HoldsAt(q, i, id)'
      PROVE  HoldsAt(q, i, id)
  <2>1. CASE q = p BY <1>2, <1>4, <1>8, <1>a, <2>1 DEF HoldsAt
  <2>2. CASE q # p BY <1>4, <1>8, <1>a, <2>2 DEF HoldsAt
  <2> QED BY <2>1, <2>2
<1> QED BY <1>5, <1>6, <1>7, <1>8, <1>a, NoNewNames

-----------------------------------------------------------------------------
LEMMA PreInit == Init => PreInv
<1> SUFFICES ASSUME Init PROVE PreInv
  OBVIOUS
<1>1. /\ \A p \in Players : DOMAIN work[p] = {} /\ DOMAIN meta[p] = {} /\ tempPre[p] = {}
      /\ DOMAIN work = Players /\ DOMAIN meta = Players /\ DOMAIN tempPre = Players
      /\ uses = {} /\ spent = {} /\ restored = {}
  BY DEF Init, OfflineInit, RefreshInit, EmptyMap
<1>2. pre = [p \in Players |-> IF plan = "refresh" THEN [i \in {1} |-> Dealt(p, i)] ELSE EmptyMap]
  BY DEF Init, OfflineInit
<1>3. \A p \in Players : \A i \in DOMAIN pre[p] :
        plan = "refresh" /\ i = 1 /\ "id" \in DOMAIN pre[p][i] /\ pre[p][i].id = <<p, 1>>
  BY <1>2 DEF Dealt, EmptyMap
<1>4. DOMAIN pre = Players
  BY <1>2
<1>5. /\ DOMAIN drawn = Players
      /\ \A p \in Players : drawn[p] \in Int /\ (plan = "refresh" => drawn[p] = 1)
  BY PlansAssumption, OfflineAssumption, CmpAssumption DEF Init
<1>6. Tables /\ Named /\ SpentInStore /\ UsesSpent /\ PresignatureOnce
  BY <1>1, <1>3, <1>4, <1>5 DEF Tables, Named, SpentInStore, UsesSpent, PresignatureOnce
<1>7. \A p \in Players : \A i, id : HoldsAt(p, i, id) => i = 1 /\ id = <<p, 1>> /\ drawn[p] = 1
  BY <1>1, <1>3, <1>5 DEF HoldsAt
<1> QED BY <1>6, <1>7 DEF PreInv, Held, OneIndex, NamesDrawn

LEMMA OfflineStepKeepsPre ==
    ASSUME PreInv, NEW p \in Players, NEW reqs \in SUBSET Reqs, NEW txs,
           OfflineStep(p, reqs, txs), UNCHANGED refreshVars
    PROVE  PreInv'
<1>1. tempPre' = tempPre
  BY DEF refreshVars
<1>2. ASSUME NEW r \in reqs, StartPreprocessing(p, r) PROVE PreInv'
  BY <1>1, <1>2, StartKeepsPre
<1>3. ASSUME NEW r \in reqs,
             OfflineMtaResponse(p, r) \/ OfflineMtaVerify(p, r) \/ StorePresigningData(p, r)
             \/ CancelPreprocessing(p, r)
      PROVE  PreInv'
  BY <1>1, <1>3, MtaResponseKeepsPre, MtaVerifyKeepsPre, StoreKeepsPre, ForgettingKeepsPre
<1>4. ASSUME NEW tx, NEW i, EcdsaSign(p, tx, i) PROVE PreInv'
  BY <1>1, <1>4, SignKeepsPre
<1> QED BY <1>2, <1>3, <1>4 DEF OfflineStep

LEMMA RefreshStepKeepsPre ==
    ASSUME PreInv, NEW p \in Players, NEW r, NEW sets, NEW max, RefreshStep(p, r, sets, max)
    PROVE  PreInv'
<1>1. CASE RefreshKeyRequest(p, r) \/ CancelRefreshKey(p, r)
  <2>1. UNCHANGED <<drawn, meta, work, pre, tempPre, uses, spent, restored>>
    BY <1>1 DEF RefreshKeyRequest, CancelRefreshKey, offlineVars, useVars
  <2>2. Tables' /\ \A q \in Players : drawn[q] <= drawn'[q]
    BY <2>1 DEF PreInv, Tables
  <2> QED BY <2>1, <2>2, PreUntouched
<1>2. ASSUME NEW set, RefreshKey(p, r, set) PROVE PreInv'
  BY <1>2, RefreshKeyKeepsPre
<1>3. CASE RefreshKeyFastAck(p, r)
  BY <1>3, RefreshAckKeepsPre
<1> QED BY <1>1, <1>2, <1>3 DEF RefreshStep

LEMMA OtherServicesKeepPre ==
    ASSUME PreInv, UNCHANGED <<offlineAll, refreshVars>>,
           drawn' = drawn \/ \E p \in Players : drawn' = [drawn EXCEPT ![p] = @ + 1]
    PROVE  PreInv'
<1>1. UNCHANGED <<meta, work, pre, tempPre, uses, spent, restored>>
  BY DEF offlineAll, offlineVars, useVars, refreshVars
<1>2. /\ DOMAIN drawn' = Players
      /\ \A q \in Players : drawn'[q] \in Int /\ drawn[q] <= drawn'[q]
  BY DEF PreInv, Tables
<1>3. Tables'
  BY <1>1, <1>2 DEF PreInv, Tables
<1> QED BY <1>1, <1>2, <1>3, PreUntouched

LEMMA PreNext ==
    ASSUME PreInv, [Next]_allVars
    PROVE  PreInv'
<1>1. ASSUME NEW p \in Players, NEW reqs \in {Reqs, {"r1"}, {}}, NEW txs,
             OfflineStep(p, reqs, txs), UNCHANGED refreshVars
      PROVE  PreInv'
  BY <1>1, OfflineStepKeepsPre, PlansAssumption
<1>2. ASSUME NEW p \in Players, NEW r, NEW sets, NEW max, RefreshStep(p, r, sets, max)
      PROVE  PreInv'
  BY <1>2, RefreshStepKeepsPre
<1>3. ASSUME NEW p \in Players, NEW tx, OnlineStep(p, tx), UNCHANGED <<offlineAll, refreshVars>>
      PROVE  PreInv'
  <2>1. drawn' = drawn \/ drawn' = [drawn EXCEPT ![p] = @ + 1]
    BY <1>3 DEF OnlineStep, StartSigning, OnlineMtaResponse, OnlineMtaVerify, GetSi,
                GetCmpSignature, CancelSigning
  <2> QED BY <1>3, <2>1, OtherServicesKeepPre
<1>4. ASSUME NEW p \in Players \cup NewPlayers, Setup(p)
      PROVE  PreInv'
  <2>1. drawn' = drawn /\ UNCHANGED <<offlineAll, refreshVars>>
    BY <1>4 DEF Setup, SetupStep, GenerateSetupCommitments, AddUser, MakeKey, StoreSetupCommitments,
                GenerateSetupProofs, VerifySetupProofs, CreateSecret, AddUserRequest
  <2> QED BY <2>1, OtherServicesKeepPre
<1>5. CASE UNCHANGED allVars
  <2>1. drawn' = drawn /\ UNCHANGED <<offlineAll, refreshVars>>
    BY <1>5 DEF allVars
  <2> QED BY <2>1, OtherServicesKeepPre
<1> QED
  <2>1. ASSUME NEW p \in Players, Step(p) PROVE PreInv'
    <3>1. \/ \E reqs \in {Reqs, {"r1"}, {}} : \E txs :
                OfflineStep(p, reqs, txs) /\ UNCHANGED refreshVars
          \/ \E r, sets, max : RefreshStep(p, r, sets, max)
          \/ \E tx : OnlineStep(p, tx) /\ UNCHANGED <<offlineAll, refreshVars>>
      BY <2>1 DEF Step
    <3> QED BY <1>1, <1>2, <1>3, <3>1
  <2> QED BY <1>4, <1>5, <2>1 DEF Next

\* A presignature makes one partial signature at most, unless it was stored
\* again after its use: by store_presigning_data of a request it had half
\* stored, or by the commit of a refresh that was prepared before.
THEOREM Presignatures == Spec => []PresignatureOnce
<1>1. PreInv => PresignatureOnce
  BY DEF PreInv
<1> QED BY <1>1, PreInit, PreNext, PTL DEF Spec

-----------------------------------------------------------------------------
\* f holds a scalar for each element of the finite set D, P the points of them.
ScalarsOf(f, D) == IsFiniteSet(D) /\ D = DOMAIN f /\ \A q \in D : f[q] \in Scalars
PointsOf(P, f) == DOMAIN P = DOMAIN f /\ \A q \in DOMAIN f : P[q] = GeneratorMul(f[q])

LEMMA OrderPositive == Order \in Nat /\ Order > 0 /\ 0 \in Scalars
  BY CurveAssumption DEF Scalars

LEMMA ScalarsClosed ==
    ASSUME NEW a \in Int, NEW b \in Int
    PROVE  AddScalars(a, b) \in Scalars /\ SubScalars(a, b) \in Scalars
<1>1. ASSUME NEW c \in Int PROVE c % Order \in Scalars
  BY OrderPositive DEF Scalars
<1>2. a + b \in Int /\ a - b \in Int
  OBVIOUS
<1> QED BY <1>1, <1>2 DEF AddScalars, SubScalars

\* The element that a fold takes first.
FirstOf(s) == CHOOSE x \in s : TRUE

\* g holds the sum of the scalars of each subset of D.
HoldsSums(g, f, D) ==
    /\ g \in [SUBSET D -> Scalars]
    /\ g[{}] = 0
    /\ \A s \in SUBSET D : s # {} => g[s] = AddScalars(f[FirstOf(s)], g[s \ {FirstOf(s)}])

LEMMA SumRecursion ==
    ASSUME NEW f, NEW D, ScalarsOf(f, D)
    PROVE  \E g : HoldsSums(g, f, D) /\ SumOver(f) = g[D]
<1>0. IsFiniteSet(D) /\ D = DOMAIN f /\ \A x \in D : f[x] \in Scalars
  BY DEF ScalarsOf
<1> DEFINE first(s) == CHOOSE x \in s : TRUE
           pick == [s \in SUBSET D |-> first(s)]
           step == [e \in D \X Scalars |-> AddScalars(f[e[1]], e[2])]
           Added(g, s) == AddScalars(f[first(s)], g[s \ {first(s)}])
           Iter(g) == g = [s \in SUBSET D |-> IF s = {} THEN 0 ELSE Added(g, s)]
<1>1. \A s \in SUBSET D : s # {} => pick[s] \in s /\ first(s) \in s
  OBVIOUS
<1>2. \A x \in D, v \in Scalars : step[<<x, v>>] = AddScalars(f[x], v) /\ AddScalars(f[x], v) \in Scalars
  <2>1. \A x \in D, v \in Scalars : step[<<x, v>>] = AddScalars(f[x], v)
    OBVIOUS
  <2>2. \A x \in D, v \in Scalars : AddScalars(f[x], v) \in Scalars
    BY <1>0, ScalarsClosed DEF Scalars
  <2> QED BY <2>1, <2>2
<1>3. PICK g : g \in [SUBSET D -> Scalars] /\ Recurs(g, D, 0, pick, step)
  <2>1. 0 \in Scalars
    BY OrderPositive
  <2>2. \A x \in D, v \in Scalars : step[<<x, v>>] \in Scalars
    BY <1>2
  <2>3. \A s \in SUBSET D : s # {} => pick[s] \in s
    BY <1>1
  <2>4. IsFiniteSet(D)
    BY <1>0
  <2> HIDE DEF pick, step
  <2> QED BY <2>1, <2>2, <2>3, <2>4, RecursionExists
<1>4. ASSUME NEW s \in SUBSET D, s # {}
      PROVE  step[<<pick[s], g[s \ {pick[s]}]>>] = Added(g, s)
  <2>1. pick[s] = first(s) /\ pick[s] \in D
    BY <1>1, <1>4
  <2>2. g[s \ {pick[s]}] \in Scalars
    BY <1>3
  <2> HIDE DEF pick, step, first
  <2> QED BY <1>2, <2>1, <2>2
<1>5. Iter(g)
  <2>1. [s \in SUBSET D |-> IF s = {} THEN 0 ELSE step[<<pick[s], g[s \ {pick[s]}]>>]]
            = [s \in SUBSET D |-> IF s = {} THEN 0 ELSE Added(g, s)]
    <3> HIDE DEF pick, step, Added
    <3> QED BY <1>4
  <2> QED BY <1>3, <2>1 DEF Recurs
<1>6. ASSUME NEW h, Iter(h), NEW s \in SUBSET D
      PROVE  h[s] = IF s = {} THEN 0 ELSE Added(h, s)
  BY <1>6
<1>7. ASSUME NEW h, Iter(h) PROVE \A s \in SUBSET D : h[s] = g[s]
  <2> DEFINE Same == {s \in SUBSET D : h[s] = g[s]}
  <2>1. {} \in Same
    BY <1>5, <1>6, <1>7
  <2>2. ASSUME NEW s \in SUBSET D, s # {} PROVE \E x \in s : s \ {x} \in Same => s \in Same
    <3>1. h[s] = Added(h, s) /\ g[s] = Added(g, s)
      <4> HIDE DEF Iter, Added
      <4> QED BY <1>5, <1>6, <1>7, <2>2
    <3>2. first(s) \in s
      BY <2>2
    <3> QED BY <3>1, <3>2
  <2> HIDE DEF Same
  <2>3. Inductive(D, Same)
    BY <2>1, <2>2 DEF Inductive
  <2>4. SUBSET D \subseteq Same
    BY <1>0, <2>3, SubsetInduction
  <2> QED BY <2>4 DEF Same
<1>8. SumOver(f) = g[D]
  <2>1. PICK h : Iter(h) /\ h = CHOOSE i : Iter(i)
    <3> HIDE DEF Iter
    <3> QED BY <1>5
  <2>2. SumOver(f) = (CHOOSE i : Iter(i))[D]
    BY <1>0, Zenon DEF SumOver, FoldFunction, FoldFunctionOnSet, MapThenFoldSet
  <2> HIDE DEF Iter
  <2> QED BY <1>7, <2>1, <2>2
<1>9. HoldsSums(g, f, D)
  <2>1. g[{}] = 0
    BY <1>5, <1>6
  <2>2. \A s \in SUBSET D : s # {} => g[s] = Added(g, s)
    <3> HIDE DEF Iter, Added
    <3> QED BY <1>5, <1>6
  <2>3. \A s : first(s) = FirstOf(s)
    BY DEF FirstOf
  <2> HIDE DEF first
  <2> QED BY <1>3, <2>1, <2>2, <2>3 DEF HoldsSums
<1> QED BY <1>8, <1>9

\* What SumOver computes, and PointSum of the points: by the same recursion, as
\* the multiples of the generator add up like the scalars.
LEMMA SumsMatch ==
    ASSUME NEW f, NEW D, ScalarsOf(f, D)
    PROVE  /\ SumOver(f) \in Scalars
           /\ \A P : PointsOf(P, f) => GeneratorMul(SumOver(f)) = PointSum(P)
           /\ D = {} => SumOver(f) = 0
<1>0. IsFiniteSet(D) /\ D = DOMAIN f /\ \A x \in D : f[x] \in Scalars
  BY DEF ScalarsOf
<1>1. PICK g : HoldsSums(g, f, D) /\ SumOver(f) = g[D]
  BY SumRecursion
<1>2. g[D] \in Scalars /\ (D = {} => g[D] = 0)
  BY <1>1 DEF HoldsSums
<1>3. ASSUME NEW P, PointsOf(P, f) PROVE GeneratorMul(g[D]) = PointSum(P)
  <2>0. DOMAIN P = D /\ \A q \in D : P[q] = GeneratorMul(f[q])
    BY <1>0, <1>3 DEF PointsOf
  <2> DEFINE Total(h, s) == AddPoints(P[FirstOf(s)], h[s \ {FirstOf(s)}])
             Sum(h) == h = [s \in SUBSET D |-> IF s = {} THEN Infinity ELSE Total(h, s)]
             G == [s \in SUBSET D |-> GeneratorMul(g[s])]
  <2>1. ASSUME NEW s \in SUBSET D
        PROVE  GeneratorMul(g[s]) = IF s = {} THEN Infinity ELSE Total(G, s)
    <3>1. CASE s = {}
      BY <1>1, <3>1, GroupLaw DEF HoldsSums
    <3>2. CASE s # {}
      <4>1. FirstOf(s) \in s /\ FirstOf(s) \in D
        BY <3>2 DEF FirstOf
      <4>2. g[s] = AddScalars(f[FirstOf(s)], g[s \ {FirstOf(s)}])
        BY <1>1, <3>2 DEF HoldsSums
      <4>3. f[FirstOf(s)] \in Scalars /\ g[s \ {FirstOf(s)}] \in Scalars
        BY <1>0, <1>1, <4>1 DEF HoldsSums
      <4>4. P[FirstOf(s)] = GeneratorMul(f[FirstOf(s)]) /\ G[s \ {FirstOf(s)}] = GeneratorMul(g[s \ {FirstOf(s)}])
        BY <2>0, <4>1
      <4>5. GeneratorMul(AddScalars(f[FirstOf(s)], g[s \ {FirstOf(s)}]))
                = AddPoints(GeneratorMul(f[FirstOf(s)]), GeneratorMul(g[s \ {FirstOf(s)}]))
        BY <4>3, GroupLaw
      <4> HIDE DEF G
      <4> QED BY <3>2, <4>2, <4>4, <4>5
    <3> QED BY <3>1, <3>2
  <2>2. Sum(G)
    <3>1. [s \in SUBSET D |-> GeneratorMul(g[s])] = [s \in SUBSET D |-> IF s = {} THEN Infinity ELSE Total(G, s)]
      <4> HIDE DEF Total, G
      <4> QED BY <2>1
    <3> QED BY <3>1
  <2>3. ASSUME NEW h, Sum(h), NEW s \in SUBSET D
        PROVE  h[s] = IF s = {} THEN Infinity ELSE Total(h, s)
    BY <2>3
  <2>4. PICK h : Sum(h) /\ h = CHOOSE i : Sum(i)
    <3> HIDE DEF Sum
    <3> QED BY <2>2
  <2>5. \A s \in SUBSET D : h[s] = G[s]
    <3> DEFINE Same == {s \in SUBSET D : h[s] = G[s]}
    <3>1. {} \in Same
      <4>1. h[{}] = Infinity /\ G[{}] = Infinity
        <5> HIDE DEF Sum, Total, G
        <5> QED BY <2>2, <2>3, <2>4
      <4> QED BY <4>1
    <3>2. ASSUME NEW s \in SUBSET D, s # {} PROVE \E x \in s : s \ {x} \in Same => s \in Same
      <4>1. h[s] = Total(h, s) /\ G[s] = Total(G, s)
        <5> HIDE DEF Sum, Total, G
        <5> QED BY <2>2, <2>3, <2>4, <3>2
      <4>2. FirstOf(s) \in s
        BY <3>2 DEF FirstOf
      <4> HIDE DEF G
      <4> QED BY <4>1, <4>2
    <3> HIDE DEF Same
    <3>3. Inductive(D, Same)
      BY <3>1, <3>2 DEF Inductive
    <3>4. SUBSET D \subseteq Same
      BY <1>0, <3>3, SubsetInduction
    <3> QED BY <3>4 DEF Same
  <2>6. PointSum(P) = (CHOOSE i : Sum(i))[D]
    BY <2>0, Zenon DEF PointSum, FoldFunction, FoldFunctionOnSet, MapThenFoldSet, FirstOf
  <2>7. G[D] = GeneratorMul(g[D])
    OBVIOUS
  <2> HIDE DEF Sum, G
  <2> QED BY <2>4, <2>5, <2>6, <2>7
<1> QED BY <1>1, <1>2, <1>3

-----------------------------------------------------------------------------
\* What players that finish have in common.

CurrentLife(p) == <<p, life[p]>>

\* A public share by the name of the life that drew it: as it was committed to,
\* is stored, or was finished with.
Knows(p, id, X) ==
    \/ \E c \in Sent("commitment", p) : c.aux = id /\ c.X = X
    \/ \E d \in keys[p].data : d.k = id /\ d.X = X
    \/ id \in keys[p].aux /\ \E x \in keys[p].x : GeneratorMul(x) = X
    \/ \E f \in finished : f.by = p /\ f.id = id /\ GeneratorMul(f.x) = X

OneShare(p) ==
    /\ \A id, X, Y : Knows(p, id, X) /\ Knows(p, id, Y) => X = Y
    /\ \A id, X : Knows(p, id, X) => \E n \in 1 .. life[p] : id = <<p, n>>
    /\ \A c \in Sent("commitment", p) :
        c = Commit(p, [seed |-> c.aux, X |-> c.X, R |-> c.aux, aux |-> c.aux])

\* One commitment of each player of p's key.
CommitmentsOfAll(p, c) ==
    /\ c = [q \in Peers(p) |-> c[q]]
    /\ \A q \in Peers(p) : c[q] \in Sent("commitment", q)

\* The commitments that p opened its own among: one batch in a life.
Acks(p) == {b.ack : b \in Sent("decommitment", p)}
OneBatch(p) ==
    /\ \A ack \in Acks(p) : CommitmentsOfAll(p, ack)
    /\ \A a, b \in Acks(p) : a[p].aux = b[p].aux => a = b

InfoOf(ack) == [q \in DOMAIN ack |-> [X |-> ack[q].X, aux |-> ack[q].aux]]
SeedsOf(ack) == {ack[q].seed : q \in DOMAIN ack}

MetaFields == {"pub", "seed", "info"}

\* The metadata m that p stores are those of the batch of its life.
MetaStored(p, m) ==
    /\ DOMAIN m = MetaFields
    /\ DOMAIN m.info # {} =>
            \E ack \in Acks(p) : /\ ack[p].aux = CurrentLife(p)
                                 /\ m.info = InfoOf(ack) /\ m.seed = SeedsOf(ack)
    /\ round[p] >= 3 => DOMAIN m.info # {}
    /\ round[p] >= 4 => m.pub = PublicSum(p, m.info)

\* So are the commitments, as long as they can be answered.
CommsStored(p) ==
    /\ \A c \in keys[p].comms : CommitmentsOfAll(p, c) /\ c[p].aux = CurrentLife(p)
    /\ keys[p].data # {} => \A ack \in Acks(p) : ack[p].aux = CurrentLife(p) => keys[p].comms = {ack}

EntryStored(p) ==
    /\ keys[p].aux \subseteq {CurrentLife(p)} /\ keys[p].x \subseteq Scalars
    /\ keys[p].meta = {} => round[p] = 0
    /\ CommsStored(p)
    /\ \A m \in keys[p].meta : MetaStored(p, m)

FactorsSent(p) ==
    \A b \in Sent("factors", p), q \in Peers(p) \ {p} :
        \E ack \in Acks(p) : b[q].aad = SetupAad(p, SeedsOf(ack)) /\ b[q].aux = ack[p].aux

PlayerAgrees(p) ==
    /\ round[p] \in Nat
    /\ OneShare(p)
    /\ OneBatch(p)
    /\ EntryStored(p)
    /\ FactorsSent(p)

\* A result is that of the player's batch, and the players it counts each had a
\* batch of the same commitments.
Counted(f) ==
    \E ack \in Acks(f.by) :
        /\ f.id = ack[f.by].aux /\ f.info = InfoOf(ack) /\ f.pub = PublicSum(f.by, f.info)
        /\ \A q \in Peers(f.by) \ {f.by} : \E other \in Acks(q) :
                other[q].aux = f.info[q].aux /\ SeedsOf(other) = SeedsOf(ack)

FinishedCounted == \A f \in finished : f.by \in AllPlayers /\ f.x \in Scalars /\ Counted(f)

AgreeInv ==
    /\ DOMAIN round = AllPlayers
    /\ \A p \in AllPlayers : PlayerAgrees(p)
    /\ FinishedCounted

\* A message that a step adds, and none.
Adds(p, type, new) ==
    \A t, q : Sent(t, q)' = IF t = type /\ q = p THEN Sent(t, q) \cup new ELSE Sent(t, q)

LEMMA ReturnAdds ==
    ASSUME NEW p, NEW type, NEW body, Return(p, type, body)
    PROVE  Adds(p, type, {body})
<1> SUFFICES ASSUME NEW t, NEW q
             PROVE  Sent(t, q)' = IF t = type /\ q = p THEN Sent(t, q) \cup {body} ELSE Sent(t, q)
  BY DEF Adds
<1> DEFINE m == [type |-> type, from |-> p, body |-> body]
<1>1. msgs' = msgs \cup {m} /\ m.type = type /\ m.from = p /\ m.body = body
  BY DEF Return
<1> HIDE DEF m
<1> QED BY <1>1 DEF Sent, Of

LEMMA SilentAdds ==
    ASSUME NEW p, NEW type, msgs' = msgs
    PROVE  Adds(p, type, {})
  BY DEF Adds, Sent, Of

\* A step of p: of the others, nothing changes but the results.
MovesOnly(p) ==
    /\ \A q \in AllPlayers : q # p => keys'[q] = keys[q] /\ life'[q] = life[q] /\ round'[q] = round[q]
    /\ \A t, q : Sent(t, q) \subseteq Sent(t, q)' /\ (q # p => Sent(t, q)' = Sent(t, q))
    /\ finished \subseteq finished' /\ \A f \in finished' : f \in finished \/ f.by = p

LEMMA BatchesGrow ==
    ASSUME NEW p, MovesOnly(p), NEW q, NEW c, CommitmentsOfAll(q, c)
    PROVE  CommitmentsOfAll(q, c)'
  BY DEF CommitmentsOfAll, MovesOnly

LEMMA AcksGrow ==
    ASSUME NEW p, MovesOnly(p), NEW q
    PROVE  Acks(q) \subseteq Acks(q)' /\ (q # p => Acks(q)' = Acks(q))
  BY DEF Acks, MovesOnly

LEMMA OthersAgree ==
    ASSUME AgreeInv, NEW p \in AllPlayers, MovesOnly(p), NEW q \in AllPlayers, q # p
    PROVE  PlayerAgrees(q)'
<1>0. PlayerAgrees(q)
  BY DEF AgreeInv
<1>1. /\ keys'[q] = keys[q] /\ life'[q] = life[q] /\ round'[q] = round[q]
      /\ \A t : Sent(t, q)' = Sent(t, q)
      /\ \A f \in finished' : f \in finished \/ f.by = p
  BY DEF MovesOnly
<1>2. Acks(q)' = Acks(q)
  BY AcksGrow
<1>3. \A id, X : Knows(q, id, X)' => Knows(q, id, X)
  BY <1>1 DEF Knows
<1>4. OneShare(q)'
  BY <1>0, <1>1, <1>3 DEF PlayerAgrees, OneShare
<1>5. \A c : CommitmentsOfAll(q, c) => CommitmentsOfAll(q, c)'
  BY BatchesGrow
<1>6. OneBatch(q)'
  BY <1>0, <1>2, <1>5 DEF PlayerAgrees, OneBatch
<1>7. CurrentLife(q)' = CurrentLife(q)
  BY <1>1 DEF CurrentLife
<1>8. EntryStored(q)'
  <2>1. EntryStored(q)
    BY <1>0 DEF PlayerAgrees
  <2>2. CommsStored(q)'
    BY <1>1, <1>2, <1>5, <1>7, <2>1 DEF EntryStored, CommsStored
  <2>3. \A m \in keys[q].meta : MetaStored(q, m)'
    BY <1>1, <1>2, <1>7, <2>1 DEF EntryStored, MetaStored
  <2> QED BY <1>1, <1>7, <2>1, <2>2, <2>3 DEF EntryStored
<1>9. FactorsSent(q)'
  BY <1>0, <1>1, <1>2 DEF PlayerAgrees, FactorsSent
<1> QED BY <1>0, <1>1, <1>4, <1>6, <1>8, <1>9 DEF PlayerAgrees

\* A step of p preserves the whole when it does so for p and for new results.
LEMMA StepAgrees ==
    ASSUME AgreeInv, NEW p \in AllPlayers, MovesOnly(p), DOMAIN round' = AllPlayers,
           PlayerAgrees(p)',
           \A f \in finished' : f \in finished \/ (f.x \in Scalars /\ Counted(f)')
    PROVE  AgreeInv'
<1>1. ASSUME NEW f \in finished, Counted(f) PROVE Counted(f)'
  <2>1. PICK ack \in Acks(f.by) :
            /\ f.id = ack[f.by].aux /\ f.info = InfoOf(ack) /\ f.pub = PublicSum(f.by, f.info)
            /\ \A q \in Peers(f.by) \ {f.by} : \E other \in Acks(q) :
                    other[q].aux = f.info[q].aux /\ SeedsOf(other) = SeedsOf(ack)
    BY <1>1 DEF Counted
  <2>2. \A q : Acks(q) \subseteq Acks(q)'
    BY AcksGrow
  <2>3. ack \in Acks(f.by)'
    BY <2>1, <2>2
  <2> QED BY <2>1, <2>2, <2>3 DEF Counted
<1>2. FinishedCounted'
  <2> SUFFICES ASSUME NEW f \in finished' PROVE f.by \in AllPlayers /\ f.x \in Scalars /\ Counted(f)'
    BY DEF FinishedCounted
  <2>1. CASE f \in finished
    BY <1>1, <2>1 DEF AgreeInv, FinishedCounted
  <2>2. CASE f \notin finished
    BY <2>2 DEF MovesOnly
  <2> QED BY <2>1, <2>2
<1> QED BY <1>2, OthersAgree DEF AgreeInv

\* Within a life, a step that learns no share and opens no other commitment.
LEMMA LifeGoesOn ==
    ASSUME AgreeInv, NEW p \in AllPlayers, MovesOnly(p), life'[p] = life[p],
           \A id, X : Knows(p, id, X)' => Knows(p, id, X),
           Sent("commitment", p)' = Sent("commitment", p)
    PROVE  /\ OneShare(p)'
           /\ Acks(p)' = Acks(p) => OneBatch(p)'
           /\ Sent("factors", p)' = Sent("factors", p) => FactorsSent(p)'
<1>0. PlayerAgrees(p)
  BY DEF AgreeInv
<1>1. OneShare(p)'
  BY <1>0 DEF PlayerAgrees, OneShare
<1>2. ASSUME Acks(p)' = Acks(p) PROVE OneBatch(p)'
  <2>1. \A c : CommitmentsOfAll(p, c) => CommitmentsOfAll(p, c)'
    BY BatchesGrow
  <2> QED BY <1>0, <1>2, <2>1 DEF PlayerAgrees, OneBatch
<1>3. ASSUME Sent("factors", p)' = Sent("factors", p) PROVE FactorsSent(p)'
  BY <1>0, <1>3, AcksGrow DEF PlayerAgrees, FactorsSent
<1> QED BY <1>1, <1>2, <1>3

\* What MakeKey leaves of a new life, however many stores it comes to.
FreshEntry(e, m, id, x, pub) ==
    /\ DOMAIN e = KeyFields /\ e.comms = {} /\ e.meta = {m}
    /\ DOMAIN m = MetaFields /\ m.info = EmptyMap /\ m.pub = pub
    /\ e.aux \subseteq {id} /\ e.x \subseteq {x}
    /\ \A d \in e.data : DOMAIN d = DataFields /\ d.k = id /\ d.X = GeneratorMul(x)

FirstCommitment(p, id, x) == Commit(p, [seed |-> id, X |-> GeneratorMul(x), R |-> id, aux |-> id])

LEMMA NewEntry ==
    ASSUME NEW p, NEW x, NEW pub, MakeKey(p, x, pub),
           DOMAIN keys[p] = KeyFields, \A f \in KeyFields : keys[p][f] = {}
    PROVE  /\ \E e, m : /\ keys' = [keys EXCEPT ![p] = e]
                        /\ FreshEntry(e, m, <<p, life[p] + 1>>, x, pub)
           /\ life' = [life EXCEPT ![p] = @ + 1]
           /\ \/ /\ Return(p, "commitment", FirstCommitment(p, <<p, life[p] + 1>>, x))
                 /\ round' = [round EXCEPT ![p] = IF 1 > @ THEN 1 ELSE @]
              \/ UNCHANGED <<msgs, round>>
           /\ UNCHANGED <<answered, finished>>
<1> DEFINE id == <<p, life[p] + 1>>
           data == [k |-> id, seed |-> id, X |-> GeneratorMul(x), Rs |-> EmptyMap]
           stored == <<"meta", "data", "aux", "x">>
           m == [pub |-> pub, seed |-> {}, info |-> EmptyMap]
           entry == [keys[p] EXCEPT !.meta = {m}, !.data = {data}, !.aux = {id}, !.x = {x}]
           part(n) == [f \in DOMAIN entry |->
                          IF \E i \in 1 .. n : stored[i] = f THEN entry[f] ELSE keys[p][f]]
           Good(e) == /\ keys' = [keys EXCEPT ![p] = e] /\ DOMAIN e = KeyFields
                      /\ e.comms = {} /\ e.meta = {m}
                      /\ e.aux \subseteq {id} /\ e.x \subseteq {x}
                      /\ e.data \subseteq {data}
<1>1. \/ /\ keys' = [keys EXCEPT ![p] = entry]
         /\ Answer(p, 1, "commitment", Commit(p, Decommit(data, id)))
      \/ (\E n \in 1 .. 4 : keys' = [keys EXCEPT ![p] = part(n)]) /\ NoAnswer
  BY DEF MakeKey, Store
<1>2. /\ life' = [life EXCEPT ![p] = @ + 1] /\ answered' = answered /\ finished' = finished
  BY DEF MakeKey
<1>3. Decommit(data, id) = [seed |-> id, X |-> GeneratorMul(x), R |-> id, aux |-> id]
  BY DEF Decommit
<1>4. DOMAIN data = DataFields /\ data.k = id /\ data.X = GeneratorMul(x)
  BY DEF DataFields
<1>5. m.info = EmptyMap /\ m.pub = pub /\ DOMAIN m = MetaFields
  BY DEF MetaFields
<1> HIDE DEF data, m
<1>6. /\ DOMAIN entry = KeyFields /\ entry.meta = {m} /\ entry.data = {data}
      /\ entry.comms = {} /\ entry.aux = {id} /\ entry.x = {x}
  BY DEF KeyFields
<1> HIDE DEF entry
<1>7. ASSUME NEW n \in 1 .. 4, keys' = [keys EXCEPT ![p] = part(n)]
      PROVE  Good(part(n))
  <2>1. stored[1] = "meta" /\ 1 \in 1 .. n
    OBVIOUS
  <2>2. \A i \in 1 .. n : stored[i] # "comms"
    OBVIOUS
  <2> HIDE DEF stored
  <2>3. \A f \in KeyFields : keys[p][f] = {}
    OBVIOUS
  <2>4. DOMAIN part(n) = KeyFields /\ \A f \in KeyFields : part(n)[f] \in {entry[f], {}}
    BY <1>6, <2>3
  <2>5. part(n).comms = {} /\ part(n).meta = {m}
    BY <1>6, <2>1, <2>2, <2>3 DEF KeyFields
  <2>6. part(n).aux \in {{id}, {}} /\ part(n).x \in {{x}, {}} /\ part(n).data \in {{data}, {}}
    <3> HIDE DEF part
    <3> QED BY <1>6, <2>4 DEF KeyFields
  <2> HIDE DEF part, id
  <2> QED BY <1>7, <2>4, <2>5, <2>6
<1>8. \E e : Good(e)
  <2>1. CASE keys' = [keys EXCEPT ![p] = entry]
    <3>1. Good(entry)
      BY <1>6, <2>1
    <3> QED BY <3>1
  <2> HIDE DEF Good, part
  <2> QED BY <1>1, <1>7, <2>1
<1>9. \E e, mt : keys' = [keys EXCEPT ![p] = e] /\ FreshEntry(e, mt, id, x, pub)
  <2>1. PICK e : Good(e)
    BY <1>8
  <2>2. \A d \in e.data : DOMAIN d = DataFields /\ d.k = id /\ d.X = GeneratorMul(x)
    <3> HIDE DEF id
    <3> QED BY <1>4, <2>1
  <2>3. FreshEntry(e, m, id, x, pub)
    <3> HIDE DEF id
    <3> QED BY <1>5, <2>1, <2>2 DEF FreshEntry
  <2> HIDE DEF id
  <2> QED BY <2>1, <2>3
<1>10. \/ /\ Return(p, "commitment", FirstCommitment(p, id, x))
          /\ round' = [round EXCEPT ![p] = IF 1 > @ THEN 1 ELSE @]
       \/ UNCHANGED <<msgs, round>>
  BY <1>1, <1>3 DEF Answer, NoAnswer, FirstCommitment
<1> QED BY <1>2, <1>9, <1>10

\* A new life starts with a share of its own, and nobody has opened it.
LEMMA MakeKeyAgrees ==
    ASSUME AgreeInv, SetupInv, NEW p \in AllPlayers, NEW x \in Scalars, NEW pub, MakeKey(p, x, pub)
    PROVE  AgreeInv'
<1> DEFINE next == life[p] + 1
           c == FirstCommitment(p, <<p, next>>, x)
<1>0. PlayerAgrees(p) /\ KeyWellFormed(p, life[p], keys[p]) /\ life[p] \in Nat
  BY DEF AgreeInv, SetupInv, KeysKept
<1>1. keys[p].meta = {} /\ keys[p].aux = {} /\ keys[p].x = {}
  BY DEF MakeKey, KeyExists
<1>2. DOMAIN keys[p] = KeyFields /\ \A f \in KeyFields : keys[p][f] = {}
  BY <1>0, <1>1 DEF KeyWellFormed, KeyFields
<1>3. round[p] = 0
  BY <1>0, <1>1 DEF PlayerAgrees, EntryStored
<1>4. PICK e, m : keys' = [keys EXCEPT ![p] = e] /\ FreshEntry(e, m, <<p, next>>, x, pub)
  BY <1>2, NewEntry
<1>a. /\ e.comms = {} /\ e.meta = {m}
      /\ DOMAIN m = MetaFields /\ m.info = EmptyMap /\ m.pub = pub
      /\ e.aux \subseteq {<<p, next>>} /\ e.x \subseteq {x}
      /\ \A d \in e.data : d.k = <<p, next>> /\ d.X = GeneratorMul(x)
  BY <1>4 DEF FreshEntry
<1>5. /\ life' = [life EXCEPT ![p] = @ + 1] /\ finished' = finished
      /\ \/ Return(p, "commitment", c) /\ round' = [round EXCEPT ![p] = IF 1 > @ THEN 1 ELSE @]
         \/ UNCHANGED <<msgs, round>>
  BY <1>2, NewEntry
<1>6. PICK new \in {{}, {c}} : Adds(p, "commitment", new)
  BY <1>5, ReturnAdds, SilentAdds
<1>7. c.aux = <<p, next>> /\ c.X = GeneratorMul(x)
      /\ c = Commit(p, [seed |-> c.aux, X |-> c.X, R |-> c.aux, aux |-> c.aux])
  BY DEF Commit, FirstCommitment
<1>8. /\ DOMAIN round' = AllPlayers /\ round'[p] \in {0, 1}
      /\ \A q \in AllPlayers : q # p => round'[q] = round[q]
  BY <1>3, <1>5 DEF AgreeInv
<1>9. /\ keys'[p] = e /\ life'[p] = next
      /\ \A q \in AllPlayers : q # p => keys'[q] = keys[q] /\ life'[q] = life[q]
  BY <1>4, <1>5 DEF SetupInv, KeysKept
<1>10. /\ \A t, q : Sent(t, q) \subseteq Sent(t, q)' /\ (q # p => Sent(t, q)' = Sent(t, q))
       /\ Sent("commitment", p)' = Sent("commitment", p) \cup new
       /\ Sent("decommitment", p)' = Sent("decommitment", p)
       /\ Sent("factors", p)' = Sent("factors", p)
  BY <1>6 DEF Adds
<1>11. MovesOnly(p)
  BY <1>5, <1>8, <1>9, <1>10 DEF MovesOnly
<1>12. Acks(p)' = Acks(p)
  BY <1>10 DEF Acks
<1> HIDE DEF c
<1>13. \A id, X : Knows(p, id, X) => id # <<p, next>>
  BY <1>0 DEF PlayerAgrees, OneShare
<1>14. \A id, X : Knows(p, id, X)' => Knows(p, id, X) \/ (id = <<p, next>> /\ X = GeneratorMul(x))
  BY <1>a, <1>5, <1>7, <1>9, <1>10 DEF Knows
<1>15. OneShare(p)'
  <2>1. \A id, X, Y : Knows(p, id, X)' /\ Knows(p, id, Y)' => X = Y
    BY <1>0, <1>13, <1>14 DEF PlayerAgrees, OneShare
  <2>2. \A id, X : Knows(p, id, X)' => \E n \in 1 .. life'[p] : id = <<p, n>>
    <3>1. next \in 1 .. life'[p] /\ \A n \in 1 .. life[p] : n \in 1 .. life'[p]
      BY <1>0, <1>9
    <3> QED BY <1>0, <1>14, <3>1 DEF PlayerAgrees, OneShare
  <2>3. \A d \in Sent("commitment", p)' :
            d = Commit(p, [seed |-> d.aux, X |-> d.X, R |-> d.aux, aux |-> d.aux])
    BY <1>0, <1>7, <1>10 DEF PlayerAgrees, OneShare
  <2> QED BY <2>1, <2>2, <2>3 DEF OneShare
<1>16. OneBatch(p)'
  <2>1. \A b : CommitmentsOfAll(p, b) => CommitmentsOfAll(p, b)'
    BY <1>11, BatchesGrow
  <2> QED BY <1>0, <1>12, <2>1 DEF PlayerAgrees, OneBatch
<1>17. EntryStored(p)'
  <2>1. CurrentLife(p)' = <<p, next>>
    BY <1>9 DEF CurrentLife
  <2>2. ASSUME NEW ack \in Acks(p) PROVE ack[p].aux # <<p, next>>
    <3>1. p \in Peers(p)
      BY DEF Peers, PlayersOf, KeyOf, AllPlayers
    <3>2. ack[p] \in Sent("commitment", p)
      BY <1>0, <3>1 DEF PlayerAgrees, OneBatch, CommitmentsOfAll
    <3>3. Knows(p, ack[p].aux, ack[p].X)
      BY <3>2 DEF Knows
    <3> QED BY <1>13, <3>3
  <2>3. CommsStored(p)'
    BY <1>a, <1>9, <1>12, <2>1, <2>2 DEF CommsStored
  <2>4. DOMAIN m.info = {}
    BY <1>a DEF EmptyMap
  <2>5. MetaStored(p, m)'
    BY <1>a, <1>8, <2>4 DEF MetaStored
  <2> QED BY <1>a, <1>9, <2>1, <2>3, <2>5 DEF EntryStored
<1>18. FactorsSent(p)'
  BY <1>0, <1>10, <1>12 DEF PlayerAgrees, FactorsSent
<1>19. PlayerAgrees(p)'
  BY <1>8, <1>15, <1>16, <1>17, <1>18 DEF PlayerAgrees
<1> QED BY <1>5, <1>8, <1>11, <1>19, StepAgrees

LEMMA BatchMembers ==
    ASSUME NEW p, NEW type, NEW batch \in BatchesTo(p, type)
    PROVE  batch = [q \in Peers(p) |-> batch[q]] /\ \A q \in Peers(p) : batch[q] \in Sent(type, q)
<1>1. batch \in [Peers(p) -> UNION {Sent(type, q) : q \in Peers(p)}]
  BY DEF BatchesTo
<1>2. \A q \in Peers(p) : batch[q] \in Sent(type, q)
  BY DEF BatchesTo
<1> QED BY <1>1, <1>2

LEMMA AmongPeers ==
    ASSUME NEW p \in AllPlayers
    PROVE  /\ p \in Peers(p) /\ Peers(p) \subseteq AllPlayers
           /\ \A q \in Peers(p) : Peers(q) = Peers(p)
  BY SetupAssumption DEF Peers, PlayersOf, KeyOf, AllPlayers

LEMMA MetaKept ==
    ASSUME NEW p, NEW m, MetaStored(p, m), MovesOnly(p), life'[p] = life[p],
           round'[p] >= 3 => round[p] >= 3, round'[p] >= 4 => round[p] >= 4
    PROVE  MetaStored(p, m)'
<1>1. CurrentLife(p)' = CurrentLife(p) /\ Acks(p) \subseteq Acks(p)'
  BY AcksGrow DEF CurrentLife
<1> QED BY <1>1 DEF MetaStored

\* What p answers of a round, or the failure to.
AnswersAtMost(p, n, type, body) ==
    /\ \A t, q : Sent(t, q) \subseteq Sent(t, q)' /\ (q # p => Sent(t, q)' = Sent(t, q))
    /\ \A t : t # type => Sent(t, p)' = Sent(t, p)
    /\ Sent(type, p)' \subseteq Sent(type, p) \cup {body}
    /\ DOMAIN round' = AllPlayers /\ round'[p] \in {round[p], n} /\ round[p] <= round'[p]
    /\ \A q \in AllPlayers : q # p => round'[q] = round[q]

LEMMA Answers ==
    ASSUME AgreeInv, NEW p \in AllPlayers, NEW n \in Nat, NEW type, NEW body,
           Answer(p, n, type, body) \/ NoAnswer
    PROVE  AnswersAtMost(p, n, type, body)
<1>0. DOMAIN round = AllPlayers /\ round[p] \in Nat
  BY DEF AgreeInv, PlayerAgrees
<1>1. \/ Return(p, type, body) /\ round' = [round EXCEPT ![p] = IF n > @ THEN n ELSE @]
      \/ UNCHANGED <<msgs, round>>
  BY DEF Answer, NoAnswer
<1>2. Adds(p, type, {body}) \/ (Adds(p, type, {}) /\ round' = round)
  BY <1>1, ReturnAdds, SilentAdds
<1>3. /\ \A t, q : Sent(t, q) \subseteq Sent(t, q)' /\ (q # p => Sent(t, q)' = Sent(t, q))
      /\ \A t : t # type => Sent(t, p)' = Sent(t, p)
      /\ Sent(type, p)' \subseteq Sent(type, p) \cup {body}
  BY <1>2 DEF Adds
<1> QED BY <1>0, <1>1, <1>3 DEF AnswersAtMost

\* The first batch of the life.
LEMMA StoreCommitmentsAgrees ==
    ASSUME AgreeInv, SetupInv, NEW p \in AllPlayers, StoreSetupCommitments(p)
    PROVE  AgreeInv'
<1>0. /\ PlayerAgrees(p) /\ KeyWellFormed(p, life[p], keys[p]) /\ round[p] \in Nat
      /\ DOMAIN keys = AllPlayers
  BY DEF AgreeInv, PlayerAgrees, SetupInv, KeysKept
<1>1. PICK data \in keys[p].data, aux \in keys[p].aux, batch \in BatchesTo(p, "commitment") :
        /\ batch[p] = Commit(p, Decommit(data, aux))
        /\ keys[p].comms = {}
        /\ keys' = [keys EXCEPT ![p] = [keys[p] EXCEPT !.comms = {batch}]]
        /\ \/ Answer(p, 2, "decommitment", [open |-> Decommit(data, aux), ack |-> batch])
           \/ NoAnswer
  BY DEF StoreSetupCommitments, CommitmentsStorable, Store
<1> DEFINE body == [open |-> Decommit(data, aux), ack |-> batch]
           e == [keys[p] EXCEPT !.comms = {batch}]
<1>2. life' = life /\ finished' = finished
  BY DEF StoreSetupCommitments
<1>3. /\ e.data = keys[p].data /\ e.aux = keys[p].aux /\ e.x = keys[p].x /\ e.meta = keys[p].meta
      /\ e.comms = {batch}
  BY <1>0 DEF KeyWellFormed, KeyFields
<1>4. keys'[p] = e /\ \A q \in AllPlayers : q # p => keys'[q] = keys[q]
  BY <1>0, <1>1
<1>5. body.ack = batch
  OBVIOUS
<1> HIDE DEF e, body
<1>6. /\ \A t, q : Sent(t, q) \subseteq Sent(t, q)' /\ (q # p => Sent(t, q)' = Sent(t, q))
      /\ \A t : t # "decommitment" => Sent(t, p)' = Sent(t, p)
      /\ Sent("decommitment", p)' \subseteq Sent("decommitment", p) \cup {body}
      /\ DOMAIN round' = AllPlayers /\ round'[p] \in {round[p], 2} /\ round[p] <= round'[p]
      /\ \A q \in AllPlayers : q # p => round'[q] = round[q]
  <2>1. AnswersAtMost(p, 2, "decommitment", body)
    BY <1>1, Answers DEF body
  <2> QED BY <2>1 DEF AnswersAtMost
<1>7. MovesOnly(p)
  BY <1>2, <1>4, <1>6 DEF MovesOnly
<1>8. \A id, X : Knows(p, id, X)' => Knows(p, id, X)
  BY <1>2, <1>3, <1>4, <1>6 DEF Knows
<1>9. OneShare(p)' /\ FactorsSent(p)'
  BY <1>2, <1>6, <1>7, <1>8, LifeGoesOn
<1>10. CommitmentsOfAll(p, batch) /\ batch[p].aux = CurrentLife(p)
  <2>1. CommitmentsOfAll(p, batch)
    BY BatchMembers DEF CommitmentsOfAll
  <2>2. batch[p].aux = aux
    BY <1>1 DEF Commit, Decommit
  <2> QED BY <1>0, <2>1, <2>2 DEF PlayerAgrees, EntryStored
<1>11. Acks(p)' \subseteq Acks(p) \cup {batch}
  BY <1>5, <1>6 DEF Acks
<1>12. \A ack \in Acks(p) : ack[p].aux # CurrentLife(p)
  BY <1>0, <1>1 DEF PlayerAgrees, EntryStored, CommsStored
<1>13. \A c : CommitmentsOfAll(p, c) => CommitmentsOfAll(p, c)'
  BY <1>7, BatchesGrow
<1>14. OneBatch(p)'
  BY <1>0, <1>10, <1>11, <1>12, <1>13 DEF PlayerAgrees, OneBatch
<1>15. EntryStored(p)'
  <2>1. CurrentLife(p)' = CurrentLife(p)
    BY <1>2 DEF CurrentLife
  <2>2. CommsStored(p)'
    BY <1>3, <1>4, <1>10, <1>11, <1>12, <1>13, <2>1 DEF CommsStored
  <2>3. \A m \in keys[p].meta : MetaStored(p, m)'
    <3>1. (round'[p] >= 3 => round[p] >= 3) /\ (round'[p] >= 4 => round[p] >= 4)
      BY <1>0, <1>6
    <3> QED BY <1>0, <1>2, <1>7, <3>1, MetaKept DEF PlayerAgrees, EntryStored
  <2>4. keys[p].meta # {}
    BY <1>0, <1>1 DEF KeyWellFormed
  <2> QED BY <1>0, <1>3, <1>4, <2>1, <2>2, <2>3, <2>4 DEF PlayerAgrees, EntryStored
<1>16. PlayerAgrees(p)'
  BY <1>0, <1>6, <1>9, <1>14, <1>15 DEF PlayerAgrees
<1> QED BY <1>2, <1>6, <1>7, <1>16, StepAgrees

\* The infos are those of the stored batch, which the own decommitment is of.
LEMMA SetupProofsAgree ==
    ASSUME AgreeInv, SetupInv, NEW p \in AllPlayers, GenerateSetupProofs(p)
    PROVE  AgreeInv'
<1>0. /\ PlayerAgrees(p) /\ KeyWellFormed(p, life[p], keys[p]) /\ round[p] \in Nat
      /\ DOMAIN keys = AllPlayers /\ p \in Peers(p)
  BY AmongPeers DEF AgreeInv, PlayerAgrees, SetupInv, KeysKept
<1>1. PICK mt \in keys[p].meta, comms \in keys[p].comms, data \in keys[p].data,
           aux \in keys[p].aux, batch \in BatchesTo(p, "decommitment") :
        AnswerDecommitments(p, mt, comms, data, aux, batch)
  BY DEF GenerateSetupProofs
<1> DEFINE seed == {batch[q].open.seed : q \in Peers(p)}
           body == [schnorr |-> [aad |-> SetupAad(p, seed), X |-> data.X, R |-> data.k],
                    auxiliary |-> [aad |-> SetupAad(p, seed), aux |-> aux]]
           info == [q \in Peers(p) |-> [X |-> batch[q].open.X, aux |-> batch[q].open.aux]]
           d == [data EXCEPT !.Rs = [q \in Peers(p) |-> batch[q].open.R]]
           entry == [keys[p] EXCEPT !.data = {d}]
           m == [mt EXCEPT !.seed = seed, !.info = info]
           whole == [entry EXCEPT !.meta = {m}]
<1>2. life' = life /\ finished' = finished
  BY DEF GenerateSetupProofs
<1>3. /\ \A q \in Peers(p) : Commit(q, batch[q].open) = comms[q] /\ batch[q].ack = comms
      /\ \/ keys' = [keys EXCEPT ![p] = whole] /\ Answer(p, 3, "proofs", body)
         \/ \E e \in {entry, whole} : keys' = [keys EXCEPT ![p] = e] /\ NoAnswer
  BY <1>1 DEF AnswerDecommitments, Store
<1>4. CommitmentsOfAll(p, comms) /\ comms[p].aux = CurrentLife(p)
  BY <1>0, <1>1 DEF PlayerAgrees, EntryStored, CommsStored
<1>5. comms \in Acks(p)
  <2>1. batch[p] \in Sent("decommitment", p)
    BY <1>0, BatchMembers
  <2> QED BY <1>0, <1>3, <2>1 DEF Acks
<1>6. seed = SeedsOf(comms) /\ info = InfoOf(comms) /\ DOMAIN info = Peers(p)
  <2>1. \A q \in Peers(p) : /\ comms[q].seed = batch[q].open.seed
                            /\ comms[q].X = batch[q].open.X /\ comms[q].aux = batch[q].open.aux
    <3> TAKE q \in Peers(p)
    <3>1. Commit(q, batch[q].open) = comms[q]
      BY <1>3
    <3>2. LET c == Commit(q, batch[q].open)
          IN  /\ c.seed = batch[q].open.seed /\ c.X = batch[q].open.X
              /\ c.aux = batch[q].open.aux
      BY DEF Commit
    <3> QED BY <3>1, <3>2
  <2>2. DOMAIN comms = Peers(p)
    BY <1>4 DEF CommitmentsOfAll
  <2>3. info = [q \in Peers(p) |-> [X |-> comms[q].X, aux |-> comms[q].aux]]
    BY <2>1
  <2> QED BY <2>1, <2>2, <2>3 DEF SeedsOf, InfoOf
<1>7. d.k = data.k /\ d.X = data.X
  BY <1>0, <1>1 DEF KeyWellFormed, DataFields
<1>8. MetaStored(p, mt)
  BY <1>0, <1>1 DEF PlayerAgrees, EntryStored
<1>9. DOMAIN m = MetaFields /\ m.pub = mt.pub /\ m.seed = seed /\ m.info = info
  BY <1>8 DEF MetaStored, MetaFields
<1> HIDE DEF m, info, seed, body
<1> HIDE DEF d
<1>10. /\ entry.data = {d} /\ entry.aux = keys[p].aux /\ entry.x = keys[p].x
       /\ entry.meta = keys[p].meta /\ entry.comms = keys[p].comms /\ DOMAIN entry = KeyFields
  BY <1>0 DEF KeyWellFormed, KeyFields
<1> HIDE DEF entry
<1>11. /\ whole.data = {d} /\ whole.aux = keys[p].aux /\ whole.x = keys[p].x
       /\ whole.meta = {m} /\ whole.comms = keys[p].comms
  BY <1>10 DEF KeyFields
<1> HIDE DEF whole
<1>12. PICK e \in {entry, whole} : keys' = [keys EXCEPT ![p] = e] /\ (round' # round => e = whole)
  BY <1>3 DEF NoAnswer
<1>13. AnswersAtMost(p, 3, "proofs", body)
  BY <1>3, Answers
<1>14. /\ \A t, q : Sent(t, q) \subseteq Sent(t, q)' /\ (q # p => Sent(t, q)' = Sent(t, q))
       /\ \A t : t # "proofs" => Sent(t, p)' = Sent(t, p)
       /\ DOMAIN round' = AllPlayers /\ round'[p] \in {round[p], 3} /\ round[p] <= round'[p]
       /\ \A q \in AllPlayers : q # p => round'[q] = round[q]
  BY <1>13 DEF AnswersAtMost
<1>15. keys'[p] = e /\ \A q \in AllPlayers : q # p => keys'[q] = keys[q]
  BY <1>0, <1>12
<1>16. /\ e.data = {d} /\ e.aux = keys[p].aux /\ e.x = keys[p].x /\ e.comms = keys[p].comms
       /\ e.meta \in {{m}, keys[p].meta} /\ (round' # round => e.meta = {m})
  BY <1>10, <1>11, <1>12
<1>17. MovesOnly(p)
  BY <1>2, <1>14, <1>15 DEF MovesOnly
<1>18. \A id, X : Knows(p, id, X)' => Knows(p, id, X)
  BY <1>1, <1>2, <1>7, <1>14, <1>15, <1>16 DEF Knows
<1>19. Acks(p)' = Acks(p)
  BY <1>14 DEF Acks
<1>20. OneShare(p)' /\ FactorsSent(p)' /\ OneBatch(p)'
  BY <1>2, <1>14, <1>17, <1>18, <1>19, LifeGoesOn
<1>21. CurrentLife(p)' = CurrentLife(p)
  BY <1>2 DEF CurrentLife
<1>22. CommsStored(p)'
  <2>1. \A c : CommitmentsOfAll(p, c) => CommitmentsOfAll(p, c)'
    BY <1>17, BatchesGrow
  <2>2. CommsStored(p) /\ keys[p].data # {}
    BY <1>0, <1>1 DEF PlayerAgrees, EntryStored
  <2> QED BY <1>15, <1>16, <1>19, <1>21, <2>1, <2>2 DEF CommsStored
<1>23. MetaStored(p, m)'
  <2>1. DOMAIN m.info # {}
    BY <1>0, <1>6, <1>9
  <2>2. ASSUME round'[p] >= 4 PROVE m.pub = PublicSum(p, m.info)
    <3>1. round[p] >= 4 /\ round[p] >= 3
      BY <1>0, <1>14, <2>2
    <3>2. PICK ack \in Acks(p) : ack[p].aux = CurrentLife(p) /\ mt.info = InfoOf(ack)
      BY <1>8, <3>1 DEF MetaStored
    <3>3. keys[p].comms = {ack}
      BY <1>0, <1>1, <3>2 DEF PlayerAgrees, EntryStored, CommsStored
    <3>4. mt.info = m.info
      BY <1>1, <1>6, <1>9, <3>2, <3>3
    <3> QED BY <1>8, <1>9, <3>1, <3>4 DEF MetaStored
  <2>3. m.info = InfoOf(comms) /\ m.seed = SeedsOf(comms)
    BY <1>6, <1>9
  <2> QED BY <1>4, <1>5, <1>9, <1>19, <1>21, <2>1, <2>2, <2>3 DEF MetaStored
<1>24. ASSUME round' = round PROVE \A o \in keys[p].meta : MetaStored(p, o)'
  BY <1>0, <1>2, <1>17, <1>24, MetaKept DEF PlayerAgrees, EntryStored
<1>25. EntryStored(p)'
  <2>1. e.meta # {} /\ \A o \in e.meta : MetaStored(p, o)'
    BY <1>1, <1>16, <1>23, <1>24
  <2> QED BY <1>0, <1>15, <1>16, <1>21, <1>22, <2>1 DEF PlayerAgrees, EntryStored
<1>26. PlayerAgrees(p)'
  BY <1>0, <1>14, <1>20, <1>25 DEF PlayerAgrees
<1> QED BY <1>2, <1>14, <1>17, <1>26, StepAgrees

\* The sum is that of the infos, compared with the key or become it.
LEMMA VerifyProofsAgrees ==
    ASSUME AgreeInv, SetupInv, NEW p \in AllPlayers, VerifySetupProofs(p)
    PROVE  AgreeInv'
<1>0. /\ PlayerAgrees(p) /\ KeyWellFormed(p, life[p], keys[p]) /\ round[p] \in Nat
      /\ DOMAIN keys = AllPlayers
  BY DEF AgreeInv, PlayerAgrees, SetupInv, KeysKept
<1>1. PICK mt \in keys[p].meta, aux \in keys[p].aux :
        /\ SumAccepted(mt.pub, PublicSum(p, mt.info))
        /\ keys' = [keys EXCEPT ![p] = [keys[p] EXCEPT !.meta =
                        {[mt EXCEPT !.pub = IF @ = Infinity THEN PublicSum(p, mt.info) ELSE @]}]]
        /\ \/ Answer(p, 4, "factors",
                [q \in Peers(p) \ {p} |-> [aad |-> SetupAad(p, mt.seed), aux |-> aux,
                                           under |-> mt.info[q].aux]])
           \/ NoAnswer
  BY DEF VerifySetupProofs, Store
<1> DEFINE body == [q \in Peers(p) \ {p} |-> [aad |-> SetupAad(p, mt.seed), aux |-> aux,
                                              under |-> mt.info[q].aux]]
           m == [mt EXCEPT !.pub = IF @ = Infinity THEN PublicSum(p, mt.info) ELSE @]
           e == [keys[p] EXCEPT !.meta = {m}]
<1>2. life' = life /\ finished' = finished /\ round[p] >= 3
  BY DEF VerifySetupProofs
<1>3. MetaStored(p, mt)
  BY <1>0, <1>1 DEF PlayerAgrees, EntryStored
<1>4. /\ DOMAIN m = MetaFields /\ m.seed = mt.seed /\ m.info = mt.info
      /\ m.pub = PublicSum(p, mt.info)
  BY <1>1, <1>3 DEF MetaStored, MetaFields, SumAccepted
<1>5. \A q \in Peers(p) \ {p} : body[q].aad = SetupAad(p, mt.seed) /\ body[q].aux = aux
  OBVIOUS
<1> HIDE DEF m
<1>6. /\ e.data = keys[p].data /\ e.aux = keys[p].aux /\ e.x = keys[p].x
      /\ e.comms = keys[p].comms /\ e.meta = {m}
  BY <1>0 DEF KeyWellFormed, KeyFields
<1>7. keys'[p] = e /\ \A q \in AllPlayers : q # p => keys'[q] = keys[q]
  BY <1>0, <1>1 DEF m
<1> HIDE DEF e
<1>8. AnswersAtMost(p, 4, "factors", body)
  BY <1>1, Answers
<1> HIDE DEF body
<1>9. /\ \A t, q : Sent(t, q) \subseteq Sent(t, q)' /\ (q # p => Sent(t, q)' = Sent(t, q))
      /\ \A t : t # "factors" => Sent(t, p)' = Sent(t, p)
      /\ Sent("factors", p)' \subseteq Sent("factors", p) \cup {body}
      /\ DOMAIN round' = AllPlayers /\ round'[p] \in {round[p], 4} /\ round[p] <= round'[p]
      /\ \A q \in AllPlayers : q # p => round'[q] = round[q]
  BY <1>8 DEF AnswersAtMost
<1>10. MovesOnly(p)
  BY <1>2, <1>7, <1>9 DEF MovesOnly
<1>11. \A id, X : Knows(p, id, X)' => Knows(p, id, X)
  BY <1>2, <1>6, <1>7, <1>9 DEF Knows
<1>12. Acks(p)' = Acks(p)
  BY <1>9 DEF Acks
<1>13. OneShare(p)' /\ OneBatch(p)'
  BY <1>2, <1>9, <1>10, <1>11, <1>12, LifeGoesOn
<1>14. CurrentLife(p)' = CurrentLife(p)
  BY <1>2 DEF CurrentLife
<1>15. DOMAIN mt.info # {}
  BY <1>2, <1>3 DEF MetaStored
<1>16. PICK ack \in Acks(p) : /\ ack[p].aux = CurrentLife(p)
                              /\ mt.info = InfoOf(ack) /\ mt.seed = SeedsOf(ack)
  BY <1>3, <1>15 DEF MetaStored
<1>17. FactorsSent(p)'
  <2>1. aux = ack[p].aux
    BY <1>0, <1>1, <1>16 DEF PlayerAgrees, EntryStored
  <2>2. \A q \in Peers(p) \ {p} : body[q].aad = SetupAad(p, SeedsOf(ack)) /\ body[q].aux = ack[p].aux
    BY <1>5, <1>16, <2>1
  <2> QED BY <1>0, <1>9, <1>12, <1>16, <2>2 DEF PlayerAgrees, FactorsSent
<1>18. CommsStored(p)'
  <2>1. \A c : CommitmentsOfAll(p, c) => CommitmentsOfAll(p, c)'
    BY <1>10, BatchesGrow
  <2>2. CommsStored(p)
    BY <1>0 DEF PlayerAgrees, EntryStored
  <2> QED BY <1>6, <1>7, <1>12, <1>14, <2>1, <2>2 DEF CommsStored
<1>19. MetaStored(p, m)'
  BY <1>4, <1>12, <1>14, <1>15, <1>16 DEF MetaStored
<1>20. EntryStored(p)'
  BY <1>0, <1>6, <1>7, <1>14, <1>18, <1>19 DEF PlayerAgrees, EntryStored
<1>21. PlayerAgrees(p)'
  BY <1>0, <1>9, <1>13, <1>17, <1>20 DEF PlayerAgrees
<1> QED BY <1>2, <1>9, <1>10, <1>21, StepAgrees

\* The factors are those of players with a batch of the same commitments.
LEMMA CreateSecretAgrees ==
    ASSUME AgreeInv, SetupInv, NEW p \in AllPlayers, CreateSecret(p)
    PROVE  AgreeInv'
<1>0. /\ PlayerAgrees(p) /\ KeyWellFormed(p, life[p], keys[p]) /\ round[p] \in Nat
      /\ DOMAIN keys = AllPlayers /\ DOMAIN round = AllPlayers
  BY DEF AgreeInv, PlayerAgrees, SetupInv, KeysKept
<1> DEFINE e == [keys[p] EXCEPT !.data = {}, !.comms = {}]
<1>1. PICK mt \in keys[p].meta, aux \in keys[p].aux, x \in keys[p].x, batch \in BatchesTo(p, "factors") :
        /\ \A q \in Peers(p) \ {p} :
            batch[q][p] = [aad |-> SetupAad(q, mt.seed), aux |-> mt.info[q].aux, under |-> aux]
        /\ \/ /\ keys' = [keys EXCEPT ![p] = e]
              /\ \/ finished' = finished \cup
                        {[by |-> p, id |-> aux, x |-> x, pub |-> mt.pub, info |-> mt.info]}
                 \/ finished' = finished
              /\ UNCHANGED <<msgs, round>>
           \/ /\ keys' = [keys EXCEPT ![p] = NoKey]
              /\ round' = [round EXCEPT ![p] = 0]
              /\ UNCHANGED <<msgs, finished>>
  BY DEF CreateSecret, Store, NoAnswer
<1> DEFINE f == [by |-> p, id |-> aux, x |-> x, pub |-> mt.pub, info |-> mt.info]
<1>2. life' = life /\ msgs' = msgs /\ round[p] >= 4
  BY <1>1 DEF CreateSecret
<1>3. /\ e.data = {} /\ e.aux = keys[p].aux /\ e.x = keys[p].x
      /\ e.comms = {} /\ e.meta = keys[p].meta
  BY <1>0 DEF KeyWellFormed, KeyFields
<1>4. NoKey.meta = {} /\ NoKey.data = {} /\ NoKey.aux = {} /\ NoKey.x = {} /\ NoKey.comms = {}
  BY DEF NoKey
<1>5. f.by = p /\ f.id = aux /\ f.x = x /\ f.pub = mt.pub /\ f.info = mt.info
  OBVIOUS
<1> HIDE DEF f
<1>6. finished' \in {finished, finished \cup {f}}
  BY <1>1 DEF f
<1> HIDE DEF e
<1>7. \/ keys'[p] = e /\ round'[p] = round[p]
      \/ keys'[p] = NoKey /\ round'[p] = 0
  BY <1>0, <1>1
<1>8. /\ DOMAIN round' = AllPlayers
      /\ \A q \in AllPlayers : q # p => keys'[q] = keys[q] /\ round'[q] = round[q]
  BY <1>0, <1>1
<1>9. \A t, q : Sent(t, q)' = Sent(t, q)
  BY <1>2, SilentAdds DEF Adds
<1>10. MovesOnly(p)
  BY <1>2, <1>5, <1>6, <1>8, <1>9 DEF MovesOnly
<1>11. /\ keys'[p].data = {} /\ keys'[p].comms = {} /\ keys'[p].aux \subseteq keys[p].aux
       /\ keys'[p].x \subseteq keys[p].x /\ keys'[p].meta \subseteq keys[p].meta
       /\ (keys'[p].meta = {} => round'[p] = 0)
  BY <1>1, <1>3, <1>4, <1>7
<1>12. \A id, X : Knows(p, id, X)' => Knows(p, id, X)
  BY <1>1, <1>5, <1>6, <1>9, <1>11 DEF Knows
<1>13. \A q : Acks(q)' = Acks(q)
  BY <1>9 DEF Acks
<1>14. OneShare(p)' /\ OneBatch(p)' /\ FactorsSent(p)'
  BY <1>2, <1>9, <1>10, <1>12, <1>13, LifeGoesOn
<1>15. EntryStored(p)'
  <2>1. CurrentLife(p)' = CurrentLife(p)
    BY <1>2 DEF CurrentLife
  <2>2. CommsStored(p)'
    BY <1>11 DEF CommsStored
  <2>3. \A m \in keys[p].meta : MetaStored(p, m)'
    <3>1. (round'[p] >= 3 => round[p] >= 3) /\ (round'[p] >= 4 => round[p] >= 4)
      BY <1>0, <1>7
    <3> QED BY <1>0, <1>2, <1>10, <3>1, MetaKept DEF PlayerAgrees, EntryStored
  <2> QED BY <1>0, <1>11, <2>1, <2>2, <2>3 DEF PlayerAgrees, EntryStored
<1>16. PlayerAgrees(p)'
  BY <1>0, <1>7, <1>14, <1>15 DEF PlayerAgrees
<1>17. f.x \in Scalars
  BY <1>0, <1>1, <1>5 DEF PlayerAgrees, EntryStored
<1>18. Counted(f)
  <2>1. MetaStored(p, mt)
    BY <1>0, <1>1 DEF PlayerAgrees, EntryStored
  <2>2. DOMAIN mt.info # {} /\ mt.pub = PublicSum(p, mt.info)
    BY <1>0, <1>2, <2>1 DEF MetaStored
  <2>3. PICK ack \in Acks(p) : /\ ack[p].aux = CurrentLife(p)
                               /\ mt.info = InfoOf(ack) /\ mt.seed = SeedsOf(ack)
    BY <2>1, <2>2 DEF MetaStored
  <2>4. aux = ack[p].aux
    BY <1>0, <1>1, <2>3 DEF PlayerAgrees, EntryStored
  <2>5. ASSUME NEW q \in Peers(p) \ {p}
        PROVE  \E other \in Acks(q) : other[q].aux = mt.info[q].aux /\ SeedsOf(other) = SeedsOf(ack)
    <3>1. q \in AllPlayers /\ p \in Peers(q) \ {q}
      BY AmongPeers
    <3>2. batch[q] \in Sent("factors", q)
      BY BatchMembers
    <3>3. FactorsSent(q)
      BY <3>1 DEF AgreeInv, PlayerAgrees
    <3>4. PICK other \in Acks(q) : /\ batch[q][p].aad = SetupAad(q, SeedsOf(other))
                                   /\ batch[q][p].aux = other[q].aux
      BY <3>1, <3>2, <3>3 DEF FactorsSent
    <3>5. batch[q][p].aad = SetupAad(q, mt.seed) /\ batch[q][p].aux = mt.info[q].aux
      <4>1. batch[q][p] = [aad |-> SetupAad(q, mt.seed), aux |-> mt.info[q].aux, under |-> aux]
        BY <1>1
      <4> QED BY <4>1
    <3>6. SeedsOf(other) = mt.seed
      BY <3>4, <3>5 DEF SetupAad
    <3> QED BY <2>3, <3>4, <3>5, <3>6
  <2> QED BY <1>5, <2>2, <2>3, <2>4, <2>5 DEF Counted
<1>19. Counted(f)'
  <2> SUFFICES \A g : Counted(g) => Counted(g)'
    BY <1>18
  <2> TAKE g
  <2> QED BY <1>13 DEF Counted
<1> QED BY <1>6, <1>8, <1>10, <1>16, <1>17, <1>19, StepAgrees

\* Of players that count one another, by the same seeds.
LEMMA SameBatch ==
    ASSUME AgreeInv, NEW p \in AllPlayers, NEW q \in Peers(p), NEW a \in Acks(p), NEW b \in Acks(q),
           SeedsOf(a) = SeedsOf(b)
    PROVE  InfoOf(a) = InfoOf(b)
<1>0. q \in AllPlayers /\ Peers(q) = Peers(p) /\ Peers(p) \subseteq AllPlayers
  BY AmongPeers
<1>1. CommitmentsOfAll(p, a) /\ CommitmentsOfAll(q, b)
  BY <1>0 DEF AgreeInv, PlayerAgrees, OneBatch
<1>2. DOMAIN a = Peers(p) /\ DOMAIN b = Peers(p)
  BY <1>0, <1>1 DEF CommitmentsOfAll
<1>3. ASSUME NEW o \in Peers(p) PROVE a[o].X = b[o].X /\ a[o].aux = b[o].aux
  <2>1. PICK r \in Peers(p) : a[o].seed = b[r].seed
    BY <1>2, <1>3 DEF SeedsOf
  <2>2. /\ a[o] \in Sent("commitment", o) /\ b[r] \in Sent("commitment", r)
        /\ b[o] \in Sent("commitment", o)
    BY <1>0, <1>1, <1>3 DEF CommitmentsOfAll
  <2>3. \A s \in AllPlayers : \A c \in Sent("commitment", s) :
            c.seed = c.aux /\ Knows(s, c.aux, c.X) /\ \E n \in Nat : c.aux = <<s, n>>
    <3> SUFFICES ASSUME NEW s \in AllPlayers, NEW c \in Sent("commitment", s)
                 PROVE  c.seed = c.aux /\ Knows(s, c.aux, c.X) /\ \E n \in Nat : c.aux = <<s, n>>
      OBVIOUS
    <3>1. OneShare(s)
      BY DEF AgreeInv, PlayerAgrees
    <3>2. Knows(s, c.aux, c.X)
      BY DEF Knows
    <3>3. c = Commit(s, [seed |-> c.aux, X |-> c.X, R |-> c.aux, aux |-> c.aux])
      BY <3>1 DEF OneShare
    <3>4. c.seed = c.aux
      BY <3>3 DEF Commit
    <3>5. \E n \in 1 .. life[s] : c.aux = <<s, n>>
      BY <3>1, <3>2 DEF OneShare
    <3> QED BY <3>2, <3>4, <3>5
  <2>4. r = o
    BY <1>0, <1>3, <2>1, <2>2, <2>3
  <2>5. a[o].aux = b[o].aux
    BY <1>0, <1>3, <2>1, <2>2, <2>3, <2>4
  <2>6. OneShare(o) /\ Knows(o, a[o].aux, a[o].X) /\ Knows(o, b[o].aux, b[o].X)
    BY <1>0, <1>3, <2>2, <2>3 DEF AgreeInv, PlayerAgrees
  <2> QED BY <2>5, <2>6 DEF OneShare
<1> QED BY <1>2, <1>3 DEF InfoOf

LEMMA ResultsAgree ==
    ASSUME AgreeInv, NEW f \in finished, NEW g \in finished,
           g.by \in DOMAIN f.info, f.info[g.by].aux = g.id
    PROVE  g.pub = f.pub /\ g.info = f.info
<1>0. f.by \in AllPlayers /\ g.by \in AllPlayers /\ Counted(f) /\ Counted(g)
  BY DEF AgreeInv, FinishedCounted
<1>1. PICK a \in Acks(f.by) :
        /\ f.id = a[f.by].aux /\ f.info = InfoOf(a) /\ f.pub = PublicSum(f.by, f.info)
        /\ \A q \in Peers(f.by) \ {f.by} : \E other \in Acks(q) :
                other[q].aux = f.info[q].aux /\ SeedsOf(other) = SeedsOf(a)
  BY <1>0 DEF Counted
<1>2. PICK b \in Acks(g.by) :
        g.id = b[g.by].aux /\ g.info = InfoOf(b) /\ g.pub = PublicSum(g.by, g.info)
  BY <1>0 DEF Counted
<1>3. DOMAIN f.info = Peers(f.by) /\ \A q \in Peers(f.by) : f.info[q].aux = a[q].aux
  <2>1. DOMAIN a = Peers(f.by)
    BY <1>0 DEF AgreeInv, PlayerAgrees, OneBatch, CommitmentsOfAll
  <2> QED BY <1>1, <2>1 DEF InfoOf
<1>4. \A c, d \in Acks(g.by) : c[g.by].aux = d[g.by].aux => c = d
  BY <1>0 DEF AgreeInv, PlayerAgrees, OneBatch
<1>5. SeedsOf(a) = SeedsOf(b)
  <2>1. CASE g.by = f.by
    BY <1>0, <1>1, <1>2, <1>3, <1>4, <2>1, AmongPeers
  <2>2. CASE g.by # f.by
    <3>1. PICK other \in Acks(g.by) : other[g.by].aux = f.info[g.by].aux /\ SeedsOf(other) = SeedsOf(a)
      BY <1>1, <1>3, <2>2
    <3> QED BY <1>2, <1>4, <3>1
  <2> QED BY <2>1, <2>2
<1>6. g.info = f.info
  BY <1>0, <1>1, <1>2, <1>3, <1>5, SameBatch
<1> QED BY <1>1, <1>2, <1>6 DEF PublicSum

\* Whose shares add up to the key: each is that of the info.
LEMMA SharesAddUp ==
    ASSUME AgreeInv, NEW f \in finished, Complete(f)
    PROVE  GeneratorMul(SumOfShares(f)) = f.pub /\ SumOfShares(f) \in Scalars
<1>0. f.by \in AllPlayers /\ Counted(f)
  BY DEF AgreeInv, FinishedCounted
<1>1. PICK a \in Acks(f.by) : f.info = InfoOf(a) /\ f.pub = PublicSum(f.by, f.info)
  BY <1>0 DEF Counted
<1>2. CommitmentsOfAll(f.by, a) /\ Peers(f.by) \subseteq AllPlayers
  BY <1>0, AmongPeers DEF AgreeInv, PlayerAgrees, OneBatch
<1>3. /\ DOMAIN f.info = Peers(f.by)
      /\ \A q \in Peers(f.by) : f.info[q].aux = a[q].aux /\ f.info[q].X = a[q].X
  <2>1. DOMAIN a = Peers(f.by)
    BY <1>2 DEF CommitmentsOfAll
  <2> QED BY <1>1, <2>1 DEF InfoOf
<1> DEFINE xs == [q \in DOMAIN f.info |-> ShareOf(f.info[q].aux)]
           Xs == [q \in DOMAIN f.info |-> f.info[q].X]
<1>4. ASSUME NEW q \in Peers(f.by)
      PROVE  ShareOf(f.info[q].aux) \in Scalars /\ GeneratorMul(ShareOf(f.info[q].aux)) = f.info[q].X
  <2>1. PICK g \in finished : g.id = f.info[q].aux /\ ShareOf(f.info[q].aux) = g.x
    BY <1>3, <1>4 DEF Complete, ShareOf
  <2>2. g.by \in AllPlayers /\ g.x \in Scalars /\ Counted(g)
    BY DEF AgreeInv, FinishedCounted
  <2>3. Knows(g.by, g.id, GeneratorMul(g.x))
    BY DEF Knows
  <2>4. q \in AllPlayers /\ a[q] \in Sent("commitment", q)
    BY <1>2, <1>4 DEF CommitmentsOfAll
  <2>5. Knows(q, a[q].aux, a[q].X)
    BY <2>4 DEF Knows
  <2>6. OneShare(q) /\ OneShare(g.by)
    BY <2>2, <2>4 DEF AgreeInv, PlayerAgrees
  <2>7. (\E n \in 1 .. life[g.by] : g.id = <<g.by, n>>) /\ (\E n \in 1 .. life[q] : a[q].aux = <<q, n>>)
    BY <2>3, <2>5, <2>6 DEF OneShare
  <2>8. g.by = q /\ g.id = a[q].aux
    <3>1. g.id = a[q].aux
      BY <1>3, <1>4, <2>1
    <3> QED BY <2>7, <3>1
  <2>9. GeneratorMul(g.x) = a[q].X
    BY <2>3, <2>5, <2>6, <2>8 DEF OneShare
  <2> QED BY <1>3, <1>4, <2>1, <2>2, <2>9
<1>5. ScalarsOf(xs, Peers(f.by)) /\ PointsOf(Xs, xs)
  <2>1. IsFiniteSet(Peers(f.by))
    BY CmpAssumption, SetupAssumption DEF Peers, PlayersOf
  <2> QED BY <1>3, <1>4, <2>1 DEF ScalarsOf, PointsOf
<1>6. SumOver(xs) \in Scalars /\ GeneratorMul(SumOver(xs)) = PointSum(Xs)
  <2> HIDE DEF xs, Xs
  <2> QED BY <1>5, SumsMatch
<1> QED BY <1>1, <1>6 DEF SumOfShares, PublicSum

-----------------------------------------------------------------------------
\* What setup draws, and what the seeds of a refresh expand to, are scalars.
RandomScalars ==
    /\ \A p \in AllPlayers, n \in Nat, q \in AllPlayers \cup {0} : Draw(p, n, q, "x") \in Scalars
    /\ \A r \in RefreshReqs, p, q \in Players : Prf(r, p, q, "x", 0) \in Scalars

SharesAreScalars ==
    /\ DOMAIN share = Players /\ DOMAIN tempKey = Players
    /\ \A p \in Players : /\ share[p] \in Scalars
                          /\ \A r \in DOMAIN tempKey[p] : tempKey[p][r].x \in Scalars
    /\ \A p \in Players : \A b \in Sent("add_user", p) : \A q \in NewPlayers : b.shares[q] \in Scalars

SetupTypes == {"commitment", "decommitment", "proofs", "factors", "add_user"}

\* A step that sends nothing of setup.
SendsOther(p) == msgs' = msgs \/ \E type, body : type \notin SetupTypes /\ Return(p, type, body)

LEMMA OtherMessages ==
    ASSUME NEW p, SendsOther(p)
    PROVE  \A t \in SetupTypes : \A q : Sent(t, q)' = Sent(t, q)
<1>1. CASE msgs' = msgs
  BY <1>1, SilentAdds DEF Adds
<1>2. ASSUME NEW type, NEW body, type \notin SetupTypes, Return(p, type, body)
      PROVE  \A t \in SetupTypes : \A q : Sent(t, q)' = Sent(t, q)
  BY <1>2, ReturnAdds DEF Adds
<1> QED BY <1>1, <1>2 DEF SendsOther

LEMMA ServicesSendOther ==
    ASSUME NEW p, Step(p)
    PROVE  SendsOther(p)
<1>1. \A type, body : type \notin SetupTypes /\ Return(p, type, body) => SendsOther(p)
  BY DEF SendsOther
<1>2. msgs' = msgs => SendsOther(p)
  BY DEF SendsOther
<1>3. {"mta", "response", "deltas", "partial", "online mta", "online response", "online deltas",
       "si", "seed"} \cap SetupTypes = {}
  BY DEF SetupTypes
<1>4. ASSUME NEW reqs, NEW txs, OfflineStep(p, reqs, txs) PROVE SendsOther(p)
  <2>1. ASSUME NEW r, StartPreprocessing(p, r) PROVE SendsOther(p)
    BY <1>1, <1>3, <2>1 DEF StartPreprocessing
  <2>2. ASSUME NEW r, OfflineMtaResponse(p, r) PROVE SendsOther(p)
    BY <1>1, <1>2, <1>3, <2>2 DEF OfflineMtaResponse, RespondToRequests
  <2>3. ASSUME NEW r, OfflineMtaVerify(p, r) PROVE SendsOther(p)
    BY <1>1, <1>2, <1>3, <2>3 DEF OfflineMtaVerify, VerifyResponses
  <2>4. ASSUME NEW r, StorePresigningData(p, r) \/ CancelPreprocessing(p, r) PROVE SendsOther(p)
    BY <1>2, <2>4 DEF StorePresigningData, CancelPreprocessing
  <2>5. ASSUME NEW tx, NEW i, EcdsaSign(p, tx, i) PROVE SendsOther(p)
    BY <1>1, <1>3, <2>5 DEF EcdsaSign
  <2> QED BY <1>4, <2>1, <2>2, <2>3, <2>4, <2>5 DEF OfflineStep
<1>5. ASSUME NEW r, NEW sets, NEW max, RefreshStep(p, r, sets, max) PROVE SendsOther(p)
  <2>1. CASE RefreshKeyRequest(p, r)
    <3>1. Return(p, "seed", [req |-> r])
      BY <2>1 DEF RefreshKeyRequest, Return, Seed
    <3> QED BY <1>1, <1>3, <3>1
  <2>2. ASSUME NEW set, RefreshKey(p, r, set) PROVE SendsOther(p)
    BY <1>2, <2>2 DEF RefreshKey
  <2>3. CASE RefreshKeyFastAck(p, r) \/ CancelRefreshKey(p, r)
    BY <1>2, <2>3 DEF RefreshKeyFastAck, CancelRefreshKey
  <2> QED BY <1>5, <2>1, <2>2, <2>3 DEF RefreshStep
<1>6. ASSUME NEW tx, OnlineStep(p, tx) PROVE SendsOther(p)
  <2>1. CASE StartSigning(p, tx)
    BY <1>1, <1>3, <2>1 DEF StartSigning
  <2>2. CASE OnlineMtaResponse(p, tx)
    BY <1>1, <1>2, <1>3, <2>2 DEF OnlineMtaResponse
  <2>3. CASE OnlineMtaVerify(p, tx)
    BY <1>1, <1>3, <2>3 DEF OnlineMtaVerify
  <2>4. CASE GetSi(p, tx)
    BY <1>1, <1>3, <2>4 DEF GetSi
  <2>5. CASE GetCmpSignature(p, tx) \/ CancelSigning(p, tx)
    BY <1>2, <2>5 DEF GetCmpSignature, CancelSigning
  <2> QED BY <1>6, <2>1, <2>2, <2>3, <2>4, <2>5 DEF OnlineStep
<1> QED BY <1>4, <1>5, <1>6 DEF Step

LEMMA ShiftIsScalar ==
    ASSUME RandomScalars, NEW p \in Players, NEW r \in RefreshReqs, NEW set \in SUBSET Players
    PROVE  Shift(p, r, set, "x", 0) \in Scalars
<1> DEFINE f == [q \in set \ {p} |-> SubScalars(Prf(r, q, p, "x", 0), Prf(r, p, q, "x", 0))]
<1>1. ASSUME NEW q \in set \ {p} PROVE f[q] \in Scalars
  <2>1. Prf(r, q, p, "x", 0) \in Int /\ Prf(r, p, q, "x", 0) \in Int
    BY DEF RandomScalars, Scalars
  <2> QED BY <2>1, ScalarsClosed
<1>2. ScalarsOf(f, set \ {p})
  <2>1. IsFiniteSet(set \ {p})
    BY CmpAssumption, FS_Subset
  <2> QED BY <1>1, <2>1 DEF ScalarsOf
<1> HIDE DEF f
<1>3. SumOver(f) \in Scalars
  BY <1>2, SumsMatch
<1> QED BY <1>3 DEF Shift, f

LEMMA RefreshKeepsScalars ==
    ASSUME RandomScalars, SharesAreScalars, NEW p \in Players, NEW r \in RefreshReqs,
           NEW sets \in SUBSET SUBSET Players, NEW max, RefreshStep(p, r, sets, max)
    PROVE  /\ DOMAIN share' = Players /\ DOMAIN tempKey' = Players
           /\ \A q \in Players : /\ share'[q] \in Scalars
                                 /\ \A o \in DOMAIN tempKey'[q] : tempKey'[q][o].x \in Scalars
<1>0. /\ DOMAIN share = Players /\ DOMAIN tempKey = Players
      /\ \A q \in Players : /\ share[q] \in Scalars
                            /\ \A o \in DOMAIN tempKey[q] : tempKey[q][o].x \in Scalars
  BY DEF SharesAreScalars
<1>1. CASE RefreshKeyRequest(p, r)
  BY <1>0, <1>1 DEF RefreshKeyRequest
<1>2. ASSUME NEW set \in sets, RefreshKey(p, r, set \cup {p})
      PROVE  /\ share' = share /\ DOMAIN tempKey' = Players
             /\ \A q \in Players : \A o \in DOMAIN tempKey'[q] : tempKey'[q][o].x \in Scalars
  <2> DEFINE y == AddScalars(share[p], Shift(p, r, set \cup {p}, "x", 0))
             kept == [x |-> y, epoch |-> Append(epoch[p], [req |-> r, with |-> set \cup {p}])]
  <2>1. y \in Scalars
    <3>1. Shift(p, r, set \cup {p}, "x", 0) \in Int /\ share[p] \in Int
      BY <1>0, ShiftIsScalar DEF Scalars
    <3> QED BY <3>1, ScalarsClosed
  <2>2. kept.x = y
    OBVIOUS
  <2>3. share' = share /\ tempKey' \in {tempKey, [tempKey EXCEPT ![p] = Put(@, r, kept)]}
    BY <1>2 DEF RefreshKey
  <2> HIDE DEF kept, y
  <2> QED BY <1>0, <2>1, <2>2, <2>3 DEF Put
<1>3. CASE RefreshKeyFastAck(p, r)
  BY <1>0, <1>3 DEF RefreshKeyFastAck, Without
<1>4. CASE CancelRefreshKey(p, r)
  BY <1>0, <1>4 DEF CancelRefreshKey, Without
<1> QED BY <1>0, <1>1, <1>2, <1>3, <1>4 DEF RefreshStep

\* A request splits a share: all parts are scalars, and the key is the stored.
LEMMA AddUserRequestSends ==
    ASSUME RandomScalars, SharesAreScalars, NEW p \in Players, NEW n \in Nat, AddUserRequest(p, n)
    PROVE  \E mt \in keys[p].meta : \E body :
                /\ Return(p, "add_user", body) /\ body.pub = mt.pub
                /\ \A q \in NewPlayers : body.shares[q] \in Scalars
<1> DEFINE last == CHOOSE q \in NewPlayers : \A o \in NewPlayers : q >= o
           drawnFor == [q \in NewPlayers \ {last} |-> Draw(p, n, q, "x")]
           rest == SubScalars(share[p], SumOver(drawnFor))
           shares == [q \in NewPlayers |-> IF q = last THEN rest ELSE drawnFor[q]]
<1>1. PICK mt \in keys[p].meta : Return(p, "add_user", [pub |-> mt.pub, shares |-> shares])
  BY DEF AddUserRequest
<1>2. ASSUME NEW q \in NewPlayers \ {last} PROVE drawnFor[q] \in Scalars
  BY DEF RandomScalars, AllPlayers
<1>3. DOMAIN drawnFor = NewPlayers \ {last}
  OBVIOUS
<1>4. rest \in Scalars
  <2>1. ScalarsOf(drawnFor, NewPlayers \ {last})
    <3>1. IsFiniteSet(NewPlayers \ {last})
      BY SetupAssumption, FS_Subset
    <3> HIDE DEF drawnFor, last
    <3> QED BY <1>2, <1>3, <3>1 DEF ScalarsOf
  <2>2. SumOver(drawnFor) \in Int
    <3> HIDE DEF drawnFor, last
    <3> QED BY <2>1, SumsMatch DEF Scalars
  <2>3. share[p] \in Int
    BY DEF SharesAreScalars, Scalars
  <2> HIDE DEF drawnFor
  <2> QED BY <2>2, <2>3, ScalarsClosed
<1>5. ASSUME NEW q \in NewPlayers PROVE shares[q] \in Scalars
  <2> HIDE DEF rest, drawnFor, last
  <2>1. CASE q = last
    BY <1>4, <2>1
  <2>2. CASE q # last
    BY <1>2, <1>3, <2>2
  <2> QED BY <2>1, <2>2
<1> HIDE DEF shares
<1> QED BY <1>1, <1>5

LEMMA AddUserMakes ==
    ASSUME SharesAreScalars, NEW p \in NewPlayers, AddUser(p)
    PROVE  \E x \in Scalars : \E pub :
                /\ MakeKey(p, x, pub)
                /\ Players # {} => \E q \in Players : \E b \in Sent("add_user", q) : pub = b.pub
<1> DEFINE first == CHOOSE q \in Players : TRUE
<1>1. PICK batch :
        /\ \A q \in Players : batch[q] \in Sent("add_user", q)
        /\ MakeKey(p, SumOver([q \in Players |-> batch[q].shares[p]]), batch[first].pub)
  BY DEF AddUser
<1> DEFINE f == [q \in Players |-> batch[q].shares[p]]
<1>2. ScalarsOf(f, Players)
  BY <1>1, CmpAssumption DEF SharesAreScalars, ScalarsOf
<1>3. SumOver(f) \in Scalars
  <2> HIDE DEF f
  <2> QED BY <1>2, SumsMatch
<1>4. Players # {} => first \in Players
  OBVIOUS
<1> HIDE DEF f, first
<1> QED BY <1>1, <1>3, <1>4 DEF f

\* What setup does, with the share of a new life.
LEMMA SetupMakes ==
    ASSUME RandomScalars, SharesAreScalars, SetupInv, NEW p \in AllPlayers,
           NEW players, NEW maxLives, NEW maxRequests \in Nat,
           SetupStep(p, players, maxLives, maxRequests)
    PROVE  \/ \E x \in Scalars : \E pub : MakeKey(p, x, pub)
           \/ StoreSetupCommitments(p) \/ GenerateSetupProofs(p)
           \/ VerifySetupProofs(p) \/ CreateSecret(p)
           \/ p \in Players /\ \E n \in 1 .. maxRequests : AddUserRequest(p, n)
<1>1. CASE GenerateSetupCommitments(p)
  <2>1. Draw(p, life[p] + 1, 0, "x") \in Scalars
    BY DEF RandomScalars, SetupInv
  <2> QED BY <1>1, <2>1 DEF GenerateSetupCommitments
<1>2. CASE p \in NewPlayers /\ AddUser(p)
  BY <1>2, AddUserMakes
<1> QED BY <1>1, <1>2 DEF SetupStep

LEMMA UntouchedAgrees ==
    ASSUME AgreeInv, UNCHANGED setupVars,
           \A t \in {"commitment", "decommitment", "factors"} : \A q : Sent(t, q)' = Sent(t, q)
    PROVE  AgreeInv'
<1>1. /\ keys' = keys /\ life' = life /\ round' = round /\ finished' = finished
      /\ \A q : /\ Sent("commitment", q)' = Sent("commitment", q)
                /\ Sent("decommitment", q)' = Sent("decommitment", q)
                /\ Sent("factors", q)' = Sent("factors", q)
  BY DEF setupVars
<1>2. \A q : Acks(q)' = Acks(q) /\ CurrentLife(q)' = CurrentLife(q)
  BY <1>1 DEF Acks, CurrentLife
<1>3. \A q, c : CommitmentsOfAll(q, c) => CommitmentsOfAll(q, c)'
  BY <1>1 DEF CommitmentsOfAll
<1>4. ASSUME NEW p \in AllPlayers PROVE PlayerAgrees(p)'
  <2>0. PlayerAgrees(p)
    BY DEF AgreeInv
  <2>1. OneShare(p)'
    <3>1. \A id, X : Knows(p, id, X)' => Knows(p, id, X)
      BY <1>1 DEF Knows
    <3> QED BY <1>1, <2>0, <3>1 DEF PlayerAgrees, OneShare
  <2>2. OneBatch(p)'
    BY <1>2, <1>3, <2>0 DEF PlayerAgrees, OneBatch
  <2>3. EntryStored(p)'
    <3>1. CommsStored(p)'
      BY <1>1, <1>2, <1>3, <2>0 DEF PlayerAgrees, EntryStored, CommsStored
    <3>2. \A m \in keys[p].meta : MetaStored(p, m)'
      BY <1>1, <1>2, <2>0 DEF PlayerAgrees, EntryStored, MetaStored
    <3> QED BY <1>1, <1>2, <2>0, <3>1, <3>2 DEF PlayerAgrees, EntryStored
  <2>4. FactorsSent(p)'
    BY <1>1, <1>2, <2>0 DEF PlayerAgrees, FactorsSent
  <2> QED BY <1>1, <2>0, <2>1, <2>2, <2>3, <2>4 DEF PlayerAgrees
<1>5. FinishedCounted'
  BY <1>1, <1>2 DEF AgreeInv, FinishedCounted, Counted
<1> QED BY <1>1, <1>4, <1>5 DEF AgreeInv

LEMMA SetupStepAgrees ==
    ASSUME RandomScalars, SharesAreScalars, SetupInv, AgreeInv, NEW p \in AllPlayers,
           NEW players, NEW maxLives, NEW maxRequests \in Nat,
           SetupStep(p, players, maxLives, maxRequests)
    PROVE  AgreeInv'
<1>1. ASSUME NEW x \in Scalars, NEW pub, MakeKey(p, x, pub) PROVE AgreeInv'
  BY <1>1, MakeKeyAgrees
<1>2. ASSUME NEW n \in 1 .. maxRequests, p \in Players, AddUserRequest(p, n) PROVE AgreeInv'
  <2>1. PICK body : Return(p, "add_user", body)
    BY <1>2, AddUserRequestSends
  <2>2. \A t \in {"commitment", "decommitment", "factors"} : \A q : Sent(t, q)' = Sent(t, q)
    BY <2>1, ReturnAdds DEF Adds
  <2> QED BY <1>2, <2>2, UntouchedAgrees DEF AddUserRequest
<1> QED BY <1>1, <1>2, SetupMakes, StoreCommitmentsAgrees, SetupProofsAgree,
           VerifyProofsAgrees, CreateSecretAgrees

LEMMA SharesNext ==
    ASSUME RandomScalars, SharesAreScalars, SetupInv, [Next]_allVars
    PROVE  SharesAreScalars'
<1> DEFINE Kept == share' = share /\ tempKey' = tempKey
           Same(q) == Sent("add_user", q)' = Sent("add_user", q)
<1>1. ASSUME Kept, \A q : Same(q) PROVE SharesAreScalars'
  BY <1>1 DEF SharesAreScalars
<1>2. ASSUME NEW p \in Players, Step(p) PROVE SharesAreScalars'
  <2>1. \A q : Same(q)
    BY <1>2, ServicesSendOther, OtherMessages DEF SetupTypes
  <2>2. ASSUME NEW reqs, NEW txs, OfflineStep(p, reqs, txs), UNCHANGED <<refreshVars, onlineVars, setupVars>>
        PROVE  SharesAreScalars'
    <3>1. share' = share
      BY <2>2 DEF OfflineStep, StartPreprocessing, OfflineMtaResponse, OfflineMtaVerify,
                  StorePresigningData, CancelPreprocessing, EcdsaSign
    <3> QED BY <1>1, <2>1, <2>2, <3>1 DEF refreshVars
  <2>3. ASSUME NEW r \in RefreshReqs, NEW sets \in SUBSET SUBSET Players, NEW max,
               RefreshStep(p, r, sets, max)
        PROVE  SharesAreScalars'
    BY <2>1, <2>3, RefreshKeepsScalars DEF SharesAreScalars
  <2>4. ASSUME NEW tx, OnlineStep(p, tx), UNCHANGED <<offlineAll, refreshVars, setupVars>>
        PROVE  SharesAreScalars'
    <3>1. share' = share
      BY <2>4 DEF OnlineStep, StartSigning, OnlineMtaResponse, OnlineMtaVerify, GetSi,
                  GetCmpSignature, CancelSigning
    <3> QED BY <1>1, <2>1, <2>4, <3>1 DEF refreshVars
  <2> QED
    <3>1. \/ \E reqs, txs : OfflineStep(p, reqs, txs) /\ UNCHANGED <<refreshVars, onlineVars, setupVars>>
          \/ \E r \in {"f1", "f2"}, sets \in {{{}, Players}, {Players}} : \E max : RefreshStep(p, r, sets, max)
          \/ \E tx : OnlineStep(p, tx) /\ UNCHANGED <<offlineAll, refreshVars, setupVars>>
      BY <1>2 DEF Step
    <3>2. {"f1", "f2"} \subseteq RefreshReqs /\ {{{}, Players}, {Players}} \subseteq SUBSET SUBSET Players
      BY PlansAssumption
    <3> QED BY <2>2, <2>3, <2>4, <3>1, <3>2
<1>3. ASSUME NEW p \in AllPlayers, Setup(p) PROVE SharesAreScalars'
  <2>1. Kept
    <3>1. tempKey' = tempKey
      BY <1>3 DEF Setup, refreshVars
    <3>2. share' = share
      BY <1>3 DEF Setup, SetupStep, GenerateSetupCommitments, AddUser, MakeKey, StoreSetupCommitments,
                  GenerateSetupProofs, VerifySetupProofs, CreateSecret, AddUserRequest
    <3> QED BY <3>1, <3>2
  <2>2. PICK players : \E maxLives, maxRequests \in Nat : SetupStep(p, players, maxLives, maxRequests)
    BY <1>3 DEF Setup
  <2>3. ASSUME NEW n \in Nat, p \in Players, AddUserRequest(p, n) PROVE SharesAreScalars'
    <3>1. PICK body : Return(p, "add_user", body) /\ \A q \in NewPlayers : body.shares[q] \in Scalars
      BY <2>3, AddUserRequestSends
    <3>2. \A q : Sent("add_user", q)' = IF q = p THEN Sent("add_user", q) \cup {body} ELSE Sent("add_user", q)
      BY <3>1, ReturnAdds DEF Adds
    <3> QED BY <2>1, <3>1, <3>2 DEF SharesAreScalars
  <2>4. ASSUME msgs' = msgs \/ \E type, body : type # "add_user" /\ Return(p, type, body)
        PROVE  SharesAreScalars'
    <3>1. \A q : Same(q)
      BY <2>4, ReturnAdds, SilentAdds DEF Adds
    <3> QED BY <1>1, <2>1, <3>1
  <2>5. ASSUME NEW x, NEW pub, MakeKey(p, x, pub) PROVE SharesAreScalars'
    BY <2>4, <2>5 DEF MakeKey, Answer, NoAnswer
  <2>6. CASE StoreSetupCommitments(p)
    BY <2>4, <2>6 DEF StoreSetupCommitments, Answer, NoAnswer
  <2>7. CASE GenerateSetupProofs(p)
    BY <2>4, <2>7 DEF GenerateSetupProofs, AnswerDecommitments, Answer, NoAnswer
  <2>8. CASE VerifySetupProofs(p)
    BY <2>4, <2>8 DEF VerifySetupProofs, Answer, NoAnswer
  <2>9. CASE CreateSecret(p)
    BY <2>4, <2>9 DEF CreateSecret, NoAnswer
  <2> QED BY <2>2, <2>3, <2>5, <2>6, <2>7, <2>8, <2>9, SetupMakes
<1>4. CASE UNCHANGED allVars
  <2>1. Kept /\ msgs' = msgs
    BY <1>4 DEF allVars, refreshVars
  <2>2. \A q : Same(q)
    BY <2>1, SilentAdds DEF Adds
  <2> QED BY <1>1, <2>1, <2>2
<1> QED BY <1>2, <1>3, <1>4 DEF Next, AllPlayers

LEMMA AgreeNext ==
    ASSUME RandomScalars, SharesAreScalars, SetupInv, AgreeInv, [Next]_allVars
    PROVE  AgreeInv'
<1>1. ASSUME NEW p \in Players, Step(p) PROVE AgreeInv'
  <2>1. UNCHANGED setupVars
    BY <1>1 DEF Step
  <2>2. \A t \in {"commitment", "decommitment", "factors"} : \A q : Sent(t, q)' = Sent(t, q)
    BY <1>1, ServicesSendOther, OtherMessages DEF SetupTypes
  <2> QED BY <2>1, <2>2, UntouchedAgrees
<1>2. ASSUME NEW p \in AllPlayers, Setup(p) PROVE AgreeInv'
  <2>1. \E players : \E maxLives, maxRequests \in Nat : SetupStep(p, players, maxLives, maxRequests)
    BY <1>2 DEF Setup
  <2> QED BY <2>1, SetupStepAgrees
<1>3. CASE UNCHANGED allVars
  <2>1. UNCHANGED setupVars /\ msgs' = msgs
    BY <1>3 DEF allVars
  <2>2. \A t \in {"commitment", "decommitment", "factors"} : \A q : Sent(t, q)' = Sent(t, q)
    BY <2>1, SilentAdds DEF Adds
  <2> QED BY <2>1, <2>2, UntouchedAgrees
<1> QED BY <1>1, <1>2, <1>3 DEF Next, AllPlayers

LEMMA AgreeInit ==
    ASSUME Init
    PROVE  AgreeInv /\ SharesAreScalars
<1>1. \A t \in SetupTypes : \A q : Sent(t, q) = {}
  <2>1. \A m \in msgs : m.type = "seed"
    BY DEF Init, Seed
  <2> QED BY <2>1 DEF Sent, Of, SetupTypes
<1>2. /\ share = Share0 /\ tempKey = [p \in Players |-> EmptyMap]
      /\ finished = {} /\ round = [p \in AllPlayers |-> 0]
  BY DEF Init, RefreshInit, SetupInit, AllPlayers
<1>3. ASSUME NEW p \in AllPlayers
      PROVE  /\ keys[p].data = {} /\ keys[p].aux = {} /\ keys[p].x = {} /\ keys[p].comms = {}
             /\ \A m \in keys[p].meta : DOMAIN m = MetaFields /\ DOMAIN m.info = {}
  <2> DEFINE mt == [pub |-> PublicKey, seed |-> {}, info |-> EmptyMap]
  <2>1. keys[p] \in {NoKey, [NoKey EXCEPT !.meta = {mt}]}
    BY DEF Init, SetupInit, AllPlayers
  <2>2. DOMAIN mt = MetaFields /\ DOMAIN mt.info = {}
    BY DEF MetaFields, EmptyMap
  <2> HIDE DEF mt
  <2> QED BY <2>1, <2>2 DEF NoKey
<1>4. /\ \A q : Sent("commitment", q) = {} /\ Sent("factors", q) = {} /\ Acks(q) = {}
      /\ \A q : Sent("add_user", q) = {}
  BY <1>1 DEF SetupTypes, Acks
<1>5. ASSUME NEW p \in AllPlayers PROVE PlayerAgrees(p)
  <2>1. \A id, X : ~Knows(p, id, X)
    BY <1>2, <1>3, <1>4 DEF Knows
  <2>2. OneShare(p) /\ OneBatch(p) /\ FactorsSent(p)
    BY <1>4, <2>1 DEF OneShare, OneBatch, FactorsSent
  <2>3. EntryStored(p)
    BY <1>2, <1>3, <1>4 DEF EntryStored, CommsStored, MetaStored
  <2> QED BY <1>2, <2>2, <2>3 DEF PlayerAgrees
<1>6. AgreeInv
  BY <1>2, <1>5 DEF AgreeInv, FinishedCounted
<1>7. SharesAreScalars
  BY <1>2, <1>4, CmpAssumption DEF SharesAreScalars, EmptyMap
<1> QED BY <1>6, <1>7

\* Players that count each other's keys finish with the same key and the same
\* public shares, and the private shares of those that all finish add up to it,
\* for any number of players, lives and repeated or lost rounds.
THEOREM FinishedKeys == ASSUME RandomScalars PROVE Spec => []FinishedKeysAgree
<1> DEFINE Inv == SharesAreScalars /\ SetupInv /\ AgreeInv
<1>1. Init => Inv
  BY AgreeInit, SetupInitInv DEF Init
<1>2. Inv /\ [Next]_allVars => Inv'
  BY SharesNext, SetupNext, AgreeNext
<1>3. Inv => FinishedKeysAgree
  BY ResultsAgree, SharesAddUp DEF FinishedKeysAgree
<1> QED BY <1>1, <1>2, <1>3, PTL DEF Spec

-----------------------------------------------------------------------------
\* The key handed over is the one that requests state, that new players keep,
\* and that their sums are compared with.
KeysHandedOver ==
    /\ \A p \in Players : \A b \in Sent("add_user", p) : b.pub = PublicKey
    /\ plan = "handover" => \A p \in Players : \A m \in keys[p].meta : m.pub = PublicKey
    /\ \A p \in NewPlayers : \A m \in keys[p].meta : m.pub = PublicKey
    /\ \A f \in finished : f.by \in NewPlayers => f.pub = PublicKey

LEMMA NewPlayerKeepsKey ==
    ASSUME PublicKey # Infinity, SharesAreScalars, SetupInv, AgreeInv, NEW p \in AllPlayers,
           \A m \in keys[p].meta : m.pub = PublicKey,
           StoreSetupCommitments(p) \/ GenerateSetupProofs(p) \/ VerifySetupProofs(p) \/ CreateSecret(p)
    PROVE  /\ \A q \in AllPlayers : q # p => keys'[q] = keys[q]
           /\ \A m \in keys'[p].meta : m.pub = PublicKey
           /\ \A f \in finished' : f \in finished \/ (f.by = p /\ f.pub = PublicKey)
           /\ \A q : Sent("add_user", q)' = Sent("add_user", q)
<1>0. /\ DOMAIN keys = AllPlayers /\ DOMAIN keys[p] = KeyFields
      /\ \A m \in keys[p].meta : DOMAIN m = MetaFields
  BY DEF SetupInv, KeysKept, KeyWellFormed, AgreeInv, PlayerAgrees, EntryStored, MetaStored
<1>1. \A e : DOMAIN e = KeyFields /\ keys' = [keys EXCEPT ![p] = e]
        => keys'[p] = e /\ \A q \in AllPlayers : q # p => keys'[q] = keys[q]
  BY <1>0
<1>2. (msgs' = msgs \/ \E type, body : type # "add_user" /\ Return(p, type, body))
        => \A q : Sent("add_user", q)' = Sent("add_user", q)
  BY ReturnAdds, SilentAdds DEF Adds
<1>3. CASE StoreSetupCommitments(p)
  <2>1. PICK batch : keys' = [keys EXCEPT ![p] = [keys[p] EXCEPT !.comms = {batch}]]
    BY <1>3 DEF StoreSetupCommitments, Store
  <2>2. finished' = finished /\ \A q : Sent("add_user", q)' = Sent("add_user", q)
    BY <1>2, <1>3 DEF StoreSetupCommitments, Answer, NoAnswer
  <2>3. LET e == [keys[p] EXCEPT !.comms = {batch}]
        IN  DOMAIN e = KeyFields /\ e.meta = keys[p].meta
    BY <1>0 DEF KeyFields
  <2> QED BY <1>1, <2>1, <2>2, <2>3
<1>4. CASE GenerateSetupProofs(p)
  <2>1. PICK mt, seed, info, d :
            mt \in keys[p].meta /\ keys' \in {[keys EXCEPT ![p] = [keys[p] EXCEPT !.data = {d}]],
                          [keys EXCEPT ![p] = [[keys[p] EXCEPT !.data = {d}]
                                EXCEPT !.meta = {[mt EXCEPT !.seed = seed, !.info = info]}]]}
    <3>1. PICK mt \in keys[p].meta, comms \in keys[p].comms, data \in keys[p].data,
               aux \in keys[p].aux, batch \in BatchesTo(p, "decommitment") :
            AnswerDecommitments(p, mt, comms, data, aux, batch)
      BY <1>4 DEF GenerateSetupProofs
    <3> DEFINE seed == {batch[q].open.seed : q \in Peers(p)}
               info == [q \in Peers(p) |-> [X |-> batch[q].open.X, aux |-> batch[q].open.aux]]
               d == [data EXCEPT !.Rs = [q \in Peers(p) |-> batch[q].open.R]]
    <3>2. keys' \in {[keys EXCEPT ![p] = [keys[p] EXCEPT !.data = {d}]],
                     [keys EXCEPT ![p] = [[keys[p] EXCEPT !.data = {d}]
                        EXCEPT !.meta = {[mt EXCEPT !.seed = seed, !.info = info]}]]}
      BY <3>1 DEF AnswerDecommitments, Store
    <3> HIDE DEF seed, info, d
    <3> QED BY <3>2
  <2>2. finished' = finished /\ \A q : Sent("add_user", q)' = Sent("add_user", q)
    BY <1>2, <1>4 DEF GenerateSetupProofs, AnswerDecommitments, Answer, NoAnswer
  <2> DEFINE m == [mt EXCEPT !.seed = seed, !.info = info]
             e == [keys[p] EXCEPT !.data = {d}]
             w == [e EXCEPT !.meta = {m}]
  <2>3. m.pub = PublicKey
    BY <1>0, <2>1 DEF MetaFields
  <2> HIDE DEF m
  <2>4. DOMAIN e = KeyFields /\ e.meta = keys[p].meta
    BY <1>0 DEF KeyFields
  <2>5. DOMAIN w = KeyFields /\ w.meta = {m}
    BY <1>0 DEF KeyFields
  <2>6. keys' = [keys EXCEPT ![p] = e] \/ keys' = [keys EXCEPT ![p] = w]
    BY <2>1 DEF m
  <2> HIDE DEF e, w
  <2> QED BY <1>1, <2>2, <2>3, <2>4, <2>5, <2>6
<1>5. CASE VerifySetupProofs(p)
  <2>1. PICK mt \in keys[p].meta :
            keys' = [keys EXCEPT ![p] = [keys[p] EXCEPT !.meta =
                        {[mt EXCEPT !.pub = IF @ = Infinity THEN PublicSum(p, mt.info) ELSE @]}]]
    BY <1>5 DEF VerifySetupProofs, Store
  <2>2. finished' = finished /\ \A q : Sent("add_user", q)' = Sent("add_user", q)
    BY <1>2, <1>5 DEF VerifySetupProofs, Answer, NoAnswer
  <2> DEFINE m == [mt EXCEPT !.pub = IF @ = Infinity THEN PublicSum(p, mt.info) ELSE @]
             e == [keys[p] EXCEPT !.meta = {m}]
  <2>3. m.pub = PublicKey
    BY <1>0 DEF MetaFields
  <2>4. keys' = [keys EXCEPT ![p] = e]
    BY <2>1
  <2> HIDE DEF m
  <2>5. DOMAIN e = KeyFields /\ e.meta = {m}
    BY <1>0 DEF KeyFields
  <2> HIDE DEF e
  <2> QED BY <1>1, <2>2, <2>3, <2>4, <2>5
<1>6. CASE CreateSecret(p)
  <2> DEFINE e == [keys[p] EXCEPT !.data = {}, !.comms = {}]
  <2>1. PICK mt, aux, x :
            /\ mt \in keys[p].meta
            /\ keys' = [keys EXCEPT ![p] = e] \/ keys' = [keys EXCEPT ![p] = NoKey]
            /\ finished' \in {finished, finished \cup
                    {[by |-> p, id |-> aux, x |-> x, pub |-> mt.pub, info |-> mt.info]}}
            /\ msgs' = msgs
    BY <1>6 DEF CreateSecret, Store, NoAnswer
  <2>2. \A f \in finished' : f \in finished \/ (f.by = p /\ f.pub = PublicKey)
    BY <2>1
  <2>3. DOMAIN e = KeyFields /\ e.meta = keys[p].meta
    BY <1>0 DEF KeyFields
  <2>4. DOMAIN NoKey = KeyFields /\ NoKey.meta = {}
    BY DEF NoKey, KeyFields
  <2> HIDE DEF e
  <2> QED BY <1>1, <1>2, <2>1, <2>2, <2>3, <2>4
<1> QED BY <1>3, <1>4, <1>5, <1>6

LEMMA HandoverNext ==
    ASSUME RandomScalars, Players # {}, PublicKey # Infinity,
           SharesAreScalars, SetupInv, AgreeInv, KeysHandedOver, [Next]_allVars
    PROVE  KeysHandedOver'
<1> DEFINE Same == \A q : Sent("add_user", q)' = Sent("add_user", q)
<1>0. plan' = plan
  BY DEF Next, allVars
<1>1. ASSUME UNCHANGED setupVars, Same PROVE KeysHandedOver'
  BY <1>0, <1>1 DEF setupVars, KeysHandedOver
<1>2. ASSUME NEW p \in Players, Step(p) PROVE KeysHandedOver'
  <2>1. Same
    BY <1>2, ServicesSendOther, OtherMessages DEF SetupTypes
  <2> QED BY <1>1, <1>2, <2>1 DEF Step
<1>3. CASE UNCHANGED allVars
  <2>1. Same
    BY <1>3, SilentAdds DEF allVars, Adds
  <2> QED BY <1>1, <1>3, <2>1 DEF allVars
\* A step of p that keeps the key, if it is of a new player or p's own.
<1>4. ASSUME NEW p \in AllPlayers, p \in NewPlayers <=> plan = "handover",
             \A q \in AllPlayers : q # p => keys'[q] = keys[q],
             p \in NewPlayers => \A m \in keys'[p].meta : m.pub = PublicKey,
             \A f \in finished' : f \in finished \/ (f.by = p /\ (p \in NewPlayers => f.pub = PublicKey)),
             Same
      PROVE  KeysHandedOver'
  <2>1. Players \cap NewPlayers = {}
    BY SetupAssumption
  <2> QED BY <1>0, <1>4, <2>1 DEF KeysHandedOver, AllPlayers
<1>5. ASSUME NEW p \in AllPlayers, Setup(p) PROVE KeysHandedOver'
  <2>0. DOMAIN keys = AllPlayers /\ DOMAIN keys[p] = KeyFields /\ Players \cap NewPlayers = {}
    BY SetupAssumption DEF SetupInv, KeysKept, KeyWellFormed
  <2>1. ASSUME NEW x, NEW pub, MakeKey(p, x, pub), p \in NewPlayers <=> plan = "handover",
               p \in NewPlayers => pub = PublicKey
        PROVE  KeysHandedOver'
    <3>1. \A f \in KeyFields : keys[p][f] = {}
      <4>1. keys[p].meta = {} /\ keys[p].aux = {} /\ keys[p].x = {}
        BY <2>1 DEF MakeKey, KeyExists
      <4> QED BY <4>1 DEF SetupInv, KeysKept, KeyWellFormed, KeyFields
    <3>2. PICK e, m : keys' = [keys EXCEPT ![p] = e] /\ FreshEntry(e, m, <<p, life[p] + 1>>, x, pub)
      BY <2>0, <2>1, <3>1, NewEntry
    <3>3. e.meta = {m} /\ m.pub = pub
      BY <3>2 DEF FreshEntry
    <3>4. Same /\ finished' = finished
      <4>1. finished' = finished /\ (msgs' = msgs \/ \E body : Return(p, "commitment", body))
        BY <2>1 DEF MakeKey, Answer, NoAnswer
      <4> QED BY <4>1, ReturnAdds, SilentAdds DEF Adds
    <3> QED BY <1>4, <2>0, <2>1, <3>2, <3>3, <3>4
  <2>2. ASSUME StoreSetupCommitments(p) \/ GenerateSetupProofs(p) \/ VerifySetupProofs(p) \/ CreateSecret(p),
               p \in NewPlayers <=> plan = "handover"
        PROVE  KeysHandedOver'
    <3>1. CASE p \in NewPlayers
      <4>1. \A m \in keys[p].meta : m.pub = PublicKey
        BY <3>1 DEF KeysHandedOver
      <4> QED BY <1>4, <2>2, <3>1, <4>1, NewPlayerKeepsKey
    <3>2. CASE p \notin NewPlayers
      <4>1. PICK e : keys' = [keys EXCEPT ![p] = e]
        <5> SUFFICES \E e : Store(p, e)
          BY DEF Store
        <5>1. CASE StoreSetupCommitments(p)
          BY <5>1 DEF StoreSetupCommitments
        <5>2. CASE GenerateSetupProofs(p)
          BY <5>2 DEF GenerateSetupProofs, AnswerDecommitments
        <5>3. CASE VerifySetupProofs(p)
          BY <5>3 DEF VerifySetupProofs
        <5>4. CASE CreateSecret(p)
          BY <5>4 DEF CreateSecret
        <5> QED BY <2>2, <5>1, <5>2, <5>3, <5>4
      <4>2. \A f \in finished' : f \in finished \/ f.by = p
        BY <2>2 DEF StoreSetupCommitments, GenerateSetupProofs, VerifySetupProofs, CreateSecret
      <4>3. Same
        <5>1. msgs' = msgs \/ \E type, body : type # "add_user" /\ Return(p, type, body)
          <6>1. CASE StoreSetupCommitments(p)
            BY <6>1 DEF StoreSetupCommitments, Answer, NoAnswer
          <6>2. CASE GenerateSetupProofs(p)
            BY <6>2 DEF GenerateSetupProofs, AnswerDecommitments, Answer, NoAnswer
          <6>3. CASE VerifySetupProofs(p)
            BY <6>3 DEF VerifySetupProofs, Answer, NoAnswer
          <6>4. CASE CreateSecret(p)
            BY <6>4 DEF CreateSecret, NoAnswer
          <6> QED BY <2>2, <6>1, <6>2, <6>3, <6>4
        <5> QED BY <5>1, ReturnAdds, SilentAdds DEF Adds
      <4> QED BY <1>4, <2>0, <2>2, <3>2, <4>1, <4>2, <4>3
    <3> QED BY <3>1, <3>2
  <2>3. CASE plan = "setup" /\ SetupStep(p, Players, 2, 0)
    <3>1. ASSUME p \in Players PROVE p \in NewPlayers <=> plan = "handover"
      BY <2>0, <2>3, <3>1
    <3>2. CASE p \in Players /\ GenerateSetupCommitments(p)
      BY <2>1, <2>0, <2>3, <3>1, <3>2 DEF GenerateSetupCommitments
    <3>3. CASE p \in Players /\ (StoreSetupCommitments(p) \/ GenerateSetupProofs(p)
                                 \/ VerifySetupProofs(p) \/ CreateSecret(p))
      BY <2>2, <3>1, <3>3
    <3> QED BY <2>0, <2>3, <3>2, <3>3 DEF SetupStep
  <2>4. ASSUME NEW maxRequests \in Nat, plan = "handover", SetupStep(p, NewPlayers, 1, maxRequests)
        PROVE  KeysHandedOver'
    <3>1. CASE p \in NewPlayers /\ AddUser(p)
      <4>1. PICK x, pub :
                /\ MakeKey(p, x, pub)
                /\ \E q \in Players : \E b \in Sent("add_user", q) : pub = b.pub
        BY <3>1, AddUserMakes
      <4>2. pub = PublicKey
        BY <4>1 DEF KeysHandedOver
      <4> QED BY <2>1, <2>4, <3>1, <4>1, <4>2
    <3>2. CASE p \in NewPlayers /\ (StoreSetupCommitments(p) \/ GenerateSetupProofs(p)
                                    \/ VerifySetupProofs(p) \/ CreateSecret(p))
      BY <2>2, <2>4, <3>2
    <3>3. ASSUME p \in Players, NEW n \in 1 .. maxRequests, AddUserRequest(p, n) PROVE KeysHandedOver'
      <4>1. PICK mt, body : mt \in keys[p].meta /\ Return(p, "add_user", body) /\ body.pub = mt.pub
        BY <3>3, AddUserRequestSends
      <4>2. body.pub = PublicKey
        BY <2>4, <3>3, <4>1 DEF KeysHandedOver
      <4>3. \A q : Sent("add_user", q)' = IF q = p THEN Sent("add_user", q) \cup {body} ELSE Sent("add_user", q)
        BY <4>1, ReturnAdds DEF Adds
      <4>4. UNCHANGED setupVars
        BY <3>3 DEF AddUserRequest
      <4> QED BY <1>0, <4>2, <4>3, <4>4 DEF KeysHandedOver, setupVars
    <3> QED BY <2>0, <2>4, <3>1, <3>2, <3>3 DEF SetupStep
  <2> QED BY <1>5, <2>3, <2>4 DEF Setup
<1> QED BY <1>2, <1>3, <1>5 DEF Next, AllPlayers

LEMMA HandoverInit ==
    ASSUME Init
    PROVE  KeysHandedOver
<1>1. \A q : Sent("add_user", q) = {}
  <2>1. \A m \in msgs : m.type = "seed"
    BY DEF Init, Seed
  <2> QED BY <2>1 DEF Sent, Of
<1> DEFINE mt == [pub |-> PublicKey, seed |-> {}, info |-> EmptyMap]
<1>2. ASSUME NEW p \in AllPlayers
      PROVE  keys[p].meta = IF plan = "handover" /\ p \in Players THEN {mt} ELSE {}
  <2>1. keys[p] = IF plan = "handover" /\ p \in Players THEN [NoKey EXCEPT !.meta = {mt}] ELSE NoKey
    BY <1>2 DEF Init, SetupInit, AllPlayers
  <2> HIDE DEF mt
  <2> QED BY <2>1 DEF NoKey
<1>3. mt.pub = PublicKey
  OBVIOUS
<1>4. finished = {} /\ Players \cap NewPlayers = {}
  BY SetupAssumption DEF Init, SetupInit
<1> HIDE DEF mt
<1> QED BY <1>1, <1>2, <1>3, <1>4 DEF KeysHandedOver, AllPlayers

\* New players that all finish hold the key of the old ones: the sum of their
\* shares is that of the old shares, whatever requests and rounds were repeated
\* and whatever refreshes came in between.
THEOREM AddedUsers ==
    ASSUME RandomScalars, Players # {}, PublicKey # Infinity
    PROVE  Spec => []AddedUsersHoldTheKey
<1> DEFINE Inv == SharesAreScalars /\ SetupInv /\ AgreeInv /\ KeysHandedOver
<1>1. Init => Inv
  BY AgreeInit, HandoverInit, SetupInitInv DEF Init
<1>2. Inv /\ [Next]_allVars => Inv'
  BY SharesNext, SetupNext, AgreeNext, HandoverNext
<1>3. Inv => AddedUsersHoldTheKey
  <2>1. SumOver(Share0) \in Scalars
    <3>1. ScalarsOf(Share0, Players)
      BY CmpAssumption DEF ScalarsOf
    <3> QED BY <3>1, SumsMatch
  <2>2. ASSUME Inv, NEW f \in finished, f.by \in NewPlayers, Complete(f)
        PROVE  SumOfShares(f) = SumOver(Share0)
    <3>1. f.pub = PublicKey
      BY <2>2 DEF KeysHandedOver
    <3>2. GeneratorMul(SumOfShares(f)) = f.pub /\ SumOfShares(f) \in Scalars
      BY <2>2, SharesAddUp
    <3> QED BY <2>1, <3>1, <3>2, GroupLaw DEF PublicKey
  <2> QED BY <2>2 DEF AddedUsersHoldTheKey, KeysHandedOver
<1> QED BY <1>1, <1>2, <1>3, PTL DEF Spec

-----------------------------------------------------------------------------
\* Sums of scalars.

LEMMA Remainder ==
    ASSUME NEW a \in Int
    PROVE  /\ 0 <= a /\ a < Order => a % Order = a
           /\ Order <= a /\ a < 2 * Order => a % Order = a - Order
           /\ a < 0 /\ -Order <= a => a % Order = a + Order
<1>1. PICK n \in Int : n = Order /\ n > 0
  BY OrderPositive
<1>2. PICK q \in Int : a = n * q + (a % n) /\ 0 <= a % n /\ a % n < n
  <2>1. a = n * (a \div n) + (a % n) /\ 0 <= a % n /\ a % n < n /\ a \div n \in Int
    BY <1>1
  <2> QED BY <2>1
<1>3. /\ q >= 2 => n * q >= 2 * n
      /\ q >= 1 => n * q >= n
      /\ q <= -1 => n * q <= -n
      /\ q <= -2 => n * q <= -(2 * n)
      /\ q = 0 => n * q = 0
      /\ q = 1 => n * q = n
      /\ q = -1 => n * q = -n
  BY <1>1
<1>4. q >= 2 \/ q = 1 \/ q = 0 \/ q = -1 \/ q <= -2
  OBVIOUS
<1>5. PICK m, r \in Int : m = n * q /\ r = a % n
  BY <1>1
<1> QED BY <1>1, <1>2, <1>3, <1>4, <1>5

\* AddScalars and SubScalars are the operations of a commutative group.
LEMMA ScalarGroup ==
    ASSUME NEW a \in Scalars, NEW b \in Scalars, NEW c \in Scalars
    PROVE  /\ AddScalars(a, b) \in Scalars /\ SubScalars(a, b) \in Scalars
           /\ AddScalars(a, 0) = a /\ AddScalars(0, a) = a
           /\ AddScalars(a, b) = AddScalars(b, a)
           /\ AddScalars(a, AddScalars(b, c)) = AddScalars(AddScalars(a, b), c)
           /\ AddScalars(SubScalars(a, b), SubScalars(b, a)) = 0
<1>1. /\ a \in Int /\ 0 <= a /\ a < Order
      /\ b \in Int /\ 0 <= b /\ b < Order
      /\ c \in Int /\ 0 <= c /\ c < Order
      /\ Order \in Int /\ Order > 0
  BY OrderPositive DEF Scalars
<1>2. \A x, y \in Int : 0 <= x /\ x < Order /\ 0 <= y /\ y < Order
            => /\ AddScalars(x, y) = IF x + y < Order THEN x + y ELSE x + y - Order
               /\ SubScalars(x, y) = IF x >= y THEN x - y ELSE x - y + Order
  <2> SUFFICES ASSUME NEW x \in Int, NEW y \in Int, 0 <= x, x < Order, 0 <= y, y < Order
               PROVE  /\ AddScalars(x, y) = IF x + y < Order THEN x + y ELSE x + y - Order
                      /\ SubScalars(x, y) = IF x >= y THEN x - y ELSE x - y + Order
    OBVIOUS
  <2>1. x + y \in Int /\ x - y \in Int
    OBVIOUS
  <2>2. AddScalars(x, y) = (x + y) % Order /\ SubScalars(x, y) = (x - y) % Order
    BY DEF AddScalars, SubScalars
  <2> QED BY <1>1, <2>1, <2>2, Remainder
<1>3. /\ AddScalars(a, b) \in Scalars /\ SubScalars(a, b) \in Scalars
      /\ AddScalars(b, c) \in Scalars /\ SubScalars(b, a) \in Scalars
  BY <1>1, ScalarsClosed
<1>4. \A x \in Scalars : x \in Int /\ 0 <= x /\ x < Order
  BY <1>1 DEF Scalars
<1>5. AddScalars(a, 0) = a /\ AddScalars(0, a) = a
  BY <1>1, <1>2
<1>6. AddScalars(a, b) = AddScalars(b, a)
  BY <1>1, <1>2
<1>7. AddScalars(a, AddScalars(b, c)) = AddScalars(AddScalars(a, b), c)
  <2>1. PICK u, v \in Int : u = AddScalars(a, b) /\ v = AddScalars(b, c)
    BY <1>3, <1>4
  <2>2. u = (IF a + b < Order THEN a + b ELSE a + b - Order) /\ 0 <= u /\ u < Order
    BY <1>1, <1>2, <1>3, <1>4, <2>1
  <2>3. v = (IF b + c < Order THEN b + c ELSE b + c - Order) /\ 0 <= v /\ v < Order
    BY <1>1, <1>2, <1>3, <1>4, <2>1
  <2>4. AddScalars(a, v) = IF a + v < Order THEN a + v ELSE a + v - Order
    BY <1>1, <1>2, <2>3
  <2>5. AddScalars(u, c) = IF u + c < Order THEN u + c ELSE u + c - Order
    BY <1>1, <1>2, <2>2
  <2>6. AddScalars(a, v) = AddScalars(u, c)
    BY <1>1, <2>2, <2>3, <2>4, <2>5
  <2> QED BY <2>1, <2>6
<1>8. AddScalars(SubScalars(a, b), SubScalars(b, a)) = 0
  <2>1. PICK u, v \in Int : u = SubScalars(a, b) /\ v = SubScalars(b, a)
    BY <1>3, <1>4
  <2>2. u = (IF a >= b THEN a - b ELSE a - b + Order) /\ 0 <= u /\ u < Order
    BY <1>1, <1>2, <1>3, <1>4, <2>1
  <2>3. v = (IF b >= a THEN b - a ELSE b - a + Order) /\ 0 <= v /\ v < Order
    BY <1>1, <1>2, <1>3, <1>4, <2>1
  <2>4. AddScalars(u, v) = IF u + v < Order THEN u + v ELSE u + v - Order
    BY <1>2, <2>2, <2>3
  <2>5. AddScalars(u, v) = 0
    BY <1>1, <2>2, <2>3, <2>4
  <2> QED BY <2>1, <2>5
<1> QED BY <1>3, <1>5, <1>6, <1>7, <1>8

\* A sum may take its elements in any order.
LEMMA SumAnyOrder ==
    ASSUME NEW f, NEW D, ScalarsOf(f, D), NEW g, HoldsSums(g, f, D)
    PROVE  \A s \in SUBSET D : \A x \in s : g[s] = AddScalars(f[x], g[s \ {x}])
<1> DEFINE Good == {s \in SUBSET D : \A x \in s : g[s] = AddScalars(f[x], g[s \ {x}])}
<1>0. IsFiniteSet(D) /\ (\A x \in D : f[x] \in Scalars) /\ \A s \in SUBSET D : g[s] \in Scalars
  BY DEF ScalarsOf, HoldsSums
<1>1. ASSUME NEW s \in SUBSET D, \A t \in SUBSET s : t # s => t \in Good, NEW x \in s
      PROVE  g[s] = AddScalars(f[x], g[s \ {x}])
  <2>1. PICK y \in s : g[s] = AddScalars(f[y], g[s \ {y}])
    <3>1. FirstOf(s) \in s
      BY DEF FirstOf
    <3> QED BY <3>1 DEF HoldsSums
  <2>2. ASSUME x # y PROVE g[s] = AddScalars(f[x], g[s \ {x}])
    <3>1. s \ {y} \in Good /\ s \ {x} \in Good
      BY <1>1
    <3>2. (s \ {y}) \ {x} = (s \ {x}) \ {y}
      OBVIOUS
    <3>3. PICK c \in Scalars : c = g[(s \ {y}) \ {x}]
      BY <1>0
    <3>4. g[s \ {y}] = AddScalars(f[x], c) /\ g[s \ {x}] = AddScalars(f[y], c)
      BY <2>2, <3>1, <3>2, <3>3
    <3>5. AddScalars(f[y], AddScalars(f[x], c)) = AddScalars(f[x], AddScalars(f[y], c))
      <4>1. PICK a, b \in Scalars : a = f[x] /\ b = f[y]
        BY <1>0
      <4>2. AddScalars(b, AddScalars(a, c)) = AddScalars(AddScalars(b, a), c)
        BY ScalarGroup
      <4>3. AddScalars(a, AddScalars(b, c)) = AddScalars(AddScalars(a, b), c)
        BY ScalarGroup
      <4>4. AddScalars(a, b) = AddScalars(b, a)
        BY ScalarGroup
      <4> QED BY <4>1, <4>2, <4>3, <4>4
    <3> QED BY <2>1, <3>4, <3>5
  <2> QED BY <2>1, <2>2
<1>2. StrongInductive(D, Good)
  <2>1. ASSUME NEW s \in SUBSET D, \A t \in SUBSET s : t # s => t \in Good PROVE s \in Good
    BY <1>1, <2>1
  <2> HIDE DEF Good
  <2> QED BY <2>1 DEF StrongInductive
<1>3. SUBSET D \subseteq Good
  <2> HIDE DEF Good
  <2> QED BY <1>0, <1>2, StrongSubsetInduction
<1> QED BY <1>3

Part(f, s) == [q \in s |-> f[q]]

LEMMA SumOfPart ==
    ASSUME NEW f, NEW D, ScalarsOf(f, D), NEW g, HoldsSums(g, f, D), NEW s \in SUBSET D
    PROVE  SumOver(Part(f, s)) = g[s] /\ ScalarsOf(Part(f, s), s)
<1>0. IsFiniteSet(s) /\ \A x \in s : f[x] \in Scalars
  BY FS_Subset DEF ScalarsOf
<1>1. ScalarsOf(Part(f, s), s)
  BY <1>0 DEF ScalarsOf, Part
<1>2. PICK e : HoldsSums(e, Part(f, s), s) /\ SumOver(Part(f, s)) = e[s]
  BY <1>1, SumRecursion
<1> DEFINE Same == {t \in SUBSET s : e[t] = g[t]}
<1>3. {} \in Same
  BY <1>2 DEF HoldsSums
<1>4. ASSUME NEW t \in SUBSET s, t # {} PROVE \E x \in t : t \ {x} \in Same => t \in Same
  <2>1. FirstOf(t) \in t
    BY <1>4 DEF FirstOf
  <2>2. e[t] = AddScalars(Part(f, s)[FirstOf(t)], e[t \ {FirstOf(t)}])
    BY <1>2, <1>4 DEF HoldsSums
  <2>3. g[t] = AddScalars(f[FirstOf(t)], g[t \ {FirstOf(t)}])
    BY <1>4 DEF HoldsSums
  <2>4. Part(f, s)[FirstOf(t)] = f[FirstOf(t)]
    BY <2>1 DEF Part
  <2> QED BY <2>1, <2>2, <2>3, <2>4
<1> HIDE DEF Same
<1>5. Inductive(s, Same)
  BY <1>3, <1>4 DEF Inductive
<1>6. SUBSET s \subseteq Same
  BY <1>0, <1>5, SubsetInduction
<1> QED BY <1>1, <1>2, <1>6 DEF Same

LEMMA SumLess ==
    ASSUME NEW f, NEW D, ScalarsOf(f, D), NEW x \in D
    PROVE  /\ SumOver(f) = AddScalars(f[x], SumOver(Part(f, D \ {x})))
           /\ ScalarsOf(Part(f, D \ {x}), D \ {x})
<1>1. PICK g : HoldsSums(g, f, D) /\ SumOver(f) = g[D]
  BY SumRecursion
<1>2. g[D] = AddScalars(f[x], g[D \ {x}])
  BY <1>1, SumAnyOrder
<1>3. D \ {x} \in SUBSET D
  OBVIOUS
<1>4. SumOver(Part(f, D \ {x})) = g[D \ {x}] /\ ScalarsOf(Part(f, D \ {x}), D \ {x})
  BY <1>1, <1>3, SumOfPart
<1> QED BY <1>1, <1>2, <1>4

\* k adds up f and h, element by element.
AddsUp(k, f, h, D) ==
    /\ ScalarsOf(f, D) /\ ScalarsOf(h, D) /\ ScalarsOf(k, D)
    /\ \A q \in D : k[q] = AddScalars(f[q], h[q])

LEMMA SumOfSums ==
    ASSUME NEW k, NEW f, NEW h, NEW D, AddsUp(k, f, h, D)
    PROVE  SumOver(k) = AddScalars(SumOver(f), SumOver(h))
<1>1. PICK u : HoldsSums(u, f, D) /\ SumOver(f) = u[D]
  BY SumRecursion DEF AddsUp
<1>2. PICK v : HoldsSums(v, h, D) /\ SumOver(h) = v[D]
  BY SumRecursion DEF AddsUp
<1>3. PICK w : HoldsSums(w, k, D) /\ SumOver(k) = w[D]
  BY SumRecursion DEF AddsUp
<1> DEFINE Good == {s \in SUBSET D : w[s] = AddScalars(u[s], v[s])}
<1>4. {} \in Good
  <2>1. u[{}] = 0 /\ v[{}] = 0 /\ w[{}] = 0
    BY <1>1, <1>2, <1>3 DEF HoldsSums
  <2>2. AddScalars(0, 0) = 0
    BY OrderPositive, ScalarGroup
  <2> QED BY <2>1, <2>2
<1>5. ASSUME NEW s \in SUBSET D, s # {} PROVE \E x \in s : s \ {x} \in Good => s \in Good
  <2>1. PICK x : x = FirstOf(s) /\ x \in s
    BY <1>5 DEF FirstOf
  <2>2. /\ u[s] = AddScalars(f[x], u[s \ {x}])
        /\ v[s] = AddScalars(h[x], v[s \ {x}])
        /\ w[s] = AddScalars(k[x], w[s \ {x}])
    BY <1>1, <1>2, <1>3, <1>5, <2>1 DEF HoldsSums
  <2>3. k[x] = AddScalars(f[x], h[x]) /\ f[x] \in Scalars /\ h[x] \in Scalars
    BY <2>1 DEF AddsUp, ScalarsOf
  <2>4. u[s \ {x}] \in Scalars /\ v[s \ {x}] \in Scalars
    BY <1>1, <1>2 DEF HoldsSums
  <2>5. \A a, b, c, d \in Scalars :
            AddScalars(AddScalars(a, b), AddScalars(c, d)) = AddScalars(AddScalars(a, c), AddScalars(b, d))
    <3> SUFFICES ASSUME NEW a \in Scalars, NEW b \in Scalars, NEW c \in Scalars, NEW d \in Scalars
                 PROVE  AddScalars(AddScalars(a, b), AddScalars(c, d))
                            = AddScalars(AddScalars(a, c), AddScalars(b, d))
      OBVIOUS
    <3>1. AddScalars(c, d) \in Scalars /\ AddScalars(b, d) \in Scalars
      BY ScalarGroup
    <3>2. AddScalars(AddScalars(a, b), AddScalars(c, d)) = AddScalars(a, AddScalars(b, AddScalars(c, d)))
      BY <3>1, ScalarGroup
    <3>3. AddScalars(AddScalars(a, c), AddScalars(b, d)) = AddScalars(a, AddScalars(c, AddScalars(b, d)))
      BY <3>1, ScalarGroup
    <3>4. AddScalars(b, AddScalars(c, d)) = AddScalars(AddScalars(b, c), d)
      BY ScalarGroup
    <3>5. AddScalars(c, AddScalars(b, d)) = AddScalars(AddScalars(c, b), d)
      BY ScalarGroup
    <3>6. AddScalars(b, c) = AddScalars(c, b)
      BY ScalarGroup
    <3> QED BY <3>2, <3>3, <3>4, <3>5, <3>6
  <2>6. ASSUME s \ {x} \in Good PROVE s \in Good
    <3>1. w[s \ {x}] = AddScalars(u[s \ {x}], v[s \ {x}])
      BY <2>6
    <3> QED BY <2>2, <2>3, <2>4, <2>5, <3>1
  <2> QED BY <2>1, <2>6
<1> HIDE DEF Good
<1>6. Inductive(D, Good)
  BY <1>4, <1>5 DEF Inductive
<1>7. SUBSET D \subseteq Good
  BY <1>6, SubsetInduction DEF AddsUp, ScalarsOf
<1> QED BY <1>1, <1>2, <1>3, <1>7 DEF Good

LEMMA SumOfZeros ==
    ASSUME NEW f, NEW D, ScalarsOf(f, D), \A q \in D : f[q] = 0
    PROVE  SumOver(f) = 0
<1>1. PICK g : HoldsSums(g, f, D) /\ SumOver(f) = g[D]
  BY SumRecursion
<1> DEFINE Good == {s \in SUBSET D : g[s] = 0}
<1>2. {} \in Good
  BY <1>1 DEF HoldsSums
<1>3. ASSUME NEW s \in SUBSET D, s # {} PROVE \E x \in s : s \ {x} \in Good => s \in Good
  <2>1. FirstOf(s) \in s
    BY <1>3 DEF FirstOf
  <2>2. g[s] = AddScalars(f[FirstOf(s)], g[s \ {FirstOf(s)}])
    BY <1>1, <1>3 DEF HoldsSums
  <2>3. AddScalars(0, 0) = 0
    BY OrderPositive, ScalarGroup
  <2> QED BY <2>1, <2>2, <2>3
<1> HIDE DEF Good
<1>4. Inductive(D, Good)
  BY <1>2, <1>3 DEF Inductive
<1>5. SUBSET D \subseteq Good
  BY <1>4, SubsetInduction DEF ScalarsOf
<1> QED BY <1>1, <1>5 DEF Good

\* What p has from q is the opposite of what q has from p.
Opposites(d, D) ==
    \A p \in D : ScalarsOf(d[p], D) /\ \A q \in D : AddScalars(d[p][q], d[q][p]) = 0

\* What each element of s has from the others.
Rows(d, s) == [p \in s |-> SumOver(Part(d[p], s \ {p}))]

LEMMA PartOf ==
    ASSUME NEW f, NEW D, ScalarsOf(f, D), NEW s \in SUBSET D
    PROVE  /\ ScalarsOf(Part(f, s), s) /\ SumOver(Part(f, s)) \in Scalars
           /\ \A q \in s : Part(f, s)[q] = f[q]
<1>1. IsFiniteSet(s) /\ \A x \in s : f[x] \in Scalars
  BY FS_Subset DEF ScalarsOf
<1>2. ScalarsOf(Part(f, s), s) /\ \A q \in s : Part(f, s)[q] = f[q]
  BY <1>1 DEF ScalarsOf, Part
<1> QED BY <1>2, SumsMatch

LEMMA OppositesCancel ==
    ASSUME NEW d, NEW D, IsFiniteSet(D), Opposites(d, D)
    PROVE  SumOver(Rows(d, D)) = 0
<1> DEFINE Good == {s \in SUBSET D : SumOver(Rows(d, s)) = 0}
<1>1. ASSUME NEW s \in SUBSET D
      PROVE  /\ ScalarsOf(Rows(d, s), s)
             /\ \A p \in s : Rows(d, s)[p] = SumOver(Part(d[p], s \ {p}))
  <2>1. \A p \in s : SumOver(Part(d[p], s \ {p})) \in Scalars
    BY PartOf DEF Opposites
  <2>2. IsFiniteSet(s)
    BY FS_Subset
  <2> QED BY <2>1, <2>2 DEF Rows, ScalarsOf
<1>2. {} \in Good
  <2>1. ScalarsOf(Rows(d, {}), {})
    BY <1>1
  <2>2. SumOver(Rows(d, {})) = 0
    BY <2>1, SumsMatch
  <2> QED BY <2>2
<1>3. ASSUME NEW s \in SUBSET D, NEW x \in s, s \ {x} \in Good
      PROVE  SumOver(Rows(d, s)) = 0
  <2> DEFINE t == s \ {x}
             row == Part(d[x], t)
             col == [p \in t |-> d[p][x]]
             rest == Part(Rows(d, s), t)
             zero == [p \in t |-> 0]
  <2>0. /\ t \in SUBSET D /\ t \in SUBSET s /\ IsFiniteSet(t) /\ x \in D
        /\ SumOver(Rows(d, t)) = 0
    BY <1>3, FS_Subset
  <2>1. /\ SumOver(Rows(d, s)) = AddScalars(SumOver(row), SumOver(rest))
        /\ ScalarsOf(rest, t)
    <3>1. ScalarsOf(Rows(d, s), s) /\ Rows(d, s)[x] = SumOver(row)
      BY <1>1
    <3>2. /\ SumOver(Rows(d, s)) = AddScalars(Rows(d, s)[x], SumOver(rest))
          /\ ScalarsOf(rest, t)
      BY <3>1, SumLess
    <3> HIDE DEF row, rest, t
    <3> QED BY <3>1, <3>2
  <2>2. ScalarsOf(row, t) /\ SumOver(row) \in Scalars /\ \A q \in t : row[q] = d[x][q]
    BY <2>0, PartOf DEF Opposites
  <2>3. ScalarsOf(col, t) /\ \A q \in t : col[q] = d[q][x]
    BY <2>0 DEF Opposites, ScalarsOf
  <2>4. ScalarsOf(zero, t) /\ \A q \in t : zero[q] = 0
    BY <2>0, OrderPositive DEF ScalarsOf
  <2>5. ScalarsOf(Rows(d, t), t)
    BY <1>1, <2>0
  <2>6. ASSUME NEW p \in t PROVE rest[p] = AddScalars(col[p], Rows(d, t)[p])
    <3>1. rest[p] = SumOver(Part(d[p], s \ {p}))
      BY <1>1, <2>0, PartOf
    <3>2. ScalarsOf(Part(d[p], s \ {p}), s \ {p}) /\ Part(d[p], s \ {p})[x] = d[p][x]
      BY <2>0, <2>6, PartOf DEF Opposites
    <3>3. Part(Part(d[p], s \ {p}), (s \ {p}) \ {x}) = Part(d[p], t \ {p})
      BY DEF Part
    <3>4. SumOver(Part(d[p], s \ {p})) = AddScalars(d[p][x], SumOver(Part(d[p], t \ {p})))
      <4>1. x \in s \ {p}
        BY <2>6
      <4> HIDE DEF t
      <4> QED BY <3>2, <3>3, <4>1, SumLess
    <3>5. Rows(d, t)[p] = SumOver(Part(d[p], t \ {p}))
      BY <1>1, <2>0
    <3> HIDE DEF rest, t
    <3> QED BY <2>3, <3>1, <3>4, <3>5
  <2> HIDE DEF t, row, col, rest, zero
  <2>7. SumOver(rest) = AddScalars(SumOver(col), SumOver(Rows(d, t)))
    <3>1. AddsUp(rest, col, Rows(d, t), t)
      BY <2>1, <2>3, <2>5, <2>6 DEF AddsUp
    <3> QED BY <3>1, SumOfSums
  <2>8. SumOver(zero) = AddScalars(SumOver(row), SumOver(col))
    <3>1. \A q \in t : zero[q] = AddScalars(row[q], col[q])
      BY <2>0, <2>2, <2>3, <2>4 DEF Opposites
    <3>2. AddsUp(zero, row, col, t)
      BY <2>2, <2>3, <2>4, <3>1 DEF AddsUp
    <3> QED BY <3>2, SumOfSums
  <2>9. SumOver(zero) = 0
    BY <2>4, SumOfZeros
  <2>10. SumOver(col) \in Scalars
    BY <2>3, SumsMatch
  <2>11. SumOver(rest) = SumOver(col)
    BY <2>0, <2>7, <2>10, ScalarGroup
  <2> QED BY <2>1, <2>8, <2>9, <2>11
<1>4. ASSUME NEW s \in SUBSET D, s # {} PROVE \E x \in s : s \ {x} \in Good => s \in Good
  <2>1. PICK x \in s : TRUE
    BY <1>4
  <2>2. s \ {x} \in Good => s \in Good
    BY <1>3
  <2> QED BY <2>1, <2>2
<1> HIDE DEF Good
<1>5. Inductive(D, Good)
  BY <1>2, <1>4 DEF Inductive
<1>6. SUBSET D \subseteq Good
  BY <1>5, SubsetInduction
<1> QED BY <1>6 DEF Good

\* What a refresh with everybody adds to the shares is nothing in sum: each
\* seed is added by one player and subtracted by the other.
LEMMA ShiftsCancel ==
    ASSUME RandomScalars, NEW r \in RefreshReqs
    PROVE  SumOver([p \in Players |-> Shift(p, r, Players, "x", 0)]) = 0
<1> DEFINE d == [p \in Players |-> [q \in Players |->
                    SubScalars(Prf(r, q, p, "x", 0), Prf(r, p, q, "x", 0))]]
<1>1. \A p, q \in Players : Prf(r, p, q, "x", 0) \in Scalars
  BY DEF RandomScalars
<1>2. \A p, q \in Players : d[p][q] = SubScalars(Prf(r, q, p, "x", 0), Prf(r, p, q, "x", 0))
  OBVIOUS
<1>3. ASSUME NEW p \in Players, NEW q \in Players
      PROVE  d[p][q] \in Scalars /\ AddScalars(d[p][q], d[q][p]) = 0
  <2>1. PICK a, b \in Scalars : a = Prf(r, q, p, "x", 0) /\ b = Prf(r, p, q, "x", 0)
    BY <1>1
  <2>2. d[p][q] = SubScalars(a, b) /\ d[q][p] = SubScalars(b, a)
    BY <1>2, <2>1
  <2> HIDE DEF d
  <2> QED BY <2>2, ScalarGroup
<1>4. IsFiniteSet(Players) /\ \A p \in Players : DOMAIN d[p] = Players
  BY CmpAssumption
<1>5. [p \in Players |-> Shift(p, r, Players, "x", 0)] = Rows(d, Players)
  <2>1. ASSUME NEW p \in Players
        PROVE  Shift(p, r, Players, "x", 0) = SumOver(Part(d[p], Players \ {p}))
    <3>1. Part(d[p], Players \ {p}) = [q \in Players \ {p} |->
                                        SubScalars(Prf(r, q, p, "x", 0), Prf(r, p, q, "x", 0))]
      <4> HIDE DEF d
      <4> QED BY <1>2 DEF Part
    <3> QED BY <3>1 DEF Shift
  <2> HIDE DEF d
  <2> QED BY <2>1 DEF Rows
<1> HIDE DEF d
<1>6. Opposites(d, Players)
  BY <1>3, <1>4 DEF Opposites, ScalarsOf
<1> QED BY <1>4, <1>5, <1>6, OppositesCancel

-----------------------------------------------------------------------------
\* What a refresh does to the shares.

Refreshes == [req : RefreshReqs, with : SUBSET Players]

\* f runs from p's first share along the refreshes e.
Along(p, e, f) ==
    /\ f \in [0 .. Len(e) -> Scalars]
    /\ f[0] = Share0[p]
    /\ \A i \in 1 .. Len(e) :
        /\ p \in e[i].with
        /\ f[i] = AddScalars(f[i - 1], Shift(p, e[i].req, e[i].with, "x", 0))

Derived(p, e, x) == e \in Seq(Refreshes) /\ \E f : Along(p, e, f) /\ f[Len(e)] = x

ShareInv ==
    /\ DOMAIN share = Players /\ DOMAIN epoch = Players /\ DOMAIN tempKey = Players
    /\ \A p \in Players :
        /\ Derived(p, epoch[p], share[p])
        /\ \A r \in DOMAIN tempKey[p] : Derived(p, tempKey[p][r].epoch, tempKey[p][r].x)

LEMMA DerivedFurther ==
    ASSUME RandomScalars, NEW p \in Players, NEW e, NEW x, Derived(p, e, x),
           NEW r \in RefreshReqs, NEW set \in SUBSET Players, p \in set
    PROVE  Derived(p, Append(e, [req |-> r, with |-> set]), AddScalars(x, Shift(p, r, set, "x", 0)))
<1> DEFINE new == [req |-> r, with |-> set]
           n == Len(e)
           y == AddScalars(x, Shift(p, r, set, "x", 0))
<1>1. PICK f : Along(p, e, f) /\ f[n] = x
  BY DEF Derived
<1>2. e \in Seq(Refreshes) /\ n \in Nat /\ new \in Refreshes
  BY DEF Derived, Refreshes
<1>3. x \in Scalars /\ y \in Scalars
  <2>1. x \in Scalars
    BY <1>1, <1>2 DEF Along
  <2> QED BY <2>1, ShiftIsScalar, ScalarGroup
<1> DEFINE g == [i \in 0 .. n + 1 |-> IF i = n + 1 THEN y ELSE f[i]]
<1>4. /\ Append(e, new) \in Seq(Refreshes) /\ Len(Append(e, new)) = n + 1
      /\ \A i \in 1 .. n : Append(e, new)[i] = e[i]
      /\ Append(e, new)[n + 1] = new /\ new.req = r /\ new.with = set
  BY <1>2
<1> HIDE DEF new, n, y
<1>5. /\ g \in [0 .. n + 1 -> Scalars] /\ g[n + 1] = y
      /\ \A i \in 0 .. n : g[i] = f[i]
  BY <1>1, <1>2, <1>3 DEF Along, n
<1> HIDE DEF g
<1>6. Along(p, Append(e, new), g)
  <2>1. g[0] = Share0[p]
    BY <1>1, <1>2, <1>5 DEF Along
  <2>2. ASSUME NEW i \in 1 .. n + 1
        PROVE  /\ p \in Append(e, new)[i].with
               /\ g[i] = AddScalars(g[i - 1], Shift(p, Append(e, new)[i].req, Append(e, new)[i].with, "x", 0))
    <3>1. CASE i = n + 1
      <4>1. g[i] = y /\ g[i - 1] = x
        BY <1>1, <1>2, <1>5, <3>1
      <4> QED BY <1>4, <3>1, <4>1 DEF y
    <3>2. CASE i # n + 1
      <4>1. i \in 1 .. n /\ i \in 0 .. n /\ i - 1 \in 0 .. n
        BY <1>2, <3>2
      <4> QED BY <1>1, <1>4, <1>5, <4>1 DEF Along, n
    <3> QED BY <3>1, <3>2
  <2> QED BY <1>4, <1>5, <2>1, <2>2 DEF Along
<1> QED BY <1>4, <1>5, <1>6 DEF Derived, new, y

\* Shares at the end of the same refreshes add up to the key: such refreshes
\* were with everybody.
LEMMA OneRefreshOneKey ==
    ASSUME RandomScalars, NEW e, NEW X, DOMAIN X = Players, X = [p \in Players |-> X[p]],
           \A p \in Players : Derived(p, e, X[p])
    PROVE  SumOver(X) = SumOver(Share0)
<1>0. IsFiniteSet(Players) /\ DOMAIN Share0 = Players /\ ScalarsOf(Share0, Players)
  BY CmpAssumption DEF ScalarsOf
<1>1. CASE Players = {}
  <2>1. ScalarsOf(X, Players)
    BY <1>0, <1>1 DEF ScalarsOf
  <2> QED BY <1>0, <1>1, <2>1, SumsMatch
<1>2. CASE Players # {}
  <2> DEFINE F == [p \in Players |-> CHOOSE f : Along(p, e, f) /\ f[Len(e)] = X[p]]
             At(i) == [p \in Players |-> F[p][i]]
             n == Len(e)
             Good == {i \in 0 .. n : SumOver(At(i)) = SumOver(Share0)}
  <2>1. e \in Seq(Refreshes) /\ n \in Nat
    BY <1>2 DEF Derived
  <2>2. \A p \in Players : Along(p, e, F[p]) /\ F[p][n] = X[p]
    BY DEF Derived
  <2> HIDE DEF F
  <2>3. \A i \in 0 .. n : ScalarsOf(At(i), Players) /\ \A p \in Players : At(i)[p] = F[p][i]
    BY <1>0, <2>2 DEF Along, ScalarsOf
  <2>4. At(0) = Share0
    <3>1. \A p \in Players : F[p][0] = Share0[p]
      BY <2>2 DEF Along
    <3>2. Share0 = [p \in Players |-> Share0[p]]
      BY CmpAssumption
    <3> QED BY <3>1, <3>2
  <2>5. At(n) = X
    <3>1. [p \in Players |-> F[p][n]] = [p \in Players |-> X[p]]
      <4> HIDE DEF n
      <4> QED BY <2>2
    <3> QED BY <3>1
  <2> HIDE DEF n, At
  <2>6. ASSUME NEW i \in 1 .. n, i - 1 \in Good PROVE i \in Good
    <3>0. i \in 0 .. n /\ i - 1 \in 0 .. n
      BY <2>1
    <3>1. e[i].req \in RefreshReqs /\ e[i].with \in SUBSET Players
      <4>1. n = Len(e)
        BY DEF n
      <4>2. i \in 1 .. Len(e)
        BY <2>1, <4>1
      <4>3. e[i] \in Refreshes
        BY <2>1, <4>2
      <4> QED BY <4>3 DEF Refreshes
    <3>2. \A p \in Players : /\ p \in e[i].with
                             /\ F[p][i] = AddScalars(F[p][i - 1], Shift(p, e[i].req, e[i].with, "x", 0))
      BY <2>2 DEF Along, n
    <3>3. e[i].with = Players
      BY <3>1, <3>2
    <3> DEFINE S == [p \in Players |-> Shift(p, e[i].req, Players, "x", 0)]
    <3>4. ScalarsOf(S, Players) /\ \A p \in Players : S[p] = Shift(p, e[i].req, Players, "x", 0)
      <4>1. \A p \in Players : Shift(p, e[i].req, Players, "x", 0) \in Scalars
        BY <3>1, ShiftIsScalar
      <4> QED BY <1>0, <4>1 DEF ScalarsOf
    <3>5. SumOver(S) = 0
      BY <3>1, ShiftsCancel
    <3> HIDE DEF S
    <3>6. AddsUp(At(i), At(i - 1), S, Players)
      BY <2>3, <3>0, <3>2, <3>3, <3>4 DEF AddsUp
    <3>7. SumOver(At(i)) = AddScalars(SumOver(At(i - 1)), 0)
      BY <3>5, <3>6, SumOfSums
    <3>8. SumOver(At(i - 1)) \in Scalars
      BY <2>3, <3>0, SumsMatch
    <3> QED BY <2>6, <3>0, <3>7, <3>8, ScalarGroup
  <2>7. 0 \in Good
    BY <2>1, <2>4
  <2> HIDE DEF Good
  <2>8. 0 .. n \subseteq Good
    BY <2>1, <2>6, <2>7, CountUp
  <2>9. n \in Good
    BY <2>1, <2>8
  <2> QED BY <2>5, <2>9 DEF Good
<1> QED BY <1>1, <1>2

LEMMA RefreshDerives ==
    ASSUME RandomScalars, ShareInv, NEW p \in Players, NEW r \in RefreshReqs,
           NEW sets \in SUBSET SUBSET Players, NEW max, RefreshStep(p, r, sets, max)
    PROVE  ShareInv'
<1>0. /\ DOMAIN share = Players /\ DOMAIN epoch = Players /\ DOMAIN tempKey = Players
      /\ \A q \in Players : /\ Derived(q, epoch[q], share[q])
                            /\ \A o \in DOMAIN tempKey[q] : Derived(q, tempKey[q][o].epoch, tempKey[q][o].x)
  BY DEF ShareInv
<1>1. CASE RefreshKeyRequest(p, r)
  BY <1>1 DEF RefreshKeyRequest, ShareInv
<1>2. ASSUME NEW set \in sets, RefreshKey(p, r, set \cup {p}) PROVE ShareInv'
  <2> DEFINE y == AddScalars(share[p], Shift(p, r, set \cup {p}, "x", 0))
             e == Append(epoch[p], [req |-> r, with |-> set \cup {p}])
             kept == [x |-> y, epoch |-> e]
  <2>1. Derived(p, e, y)
    <3>1. set \cup {p} \in SUBSET Players /\ p \in set \cup {p}
      OBVIOUS
    <3> QED BY <1>0, <3>1, DerivedFurther
  <2>2. kept.x = y /\ kept.epoch = e
    OBVIOUS
  <2>3. /\ share' = share /\ epoch' = epoch
        /\ tempKey' \in {tempKey, [tempKey EXCEPT ![p] = Put(@, r, kept)]}
    BY <1>2 DEF RefreshKey
  <2> HIDE DEF kept, y, e
  <2>4. /\ DOMAIN tempKey' = Players
        /\ \A q \in Players : \A o \in DOMAIN tempKey'[q] : Derived(q, tempKey'[q][o].epoch, tempKey'[q][o].x)
    BY <1>0, <2>1, <2>2, <2>3 DEF Put
  <2>5. \A q \in Players : Derived(q, epoch'[q], share'[q])
    BY <1>0, <2>3
  <2> QED BY <1>0, <2>3, <2>4, <2>5 DEF ShareInv
<1>3. CASE RefreshKeyFastAck(p, r)
  <2>1. /\ r \in DOMAIN tempKey[p]
        /\ share' = [share EXCEPT ![p] = tempKey[p][r].x]
        /\ epoch' = [epoch EXCEPT ![p] = tempKey[p][r].epoch]
        /\ tempKey' = [tempKey EXCEPT ![p] = Without(@, {r})]
    BY <1>3 DEF RefreshKeyFastAck
  <2>2. \A q \in Players :
            /\ Derived(q, epoch'[q], share'[q])
            /\ \A o \in DOMAIN tempKey'[q] : Derived(q, tempKey'[q][o].epoch, tempKey'[q][o].x)
    BY <1>0, <2>1 DEF Without
  <2>3. /\ DOMAIN share' = Players /\ DOMAIN epoch' = Players
        /\ DOMAIN tempKey' = Players
    BY <1>0, <2>1
  <2> QED BY <2>2, <2>3 DEF ShareInv
<1>4. CASE CancelRefreshKey(p, r)
  <2>1. share' = share /\ epoch' = epoch /\ tempKey' = [tempKey EXCEPT ![p] = Without(@, {r})]
    BY <1>4 DEF CancelRefreshKey
  <2>2. \A q \in Players : \A o \in DOMAIN tempKey'[q] : Derived(q, tempKey'[q][o].epoch, tempKey'[q][o].x)
    BY <1>0, <2>1 DEF Without
  <2>3. DOMAIN share' = Players /\ DOMAIN epoch' = Players /\ DOMAIN tempKey' = Players
    BY <1>0, <2>1
  <2>4. \A q \in Players : Derived(q, epoch'[q], share'[q])
    BY <1>0, <2>1
  <2> QED BY <2>2, <2>3, <2>4 DEF ShareInv
<1> QED BY <1>1, <1>2, <1>3, <1>4 DEF RefreshStep

LEMMA DerivedNext ==
    ASSUME RandomScalars, ShareInv, [Next]_allVars
    PROVE  ShareInv'
<1>1. ASSUME UNCHANGED <<share, epoch, tempKey>> PROVE ShareInv'
  BY <1>1 DEF ShareInv
<1>2. ASSUME NEW p \in Players, Step(p) PROVE ShareInv'
  <2>1. ASSUME NEW reqs, NEW txs, OfflineStep(p, reqs, txs), UNCHANGED <<refreshVars, onlineVars, setupVars>>
        PROVE  ShareInv'
    <3>1. share' = share /\ epoch' = epoch
      BY <2>1 DEF OfflineStep, StartPreprocessing, OfflineMtaResponse, OfflineMtaVerify,
                  StorePresigningData, CancelPreprocessing, EcdsaSign
    <3> QED BY <1>1, <2>1, <3>1 DEF refreshVars
  <2>2. ASSUME NEW tx, OnlineStep(p, tx), UNCHANGED <<offlineAll, refreshVars, setupVars>>
        PROVE  ShareInv'
    <3>1. share' = share /\ epoch' = epoch
      BY <2>2 DEF OnlineStep, StartSigning, OnlineMtaResponse, OnlineMtaVerify, GetSi,
                  GetCmpSignature, CancelSigning
    <3> QED BY <1>1, <2>2, <3>1 DEF refreshVars
  <2>3. \/ \E reqs, txs : OfflineStep(p, reqs, txs) /\ UNCHANGED <<refreshVars, onlineVars, setupVars>>
        \/ \E r \in {"f1", "f2"}, sets \in {{{}, Players}, {Players}} : \E max : RefreshStep(p, r, sets, max)
        \/ \E tx : OnlineStep(p, tx) /\ UNCHANGED <<offlineAll, refreshVars, setupVars>>
    BY <1>2 DEF Step
  <2>4. {"f1", "f2"} \subseteq RefreshReqs /\ {{{}, Players}, {Players}} \subseteq SUBSET SUBSET Players
    BY PlansAssumption
  <2> QED BY <2>1, <2>2, <2>3, <2>4, RefreshDerives
<1>3. ASSUME NEW p \in AllPlayers, Setup(p) PROVE ShareInv'
  <2>1. tempKey' = tempKey
    BY <1>3 DEF Setup, refreshVars
  <2>2. share' = share /\ epoch' = epoch
    BY <1>3 DEF Setup, SetupStep, GenerateSetupCommitments, AddUser, MakeKey, StoreSetupCommitments,
                GenerateSetupProofs, VerifySetupProofs, CreateSecret, AddUserRequest
  <2> QED BY <1>1, <2>1, <2>2
<1>4. CASE UNCHANGED allVars
  BY <1>1, <1>4 DEF allVars, refreshVars
<1> QED BY <1>2, <1>3, <1>4 DEF Next, AllPlayers

LEMMA DerivedInit ==
    ASSUME Init
    PROVE  ShareInv
<1>1. \A p \in Players : Share0[p] \in Scalars /\ DOMAIN Share0 = Players
  BY CmpAssumption
<1>2. /\ share = Share0 /\ epoch = [p \in Players |-> <<>>]
      /\ tempKey = [p \in Players |-> EmptyMap]
  BY DEF Init, RefreshInit
<1>3. ASSUME NEW p \in Players PROVE Derived(p, <<>>, Share0[p])
  <2> DEFINE f == [i \in 0 .. 0 |-> Share0[p]]
  <2>1. Len(<<>>) = 0 /\ <<>> \in Seq(Refreshes)
    OBVIOUS
  <2>2. f \in [0 .. 0 -> Scalars] /\ f[0] = Share0[p]
    BY <1>1
  <2> HIDE DEF f
  <2>3. Along(p, <<>>, f)
    BY <2>1, <2>2 DEF Along
  <2> QED BY <2>1, <2>2, <2>3 DEF Derived
<1>4. \A p \in Players : DOMAIN tempKey[p] = {}
  BY <1>2 DEF EmptyMap
<1> QED BY <1>1, <1>2, <1>3, <1>4, CmpAssumption DEF ShareInv

\* A refresh keeps the key: at every moment, shares of all players that are, or
\* will be once committed, at the same refresh add up to what the first did,
\* whatever requests were begun, cancelled, repeated or committed apart.
THEOREM KeyIsKept == ASSUME RandomScalars PROVE Spec => []KeyKept
<1>1. ASSUME ShareInv, NEW h \in AtOneRefresh
      PROVE  SumOver([p \in Players |-> h[p].x]) = SumOver(Share0)
  <2>1. \A p \in Players : h[p] \in Holdings(p) /\ \A q \in Players : h[p].epoch = h[q].epoch
    BY DEF AtOneRefresh
  <2>2. \A p \in Players : Derived(p, h[p].epoch, h[p].x)
    <3> TAKE p \in Players
    <3>1. CASE h[p] = [x |-> share[p], epoch |-> epoch[p], pre |-> pre[p]]
      <4>1. h[p].x = share[p] /\ h[p].epoch = epoch[p]
        BY <3>1
      <4> QED BY <1>1, <4>1 DEF ShareInv
    <3>2. ASSUME NEW r \in DOMAIN tempKey[p],
                 h[p] = [x |-> tempKey[p][r].x, epoch |-> tempKey[p][r].epoch, pre |-> CommitPre(p)]
          PROVE  Derived(p, h[p].epoch, h[p].x)
      <4>1. h[p].x = tempKey[p][r].x /\ h[p].epoch = tempKey[p][r].epoch
        BY <3>2
      <4> QED BY <1>1, <4>1 DEF ShareInv
    <3> QED BY <2>1, <3>1, <3>2 DEF Holdings
  <2>3. PICK e : \A p \in Players : h[p].epoch = e
    BY <2>1
  <2> DEFINE X == [p \in Players |-> h[p].x]
  <2>4. DOMAIN X = Players /\ X = [p \in Players |-> X[p]] /\ \A p \in Players : X[p] = h[p].x
    OBVIOUS
  <2>5. \A p \in Players : Derived(p, e, X[p])
    BY <2>2, <2>3, <2>4
  <2> HIDE DEF X
  <2>6. SumOver(X) = SumOver(Share0)
    BY <2>4, <2>5, OneRefreshOneKey
  <2> QED BY <2>6 DEF X
<1>2. ShareInv => KeyKept
  BY <1>1 DEF KeyKept
<1> QED BY <1>2, DerivedInit, DerivedNext, PTL DEF Spec
=============================================================================
