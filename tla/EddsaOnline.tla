----------------------------- MODULE EddsaOnline -----------------------------
(***************************************************************************)
(* eddsa_online_signing_service: all signers draw, commit to, reveal and   *)
(* add nonces, then broadcast their shares of s.  Every signer runs the    *)
(* same four handlers, over signing data and commitments kept by           *)
(* transaction id in a persistency the caller supplies.                    *)
(*                                                                         *)
(* A caller may invoke any handler at any time with any messages the       *)
(* signers have produced for that transaction (msgs only grows).  A call   *)
(* that throws before it changes a store is a stutter and not an action.   *)
(***************************************************************************)
EXTENDS EddsaTerms

CONSTANTS
    Players,    \* players_ids of every request, at least the threshold
    Txs,        \* transaction ids
    NBlocks,    \* blocks of a transaction
    MaxStarts   \* bound: successful calls of start_signing by a player

ASSUME OnlineAssumption ==
    /\ IsFiniteSet(Players) /\ Players # {}
    /\ NBlocks \in Nat \ {0}
    /\ MaxStarts \in Nat

Blocks == 1 .. NBlocks
Block(tx, b) == <<tx, b>>

VARIABLES
    strict,     \* whether the persistency refuses to overwrite, as the tests' does
    data,       \* signing data of a player: tx -> [k, R, s], by block
    comm,       \* commitments stored by a player: tx -> (player -> commitments)
    timing,     \* keys of a player's TimingMap
    drawn,      \* how many nonces a player has drawn
    msgs,       \* everything the handlers returned so far
    revealed,   \* history, if strict: <<nonces, commitments stored>> of each R returned
    uses        \* history: <<nonce, challenge, addends of R>> of each share of s

vars == <<strict, data, comm, timing, drawn, msgs, revealed, uses>>

NoShare == ZeroScalar   \* a new eddsa_signature_data::s

Of(type, tx) == {m \in msgs : m.type = type /\ m.tx = tx}

\* Maps from all signers to what one of their messages of that kind carried.
Batches(type, tx) ==
    {[p \in Players |-> f[p].body] :
        f \in {g \in [Players -> Of(type, tx)] : \A p \in Players : g[p].from = p}}

Return(p, tx, type, body) ==
    msgs' = msgs \cup {[type |-> type, tx |-> tx, from |-> p, body |-> body]}

\* commitments_create_commitment_for_data of a point.
Commitment(R) == <<"commitment", R>>

AddR(Rs, b) == AddAll([p \in DOMAIN Rs |-> Rs[p][b]])

Init ==
    /\ strict \in BOOLEAN
    /\ data = [p \in Players |-> EmptyMap]
    /\ comm = [p \in Players |-> EmptyMap]
    /\ timing = [p \in Players |-> {}]
    /\ drawn = [p \in Players |-> 0]
    /\ msgs = {}
    /\ revealed = {}
    /\ uses = {}

-----------------------------------------------------------------------------
\* TimingMap: only which keys are present matters.

TimingInsert(p, tx) == timing' = [timing EXCEPT ![p] = @ \cup {tx}]

\* A handler that forgets the entry.
TimingExtractNot(p, tx) == timing' = timing

TimingExtract(p, tx) == timing' = [timing EXCEPT ![p] = @ \ {tx}]

-----------------------------------------------------------------------------
\* A fresh nonce for every block.
DrawPerBlock(p) == [b \in Blocks |-> <<p, drawn[p] + b>>]

StartSigning(p, tx) ==
    /\ strict => tx \notin DOMAIN data[p]
    /\ drawn[p] < MaxStarts * NBlocks
    /\ LET k == DrawPerBlock(p)
           R == [b \in Blocks |-> GeneratorMul(k[b])]
       IN  /\ data' = [data EXCEPT ![p] =
                Put(@, tx, [k |-> k, R |-> R, s |-> [b \in Blocks |-> NoShare]])]
           /\ Return(p, tx, "commit", [b \in Blocks |-> Commitment(R[b])])
    /\ drawn' = [drawn EXCEPT ![p] = @ + NBlocks]
    /\ UNCHANGED <<strict, comm, timing, revealed, uses>>

-----------------------------------------------------------------------------
\* The stored R opens this player's own commitment.
OwnCommitmentOk(p, tx, commitments) ==
    \A b \in Blocks : commitments[p][b] = Commitment(data[p][tx].R[b])

\* The version written back with update_signing_data is read by nobody.
StoreCommitments(p, tx) ==
    /\ tx \in DOMAIN data[p]
    /\ \E commitments \in Batches("commit", tx) :
        /\ OwnCommitmentOk(p, tx, commitments)
        /\ strict => tx \notin DOMAIN comm[p]
        /\ comm' = [comm EXCEPT ![p] = Put(@, tx, commitments)]
        /\ revealed' = revealed \cup {r \in {<<data[p][tx].k, commitments>>} : strict}
    /\ TimingInsert(p, tx)
    /\ Return(p, tx, "R", data[p][tx].R)
    /\ UNCHANGED <<strict, data, drawn, uses>>

\* The call throws: the timing entry it made first stays.
StoreCommitmentsFails(p, tx) ==
    /\ tx \in DOMAIN data[p]
    /\ tx \notin timing[p]
    /\ \E commitments \in Batches("commit", tx) :
        ~OwnCommitmentOk(p, tx, commitments) \/ (strict /\ tx \in DOMAIN comm[p])
    /\ TimingInsert(p, tx)
    /\ UNCHANGED <<strict, data, comm, drawn, msgs, revealed, uses>>

-----------------------------------------------------------------------------
\* Only this player's own decommitment is compared.
DecommitmentsOwnOnly(p, tx, Rs) ==
    \A b \in Blocks : comm[p][tx][p][b] = Commitment(Rs[p][b])

\* Every revealed R opens the stored commitment of its player.
DecommitmentsOk(p, tx, Rs) ==
    \A q \in Players, b \in Blocks : comm[p][tx][q][b] = Commitment(Rs[q][b])

\* The sum is used but not stored.
SignedKeepsR(p, d, tx, Rs) ==
    [k |-> d.k, R |-> d.R,
     s |-> [b \in Blocks |-> MulAdd(Hram(AddR(Rs, b), Block(tx, b)), p, d.k[b])]]

\* The sum of the Rs and this player's share of s replace R and s.
Signed(p, d, tx, Rs) ==
    LET R == [b \in Blocks |-> AddR(Rs, b)]
    IN  [k |-> d.k, R |-> R,
         s |-> [b \in Blocks |-> MulAdd(Hram(R[b], Block(tx, b)), p, d.k[b])]]

BroadcastSi(p, tx) ==
    /\ tx \in DOMAIN data[p] \cap DOMAIN comm[p]
    /\ \E Rs \in Batches("R", tx) :
        /\ DecommitmentsOk(p, tx, Rs)
        /\ LET d == Signed(p, data[p][tx], tx, Rs)
           IN  /\ data' = [data EXCEPT ![p] = Put(@, tx, d)]
               /\ Return(p, tx, "s", d.s)
               /\ uses' = uses \cup
                    {<<d.k[b], Hram(AddR(Rs, b), Block(tx, b)), Rs>> : b \in Blocks}
    /\ UNCHANGED <<strict, comm, timing, drawn, revealed>>

-----------------------------------------------------------------------------
SumS(s, b) == SumScalars([p \in DOMAIN s |-> s[p][b]])

\* s of each block, under the R stored at the time of the call.
Signature(d, s) == [b \in Blocks |-> [R |-> d.R[b], s |-> SumS(s, b)]]

\* Signatures returned without looking at them.
SignatureUnchecked(tx, sig) == TRUE

\* Every signature is verified before any is returned.
SignatureChecked(tx, sig) ==
    \A b \in Blocks : Ed25519Verify(Players, Block(tx, b), sig[b])

\* delete_temporary_signing_data drops both the signing data and the
\* commitments.
GetEddsaSignature(p, tx) ==
    /\ tx \in DOMAIN data[p]
    /\ \E s \in Batches("s", tx) :
        /\ s[p] = data[p][tx].s
        /\ SignatureChecked(tx, Signature(data[p][tx], s))
        /\ Return(p, tx, "signature", Signature(data[p][tx], s))
    /\ data' = [data EXCEPT ![p] = Drop(@, {tx})]
    /\ comm' = [comm EXCEPT ![p] = Drop(@, {tx})]
    /\ TimingExtract(p, tx)
    /\ UNCHANGED <<strict, drawn, revealed, uses>>

PlayerStep(p, tx) ==
    \/ StartSigning(p, tx)
    \/ StoreCommitments(p, tx)
    \/ StoreCommitmentsFails(p, tx)
    \/ BroadcastSi(p, tx)
    \/ GetEddsaSignature(p, tx)

Next == \E p \in Players, tx \in Txs : PlayerStep(p, tx)

Spec == Init /\ [][Next]_vars

\* Each call the protocol still needs is made: the caller drives every signer
\* to the end and retries calls that throw.
FairSpec ==
    /\ Spec
    /\ \A p \in Players, tx \in Txs :
        /\ WF_vars(StartSigning(p, tx) /\ drawn[p] = 0)
        /\ WF_vars(StoreCommitments(p, tx))
        /\ WF_vars(BroadcastSi(p, tx))
        /\ WF_vars(GetEddsaSignature(p, tx))

-----------------------------------------------------------------------------
\* Properties

Finals == {m \in msgs : m.type = "signature"}

\* A nonce answers at most one challenge, whichever handlers are repeated, with
\* whichever commitments and Rs, even over a persistency that overwrites.
\* (broadcast_si keeps k and may be called again: it rests on R being replaced
\* by the sum, after which no commitments pass store_commitments any more.)
NonceOnce == \A u, v \in uses : u[1] = v[1] => u[2] = v[2]

\* What a signer adds its R to is settled before it reveals R: every share it
\* makes with a nonce uses Rs that open the commitments it had stored whenever
\* it returned the R of that nonce, so no signer can choose an R after seeing
\* another's.  (A persistency that overwrites commitments breaks this.)
AddendsSettled ==
    strict => \A r \in revealed, u \in uses : (\E b \in Blocks : r[1][b] = u[1]) =>
        \A q \in Players, b \in Blocks : r[2][q][b] = Commitment(u[3][q][b])

\* Two signatures returned by any two signers are the same or have no nonce in
\* common, however often the transaction was started again.
FinalsIndependent ==
    \A f, g \in Finals : f.body = g.body \/
        \A b, c \in Blocks :
            DOMAIN f.body[b].R \cap DOMAIN g.body[c].R = {}

\* TimingMap never keeps an entry for a transaction that has no signing data.
OnlyLiveAreTimed == \A p \in Players : timing[p] \subseteq DOMAIN data[p]

\* If no signer starts a transaction a second time, every signer gets the
\* signature of every transaction.
StartedOnce == \A p \in Players : drawn[p] <= NBlocks
SigningCompletes ==
    [](StartedOnce) =>
        <>(\A p \in Players, tx \in Txs : \E f \in Finals : f.from = p /\ f.tx = tx)
=============================================================================
