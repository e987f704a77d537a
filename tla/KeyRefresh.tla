----------------------------- MODULE KeyRefresh -----------------------------
(***************************************************************************)
(* cmp_offline_refresh_service: every pair of players exchanges seeds, and *)
(* each player adds what the seeds of the others expand to and subtracts   *)
(* what its own do, in its key share and in every presignature it holds.   *)
(* The new values are stored aside until an acknowledgement commits them,  *)
(* at each player on its own, and a refresh may be cancelled.              *)
(*                                                                         *)
(* The persistency is key_refresh_persistency of ecdsa_offline_test.cpp.   *)
(* Its delete_refresh_key_seeds erases from the map of presignatures, with *)
(* a request id as the key, so seeds are never deleted.                    *)
(***************************************************************************)
EXTENDS EcdsaOffline

CONSTANTS
    RefreshReqs,        \* refresh request ids
    Prf(_, _, _, _, _)  \* of a request, the player that drew the seed, the one
                        \* it drew it for, the use "x", "k" or "chi" and an index

VARIABLES
    seeds,      \* refresh requests a player has drawn seeds for
    tempKey,    \* temporary keys: player -> request -> [x, epoch]
    tempPre     \* temporary presignatures: player -> {} or one {store}

refreshVars == <<seeds, tempKey, tempPre>>

\* exchanged: the requests whose seeds were exchanged before.
RefreshInit(exchanged) ==
    /\ seeds = [p \in Players |-> exchanged]
    /\ tempKey = [p \in Players |-> EmptyMap]
    /\ tempPre = [p \in Players |-> {}]

Seed(p, r) == [type |-> "seed", from |-> p, body |-> [req |-> r]]

RefreshKeyRequest(p, r) ==
    /\ r \notin seeds[p]
    /\ seeds' = [seeds EXCEPT ![p] = @ \cup {r}]
    /\ msgs' = msgs \cup {Seed(p, r)}
    /\ UNCHANGED <<share, epoch, drawn, pre, offlineVars, useVars, tempKey, tempPre>>

\* What the exchange with the players in set adds to a value of p.
Shift(p, r, set, use, i) ==
    SumOver([q \in set \ {p} |-> SubScalars(Prf(r, q, p, use, i), Prf(r, p, q, use, i))])

TransformDropsOldShare(data, i, p, r, set, x, y) ==
    LET k == AddScalars(data.k, Shift(p, r, set, "k", i))
    IN  [data EXCEPT
            !.k = k,
            !.chi = AddScalars(SubScalars(@, k * y), Shift(p, r, set, "chi", i)),
            !.epoch = Append(@, [req |-> r, with |-> set])]

\* The new chi makes up for the change of k and of the share x, now y.
Transform(data, i, p, r, set, x, y) ==
    LET k == AddScalars(data.k, Shift(p, r, set, "k", i))
    IN  [data EXCEPT
            !.k = k,
            !.chi = AddScalars(SubScalars(@ + data.k * x, k * y), Shift(p, r, set, "chi", i)),
            !.epoch = Append(@, [req |-> r, with |-> set])]

\* refresh_key, with the seeds of the players in set: the code asks for no
\* more than n of them.  It may stop between its two stores.
RefreshKey(p, r, set) ==
    LET y == AddScalars(share[p], Shift(p, r, set, "x", 0))
    IN  /\ r \in seeds[p]
        /\ \A q \in set \ {p} : Seed(q, r) \in msgs
        /\ p \in created
        /\ tempPre[p] = {} /\ r \notin DOMAIN tempKey[p]
        /\ tempPre' = [tempPre EXCEPT ![p] =
                {[i \in DOMAIN pre[p] |-> Transform(pre[p][i], i, p, r, set, share[p], y)]}]
        /\ \/ /\ tempKey' = [tempKey EXCEPT ![p] =
                        Put(@, r, [x |-> y, epoch |-> Append(epoch[p], [req |-> r, with |-> set])])]
              /\ stops' = stops
           \/ stops < MaxStops /\ stops' = stops + 1 /\ tempKey' = tempKey
        /\ UNCHANGED <<share, epoch, drawn, msgs, meta, work, created, pre, useVars, seeds>>

CommitPre(p) == CHOOSE store \in tempPre[p] : TRUE

\* refresh_key_fast_ack: commit.  Presignatures used since refresh_key come
\* back with it; and the backup comes after, so its failure changes nothing.
RefreshKeyFastAck(p, r) ==
    /\ r \in DOMAIN tempKey[p] /\ tempPre[p] # {}
    /\ pre' = [pre EXCEPT ![p] = CommitPre(p)]
    /\ Restore(p, {CommitPre(p)[i].id : i \in DOMAIN CommitPre(p)})
    /\ tempPre' = [tempPre EXCEPT ![p] = {}]
    /\ share' = [share EXCEPT ![p] = tempKey[p][r].x]
    /\ epoch' = [epoch EXCEPT ![p] = tempKey[p][r].epoch]
    /\ tempKey' = [tempKey EXCEPT ![p] = Without(@, {r})]
    /\ UNCHANGED <<drawn, msgs, offlineVars, uses, spent, seeds>>

\* cancel_refresh_key: the temporary presignatures stay.
CancelRefreshKey(p, r) ==
    /\ r \in DOMAIN tempKey[p]
    /\ tempKey' = [tempKey EXCEPT ![p] = Without(@, {r})]
    /\ UNCHANGED <<share, epoch, drawn, msgs, pre, offlineVars, useVars, seeds, tempPre>>

\* The seeds stay, so that a request can be refreshed again after its commit: a
\* bound, max, on how often.
RefreshStep(p, r, sets, max) ==
    \/ RefreshKeyRequest(p, r)
    \/ \E set \in sets : Len(epoch[p]) < max /\ RefreshKey(p, r, set \cup {p})
    \/ RefreshKeyFastAck(p, r)
    \/ CancelRefreshKey(p, r)

-----------------------------------------------------------------------------
\* What a player holds, or will hold once it commits a refresh.
Holdings(p) ==
    {[x |-> share[p], epoch |-> epoch[p], pre |-> pre[p]]} \cup
    {[x |-> tempKey[p][r].x, epoch |-> tempKey[p][r].epoch, pre |-> CommitPre(p)] :
        r \in {q \in DOMAIN tempKey[p] : tempPre[p] # {}}}

\* What all players hold, or will, when they are at the same refresh.
AtOneRefresh ==
    {h \in [Players -> UNION {Holdings(p) : p \in Players}] :
        /\ \A p \in Players : h[p] \in Holdings(p)
        /\ \A p, q \in Players : h[p].epoch = h[q].epoch}

\* They hold shares of the same key.
KeyKept == \A h \in AtOneRefresh : SumOver([p \in Players |-> h[p].x]) = SumOver(Share0)

\* Presignatures of one run of the protocol that all were refreshed along hold
\* k under R = k^-1 * G, and with the key shares k times the key.
PresignaturesKept ==
    \A h \in AtOneRefresh :
        LET Sum(Val(_)) == SumOver([p \in Players |-> Val(p)])
            X(p) == h[p].x
        IN  \A i \in {j \in UNION {DOMAIN h[p].pre : p \in Players} :
                        \A p \in Players : j \in DOMAIN h[p].pre} :
                /\ \A p, q \in Players : h[p].pre[i].batch = h[q].pre[i].batch
                /\ \A p \in Players : h[p].pre[i].epoch = h[p].epoch
                => LET KOf(p) == h[p].pre[i].k
                       Product(p) == AddScalars(KOf(p) * X(p), h[p].pre[i].chi)
                   IN  /\ \A p \in Players : h[p].pre[i].R = GeneratorMul(ScalarInverse(Sum(KOf)))
                       /\ Sum(Product) = MulScalars(Sum(KOf), Sum(X))

(***************************************************************************)
(* A refresh changes neither the key nor what its presignatures will sign, *)
(* however the players commit, repeat or cancel it.                        *)
(***************************************************************************)
SharesAgree == KeyKept /\ PresignaturesKept
=============================================================================
