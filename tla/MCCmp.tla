------------------------------- MODULE MCCmp -------------------------------
(***************************************************************************)
(* The CMP ECDSA services of two players on the curve y^2 = x^3 + 7 over   *)
(* 43 elements, of order 31: the shape of secp256k1, with points whose x   *)
(* is above the order.  A behaviour follows one of six plans, so that     *)
(* each interplay is explored on its own:                                  *)
(*   presign   a preprocessing request, restarted or beside another, and   *)
(*             signatures;                                                 *)
(*   inflight  a preprocessing request, signatures, and a key refresh;     *)
(*   refresh   a dealt presignature, key refreshes, and signatures;        *)
(*   online    an online signature, restarted or beside another, and a     *)
(*             key refresh;                                                *)
(*   setup     the key is made, with lost answers and failed backups;      *)
(*   handover  the key is handed to two new players, with a key refresh.   *)
(***************************************************************************)
EXTENDS KeyRefresh, EcdsaOnline, CmpSetup

VARIABLE plan

\* The requests that the plans name.
ASSUME PlansAssumption == "r1" \in Reqs /\ {"f1", "f2"} \subseteq RefreshReqs

MCPlayers == {1, 2}
MCShare0 == [p \in MCPlayers |-> 3 + 7 * p]
MCMaxDrawn(p) == IF p = 1 THEN 4 ELSE 2
MCTxs == {"t1", "t2"}
MCMessage(tx) == IF tx = "t1" THEN 9 ELSE 20
MCDerivation(tx) == IF tx = "t1" THEN 4 ELSE 0
MCPositiveR(tx) == tx = "t1"
MCCount(r) == 2
MCFirst(r) == 1
UseNumber(use) == CASE use = "k" -> 1 [] use = "gamma" -> 2 [] use = "x" -> 3 [] use = "chi" -> 4
MCDraw(p, n, q, use) == 1 + ((7 * p + 11 * n + 5 * q + 3 * UseNumber(use) + p * n) % 30)
MCPrf(r, p, q, use, i) ==
    1 + ((13 * p + 17 * q + 5 * UseNumber(use) + 3 * i + (IF r = "f1" THEN 3 ELSE 9)) % 30)
MCHash(R, Q, m) == 1 + ((R[2] + 3 * Q[2] + 5 * m) % 30)

\* Presignatures as a finished request leaves them: shares of k and of
\* k * x - sum of k(p)x(p), under R = k^-1 * G.
Dealt(p, i) ==
    LET KK(q) == Draw(q, i, 0, "k")
        k == SumOver([q \in Players |-> KK(q)])
        chi(q) == IF q = 1 THEN 6
                  ELSE SubScalars(SubScalars(k * SumOver(Share0),
                                    SumOver([o \in Players |-> MulScalars(KK(o), Share0[o])])), 6)
    IN  [id |-> <<p, i>>, k |-> KK(p), chi |-> chi(p), epoch |-> <<>>,
         R |-> GeneratorMul(ScalarInverse(k)), batch |-> {<<q, i>> : q \in Players}]

Init ==
    /\ plan \in {"presign", "inflight", "refresh", "online", "setup", "handover"}
    /\ share = Share0
    /\ epoch = [p \in Players |-> <<>>]
    /\ drawn = [p \in Players |-> CASE plan = "inflight" -> MaxDrawn(p) - Count("r1")
                                  [] plan = "online" -> MaxDrawn(p) - (IF p = 1 THEN 2 ELSE 1)
                                  [] plan = "refresh" -> 1
                                  [] OTHER -> 0]
    /\ LET exchanged == IF plan = "refresh" THEN RefreshReqs ELSE {}
       IN  /\ RefreshInit(exchanged)
           /\ msgs = {Seed(p, r) : p \in Players, r \in exchanged}
    /\ OfflineInit([p \in Players |-> IF plan = "refresh" THEN [i \in {1} |-> Dealt(p, i)] ELSE EmptyMap],
                   IF plan \in {"presign", "inflight"} THEN {} ELSE Players)
    /\ OnlineInit
    /\ SetupInit(IF plan = "handover" THEN Players ELSE {})

offlineAll == <<pre, offlineVars, useVars>>

Step(p) ==
    \/ /\ plan \in {"presign", "inflight", "refresh"}
       /\ OfflineStep(p, CASE plan = "presign" -> Reqs [] plan = "inflight" -> {"r1"}
                            [] plan = "refresh" -> {},
                          IF plan = "inflight" THEN {"t1"} ELSE Txs)
       /\ UNCHANGED <<refreshVars, onlineVars, setupVars>>
    \/ /\ plan \in {"inflight", "refresh", "online", "handover"}
       /\ \/ RefreshStep(p, "f1", IF plan = "refresh" THEN {{}, Players} ELSE {Players}, 1)
          \/ plan = "refresh" /\ RefreshStep(p, "f2", {Players}, 2)
       /\ UNCHANGED <<onlineVars, setupVars>>
    \/ /\ plan = "online"
       /\ \E tx \in Txs : OnlineStep(p, tx)
       /\ UNCHANGED <<offlineAll, refreshVars, setupVars>>

Setup(p) ==
    /\ \/ plan = "setup" /\ SetupStep(p, Players, 2, 0)
       \/ plan = "handover" /\ SetupStep(p, NewPlayers, 1, IF p = 1 THEN 2 ELSE 1)
    /\ UNCHANGED <<offlineAll, refreshVars, onlineVars>>

allVars == <<plan, share, epoch, drawn, msgs, offlineAll, refreshVars, onlineVars, setupVars>>

Next == /\ \/ \E p \in Players : Step(p)
           \/ \E p \in Players \cup NewPlayers : Setup(p)
        /\ plan' = plan

Spec == Init /\ [][Next]_allVars
=============================================================================
