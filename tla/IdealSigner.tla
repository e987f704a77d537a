----------------------------- MODULE IdealSigner -----------------------------
(***************************************************************************)
(* What threshold signing promises to whoever collects the signatures: a   *)
(* transaction gets at most one signature per block, whichever player      *)
(* hands it over; each verifies under the group's key; and no nonce of one *)
(* transaction ever appears in the signature of another.                   *)
(***************************************************************************)
EXTENDS EddsaTerms

CONSTANTS Players, Txs, Blocks

VARIABLE signed     \* the pairs <<transaction, signatures of its blocks>>

NoncesIn(sigs) == UNION {DOMAIN sigs[b].R : b \in Blocks}

Sign(tx) ==
    /\ \A e \in signed : e[1] # tx
    /\ \E e \in signed' :
        /\ e[1] = tx
        /\ signed' = signed \cup {e}
        /\ \A b \in Blocks : Ed25519Verify(Players, <<tx, b>>, e[2][b])
        /\ \A old \in signed : NoncesIn(e[2]) \cap NoncesIn(old[2]) = {}

Init == signed = {}
Next == \E tx \in Txs : Sign(tx)
Spec == Init /\ [][Next]_signed
=============================================================================
