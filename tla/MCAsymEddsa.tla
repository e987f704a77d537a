----------------------------- MODULE MCAsymEddsa -----------------------------
(***************************************************************************)
(* Instances of AsymEddsa for TLC: the transactions and where in the       *)
(* presigning array each of them starts.                                   *)
(***************************************************************************)
EXTENDS AsymEddsa, TLC

CONSTANTS t1, t2

OneTx == {t1}
TwoTxs == {t1, t2}

StartOfOne == t1 :> 0
StartApart == t1 :> 0 @@ t2 :> 1    \* one index each (when NBlocks = 1)
=============================================================================
