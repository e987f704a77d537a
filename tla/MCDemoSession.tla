---------------------------- MODULE MCDemoSession ----------------------------
(***************************************************************************)
(* Instances of DemoSession for TLC: the scripts the three users follow.   *)
(***************************************************************************)
EXTENDS DemoSession, TLC

CONSTANTS t1, t2

MCTxs == {t1, t2}
MCStart == t1 :> 0 @@ t2 :> 0

InOrder  == {<<t1, t2>>}                \* everybody signs t1, then t2
AnyOrder == {<<t1, t2>>, <<t2, t1>>, <<t1, t1>>}    \* each in an order of its own
Reuse    == {<<t1, t1>>}                \* the same transaction id twice
=============================================================================
