------------------------------- MODULE MCSse --------------------------------
(* A tree with a fork at height 1 and a block on one of its branches.       *)
EXTENDS MoneroSse, TLC

CONSTANTS g, a1, b1, a2, t1, t2

MCBlocks == {g, a1, b1, a2}
MCChain == g :> <<g>> @@ a1 :> <<g, a1>> @@ b1 :> <<g, b1>> @@ a2 :> <<g, a1, a2>>
MCWork == g :> 1 @@ a1 :> 2 @@ b1 :> 3 @@ a2 :> 4
MCTxsOf == g :> {} @@ a1 :> {t1} @@ b1 :> {t2} @@ a2 :> {t2}
MCTxs == {t1, t2}
MCOneTx == {t1}
=============================================================================
