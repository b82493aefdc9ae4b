---------------------------- MODULE MCDashboard -----------------------------
(* Two heights above genesis, and b2, which replaces a2 at the same height. *)
EXTENDS Dashboard, TLC

CONSTANTS g, a1, a2, b1, b2, t1, t2

MCBlocks == {g, a1, a2, b2}
MCChain == g :> <<g>> @@ a1 :> <<g, a1>> @@ a2 :> <<g, a1, a2>> @@ b2 :> <<g, a1, b2>>
MCWork == g :> 1 @@ a1 :> 2 @@ a2 :> 3 @@ b2 :> 4
MCNoTxs == {}
MCNoTxsOf == [b \in MCBlocks |-> {}]
MCTxs == {t1, t2}

(* A straight chain of two blocks above genesis, each mining a transaction. *)
LineBlocks == {g, a1, a2}
LineChain == g :> <<g>> @@ a1 :> <<g, a1>> @@ a2 :> <<g, a1, a2>>
LineWork == g :> 1 @@ a1 :> 2 @@ a2 :> 3
LineTxsOf == g :> {} @@ a1 :> {t1} @@ a2 :> {t2}

(* Two blocks at height 1. *)
TwinBlocks == {g, a1, b1}
TwinChain == g :> <<g>> @@ a1 :> <<g, a1>> @@ b1 :> <<g, b1>>
TwinWork == g :> 1 @@ a1 :> 2 @@ b1 :> 3
TwinNoTxsOf == [b \in TwinBlocks |-> {}]

LineNoTxsOf == [b \in LineBlocks |-> {}]
=============================================================================
