------------------------------- MODULE MCSync -------------------------------
EXTENDS MempoolSync
A == <<0, 0>>
B == <<0, 1>>
MCInputs == <<{A}, {<<1, 0>>}, {<<1, 1>>}, {<<2, 0>>, <<3, 0>>}, {<<1, 1>>, B}>>
MCFee == <<1, 4, 2, 3, 6>>
MCWeight == [t \in 1..5 |-> 1]
MCOrder == [t \in 1..5 |-> t]
MCCoins == {A, B}
MCStart == {{1, 2, 3}}
=============================================================================
