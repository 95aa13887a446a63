----------------------------- MODULE MCPairPool -----------------------------
\* Inputs of the pool's runs.
EXTENDS PairPool, TLC

Sym == Permutations(Holders)
DepositsIn == {<<2, 2>>, <<1, 3>>}
HooksIn == {<< >>, <<3, 3>>}
LimitsIn == {[spread |-> 6, belief |-> 0, slippage |-> 6]}
PoolsIn == (0 .. MaxReserve) \X (0 .. MaxReserve)
=============================================================================
