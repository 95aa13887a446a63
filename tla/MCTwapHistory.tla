--------------------------- MODULE MCTwapHistory ---------------------------
\* Inputs of the oracle's runs: an empty pool and three prices.
EXTENDS TwapHistory

PoolsIn == {<<0, 0>>, <<1, 1>>, <<1, 3>>, <<2, 1>>}
=============================================================================
