----------------------------- MODULE MCOrderBook ------------------------------
(***************************************************************************)
(* OrderBook with zeroes among the values callers may give.  *)
(***************************************************************************)
EXTENDS OrderBook, TLC

CONSTANT MaxPrice

MCPrices == {0} \cup 1 .. MaxPrice

MCQuantities == {0, 1, 2}

\* Identifiers are compared and nothing else.
IdSymmetry == Permutations(Ids)
==============================================================================
