------------------------------ MODULE MCMarkets ------------------------------
(***************************************************************************)
(* Markets with a few trades, holders, investors, days, clients and venues. *)
(***************************************************************************)
EXTENDS Markets, MCOrderBook

MCClearedTrades ==
    {[id |-> 1, buyer |-> "a", seller |-> "b", units |-> 2, cash |-> 3],
     [id |-> 2, buyer |-> "b", seller |-> "c", units |-> 1, cash |-> 4],
     [id |-> 3, buyer |-> "c", seller |-> "a", units |-> 2, cash |-> 2],
     [id |-> 4, buyer |-> "c", seller |-> "c", units |-> 2, cash |-> 1],
     [id |-> 5, buyer |-> "b", seller |-> "a", units |-> 3, cash |-> 1]}
MCOpeningCash == [p \in {"a", "b", "c"} |-> IF p = "a" THEN 3 ELSE 2]
MCOpeningUnits == [p \in {"a", "b", "c"} |-> IF p = "b" THEN 3 ELSE 1]

MCHolders == {"a", "b", "c"}
MCQualified == {"a", "b"}
MCLots == {1, 2}

MCAmounts == {0, 3, 17, 20, 30}

MCShareholders == {"a", "b"}
MCOpeningPositions == [h \in {"a", "b"} |-> IF h = "a" THEN 5 ELSE 0]
MCEvents ==
    {[kind |-> k, from |-> f, to |-> t, cash |-> 2]: k \in {"split", "dividend"}, f \in 0..2, t \in 1..3}

MCConsents == {"c1", "c2"}
MCScopes == {"balances"}

MCSteps == {1, 2, 3, 10}
MCOwed == [c \in {"a", "b", "c"} |-> IF c = "a" THEN 1 ELSE IF c = "b" THEN 2 ELSE 3]
MCAvailableCash == {1, 3, 5, 6, 7}

MCClients == {"a", "b"}
MCInstruments == {"x", "y"}
MCUnits == {-1, 1, 2}
MCStatements == UNION {[D -> 0..2]: D \in SUBSET {"x", "y"}}

MCFirstSections == [s \in {"custody"} |-> 1]
MCNewSections == {"cash", "collateral"}
MCFigures == {1, 2}
MCOperations == {"op"}

MCVenues ==
    {[price |-> p, fee |-> f, size |-> s, probability |-> r, pays |-> c]:
        p \in {3, 4}, f \in {0, 5}, s \in {0, 1, 3}, r \in {50, 100}, c \in BOOLEAN}
MCRoutedQuantities == {1, 4}

\* The checks of the cases' own reports, and the scenarios of the custody case,
\* evaluated on the models' operators.
ASSUME ReportsHold ==
    /\ Clearing!Scenarios
    /\ Tokens!Scenarios
    /\ Campaign!Scenarios
    /\ Corporate!Scenarios
    /\ Permissions!Scenarios
    /\ Exit!Scenarios
    /\ Custody!Scenarios
    /\ Reports!Scenarios
    /\ Routes!Scenarios
=============================================================================
