------------------------------ MODULE MCLedger -------------------------------
(***************************************************************************)
(* Ledger on three-bit amounts (-4 .. 3): small enough for a balance to     *)
(* reach both ends of the width within the three transactions the keys      *)
(* allow.                                                                   *)
(***************************************************************************)
EXTENDS Ledger

CONSTANTS ana, beto, mesa, clp, usd

E(account, currency, units) == [account |-> account, currency |-> currency, units |-> units]

MCEntryLists ==
    { << >>,                                                     \* moves nothing
      << E(ana, clp, 1) >>,                                      \* money from nowhere
      << E(ana, clp, -1), E(beto, clp, 1) >>,                    \* a transfer
      << E(mesa, clp, -1), E(mesa, clp, -1), E(ana, clp, 2) >>,  \* one account twice
      << E(ana, clp, 3), E(beto, clp, -3) >>,                    \* close to the width
      << E(ana, clp, -4), E(beto, clp, 3), E(mesa, clp, 1) >>,   \* the smallest amount
      << E(beto, clp, 2), E(beto, clp, 2), E(ana, clp, -4) >>,   \* its own total overflows
      << E(ana, clp, 1), E(mesa, clp, -1), E(ana, usd, -1), E(mesa, usd, 1) >>,  \* buys dollars
      << E(ana, clp, 1), E(mesa, usd, -1) >> }                   \* balances only across currencies
==============================================================================
