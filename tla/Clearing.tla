------------------------------ MODULE Clearing ------------------------------
(***************************************************************************)
(* CM-10, crates/sandbox-markets/src/cases/clearing.rs: the netting of a   *)
(* cycle of trades and their settlement, delivery against payment.         *)
(*                                                                         *)
(* A settlement is asked for any number of times and in any order.  Units  *)
(* are counted per participant: like the code's, the balances have one     *)
(* number for all instruments.                                             *)
(***************************************************************************)
EXTENDS Integers, Functions

CONSTANTS
    ClearedTrades,  \* the trades of the cycle: [id, buyer, seller, units, cash]
    OpeningCash,    \* participant -> minimal units of money
    OpeningUnits    \* participant -> units

VARIABLES
    cash,      \* Balances.cash
    units,     \* Balances.units
    settled    \* already_settled, a list without repetitions

clearingVars == <<cash, units, settled>>

Participants == DOMAIN OpeningCash

Init ==
    /\ cash = OpeningCash
    /\ units = OpeningUnits
    /\ settled = {}

\* One leg: the same amount leaves one and reaches the other, who may be the same.
Leg(book, from, to, amount) == [[book EXCEPT ![from] = @ - amount] EXCEPT ![to] = @ + amount]

\* settle: what is answered for a trade, with these balances.
Settlement(t, money, titles, done) ==
    IF t.id \in done THEN "already-settled"
    ELSE IF money[t.buyer] < t.cash \/ titles[t.seller] < t.units THEN "failed"
    ELSE "settled"

\* Mutant: the units are moved before the funds are checked.
SettleUnitsFirst(t) ==
    /\ Settlement(t, cash, units, settled) # "settled"
    /\ IF t.id \in settled \/ units[t.seller] < t.units
       THEN UNCHANGED clearingVars
       ELSE units' = Leg(units, t.seller, t.buyer, t.units) /\ UNCHANGED <<cash, settled>>

\* Repeated, or failed with its penalty: nothing moves.
SettleNothing(t) ==
    /\ Settlement(t, cash, units, settled) # "settled"
    /\ UNCHANGED clearingVars

\* Both legs are checked before either moves.
SettleBoth(t) ==
    /\ Settlement(t, cash, units, settled) = "settled"
    /\ cash' = Leg(cash, t.buyer, t.seller, t.cash)
    /\ units' = Leg(units, t.seller, t.buyer, t.units)
    /\ settled' = settled \cup {t.id}

Next == \E t \in ClearedTrades: SettleBoth(t) \/ SettleNothing(t)

Spec == Init /\ [][Next]_clearingVars

-----------------------------------------------------------------------------
(* Netting *)

\* What `participant` receives, less what it owes, over a set of trades.
Obligation(trades, participant) ==
    LET Of(amount, side) == SumFunctionOnSet(amount, {t \in trades: side[t] = participant})
        money == [t \in trades |-> t.cash]
        titles == [t \in trades |-> t.units]
        buyer == [t \in trades |-> t.buyer]
        seller == [t \in trades |-> t.seller]
    IN  [cash |-> Of(money, seller) - Of(money, buyer),
         units |-> Of(titles, buyer) - Of(titles, seller)]

Traders(trades) == {t.buyer: t \in trades} \cup {t.seller: t \in trades}

NetsToZero(trades) ==
    /\ SumFunction([p \in Traders(trades) |-> Obligation(trades, p).cash]) = 0
    /\ SumFunction([p \in Traders(trades) |-> Obligation(trades, p).units]) = 0

-----------------------------------------------------------------------------
TypeOK ==
    /\ cash \in [Participants -> Int]
    /\ units \in [Participants -> Int]
    /\ settled \subseteq {t.id: t \in ClearedTrades}

\* Whatever is retried, refused or settled in whatever order, each participant has
\* what it started with and the net obligation of exactly the settled trades: a
\* retry moves nothing, a failure leaves no leg behind, and netting the cycle says
\* the same as settling it trade by trade.
BalancesAreNetted ==
    LET done == {t \in ClearedTrades: t.id \in settled}
    IN  /\ NetsToZero(done)
        /\ \A p \in Participants:
            /\ cash[p] = OpeningCash[p] + Obligation(done, p).cash
            /\ units[p] = OpeningUnits[p] + Obligation(done, p).units

\* Nobody pays with money or delivers units it does not have, at any point.
NobodyIsOverdrawn == \A p \in Participants: cash[p] >= 0 /\ units[p] >= 0

-----------------------------------------------------------------------------
(* The checks of the case's own report, in tens of thousands. *)
SimTrade(id, buyer, seller, units_, cash_) ==
    [id |-> id, buyer |-> buyer, seller |-> seller, units |-> units_, cash |-> cash_]

NettingExample == {SimTrade("t1", "P1", "P2", 150, 200), SimTrade("t2", "P2", "P1", 50, 70)}

Scenarios ==
    LET P(first, second) == [P1 |-> first, P2 |-> second]
        t == SimTrade("t3", "P1", "P2", 150, 200)
        Answers(money, titles, done) == Settlement(t, money, titles, done)
    IN  /\ NetsToZero(NettingExample)
        /\ 2 * (200 + 70) > Obligation(NettingExample, "P2").cash - Obligation(NettingExample, "P1").cash
        /\ Answers(P(500, 0), P(0, 500), {}) = "settled"
        /\ Answers(P(0, 0), P(0, 500), {}) = "failed"
        /\ Answers(P(500, 0), P(0, 0), {}) = "failed"
        /\ Answers(P(500, 0), P(0, 500), {"t3"}) = "already-settled"
=============================================================================
