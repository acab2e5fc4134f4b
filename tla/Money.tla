-------------------------------- MODULE Money --------------------------------
(***************************************************************************)
(* Amounts of crates/sandbox-markets/src/money.rs and the entries of        *)
(* ledger.rs that carry them.                                               *)
(*                                                                         *)
(* An amount is a signed integer of fixed width (i128 in the code), here    *)
(* MinUnits .. MaxUnits, always glued to its currency.  Addition is checked *)
(* (the caller sees an error instead of a wrapped value); negation is not:  *)
(* the bare `-` of Money::negate wraps the smallest amount onto itself in a *)
(* release build and panics in a debug build.                               *)
(***************************************************************************)
EXTENDS Integers, Sequences, FiniteSets, Functions

CONSTANTS MaxUnits,     \* i128::MAX, at a smaller width
          Accounts,     \* account identifiers
          Currencies    \* CLP, USD, EUR

ASSUME WidthAssumption == MaxUnits \in Nat \ {0}

ASSUME AccountsAssumption == IsFiniteSet(Accounts)

MinUnits == -MaxUnits - 1

Units == MinUnits .. MaxUnits

Entry == [account : Accounts, currency : Currencies, units : Units]

Keys == Accounts \X Currencies

KeyOf(entry) == <<entry.account, entry.currency>>

\* Money::negate as a release build computes it: two's complement wraps -MIN to MIN.
Negate(units) == IF units = MinUnits THEN MinUnits ELSE -units

NegateOverflows(entries) == \E i \in DOMAIN entries : entries[i].units = MinUnits

NegateAll(entries) ==
    [i \in DOMAIN entries |-> [entries[i] EXCEPT !.units = Negate(@)]]

Amounts(entries) == [i \in DOMAIN entries |-> entries[i].units]

\* What the first n entries add up to in one currency, and on one account.
CurrencyTotal(entries, n, c) ==
    SumFunctionOnSet(Amounts(entries), {i \in 1 .. n : entries[i].currency = c})

Moved(entries, n, key) ==
    SumFunctionOnSet(Amounts(entries), {i \in 1 .. n : KeyOf(entries[i]) = key})

\* The books' own meaning of "it balances": every currency adds up to zero, with
\* no limit on the size of the intermediate sums.
SumsToZero(entries) ==
    \A c \in Currencies : CurrencyTotal(entries, Len(entries), c) = 0
==============================================================================
