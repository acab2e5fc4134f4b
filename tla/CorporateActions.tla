-------------------------- MODULE CorporateActions --------------------------
(***************************************************************************)
(* CM-17, crates/sandbox-markets/src/cases/corporate_actions.rs: holders   *)
(* trade from day to day, and a split or a dividend is applied to what     *)
(* each had on the record day.                                             *)
(***************************************************************************)
EXTENDS Integers, Functions, FiniteSetsExt

CONSTANTS
    Shareholders,
    OpeningPositions,   \* shareholder -> units on day 0
    RecordDay, PaymentDay,
    Events,             \* [kind, from, to, cash]
    PriceBefore

VARIABLES
    day,
    unitsByDay,   \* shareholder -> Position.units_by_day, only the days that changed it
    applied,      \* the answer of `apply` with its event, or NotYet
    onRecord      \* ghost: what each held when the record day ended

actionVars == <<day, unitsByDay, applied, onRecord>>

NotYet == [done |-> FALSE]

\* Position.units_on: the last value known on that day or before.
UnitsOn(history, d) ==
    LET known == {k \in DOMAIN history: k <= d}
    IN  IF known = {} THEN 0 ELSE history[Max(known)]

\* A day is written over, or added.
WithDay(history, d, n) == [k \in DOMAIN history \cup {d} |-> IF k = d THEN n ELSE history[k]]

Today(h) == UnitsOn(unitsByDay[h], day)

Init ==
    /\ day = 0
    /\ unitsByDay = [h \in Shareholders |-> [d \in {0} |-> OpeningPositions[h]]]
    /\ applied = NotYet
    /\ onRecord = OpeningPositions

\* External: the market, a trade of one unit, and the calendar.
Trade(seller, buyer) ==
    /\ seller # buyer
    /\ Today(seller) > 0
    /\ unitsByDay' = [unitsByDay EXCEPT ![seller] = WithDay(@, day, Today(seller) - 1),
                                        ![buyer] = WithDay(@, day, Today(buyer) + 1)]
    /\ UNCHANGED <<day, applied, onRecord>>

NextDay ==
    /\ day < PaymentDay
    /\ day' = day + 1
    /\ onRecord' = IF day = RecordDay THEN [h \in Shareholders |-> Today(h)] ELSE onRecord
    /\ UNCHANGED <<unitsByDay, applied>>

-----------------------------------------------------------------------------
(* apply *)

Impossible(e) == e.from <= 0 \/ e.to <= 0 \/ e.cash < 0

PriceAfter(e, price) == IF e.kind = "split" THEN (price * e.from) \div e.to ELSE price

Whole(e, held) == IF e.kind = "split" THEN (held * e.to) \div e.from ELSE held

\* Half a unit does not exist: its value is paid.
InLieu(e, held, price) ==
    IF e.kind = "split" THEN (((held * e.to) % e.from) * PriceAfter(e, price)) \div e.from ELSE 0

Applied(e, held, price) ==
    LET holders == {h \in DOMAIN held: held[h] # 0}
        Total(amount) == SumFunctionOnSet(amount, holders)
    IN  [affected |-> Cardinality(holders),
         unitsBefore |-> Total(held),
         unitsAfter |-> Total([h \in holders |-> Whole(e, held[h])]),
         cashPaid |-> Total([h \in holders |-> IF e.kind = "split" THEN 0 ELSE held[h] * e.cash]),
         cashInLieu |-> Total([h \in holders |-> InLieu(e, held[h], price)])]

\* An event that cannot be applied answers None and changes nothing.
Pay(e) ==
    /\ day = PaymentDay
    /\ ~applied.done
    /\ ~Impossible(e)
    /\ applied' = [done |-> TRUE, event |-> e,
                    answer |-> Applied(e, [h \in Shareholders |-> UnitsOn(unitsByDay[h], RecordDay)],
                                       PriceBefore)]
    /\ UNCHANGED <<day, unitsByDay, onRecord>>

Paid == applied.done /\ UNCHANGED actionVars

Next ==
    \/ \E s, b \in Shareholders: Trade(s, b)
    \/ NextDay
    \/ \E e \in Events: Pay(e)
    \/ Paid

Spec == Init /\ [][Next]_actionVars

-----------------------------------------------------------------------------
TypeOK ==
    /\ day \in 0..PaymentDay
    /\ onRecord \in [Shareholders -> Nat]
    /\ applied.done \in BOOLEAN

\* Who held the instrument when the record day ended is who counts: trades after it
\* change nothing of the event, and those of the record day itself still do.
RecordDayDecides ==
    applied.done =>
        /\ applied.answer.unitsBefore = SumFunction(onRecord)
        /\ applied.answer.affected = Cardinality({h \in Shareholders: onRecord[h] > 0})
        /\ applied.answer.cashPaid = IF applied.event.kind = "dividend"
                                     THEN applied.event.cash * SumFunction(onRecord) ELSE 0
        /\ applied.answer.unitsAfter =
                SumFunction([h \in Shareholders |-> Whole(applied.event, onRecord[h])])

\* A split makes nobody richer: units at the new price and the cash for fractions are
\* worth at most what there was, and fall short of it only by roundings, at most one
\* per unit after the split and one per holder.
SplitCreatesNoValue ==
    applied.done /\ applied.event.kind = "split" =>
        LET before == applied.answer.unitsBefore * PriceBefore
            after == applied.answer.unitsAfter * PriceAfter(applied.event, PriceBefore)
                        + applied.answer.cashInLieu
        IN  /\ after <= before
            /\ before - after <= applied.answer.unitsAfter + applied.answer.affected

-----------------------------------------------------------------------------
(* The checks of the case's own report, with its figures. *)
Split(from, to) == [kind |-> "split", from |-> from, to |-> to, cash |-> 0]

Scenarios ==
    /\ Applied(Split(1, 2), [cli1 |-> 500, cli2 |-> 300], 10000).unitsAfter = 1600
    /\ UnitsOn([d \in {18} |-> 1000], 15) = 0
    /\ Applied(Split(2, 3), [cli1 |-> 5], 10000).unitsAfter = 7
    /\ Applied(Split(2, 3), [cli1 |-> 5], 10000).cashInLieu > 0
    /\ LET paid == Applied([kind |-> "dividend", from |-> 1, to |-> 1, cash |-> 250],
                           [cli1 |-> 500, cli2 |-> 300], 10000)
       IN  paid.cashPaid = 200000 /\ paid.unitsAfter = 800
    /\ Impossible(Split(0, 2))
    /\ Applied(Split(2, 1), [cli1 |-> 400], 10000).unitsAfter = 200

=============================================================================
