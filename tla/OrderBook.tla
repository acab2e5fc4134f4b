------------------------------ MODULE OrderBook -------------------------------
(***************************************************************************)
(* The order book of one instrument                                         *)
(* (crates/sandbox-markets/src/orderbook.rs): price-time priority, partial  *)
(* fills, market orders and the tape of trades.                             *)
(*                                                                         *)
(* The matching loop takes whole orders from the front of the opposite side *)
(* and perhaps a portion of the next: `filled` is how many it has removed   *)
(* when it stops.                                                          *)
(***************************************************************************)
EXTENDS Integers, Sequences, FiniteSets, SequencesExt

CONSTANTS Ids,          \* order identifiers
          Prices,       \* limits callers may give, in minor units
          Quantities,   \* quantities callers may give
          MaxOrders,    \* bound: values of `sequence`
          None          \* no limit: a market order

ASSUME BookAssumption ==
    /\ Prices \subseteq Int
    /\ Quantities \subseteq Int
    /\ MaxOrders \in Nat
    /\ None \notin Int

VARIABLES bids, asks,   \* resting orders, best first
          trades,       \* the tape
          sequence,
          seen,         \* identifiers in use
          result,       \* what the last call returned
          asked,        \* ghost: identifier -> its order as accepted, and what was withdrawn
          untaped       \* ghost: something was executed and not written on the tape

vars == <<bids, asks, trades, sequence, seen, result, asked, untaped>>

Sides == {"Buy", "Sell"}

Order == [id : Ids, side : Sides, limit : Int \cup {None}, quantity : Int, sequence : Nat]

Trade == [buy_order : Ids, sell_order : Ids, quantity : Int, price : Int]

Results == {"Ok", "InvalidQuantity", "InvalidPrice", "Duplicate", "NoLiquidity", "Removed", "NotFound"}

Init ==
    /\ bids = << >>
    /\ asks = << >>
    /\ trades = << >>
    /\ sequence = 0
    /\ seen = {}
    /\ result = "Ok"
    /\ asked = [id \in {} |-> None]
    /\ untaped = FALSE

------------------------------------------------------------------------------
(* Matching *)

Opposite(o) == IF o.side = "Buy" THEN asks ELSE bids

\* Mutants: the incoming limit must be strictly better; the sides are swapped.
CrossesSwapped(o, resting) ==
    o.limit # None => IF o.side = "Buy" THEN o.limit <= resting.limit ELSE o.limit >= resting.limit

CrossesStrictly(o, resting) ==
    o.limit # None => IF o.side = "Buy" THEN o.limit > resting.limit ELSE o.limit < resting.limit

Crosses(o, resting) ==
    o.limit # None => IF o.side = "Buy" THEN o.limit >= resting.limit ELSE o.limit <= resting.limit

\* What the first n orders of a side offer.
Depth(book) ==
    LET depth[n \in 0 .. Len(book)] == IF n = 0 THEN 0 ELSE depth[n - 1] + book[n].quantity
    IN  depth

\* The loop removes `filled` orders and stops: o is filled, the book ends, the next
\* order does not cross, or it is larger than what is left of o.
StopsAfter(o, book, filled) ==
    /\ \A i \in 1 .. filled : Crosses(o, book[i])
    /\ Depth(book)[filled] <= o.quantity
    /\ filled < Len(book) /\ Crosses(o, book[filled + 1])
        => Depth(book)[filled] = o.quantity \/ o.quantity < Depth(book)[filled + 1]

\* What o takes from the order that is now the first.
Portion(o, book, filled) ==
    IF filled < Len(book) /\ Crosses(o, book[filled + 1]) THEN o.quantity - Depth(book)[filled] ELSE 0

Execution(o, resting, quantity) ==
    [buy_order |-> IF o.side = "Buy" THEN o.id ELSE resting.id,
     sell_order |-> IF o.side = "Buy" THEN resting.id ELSE o.id,
     quantity |-> quantity, price |-> resting.limit]

Executed(o, book, filled) ==
    [i \in 1 .. (IF Portion(o, book, filled) > 0 THEN filled + 1 ELSE filled) |->
        Execution(o, book[i], IF i <= filled THEN book[i].quantity ELSE Portion(o, book, filled))]

\* Mutants: the filled orders stay; the newest and worst orders are taken first.
RemainingWithFilled(o, book, filled) ==
    [i \in DOMAIN book |-> [book[i] EXCEPT !.quantity = IF i <= filled THEN 0 ELSE @]]

RemainingFromTheBack(o, book, filled) ==
    [i \in 1 .. Len(book) - filled |-> [book[i] EXCEPT !.quantity =
        @ - (IF i = Len(book) - filled THEN Portion(o, book, filled) ELSE 0)]]

\* The side that was matched, without the orders that are filled.
Remaining(o, book, filled) ==
    [i \in 1 .. Len(book) - filled |-> [book[filled + i] EXCEPT !.quantity =
        @ - (IF i = 1 THEN Portion(o, book, filled) ELSE 0)]]

Leftover(o, book, filled) == o.quantity - Depth(book)[filled] - Portion(o, book, filled)

------------------------------------------------------------------------------
(* Resting *)

\* Price first, then arrival.
Ahead(a, b) ==
    \/ IF a.side = "Buy" THEN a.limit > b.limit ELSE a.limit < b.limit
    \/ a.limit = b.limit /\ a.sequence < b.sequence

\* Mutant: pushed and not sorted.
RestedLast(o, book) == Append(book, o)

\* push and sort of a side that was sorted already.
Rested(o, book) ==
    LET ahead == Cardinality({i \in DOMAIN book : Ahead(book[i], o)})
    IN  InsertAt(book, ahead + 1, o)

------------------------------------------------------------------------------
(* submit *)

Refuse(reason) ==
    /\ result' = reason
    /\ UNCHANGED <<bids, asks, trades, sequence, seen, asked, untaped>>

InvalidPrice(limit) == limit # None /\ limit <= 0

SubmitInvalid(id, limit, quantity) ==
    \/ quantity <= 0 /\ Refuse("InvalidQuantity")
    \/ quantity > 0 /\ InvalidPrice(limit) /\ Refuse("InvalidPrice")
    \/ quantity > 0 /\ ~ InvalidPrice(limit) /\ id \in seen /\ Refuse("Duplicate")

Valid(id, limit, quantity) ==
    /\ quantity > 0 /\ ~ InvalidPrice(limit)
    /\ id \notin seen
    /\ sequence < MaxOrders

Incoming(id, side, limit, quantity) ==
    [id |-> id, side |-> side, limit |-> limit, quantity |-> quantity, sequence |-> sequence + 1]

\* The two sides after o has been matched and `rest`, if anything, was placed.
Sides2(o, own, opposite) ==
    IF o.side = "Buy" THEN bids' = own /\ asks' = opposite ELSE asks' = own /\ bids' = opposite

Own(o) == IF o.side = "Buy" THEN bids ELSE asks

Record(o) ==
    asked' = [x \in DOMAIN asked \cup {o.id} |->
        IF x = o.id THEN [order |-> o, withdrawn |-> 0] ELSE asked[x]]

\* Accepted: filled at once, or what is left waits in the book.
SubmitAccepted(id, side, limit, quantity) ==
    LET o == Incoming(id, side, limit, quantity)
        opposite == Opposite(o)
    IN  /\ Valid(id, limit, quantity)
        /\ \E filled \in 0 .. Len(opposite) :
            LET left == Leftover(o, opposite, filled)
            IN  /\ StopsAfter(o, opposite, filled)
                /\ left = 0 \/ limit # None
                /\ Sides2(o, IF left = 0 THEN Own(o) ELSE Rested([o EXCEPT !.quantity = left], Own(o)),
                          Remaining(o, opposite, filled))
                /\ trades' = trades \o Executed(o, opposite, filled)
                /\ sequence' = sequence + 1
                /\ seen' = seen \cup {id}
                /\ Record(o)
                /\ result' = "Ok"
                /\ UNCHANGED untaped

\* Refused after it was matched: the orders it took from have changed, the tape has not.
SubmitNoLiquidity(id, side, quantity) ==
    LET o == Incoming(id, side, None, quantity)
        opposite == Opposite(o)
    IN  /\ Valid(id, None, quantity)
        /\ \E filled \in 0 .. Len(opposite) :
            /\ StopsAfter(o, opposite, filled)
            /\ Leftover(o, opposite, filled) > 0
            /\ Sides2(o, Own(o), Remaining(o, opposite, filled))
            /\ sequence' = sequence + 1
            /\ result' = "NoLiquidity"
            /\ untaped' = (untaped \/ Executed(o, opposite, filled) # << >>)
            /\ UNCHANGED <<trades, seen, asked>>

Submit(id, side, limit, quantity) ==
    \/ SubmitInvalid(id, limit, quantity)
    \/ SubmitAccepted(id, side, limit, quantity)
    \/ limit = None /\ SubmitNoLiquidity(id, side, quantity)

------------------------------------------------------------------------------
(* cancel *)

At(book, id) == {i \in DOMAIN book : book[i].id = id}

Withdraw(id, quantity) == asked' = [asked EXCEPT ![id].withdrawn = @ + quantity]

\* Mutant: the identifier becomes free again.
CancelForgets(id) ==
    /\ At(bids, id) \cup At(asks, id) # {}
    /\ bids' = SelectSeq(bids, LAMBDA o : o.id # id)
    /\ asks' = SelectSeq(asks, LAMBDA o : o.id # id)
    /\ seen' = seen \ {id}
    /\ \E order \in {bids[i] : i \in At(bids, id)} \cup {asks[i] : i \in At(asks, id)} :
        Withdraw(id, order.quantity)
    /\ result' = "Removed"
    /\ UNCHANGED <<trades, sequence, untaped>>

CancelFound(id) ==
    /\ \/ /\ At(bids, id) # {}
          /\ LET i == Min(At(bids, id))
             IN  bids' = RemoveAt(bids, i) /\ Withdraw(id, bids[i].quantity)
          /\ UNCHANGED asks
       \/ /\ At(bids, id) = {} /\ At(asks, id) # {}
          /\ LET i == Min(At(asks, id))
             IN  asks' = RemoveAt(asks, i) /\ Withdraw(id, asks[i].quantity)
          /\ UNCHANGED bids
    /\ result' = "Removed"
    /\ UNCHANGED <<trades, sequence, seen, untaped>>

CancelNotFound(id) == At(bids, id) \cup At(asks, id) = {} /\ Refuse("NotFound")

Cancel(id) == CancelFound(id) \/ CancelNotFound(id)

------------------------------------------------------------------------------
Next ==
    \/ \E id \in Ids, side \in Sides, limit \in Prices \cup {None}, quantity \in Quantities :
        Submit(id, side, limit, quantity)
    \/ \E id \in Ids : Cancel(id)

Spec == Init /\ [][Next]_vars

------------------------------------------------------------------------------
(* Properties *)

TypeOK ==
    /\ bids \in Seq(Order) /\ asks \in Seq(Order)
    /\ \A i \in DOMAIN bids : bids[i].side = "Buy" /\ bids[i].limit # None /\ bids[i].quantity > 0
    /\ \A i \in DOMAIN asks : asks[i].side = "Sell" /\ asks[i].limit # None /\ asks[i].quantity > 0
    /\ trades \in Seq(Trade)
    /\ sequence \in 0 .. MaxOrders
    /\ seen \subseteq Ids
    /\ result \in Results
    /\ seen \subseteq DOMAIN asked
    /\ untaped \in BOOLEAN

\* is_crossed: nobody waits to pay what somebody else waits to accept.
NeverCrossed == bids # << >> /\ asks # << >> => bids[1].limit < asks[1].limit

\* Both sides stay in price-time order whatever is filled, withdrawn or added.
InPriceTimeOrder ==
    \A book \in {bids, asks} : \A i, j \in DOMAIN book : i < j => Ahead(book[i], book[j])

\* The orders of a side that a call took from, and those it took away.
Served(before, after) == {i \in DOMAIN before : ~ \E j \in DOMAIN after : after[j] = before[i]}

Gone(before, after) == {i \in DOMAIN before : At(after, before[i].id) = {}}

ServedInTurn(before, after) ==
    \A i \in Served(before, after) : 1 .. i - 1 \subseteq Gone(before, after)

\* Nobody jumps the queue: when a call takes from a resting order, every order that was
\* ahead of it on its side has been filled completely by that same call.
NobodyJumpsTheQueue ==
    [][result' \in {"Ok", "NoLiquidity"} =>
        ServedInTurn(bids, bids') /\ ServedInTurn(asks, asks')]_vars

\* What a list of orders or trades comes to at some of its positions.
Together(list, positions) == SumFunctionOnSet([i \in DOMAIN list |-> list[i].quantity], positions)

Resting(id) == Together(bids, At(bids, id)) + Together(asks, At(asks, id))

With(tape, id) == {i \in DOMAIN tape : id \in {tape[i].buy_order, tape[i].sell_order}}

Traded(id) == Together(trades, With(trades, id))

\* Every unit of an accepted order is in the book, on the tape, or was withdrawn.
EveryUnitIsAccountedFor ==
    \A id \in seen : asked[id].order.quantity = Resting(id) + Traded(id) + asked[id].withdrawn

\* As long as no market order was refused after it had been matched.
UnitsAccountedForUnlessRefused == ~ untaped => EveryUnitIsAccountedFor

\* No trade on the tape is worse for either side than the limit it gave.
LimitsAreRespected ==
    \A i \in DOMAIN trades :
        LET buy == asked[trades[i].buy_order].order.limit
            sell == asked[trades[i].sell_order].order.limit
        IN  (buy = None \/ trades[i].price <= buy) /\ (sell = None \/ sell <= trades[i].price)
==============================================================================
