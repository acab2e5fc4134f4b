------------------------------- MODULE Routing -------------------------------
(***************************************************************************)
(* CM-04, crates/sandbox-markets/src/cases/routing.rs: where an order is   *)
(* executed among the venues that are quoted at that moment.               *)
(***************************************************************************)
EXTENDS Integers, SequencesExt, FiniteSetsExt

CONSTANTS
    Venues,       \* what may be quoted: [price, fee, size, probability, pays]
    MaxVenues,    \* bound on the list
    Quantities

VARIABLES
    quotes,     \* the venues, in the order they are given
    decision    \* the slices of the last order and its quantity, or NoDecision

routingVars == <<quotes, decision>>

NoDecision == [quantity |-> 0, fragmented |-> FALSE, slices |-> <<>>, conflicts |-> {}]

Init == quotes = <<>> /\ decision = NoDecision

\* External: another venue quotes.
Quote(v) ==
    /\ Len(quotes) < MaxVenues
    /\ quotes' = Append(quotes, v)
    /\ decision' = NoDecision

-----------------------------------------------------------------------------
(* route *)

Clamped(probability) == IF probability < 1 THEN 1 ELSE IF probability > 100 THEN 100 ELSE probability

\* What is not executed has to be executed elsewhere: the cost grows with the risk.
EffectiveCost(v, quantity) == ((v.price * quantity + v.fee) * 100) \div Clamped(v.probability)

Covers(v, quantity) == v.size >= quantity

\* The sorts of the code are stable: equal costs keep the order of the list.
Before(list, i, j, quantity) ==
    LET ci == EffectiveCost(list[i], quantity)
        cj == EffectiveCost(list[j], quantity)
    IN  ci < cj \/ (ci = cj /\ i < j)

Slice(list, i, taken) ==
    [venue |-> i, quantity |-> taken, cost |-> list[i].price * taken + list[i].fee]

Best(list, quantity) ==
    CHOOSE i \in DOMAIN list:
        /\ Covers(list[i], quantity)
        /\ \A j \in DOMAIN list \ {i}: Covers(list[j], quantity) => Before(list, i, j, quantity)

\* The venues from the cheapest unit on.
ByUnitCost(list) ==
    CHOOSE order \in [DOMAIN list -> DOMAIN list]:
        \A i, j \in DOMAIN list: i < j => Before(list, order[i], order[j], 1)

Quantity(slices) == SumFunction([k \in DOMAIN slices |-> slices[k].quantity])

\* A venue gives what it shows, or what is missing.
Take(list, quantity, slices, i) ==
    LET taken == Min({list[i].size, quantity - Quantity(slices)})
    IN  IF taken <= 0 THEN slices ELSE Append(slices, Slice(list, i, taken))

\* What the first k of them are sent.
Fragments(list, quantity) ==
    LET order == ByUnitCost(list)
        sent[k \in 0..Len(list)] ==
            IF k = 0 THEN <<>> ELSE Take(list, quantity, sent[k - 1], order[k])
    IN  sent[Len(list)]

\* One venue when one covers the order; who pays for the flow is said in any case.
Decision(list, quantity) ==
    LET whole == \E i \in DOMAIN list: Covers(list[i], quantity)
    IN  [quantity |-> quantity,
         fragmented |-> ~whole,
         slices |-> IF whole THEN <<Slice(list, Best(list, quantity), quantity)>>
                    ELSE Fragments(list, quantity),
         conflicts |-> {i \in DOMAIN list: list[i].pays}]

Route(quantity) ==
    /\ decision' = Decision(quotes, quantity)
    /\ UNCHANGED quotes

Next ==
    \/ \E v \in Venues: Quote(v)
    \/ \E q \in Quantities: Route(q)

Spec == Init /\ [][Next]_routingVars

-----------------------------------------------------------------------------
TypeOK ==
    /\ quotes \in Seq(Venues)
    /\ \A k \in DOMAIN decision.slices: decision.slices[k].venue \in DOMAIN quotes

\* An order is executed for all its units or for all there are, no venue gives more
\* than it shows or is used twice, and a venue is used only when those that are cheaper
\* for the customer are exhausted (for the whole order: unable to cover it).
ExecutionIsBest ==
    LET slices == decision.slices
        Sent(k) == slices[k].quantity
        Shown(i) == quotes[i].size
        shown == SumFunction([i \in DOMAIN quotes |-> Shown(i)])
        used == {slices[k].venue: k \in DOMAIN slices}
        size == IF decision.fragmented THEN 1 ELSE decision.quantity
    IN  decision # NoDecision =>
        /\ Quantity(slices) = Min({decision.quantity, shown})
        /\ Cardinality(used) = Len(slices)
        /\ \A k \in DOMAIN slices: 0 < Sent(k) /\ Sent(k) <= Shown(slices[k].venue)
        /\ \A k \in DOMAIN slices, i \in DOMAIN quotes:
            EffectiveCost(quotes[i], size) < EffectiveCost(quotes[slices[k].venue], size) =>
                IF decision.fragmented
                THEN Shown(i) = 0 \/ \E m \in DOMAIN slices: slices[m].venue = i /\ Sent(m) = Shown(i)
                ELSE Shown(i) < decision.quantity

-----------------------------------------------------------------------------
(* The checks of the case's own report, in thousands; all but one venue show 20. *)
Scenarios ==
    LET V(price, fee, size, probability) ==
            [price |-> price, fee |-> fee, size |-> size, probability |-> probability, pays |-> FALSE]
        First(list) == Decision(list, 10).slices[1].venue
        split == Decision(<<V(9900, 0, 4, 95), V(10000, 0, 6, 95)>>, 10)
        paid == Decision(<<[V(9900, 0, 20, 99) EXCEPT !.pays = TRUE], V(10000, 0, 20, 99)>>, 10)
    IN  /\ First(<<V(10000, 5000, 20, 90), V(10050, 0, 20, 99)>>) = 2
        /\ First(<<V(9900, 0, 2, 95), V(10000, 0, 20, 95)>>) = 2
        /\ ~Decision(<<V(9900, 0, 2, 95), V(10000, 0, 20, 95)>>, 10).fragmented
        /\ split.fragmented /\ split.slices[1].quantity + split.slices[2].quantity = 10
        /\ First(<<V(9800, 0, 20, 30), V(10000, 0, 20, 99)>>) = 2
        /\ paid.slices[1].venue = 1 /\ paid.conflicts = {1}
=============================================================================
