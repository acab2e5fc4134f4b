------------------------------ MODULE WindDown ------------------------------
(***************************************************************************)
(* CM-13, crates/sandbox-markets/src/cases/wind_down.rs: the steps of an   *)
(* orderly exit, executed in some order, and what is shared out with the   *)
(* money there is.                                                         *)
(***************************************************************************)
EXTENDS Integers, SequencesExt

CONSTANTS
    Steps,          \* the positions of the steps in Step::ORDER that are executed
    Owed,           \* client -> what it is owed, one such function
    AvailableCash,  \* the amounts there may be
    MaxSteps        \* bound on the steps executed

VARIABLES
    executed,     \* the steps, in the order they were executed
    exported,     \* export_histories
    available

exitVars == <<executed, exported, available>>

Init ==
    /\ executed = <<>>
    /\ exported = FALSE
    /\ available = 0

Execute(s) ==
    /\ Len(executed) < MaxSteps
    /\ executed' = Append(executed, s)
    /\ UNCHANGED <<exported, available>>

Export ==
    /\ ~exported
    /\ exported' = TRUE
    /\ UNCHANGED <<executed, available>>

\* External: what liquidating gave.
Recover(amount) ==
    /\ available = 0
    /\ available' = amount
    /\ UNCHANGED <<executed, exported>>

Finished == Len(executed) = MaxSteps /\ UNCHANGED exitVars

Next == (\E s \in Steps: Execute(s)) \/ Export \/ (\E a \in AvailableCash: Recover(a)) \/ Finished

Spec == Init /\ [][Next]_exitVars

-----------------------------------------------------------------------------
(* wind_down, the report over what was executed *)

OutOfOrder(steps) ==
    {p \in (DOMAIN steps) \X (DOMAIN steps): p[1] < p[2] /\ steps[p[2]] < steps[p[1]]}

TotalOwed(owed) == SumFunction(owed)

Falls(owed, cash) == cash < TotalOwed(owed)

\* A proportional part to each, rounded down, when there is not enough.
Part(owed, c, cash) ==
    IF Falls(owed, cash) /\ TotalOwed(owed) > 0 THEN (owed[c] * cash) \div TotalOwed(owed)
    ELSE IF Falls(owed, cash) THEN 0
    ELSE owed[c]

Distributed(owed, cash) == SumFunction([c \in DOMAIN owed |-> Part(owed, c, cash)])

Pending(owed, cash) == IF Falls(owed, cash) THEN DOMAIN owed ELSE {}

Findings(steps, owed, cash, histories) ==
    {k \in {"out-of-order", "shortfall", "histories-not-exported", "clients-pending"}:
        \/ k = "out-of-order" /\ OutOfOrder(steps) # {}
        \/ k = "shortfall" /\ Falls(owed, cash)
        \/ k = "histories-not-exported" /\ ~histories
        \/ k = "clients-pending" /\ Pending(owed, cash) # {}}

Complete(steps, owed, cash, histories) ==
    Pending(owed, cash) = {} /\ Findings(steps, owed, cash, histories) = {}

-----------------------------------------------------------------------------
TypeOK ==
    /\ executed \in Seq(Steps)
    /\ exported \in BOOLEAN
    /\ available \in AvailableCash \cup {0}

\* A closing that is called complete has executed no step before one that precedes it,
\* has handed over the histories and owes nobody anything.
CompleteMeansComplete ==
    Complete(executed, Owed, available, exported) =>
        /\ \A i \in 1..(Len(executed) - 1): executed[i] <= executed[i + 1]
        /\ exported
        /\ Distributed(Owed, available) = TotalOwed(Owed)

\* Never more is handed out than there is or than is owed; when it is not enough, less
\* than one unit per client stays behind, and no client gets more per unit owed than
\* another but for that rounding.
DistributionIsProportional ==
    LET given == Distributed(Owed, available)
        part == [c \in DOMAIN Owed |-> Part(Owed, c, available)]
    IN  /\ given <= available
        /\ given <= TotalOwed(Owed)
        /\ Falls(Owed, available) =>
            /\ available - given < Cardinality(DOMAIN Owed)
            /\ \A c, d \in DOMAIN Owed: part[c] * Owed[d] <= (part[d] + 1) * Owed[c]

-----------------------------------------------------------------------------
(* The checks of the case's own report, in millions. *)
ClientBalances == [cli1 |-> 1, cli2 |-> 3]

Scenarios ==
    LET order == [i \in 1..10 |-> i]
    IN  /\ Complete(order, ClientBalances, 4, TRUE)
        /\ Findings(<<3, 2, 1>>, ClientBalances, 4, TRUE) = {"out-of-order"}
        /\ Distributed([cli1 |-> 10, cli2 |-> 30], 20) = 20
        /\ "shortfall" \in Findings(order, ClientBalances, 2, TRUE)
        /\ ~Complete(order, ClientBalances, 2, TRUE)
        /\ Findings(order, ClientBalances, 4, FALSE) = {"histories-not-exported"}
        /\ Distributed([cli1 |-> 100, cli2 |-> 300], 300) = 300

=============================================================================
