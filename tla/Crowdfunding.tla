---------------------------- MODULE Crowdfunding ----------------------------
(***************************************************************************)
(* CM-01, crates/sandbox-markets/src/cases/crowdfunding.rs: a campaign     *)
(* takes commitments while it is open; `close` refunds or shares out.      *)
(***************************************************************************)
EXTENDS Integers, Sequences, FiniteSets, Functions

CONSTANTS
    MinTarget, MaxTarget, PerInvestorCap,
    Amounts,          \* what may be committed
    MaxCommitments    \* bound on the list

VARIABLES
    commitments,   \* the list as it came: [amount, foreign, sequence]
    rule,          \* allocation_rule
    outcome        \* what close answered, or Open

campaignVars == <<commitments, rule, outcome>>

Open == [settlement |-> "open", raised |-> 0, accepted |-> <<>>, allocated |-> <<>>]

Init ==
    /\ commitments = <<>>
    /\ rule = "pro-rata"
    /\ outcome = Open

\* The rule is published before the campaign opens.
Publish(r) ==
    /\ commitments = <<>>
    /\ outcome = Open
    /\ rule' = r
    /\ UNCHANGED <<commitments, outcome>>

\* Sequence numbers say who came first; the list may hold them in any order.
Commit ==
    /\ outcome = Open
    /\ Len(commitments) < MaxCommitments
    /\ \E a \in Amounts, f \in BOOLEAN, n \in 1..MaxCommitments:
        /\ \A i \in DOMAIN commitments: commitments[i].sequence # n
        /\ commitments' = Append(commitments, [amount |-> a, foreign |-> f, sequence |-> n])
    /\ UNCHANGED <<rule, outcome>>

-----------------------------------------------------------------------------
(* close *)

Sum(s) == SumFunction(s)
Least(a, b) == IF a < b THEN a ELSE b

Earlier(a, b) == a.sequence < b.sequence
Fits(c) == ~c.foreign /\ c.amount <= PerInvestorCap

\* Mutant: the list is served as it came.
AcceptedAsListed(list) == SelectSeq(list, Fits)

\* In order of arrival, without those in another currency or above the cap.
Accepted(list) ==
    LET fitting == {c \in Range(list): Fits(c)}
    IN  CHOOSE kept \in [1..Cardinality(fitting) -> fitting]:
            \A i, j \in DOMAIN kept: i < j => Earlier(kept[i], kept[j])

\* Each takes what those before it have left.
FirstCome(amounts) ==
    [i \in DOMAIN amounts |->
        LET before == SumFunctionOnSet(amounts, 1..(i - 1))
        IN  IF before >= MaxTarget THEN 0 ELSE Least(amounts[i], MaxTarget - before)]

\* The proportional share, rounded down, and the rest of the division one by one to
\* the first that still have something to be refunded.
Share(amounts, i) == (amounts[i] * MaxTarget) \div Sum(amounts)

ProRata(amounts) ==
    LET share == [i \in DOMAIN amounts |-> Share(amounts, i)]
        leftover == MaxTarget - Sum(share)
        short == {i \in DOMAIN amounts: share[i] < amounts[i]}
    IN  [i \in DOMAIN amounts |->
            IF i \in short /\ Cardinality({j \in short: j < i}) < leftover
            THEN share[i] + 1 ELSE share[i]]

Allocated(amounts, by) ==
    IF Sum(amounts) <= MaxTarget THEN amounts
    ELSE IF by = "pro-rata" THEN ProRata(amounts) ELSE FirstCome(amounts)

Outcome(list, by) ==
    LET kept == Accepted(list)
        amounts == [i \in DOMAIN kept |-> kept[i].amount]
        funded == Sum(amounts) >= MinTarget
    IN  [settlement |-> IF funded THEN "funded" ELSE "refunded",
         raised |-> Sum(amounts),
         accepted |-> kept,
         allocated |-> IF funded THEN Allocated(amounts, by) ELSE [i \in DOMAIN amounts |-> 0]]

Close ==
    /\ outcome = Open
    /\ outcome' = Outcome(commitments, rule)
    /\ UNCHANGED <<commitments, rule>>

Done == outcome # Open /\ UNCHANGED campaignVars

Next ==
    \/ \E r \in {"pro-rata", "first-come-first-served"}: Publish(r)
    \/ Commit
    \/ Close
    \/ Done

Spec == Init /\ [][Next]_campaignVars

-----------------------------------------------------------------------------
TypeOK ==
    /\ commitments \in Seq([amount: Nat, foreign: BOOLEAN, sequence: 1..MaxCommitments])
    /\ outcome.settlement \in {"open", "funded", "refunded"}
    /\ outcome.allocated \in Seq(Int)

\* A closed campaign places exactly what was raised or its ceiling, and nobody gives
\* more than was committed: what is not placed goes back.  By order of arrival, an
\* investor left short leaves nothing for whoever came later; pro rata, each is within
\* one unit of the exact share, the rest of the division included.
EveryUnitIsPlacedOrReturned ==
    LET given == outcome.allocated
        asked(i) == outcome.accepted[i].amount
        came(i) == outcome.accepted[i].sequence
        placed == Least(outcome.raised, MaxTarget)
    IN  /\ \A i \in DOMAIN given: 0 <= given[i] /\ given[i] <= asked(i)
        /\ outcome.settlement = "funded" =>
            /\ Sum(given) = placed
            /\ rule = "first-come-first-served" =>
                \A i, j \in DOMAIN given: came(i) < came(j) /\ given[i] < asked(i) => given[j] = 0
            /\ rule = "pro-rata" =>
                \A i \in DOMAIN given:
                    /\ (given[i] - 1) * outcome.raised <= asked(i) * placed
                    /\ (given[i] + 1) * outcome.raised >= asked(i) * placed
        /\ outcome.settlement = "refunded" => Sum(given) = 0 /\ outcome.raised < MinTarget

-----------------------------------------------------------------------------
(* The checks of the case's own report, in millions, for its own campaign. *)
InOrder(amounts) ==
    [i \in DOMAIN amounts |-> [amount |-> amounts[i], foreign |-> FALSE, sequence |-> i]]

Scenarios ==
    MinTarget = 10 /\ MaxTarget = 50 /\ PerInvestorCap = 20 =>
        /\ LET low == Outcome(InOrder(<<3, 4>>), "pro-rata")
           IN  low.settlement = "refunded" /\ low.raised = 7 /\ Sum(low.allocated) = 0
        /\ Sum(Outcome(InOrder(<<20, 20, 20>>), "pro-rata").allocated) = 50
        /\ Outcome(InOrder(<<20, 20, 20>>), "first-come-first-served").allocated[3] = 10
        /\ Len(Outcome(InOrder(<<30, 5, 6>>), "pro-rata").accepted) = 2
        /\ Outcome(InOrder(<<7, 11, 13>>), "pro-rata").allocated = <<7, 11, 13>>
=============================================================================
