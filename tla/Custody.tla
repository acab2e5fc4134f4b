------------------------------- MODULE Custody -------------------------------
(***************************************************************************)
(* crates/sandbox-markets/src/custody.rs and scenario.rs: a custodian's    *)
(* book of positions and movements in transit, reconciled with what the    *)
(* external custodian states.                                              *)
(***************************************************************************)
EXTENDS Integers, SequencesExt

CONSTANTS
    Clients, House,
    Instruments,
    Units,          \* the numbers of units in a position or a movement
    Statements,     \* what the custodian may state: instrument -> units, not for all of them
    MaxPositions, MaxPending   \* bounds on the book

VARIABLES
    positions,   \* CustodyBook.positions
    pending,     \* CustodyBook.pending, with or without a reason
    statement    \* the custodian's statement, from outside

custodyVars == <<positions, pending, statement>>

Init ==
    /\ positions = <<>>
    /\ pending = <<>>
    /\ statement = [i \in Instruments |-> 0]

Record(owner, instrument, units) ==
    /\ Len(positions) < MaxPositions
    /\ positions' = Append(positions, [owner |-> owner, instrument |-> instrument, units |-> units])
    /\ UNCHANGED <<pending, statement>>

ExpectPending(instrument, units, reason) ==
    /\ Len(pending) < MaxPending
    /\ pending' = Append(pending, [instrument |-> instrument, units |-> units, reason |-> reason])
    /\ UNCHANGED <<positions, statement>>

\* External: another statement arrives.
States(s) == statement' = s /\ UNCHANGED <<positions, pending>>

Next ==
    \/ \E o \in Clients \cup {House}, i \in Instruments, u \in Units: Record(o, i, u)
    \/ \E i \in Instruments, u \in Units, r \in BOOLEAN: ExpectPending(i, u, r)
    \/ \E s \in Statements: States(s)

Spec == Init /\ [][Next]_custodyVars

-----------------------------------------------------------------------------
(* reconcile *)

IsClients(p) == p.owner # House
HasReason(m) == m.reason

\* The units of an instrument in the counted entries of a list.
TotalOf(list, counted, instrument) ==
    SumFunctionOnSet([k \in DOMAIN list |-> list[k].units],
                     {k \in counted: list[k].instrument = instrument})

Registered(list, i) == TotalOf(list, {k \in DOMAIN list: IsClients(list[k])}, i)
Explained(list, i) == TotalOf(list, {k \in DOMAIN list: HasReason(list[k])}, i)

Stated(stated, i) == IF i \in DOMAIN stated THEN stated[i] ELSE 0

Difference(book, transit, stated, i) ==
    Registered(book, i) - (Stated(stated, i) + Explained(transit, i))

\* Mutant: the instruments in transit and those of the statement are looked at.
AppearingOutside(book, transit, stated) ==
    {m.instrument: m \in {x \in ToSet(transit): HasReason(x)}}
        \cup {i \in DOMAIN stated: stated[i] > 0}

\* Every instrument that appears anywhere is looked at.
Appearing(book, transit, stated) ==
    {p.instrument: p \in {x \in ToSet(book): IsClients(x)}}
        \cup {m.instrument: m \in {x \in ToSet(transit): HasReason(x)}}
        \cup DOMAIN stated

Reconcile(book, transit, stated) ==
    {<<"negative-client-position", p.instrument>>:
        p \in {x \in ToSet(book): IsClients(x) /\ x.units < 0}}
    \cup {<<"unexplained-pending", m.instrument>>: m \in {x \in ToSet(transit): ~HasReason(x)}}
    \cup {<<"shortfall", i>>: i \in {x \in Appearing(book, transit, stated):
                                       Difference(book, transit, stated, x) > 0}}
    \cup {<<"surplus", i>>: i \in {x \in Appearing(book, transit, stated):
                                     Difference(book, transit, stated, x) < 0}}

\* Scenario.compare: what a scenario declares against what came out.
AsExpected(expected, findings) ==
    /\ expected.reconciled = (findings = {})
    /\ expected.findings = {f[1]: f \in findings}

-----------------------------------------------------------------------------
TypeOK ==
    /\ Len(positions) <= MaxPositions
    /\ \A p \in ToSet(positions): p.owner \in Clients \cup {House}
    /\ Len(pending) <= MaxPending

ClientUnits(i) ==
    SumFunction([k \in DOMAIN positions |->
                    IF positions[k].owner \in Clients /\ positions[k].instrument = i
                    THEN positions[k].units ELSE 0])

InTransit(i) ==
    SumFunction([k \in DOMAIN pending |->
                    IF pending[k].instrument = i /\ pending[k].reason THEN pending[k].units ELSE 0])

\* The book is called reconciled only if, for each instrument by itself, what clients
\* have on the book is what is in custody or in transit with a reason: what is missing
\* of one is not covered by another, nor by what the house has, nor is a debt of one
\* client covered by what another has.
ReconciledMeansCovered ==
    Reconcile(positions, pending, statement) = {} =>
        /\ \A i \in Instruments: ClientUnits(i) = Stated(statement, i) + InTransit(i)
        /\ \A k \in DOMAIN positions: positions[k].owner \in Clients => positions[k].units >= 0
        /\ \A k \in DOMAIN pending: pending[k].reason

-----------------------------------------------------------------------------
(* The scenarios of domains/capital-markets/cases/03-asset-custody, in tens of units. *)
Run(s) == AsExpected(s.expected, Reconcile(s.positions, s.pending, s.statement))

Of(owner, units) == [owner |-> owner, instrument |-> "LAN", units |-> units]
Transit(reason) == <<[instrument |-> "LAN", units |-> 20, reason |-> reason]>>
Expected(kinds) == [reconciled |-> kinds = {}, findings |-> kinds]
Scenario(book, transit, stated, kinds) ==
    [positions |-> book, pending |-> transit, statement |-> stated, expected |-> Expected(kinds)]

Scenarios ==
    LET two == <<Of("ana", 30), Of("beto", 20)>>
        Lan(n) == [LAN |-> n]
    IN  /\ Run(Scenario(Append(two, Of(House, 100)), <<>>, Lan(50), {}))
        /\ Run(Scenario(two, Transit(TRUE), Lan(30), {}))
        /\ Run(Scenario(Append(two, Of(House, 100)), <<>>, Lan(30), {"shortfall"}))
        /\ Run(Scenario(<<Of("ana", 50)>>, Transit(FALSE), Lan(30), {"unexplained-pending", "shortfall"}))
        /\ Run(Scenario(<<Of("ana", 50)>>, <<>>, [LAN |-> 50, SQM |-> 8], {"surplus"}))
        /\ Run(Scenario(<<Of("ana", 50), Of("beto", -5)>>, <<>>, Lan(45), {"negative-client-position"}))
=============================================================================
