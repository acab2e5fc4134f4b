------------------------------- MODULE Markets --------------------------------
(***************************************************************************)
(* The library of market cases, crates/sandbox-markets: the order book and *)
(* nine cases.  The code runs one case at a time and they share nothing;   *)
(* so does this module: `desk` says which one this behaviour is about.     *)
(***************************************************************************)
EXTENDS OrderBook

CONSTANTS
    ClearedTrades, OpeningCash, OpeningUnits,
    Holders, Qualified, Restricted, Backing, UnitValue, Lots,
    MinTarget, MaxTarget, PerInvestorCap, Amounts, MaxCommitments,
    Shareholders, OpeningPositions, RecordDay, PaymentDay, Events, PriceBefore,
    Consents, Foreign, Scopes, Validity, LastDay,
    Steps, Owed, AvailableCash, MaxSteps,
    Clients, House, Instruments, Units, Statements, MaxPositions, MaxPending,
    FirstSections, NewSections, Figures, Operations, MaxVersions,
    Venues, MaxVenues, RoutedQuantities

VARIABLES
    desk,
    cash, units, settled,
    balances, issued, frozen,
    commitments, rule, outcome,
    day, unitsByDay, applied, onRecord,
    today, consents, providerUp, answer, withdrawn,
    executed, exported, available,
    positions, pending, statement,
    versions, known,
    quotes, decision

\* Trades are told apart by their identifiers, and are between participants who
\* start with what they have.
ASSUME ClearingAssumption ==
    /\ IsFiniteSet(ClearedTrades)
    /\ \A t \in ClearedTrades:
        /\ t.buyer \in DOMAIN OpeningCash
        /\ t.seller \in DOMAIN OpeningCash
        /\ t.units \in Nat
        /\ t.cash \in Nat
    /\ \A t, u \in ClearedTrades: t.id = u.id => t = u
    /\ OpeningCash \in [DOMAIN OpeningCash -> Nat]
    /\ OpeningUnits \in [DOMAIN OpeningCash -> Nat]

ASSUME TokensAssumption ==
    /\ IsFiniteSet(Holders)
    /\ Backing \in Nat
    /\ UnitValue \in Int
    /\ Lots \subseteq Nat
    /\ Restricted \in BOOLEAN

ASSUME ConsentAssumption ==
    /\ Foreign \notin Consents
    /\ Validity \in Int
    /\ LastDay \in Nat

ASSUME ReportsAssumption ==
    /\ IsFiniteSet(DOMAIN FirstSections)
    /\ FirstSections \in [DOMAIN FirstSections -> Int]
    /\ Figures \subseteq Int

\* The steps are positions, and a client is owed nothing or more.
ASSUME ExitAssumption ==
    /\ Steps \subseteq Int
    /\ IsFiniteSet(DOMAIN Owed)
    /\ Owed \in [DOMAIN Owed -> Nat]
    /\ AvailableCash \subseteq Nat
    /\ MaxSteps \in Nat

ASSUME CustodyAssumption ==
    /\ House \notin Clients
    /\ Units \subseteq Int
    /\ \A s \in Statements: DOMAIN s \subseteq Instruments /\ s \in [DOMAIN s -> Int]
    /\ MaxPositions \in Nat
    /\ MaxPending \in Nat

\* What is held is counted, the record day ends before the payment, and an event is
\* of one of the two kinds.
ASSUME CorporateAssumption ==
    /\ IsFiniteSet(Shareholders)
    /\ OpeningPositions \in [Shareholders -> Nat]
    /\ RecordDay \in Nat /\ PaymentDay \in Nat /\ RecordDay < PaymentDay
    /\ PriceBefore \in Nat
    /\ \A e \in Events:
        e.kind \in {"split", "dividend"} /\ e.from \in Int /\ e.to \in Int /\ e.cash \in Int

\* Money that is committed is an amount, and a campaign has a ceiling.
ASSUME CampaignAssumption ==
    /\ Amounts \subseteq Nat
    /\ MinTarget \in Int /\ MaxTarget \in Nat /\ PerInvestorCap \in Int
    /\ MaxCommitments \in Nat

\* Venues quote amounts, and an order is for at least one unit.
ASSUME RoutesAssumption ==
    /\ \A v \in Venues:
        v.price \in Nat /\ v.fee \in Nat /\ v.size \in Nat /\ v.probability \in Nat /\ v.pays \in BOOLEAN
    /\ RoutedQuantities \subseteq Nat \ {0}
    /\ MaxVenues \in Nat

Clearing == INSTANCE Clearing
Tokens == INSTANCE Tokenization
Campaign == INSTANCE Crowdfunding
Corporate == INSTANCE CorporateActions
Permissions == INSTANCE Consent
Exit == INSTANCE WindDown
Custody == INSTANCE Custody
Reports == INSTANCE Reporting
Routes == INSTANCE Routing WITH Quantities <- RoutedQuantities

Desks == {"order_book", "clearing", "tokens", "campaign", "corporate", "consents", "exit",
          "custody", "reports", "routes"}

MarketsInit ==
    /\ desk \in Desks
    /\ Init
    /\ Clearing!Init
    /\ Tokens!Init
    /\ Campaign!Init
    /\ Corporate!Init
    /\ Permissions!Init
    /\ Exit!Init
    /\ Custody!Init
    /\ Reports!Init
    /\ Routes!Init

\* The cases that are not at work keep their state.
Others ==
    /\ IF desk = "order_book" THEN TRUE ELSE UNCHANGED <<bids, asks, trades, sequence, seen, result, asked, untaped>>
    /\ IF desk = "clearing" THEN TRUE ELSE UNCHANGED <<cash, units, settled>>
    /\ IF desk = "tokens" THEN TRUE ELSE UNCHANGED <<balances, issued, frozen>>
    /\ IF desk = "campaign" THEN TRUE ELSE UNCHANGED <<commitments, rule, outcome>>
    /\ IF desk = "corporate" THEN TRUE ELSE UNCHANGED <<day, unitsByDay, applied, onRecord>>
    /\ IF desk = "consents" THEN TRUE ELSE UNCHANGED <<today, consents, providerUp, answer, withdrawn>>
    /\ IF desk = "exit" THEN TRUE ELSE UNCHANGED <<executed, exported, available>>
    /\ IF desk = "custody" THEN TRUE ELSE UNCHANGED <<positions, pending, statement>>
    /\ IF desk = "reports" THEN TRUE ELSE UNCHANGED <<versions, known>>
    /\ IF desk = "routes" THEN TRUE ELSE UNCHANGED <<quotes, decision>>

MarketsNext ==
    /\ \/ desk = "order_book" /\ Next
       \/ desk = "clearing" /\ Clearing!Next
       \/ desk = "tokens" /\ Tokens!Next
       \/ desk = "campaign" /\ Campaign!Next
       \/ desk = "corporate" /\ Corporate!Next
       \/ desk = "consents" /\ Permissions!Next
       \/ desk = "exit" /\ Exit!Next
       \/ desk = "custody" /\ Custody!Next
       \/ desk = "reports" /\ Reports!Next
       \/ desk = "routes" /\ Routes!Next
    /\ Others
    /\ UNCHANGED desk

marketVars ==
    <<desk, bids, asks, trades, sequence, seen, result, asked, untaped, cash, units, settled,
      balances, issued, frozen, commitments, rule, outcome, day, unitsByDay, applied, onRecord,
      today, consents, providerUp, answer, withdrawn, executed, exported, available,
      positions, pending, statement, versions, known, quotes, decision>>

MarketsSpec == MarketsInit /\ [][MarketsNext]_marketVars

-----------------------------------------------------------------------------
AtWork(d, property) == desk = d => property

\* The state of the case at work keeps its types.
CasesTypeOK ==
    /\ AtWork("order_book", TypeOK)
    /\ AtWork("clearing", Clearing!TypeOK)
    /\ AtWork("tokens", Tokens!TypeOK)
    /\ AtWork("campaign", Campaign!TypeOK)
    /\ AtWork("corporate", Corporate!TypeOK)
    /\ AtWork("consents", Permissions!TypeOK)
    /\ AtWork("exit", Exit!TypeOK)
    /\ AtWork("custody", Custody!TypeOK)
    /\ AtWork("reports", Reports!TypeOK)
    /\ AtWork("routes", Routes!TypeOK)

\* No sequence of calls makes money or units out of nothing, or loses them: settling,
\* in any order and with retries, is what netting says and overdraws nobody; the units
\* in circulation are backed; a split makes nobody richer.
NothingFromNothing ==
    /\ AtWork("clearing", Clearing!BalancesAreNetted)
    /\ AtWork("clearing", Clearing!NobodyIsOverdrawn)
    /\ AtWork("tokens", Tokens!UnitsAreBacked)
    /\ AtWork("corporate", Corporate!SplitCreatesNoValue)

\* What has to be shared out is shared out whole and in proportion, or in order of
\* arrival where that is the published rule: campaigns and the closing of a platform.
SharesAreFair ==
    /\ AtWork("campaign", Campaign!EveryUnitIsPlacedOrReturned)
    /\ AtWork("exit", Exit!DistributionIsProportional)

\* What a case answers is what its books say, however they came to be: reconciled,
\* complete, unaltered in its sections (not in the rest of a report), entitled on the
\* record day, executed where it was best.
VerdictsAreRight ==
    /\ AtWork("custody", Custody!ReconciledMeansCovered)
    /\ AtWork("exit", Exit!CompleteMeansComplete)
    /\ AtWork("reports", Reports!SectionAlterationsShow)
    /\ AtWork("corporate", Corporate!RecordDayDecides)
    /\ AtWork("routes", Routes!ExecutionIsBest)

\* A revoked consent serves nothing again, and frozen or restricted units do not move
\* to where they may not be, whatever happened before.
RightsAreKept == Permissions!RevocationIsFinal /\ Tokens!TransfersRespectRestrictions
=============================================================================
