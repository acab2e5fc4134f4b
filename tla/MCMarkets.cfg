CONSTANTS
    Ids = {o1, o2, o3}
    MaxPrice = 3
    MaxOrders = 3
    None = None
    Prices <- MCPrices
    Quantities <- MCQuantities
    ClearedTrades <- MCClearedTrades
    OpeningCash <- MCOpeningCash
    OpeningUnits <- MCOpeningUnits
    Holders <- MCHolders
    Qualified <- MCQualified
    Lots <- MCLots
    Amounts <- MCAmounts
    Shareholders <- MCShareholders
    OpeningPositions <- MCOpeningPositions
    Events <- MCEvents
    Consents <- MCConsents
    Scopes <- MCScopes
    Steps <- MCSteps
    Owed <- MCOwed
    AvailableCash <- MCAvailableCash
    Clients <- MCClients
    Instruments <- MCInstruments
    Units <- MCUnits
    Statements <- MCStatements
    FirstSections <- MCFirstSections
    NewSections <- MCNewSections
    Figures <- MCFigures
    Operations <- MCOperations
    Venues <- MCVenues
    RoutedQuantities <- MCRoutedQuantities
    Restricted = TRUE
    Backing = 11
    UnitValue = 3
    MinTarget = 10
    MaxTarget = 50
    PerInvestorCap = 20
    MaxCommitments = 3
    RecordDay = 1
    PaymentDay = 3
    PriceBefore = 10
    Foreign = "unknown"
    Validity = 2
    LastDay = 3
    MaxSteps = 4
    House = "house"
    MaxPositions = 2
    MaxPending = 1
    MaxVersions = 3
    MaxVenues = 2

SPECIFICATION MarketsSpec

SYMMETRY IdSymmetry

INVARIANTS
    CasesTypeOK
    NeverCrossed
    InPriceTimeOrder
    UnitsAccountedForUnlessRefused
    LimitsAreRespected
    NothingFromNothing
    SharesAreFair
    VerdictsAreRight

PROPERTIES
    NobodyJumpsTheQueue
    RightsAreKept
