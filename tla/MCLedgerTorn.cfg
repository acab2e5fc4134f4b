CONSTANTS
    MaxUnits = 3
    ana = ana
    beto = beto
    mesa = mesa
    clp = clp
    usd = usd
    Accounts = {ana, beto, mesa}
    Currencies = {clp, usd}
    Ids = {t1, t2, t3}
    None = None
    EntryLists <- MCEntryLists

SPECIFICATION Spec

INVARIANT IsBalanced
