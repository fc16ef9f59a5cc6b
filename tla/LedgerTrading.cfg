\* Two accounts, three outcomes, three trades of one or two shares at 1 or 3 units.
SPECIFICATION LedgerSpec
CONSTANTS
    a1 = a1
    a2 = a2
    Accounts = {a1, a2}
    OutcomeCount = 3
    SeedPerOutcome = 1
    SeedCost = 2
    Amounts = {1, 3}
    MaxShares = 2
    MaxTrades = 3
    SqlNull = SqlNull
SYMMETRY AccountSymmetry
INVARIANTS HoldingsMirrored PotIsCollateral BasisAccountsForCash
CHECK_DEADLOCK FALSE
