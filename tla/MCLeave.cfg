SPECIFICATION MCSpec
CONSTANTS
    Scenes = {"books", "chain"}
    c1 = c1
    c2 = c2
    c3 = c3
    c4 = c4
    r1 = r1
    r2 = r2
    r3 = r3
    ana = ana
    ben = ben
    Calls = {c1, c2, c3, c4}
    Requests = {r1, r2, r3}
    Ledgers = {ana, ben}
    LedgerOf <- MCLedgerOf
    Days <- MCDays
    ChainLengths = {1, 2}
    Entitlements = {4}
    Crashes = FALSE
    Exclusive = TRUE
INVARIANTS
    TypeOK
    ChainDecides
PROPERTIES
    BooksImplementLedger
    BooksSettleInTurn
CHECK_DEADLOCK FALSE
