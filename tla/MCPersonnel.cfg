\* One call after the other, any of which may die.
SPECIFICATION PersonnelSpec
CONSTANTS
    d1 = d1
    d2 = d2
    e1 = e1
    e2 = e2
    s1 = s1
    c1 = c1
    c2 = c2
    t1 = t1
    t2 = t2
    t3 = t3
    ana = ana
    north = north
    south = south
    west = west
    l1 = l1
    l2 = l2
    l3 = l3
    Null = Null
    Calls = {c1, c2}
    Docs = {d1, d2}
    Entries = {e1, e2}
    Signatures = {s1}
    Dues = {1}
    Window = 1
    Keep = 1
    MaxDay = 1
    ListLimits = {1, 2}
    FromList = TRUE
    Mortal = {"delete", "restore", "purge", "purgeTrash", "scan", "request", "sign"}
    Exclusive = TRUE
    Employees = {ana}
    Stores = {north, south, west}
    Transfers = {t1, t2, t3}
    Links = {l1, l2, l3}
    Asked <- MCAsked
    Home <- MCHome
    ByHand <- MCByHand
    Postings <- MCPostings
    LastDay = 2
    Crashes = TRUE
SYMMETRY Symmetry
INVARIANTS
    Types
    GuestsExplained
    NothingLost
PROPERTIES
    SweepsCatchUp
    PurgesTrashOnly
CHECK_DEADLOCK FALSE
