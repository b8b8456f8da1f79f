\* Two visits of one employee to one store, one call after the other.
SPECIFICATION Spec
CONSTANTS
    t1 = t1
    t2 = t2
    ana = ana
    north = north
    south = south
    l1 = l1
    l2 = l2
    c1 = c1
    Null = Null
    Employees = {ana}
    Home <- MCHome
    MaxDay = 2
    Calls = {c1}
    Transfers = {t1, t2}
    Stores = {north, south}
    Links = {l1, l2}
    Asked <- SharedAsked
    ByHand <- NoneByHand
    Postings <- NoneByHand
    Crashes = FALSE
    Exclusive = TRUE
INVARIANTS
    ActiveHasLink
CHECK_DEADLOCK FALSE
