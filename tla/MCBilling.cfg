\* One checkout at a time, which may die; events lost, repeated and reordered.
SPECIFICATION FairSpec
CONSTANTS
    free = free
    i1 = i1
    c1 = c1
    c2 = c2
    Null = Null
    Calls = {c1, c2}
    Plans = {free}
    Assigned = {free}
    TrialPlan = free
    Invoices = {i1}
    Modes = {"redis", "inline"}
    Exempt = {TRUE, FALSE}
    Reached = {"unpaid", "paused", "paid", "uncollectible"}
    MaxVersion = 2
    Crashes = TRUE
    Exclusive = TRUE
INVARIANTS
    TypeOK
    InStep
    PayerOnFile
PROPERTIES
    TakenIsApplied
CHECK_DEADLOCK FALSE
