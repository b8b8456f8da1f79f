SPECIFICATION MCSpec
CONSTANTS
    Null = Null
    Gone = Gone
    Calls = {c1, c2}
    Overlap = {TRUE, FALSE}
    Employees = {e1, e2, e3}
    People = {boss, p1, p2}
    Founder = boss
    Askers = {"hr"}
    Wanted = {"hr", "employee"}
    Instances <- MCInstances
    Accounts = {k1, k2}
    Ends = {d1, d2}
    Jobs = {e1, e2, e3}
    Candidates = {k1, k2}
    HR = {p1, p2}
    Parses = {d1, d2}
    Titles <- MCTitles
    MaxNumber = 4
    Newcomers = {p1, p2}
    Groups = {g1, g2}
    Tasks = {k1, k2}
    MaxCopies = 3
    TaskLimits = {1, 2}
    Doing = {"assign", "drop"}
    c1 = c1
    c2 = c2
    e1 = e1
    e2 = e2
    e3 = e3
    boss = boss
    k1 = k1
    k2 = k2
    p1 = p1
    p2 = p2
    g1 = g1
    g2 = g2
    d1 = d1
    d2 = d2
SYMMETRY Same
INVARIANTS
    StaffTypes
    WithinCaps
    RequestsDecide
    HiringHolds
    ChecklistsHold
    RecordsHold
PROPERTIES
    KeptInTurn
CHECK_DEADLOCK FALSE
