SPECIFICATION Spec
CONSTANTS
    e1 = e1
    e2 = e2
    s1 = s1
    s2 = s2
    c1 = c1
    c2 = c2
    Null = Null
    Gone = Gone
    Keep = Keep
    Calls = {c1, c2}
    Employees = {e1, e2}
    Stores = {s1, s2}
    Day = 2
    Week = 4
    MaxWeek = 3
    Sizes <- Instances
SYMMETRY Same
INVARIANTS
    TypeOK
    ShiftsFit
    SuggestionsFillGaps
CHECK_DEADLOCK FALSE
