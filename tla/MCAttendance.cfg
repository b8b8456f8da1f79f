SPECIFICATION MCSpec
CONSTANTS
    Scenes = {"punches", "race", "corrections"}
    Gone = Gone
    Unread = Unread
    Deciders = {c1, c2}
    Ids = {1, 2}
    Times = {b1, b2}
    Overlap = {TRUE, FALSE}
    eve = eve
    l1 = l1
    l2 = l2
    b1 = b1
    b2 = b2
    c1 = c1
    c2 = c2
    c3 = c3
    c4 = c4
    Null = Null
    Calls = {c1, c2, c3, c4}
    Employees = {eve}
    Logs = {l1, l2}
    Breaks = {b1, b2}
    Shift <- MorningShift
    Batches <- OfflineBatches
    MaxTime = 3
    TicksPerMinute = 1
    Grace = 0
    Slack = 0
    Cap = 2
    Ops = {"clock_in", "clock_out", "break_start", "break_end", "delete", "sync"}
    ByName = FALSE
    BackDated = FALSE
    Crashes = TRUE
    Exclusive = TRUE
SYMMETRY Symmetry
INVARIANTS
    Types
    LogsHoldUp
    PunchesInTurn
    CorrectionsHold
CHECK_DEADLOCK FALSE
