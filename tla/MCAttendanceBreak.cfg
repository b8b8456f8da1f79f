\* Two ticks to the minute, nothing dies.
SPECIFICATION MCSpec
CONSTANTS
    Scenes = {"punches"}
    Gone = Gone
    Unread = Unread
    Deciders = {c1, c2}
    Ids = {1, 2}
    Times = {b1, b2}
    Overlap = {TRUE, FALSE}
    eve = eve
    l1 = l1
    l2 = l2
    b1 = b1
    b2 = b2
    c1 = c1
    c2 = c2
    c3 = c3
    c4 = c4
    Null = Null
    Calls = {c1, c2, c3}
    Employees = {eve}
    Logs = {l1, l2}
    Breaks = {b1, b2}
    Shift <- MorningShift
    Batches <- OfflineBatches
    MaxTime = 3
    TicksPerMinute = 2
    Grace = 0
    Slack = 0
    Cap = 2
    Ops = {"clock_in", "clock_out", "break_start", "break_end"}
    ByName = FALSE
    BackDated = FALSE
    Crashes = FALSE
    Exclusive = TRUE
SYMMETRY Symmetry
PROPERTIES
    ClockOutEndsBreak
CHECK_DEADLOCK FALSE
