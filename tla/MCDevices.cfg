\* Calls about sam overlap, those about eve come one at a time; any may die.  Calls on
\* the park's terminal overlap, those on the mall's come one at a time.
SPECIFICATION DevicesSpec
CONSTANTS
    eve = eve
    sam = sam
    r1 = r1
    r2 = r2
    c1 = c1
    c2 = c2
    c3 = c3
    c4 = c4
    c5 = c5
    t1 = t1
    t2 = t2
    mall = mall
    park = park
    Null = Null
    Calls = {c1, c2, c3, c4, c5}
    Employees = {eve, sam}
    Registrations = {r1, r2}
    Serialized = {eve}
    MaxBegun = 4
    Terminals = {t1, t2}
    Stores = {mall, park}
    Ttl = 1
    MaxTime = 2
    Ops = {"create", "authorize", "block", "deactivate", "reactivate", "delete", "getQr"}
    Ordered = {mall}
SYMMETRY Symmetry
INVARIANTS
    TypeOK
    OneActive
    TrailTells
    TerminalsHold
PROPERTIES
    RevokedStaysRevoked
CHECK_DEADLOCK FALSE
