\* Two companies, a person of either, both or none; two changes at any moment.
SPECIFICATION TenancySpec
CONSTANTS
    a = a
    b = b
    None = None
    Null = Null
    Gone = Gone
    c1 = c1
    c2 = c2
    p1 = p1
    p2 = p2
    k1 = k1
    k2 = k2
    g1 = g1
    Companies = {a, b}
    Asked <- MCAsked
    Hired <- MCHired
    Roles = {"owner", "store_manager"}
    Subs <- MCSubs
    Touched = {"store.finances"}
    Statuses = {"suspended"}
    MaxChanges = 2
    Calls = {c1, c2}
    People = {p1, p2}
    Tenants = {k1, k2}
    Groups = {g1}
    MaxSlug = 2
    Operated = {"active"}
    Overlap = {TRUE, FALSE}
    Crashes = TRUE
SYMMETRY Same
INVARIANTS
    Types
    GuardsHold
    PlansDecide
    TenantsStand
CHECK_DEADLOCK FALSE
