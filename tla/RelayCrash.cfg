\* Crashes and restarts: one handle, two handlers, leftovers of an earlier run.
SPECIFICATION Spec
CONSTANTS
    c1 = c1
    Handlers = {t1, t2}
    Handles = {h1}
    Tokens = {a}
    NoToken = noTok
    Cids = {c1}
    Deadlines = {3, 4}
    Ips = {ip1}
    Leases = {3}
    PopMaxes = {1}
    MaxPerHandle = 1
    MaxLease = 3
    MaxRegs = 1
    Horizon = 2
    PutRate = 0
    Legacy <- MCLegacy
    CanCrash = TRUE
    MaxTime = 3
SYMMETRY HandlerSymmetry
CHECK_DEADLOCK FALSE
INVARIANTS NoStrayFiles NoImmortal
PROPERTIES AtMostOncePerDeposit
