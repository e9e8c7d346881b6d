\* One content put with two deadlines.
SPECIFICATION Spec
CONSTANTS
    c1 = c1
    Handlers = {t1, t2}
    Handles = {h1}
    Tokens = {a}
    NoToken = noTok
    Cids = {c1}
    Deadlines = {2, 3}
    Ips = {ip1}
    Leases = {3}
    PopMaxes = {1}
    MaxPerHandle = 2
    MaxLease = 3
    MaxRegs = 1
    Horizon = 3
    PutRate = 0
    Legacy = {}
    CanCrash = FALSE
    MaxTime = 1
SYMMETRY HandlerSymmetry
CHECK_DEADLOCK FALSE
INVARIANTS OnePerCid
