\* A crash between the persist and the enqueue of a re-published pointer.
SPECIFICATION Spec
CONSTANTS
    c1 = c1
    Handlers = {t1}
    Handles = {h1}
    Tokens = {a}
    NoToken = noTok
    Cids = {c1}
    Deadlines = {3}
    Ips = {ip1}
    Leases = {3}
    PopMaxes = {1}
    MaxPerHandle = 2
    MaxLease = 3
    MaxRegs = 1
    Horizon = 3
    PutRate = 0
    Legacy = {}
    CanCrash = TRUE
    MaxTime = 3
SYMMETRY HandlerSymmetry
CHECK_DEADLOCK FALSE
INVARIANTS OnePerPointer
