\* A node that stays up: two handlers, two handles that compete for one place in the
\* registry, queues of cap 2, entries that expire.
SPECIFICATION Spec
CONSTANTS
    c1 = c1
    Handlers = {t1, t2}
    Handles = {h1, h2}
    Tokens = {a}
    NoToken = noTok
    Cids = {c1, c2, c3}
    Deadlines = {2, 4}
    Ips = {ip1}
    Leases = {5}
    PopMaxes = {1}
    MaxPerHandle = 2
    MaxLease = 1
    MaxRegs = 1
    Horizon = 3
    PutRate = 2
    Legacy = {}
    CanCrash = FALSE
    MaxTime = 2
SYMMETRY QueueSymmetry
CHECK_DEADLOCK FALSE
INVARIANTS TypeOK RegistryBounded OnePerPointer
PROPERTIES OnlyHolderRenews NewWithinCap NoOvertaking NoLiveLoss DrainFills
