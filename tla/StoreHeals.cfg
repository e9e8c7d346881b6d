\* One body, three pushers and a sync client; nothing fails.
SPECIFICATION FairSpec
CONSTANTS
    small = small
    Handlers = {t1, t2, t3}
    Syncs = {s1}
    Bodies = {b1}
    Size <- MCSize
    MaxStore = 0
    Faults = FALSE
INVARIANTS TypeOK PartialHasWriter
PROPERTIES VisibleBecomesWhole
