\* Two pushes of one body, nothing else.
SPECIFICATION Spec
CONSTANTS
    small = small
    Handlers = {t1, t2}
    Syncs = {}
    Bodies = {b1}
    Size <- MCSize
    MaxStore = 0
    Faults = FALSE
INVARIANTS NeverHalfWritten
