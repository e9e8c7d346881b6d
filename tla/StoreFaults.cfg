\* Three bodies under a quota, two pushers, writes that fail and crashes.
SPECIFICATION Spec
CONSTANTS
    small = small
    Handlers = {t1, t2}
    Syncs = {}
    Bodies = {b1, b2, small}
    Size <- MCSize
    MaxStore = 2
    Faults = TRUE
SYMMETRY HandlerSymmetry
INVARIANTS HalfWrittenOnlyByRace QuotaOvershoot
