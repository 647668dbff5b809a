\* A retried request, and two refreshes racing.
CONSTANTS
    r1 = r1 r2 = r2 r3 = r3 w1 = w1 w2 = w2 m1 = m1 m2 = m2
    None = None
    Jobs = {1}
    Requests = {r1, r2}
    JobOf <- MCRetried
    Vmids = {1, 2}
    Watchers = {w1, w2}
    Loops = {}
    NeedsNetwork = {1}
    NeedsGpu = {1}
    PageSize = 1
    MaxFaults = 2
    MaxForeign = 1
SPECIFICATION Spec
SYMMETRY Symmetry
CHECK_DEADLOCK FALSE
INVARIANTS TypeOK CloneOnce
PROPERTIES SucceedsWhenConfigured SettledIsFinal
