\* Two clones, a watcher and the maintenance loop.
CONSTANTS
    r1 = r1 r2 = r2 r3 = r3 w1 = w1 w2 = w2 m1 = m1 m2 = m2
    None = None
    Jobs = {1, 2}
    Requests = {r1, r3}
    JobOf <- MCRetried
    Vmids = {1, 2}
    Watchers = {w1}
    Loops = {m1}
    NeedsNetwork = {}
    NeedsGpu = {2}
    PageSize = 1
    MaxFaults = 0
    MaxForeign = 0
SPECIFICATION FairSpec
CHECK_DEADLOCK FALSE
INVARIANT FollowsOwnTask
PROPERTY PendingJobsSettle
