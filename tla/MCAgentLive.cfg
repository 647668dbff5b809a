\* One Agent, one lease, two workers: queued computer revocations converge.
CONSTANTS
    u1 = u1 u2 = u2 c1 = c1 c2 = c2 a1 = a1 a2 = a2 l1 = l1 l2 = l2 w1 = w1 w2 = w2
    None = None
    Users = {}
    Agents = {a1}
    Conns = {}
    Leases = {l1}
    Workers = {w1, w2}
    MaxReq = 0
    MaxLogin = 2
SPECIFICATION FairSpec
INVARIANT DisabledSessionIsStopped
PROPERTY ComputerRevocationConverges
CHECK_DEADLOCK FALSE
