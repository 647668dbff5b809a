\* Two Agents taking turns.
CONSTANTS
    u1 = u1 u2 = u2 c1 = c1 c2 = c2 a1 = a1 a2 = a2 l1 = l1 l2 = l2 w1 = w1 w2 = w2
    None = None
    Users = {}
    Agents = {a1, a2}
    Conns = {}
    Leases = {l1, l2}
    Workers = {w1}
    MaxReq = 0
    MaxLogin = 1
SPECIFICATION Spec
SYMMETRY Symmetry
VIEW View
CHECK_DEADLOCK FALSE
INVARIANTS OneAgentLogin ClosedLeaseIsFenced
PROPERTY CleanupSparesNewerLease
