\* One person, one connection, access withdrawn twice.
CONSTANTS
    u1 = u1 u2 = u2 c1 = c1 c2 = c2 a1 = a1 a2 = a2 l1 = l1 l2 = l2 w1 = w1 w2 = w2
    None = None
    Users = {u1}
    Agents = {}
    Conns = {c1}
    Leases = {}
    Workers = {}
    MaxReq = 2
    MaxLogin = 1
SPECIFICATION FairSpec
CHECK_DEADLOCK FALSE
INVARIANTS RevokedMeansClosed LostAccessIsPursued
PROPERTIES AcknowledgedWhenClosed IdentityRevocationConverges
