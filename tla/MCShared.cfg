\* Two people, or a person and an Agent, taking the desktop twice.
CONSTANTS
    u1 = u1 u2 = u2 c1 = c1 c2 = c2 a1 = a1 a2 = a2 l1 = l1 l2 = l2 w1 = w1 w2 = w2
    None = None
    Users = {u1, u2}
    Agents = {a1}
    Conns = {c1, c2}
    Leases = {l1}
    Workers = {w1}
    MaxReq = 0
    MaxLogin = 1
SPECIFICATION Spec
SYMMETRY Symmetry
VIEW View
CONSTRAINT TwoTenants
CHECK_DEADLOCK FALSE
INVARIANTS OneHumanCredential CredentialIsReserved OpenConnectionHasIntent DesktopIsExclusive
