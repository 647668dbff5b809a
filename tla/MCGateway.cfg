\* One ticket, one gateway with one slot, two sockets that want it.
CONSTANTS
    t1 = t1 t2 = t2 c1 = c1 g1 = g1
    None = None
    Conns = {c1}
    Gateways = {g1}
    Tunnels = {t1, t2}
    Expiry <- MCExpiry
    MaxConnections = 1
    Window = 3
    TicketLife = 2
    ControlTimeout = 2
    MaxTime = 5
    MaxRev = 2
SPECIFICATION FairSpec
CHECK_DEADLOCK FALSE
INVARIANTS LostTunnelStops CountsAgree
PROPERTIES KeepsPromise TunnelsEnd
