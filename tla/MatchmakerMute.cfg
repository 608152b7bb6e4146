SPECIFICATION Spec
CONSTANTS
    Ports = {p1, p2}
    Protocols = {http, ssh}
    Subscribers = {me, other}
    Me = me
    PortBufferSize = 1
    None = None
INVARIANTS ClosedPortsMuted
CHECK_DEADLOCK FALSE
