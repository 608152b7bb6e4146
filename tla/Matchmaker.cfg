SPECIFICATION FairSpec
CONSTANTS
    Ports = {p1, p2}
    Protocols = {http, ssh}
    Subscribers = {me, other}
    Me = me
    PortBufferSize = 1
    None = None
INVARIANTS TypeOK ServedPortsListen
PROPERTIES ListensEventually
CHECK_DEADLOCK FALSE
