SPECIFICATION Spec
CONSTANTS
    u1 = u1
    u2 = u2
    n80 = n80
    n81 = n81
    http = http
    None = None
    Gone = Gone
    Uids = {u1}
    PortNumbers = {n80, n81}
    ProtocolNames = {http}
    NewPods <- PlainPods
    Phases <- LivePhases
    LossyPhases = {}
    MaxStream = 2
INVARIANTS ServicesAdded
CHECK_DEADLOCK FALSE
