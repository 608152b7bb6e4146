SPECIFICATION FairSpec
CONSTANTS
    u1 = u1
    u2 = u2
    n80 = n80
    n81 = n81
    http = http
    None = None
    Gone = Gone
    Kubernetes = Kubernetes
    Uids = {u1, u2}
    PortNumbers = {n80, n81}
    ProtocolNames = {http}
    NewPods <- SharingPods
    Phases <- LivePhases
    LossyPhases = {}
    MaxStream = 1
    EventBufferSize = 1
INVARIANTS TableFollowsEvents RoutesFollowPods
PROPERTIES RoutesConverge
CHECK_DEADLOCK FALSE
