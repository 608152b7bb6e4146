SPECIFICATION Spec
CONSTANTS
    u1 = u1
    u2 = u2
    n80 = n80
    n81 = n81
    http = http
    None = None
    Gone = Gone
    Uids = {u1, u2}
    PortNumbers = {n80, n81}
    ProtocolNames = {http}
    NewPods <- MixedPods
    Phases <- LifePhases
    LossyPhases <- EndPhases
    MaxStream = 1
INVARIANTS TypeOK NoGhostEndpoints AvailabilityFollowsPhase ServingNotReset
CHECK_DEADLOCK FALSE
