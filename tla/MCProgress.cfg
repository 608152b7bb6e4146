SPECIFICATION FairSpec
CONSTANTS
    d1 = d1
    d2 = d2
    u1 = u1
    u2 = u2
    p1 = p1
    p2 = p2
    http = http
    ssh = ssh
    b1 = b1
    s1 = s1
    s2 = s2
    None = None
    Discoveries = {d1, d2}
    Uids = {u1}
    Ports = {p1}
    Protocols = {http}
    Backends = {b1}
    Subscribers = {s1}
    Inputs <- FlapInputs
    EventBufferSize = 1
    PortBufferSize = 1
PROPERTIES DiscoveryIsolation EventsProcessed SubscriptionCompletes FeedCatchesUp
CHECK_DEADLOCK FALSE
