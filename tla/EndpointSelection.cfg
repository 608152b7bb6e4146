SPECIFICATION Spec
CONSTANTS
    MaxEndpoints = 4
    MaxRequests = 7
    IndexBits = 2
    NoService = NoService
    None = None
    Panicked = Panicked
INVARIANTS TypeOK OnlyAvailable EveryEndpointServes FoundFromFirstHalf
CHECK_DEADLOCK FALSE
