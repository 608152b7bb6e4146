SPECIFICATION Spec

CONSTANTS
    MAX_MESSAGE_BINARY_SIZE = 8
    ChannelIds = {c1}
    MaxData = 5
    MaxDelivered = 11
    None = None

INVARIANTS
    ContiguousStream

CHECK_DEADLOCK FALSE
