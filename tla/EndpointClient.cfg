SPECIFICATION Spec

CONSTANTS
    MAX_MESSAGE_BINARY_SIZE = 12
    ChannelIds = {c1}
    MaxData = 13
    MaxDelivered = 15
    None = None

INVARIANTS
    TypeOK
    ReadOrderKept
    ContiguousIfFewReads
    ShortMessagesSafe
    TooLargeOnlyIfLarge

\* new returns an error or panics, or the peer has sent MaxDelivered bytes.
CHECK_DEADLOCK FALSE
