SPECIFICATION Spec
CONSTANTS
    MaxMessages = 3
    PageSize = 2
    BusCapacity = 1
    MaxUnused = 1
    MaxActive = 1
    MaxPending = 1
    MaxReconnects = 1
CHECK_DEADLOCK FALSE
INVARIANTS
    AcceptedExactlyInOrder
    UnsentIsAnnounced
    BrokerIsBounded
PROPERTIES
    ConsumerCatchesUp
