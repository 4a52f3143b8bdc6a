SPECIFICATION Spec
INVARIANTS
    IntakeInv
    ServingInv
    FiltersSound
PROPERTY ChannelsSettle
CONSTANTS
    MaxPairOps = 3
    MaxPairClock = 2
    MaxPairFaults = 1
    PairTTL = 1
    MaxConnections = 1
    OutboundQueueSize = 1
    MaxSends = 2
    MaxWsFaults = 1
CHECK_DEADLOCK FALSE
