SPECIFICATION Spec
CONSTANTS
    MaxClock = 4
    MaxWrites = 3
    WordBits = 2
    SendMaxRetries = 3
    MaxChars = 4
    MaxBuckets = 2
    Retention = 2
INVARIANTS
    ToolsInv
    HostInv
    TextsSound
    RecordsSound
PROPERTIES
    OpenDiscardsOldest
    ServicesSettle
CHECK_DEADLOCK FALSE
