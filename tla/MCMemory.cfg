CONSTANTS
    Appenders = {a1}
    MaxEntries = 4
    MaxCrashes = 1
    NoCursor = NoCursor
    Compactors = {c1, c2}
    MaxTalk = 4
    MaxCompactions = 4
    MaxLosses = 2
    Checkpoint = Checkpoint
    Nobody = Nobody
    MaxEmptyRetries = 2
    MaxLengthRecoveries = 3
    MaxDraft = 4
    NoFinish = NoFinish
    NoPayload = NoPayload
    Listers = {l}
    Callers = {c}
    MaxFaults = 1
    None = None
SPECIFICATION Spec
INVARIANTS
    MemoryInv
    TurnInv
PROPERTIES
    TurnEnds
CHECK_DEADLOCK FALSE
