SPECIFICATION FairSpec
CONSTANTS
    Requests = {1, 2, 3}
    Contents = {1, 2, 3}
    Setups <- All
    None = None
INVARIANTS
    TranscriptInv
    TurnsRemembered
PROPERTIES
    GateReleased
