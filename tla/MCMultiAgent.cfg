SPECIFICATION FairSpec
CONSTANTS
    coder = coder
    reviewer = reviewer
    c1 = c1
    c2 = c2
    Agents = {coder, reviewer}
    Tasks = {1, 2, 3}
    Calls = {c1, c2}
    MaxDepth = 2
    NoTask = NoTask
    Setups <- All
INVARIANTS
    BoundsKept
PROPERTIES
    DoneIsFinal
    EveryTaskEnds
CHECK_DEADLOCK FALSE
