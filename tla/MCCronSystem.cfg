SPECIFICATION Spec
CONSTANTS
    None = None
    g1 = g1
    g2 = g2
    Procs = {g1, g2}
    Jobs = {1, 2, 3}
    SystemSchedule <- EveryTwo
    MaxSleep = 3
    Setups <- System
PROPERTY MissedIsFired
