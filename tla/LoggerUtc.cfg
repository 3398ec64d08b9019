\* One thread and one statement, in the default-constructed zone.
CONSTANTS
    Threads = {t1}
    Levels = {0, 2, 5}
    Zones = {}
    NoZone = NoZone
    Sinks = {s1}
    SIZE = 16
    kMaxNumercSize = 4
    HeaderSize = 3
    TextSizes = {1}
    TailSizes <- MCTailSizes
    MaxLines = 1
    MaxNow = 1
    MaxSets = 0
SPECIFICATION Spec
INVARIANT LengthAsserted
CHECK_DEADLOCK FALSE
