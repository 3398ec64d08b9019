\* One thread and one change of a valid zone to the default-constructed one.
CONSTANTS
    Threads = {t1}
    Levels = {2}
    Zones = {z1}
    NoZone = NoZone
    Sinks = {s1}
    SIZE = 16
    kMaxNumercSize = 4
    HeaderSize = 3
    TextSizes = {1}
    TailSizes <- MCTailSizes
    MaxLines = 1
    MaxNow = 1
    MaxSets = 1
SPECIFICATION Spec
INVARIANT ZoneNotNull
CHECK_DEADLOCK FALSE
