\* Two threads with two statements each, FATAL ones among them, a clock of two
\* seconds, one change of anything, and texts after which the buffer is almost
\* empty, has room for some of the tail or of the newline only, or is full.
CONSTANTS
    Threads = {t1, t2}
    Levels = {0, 5}
    Zones = {z1, z2}
    NoZone = NoZone
    Sinks = {s1, s2}
    SIZE = 16
    kMaxNumercSize = 4
    HeaderSize = 3
    TextSizes = {1, 4, 11, 12}
    TailSizes <- MCTailSizes
    MaxLines = 2
    MaxNow = 2
    MaxSets = 1
SPECIFICATION Spec
INVARIANTS TimeIsOwn ZoneInForce UnterminatedIsFull FatalDurable
SYMMETRY MCSymmetry
\* Every thread has said what it had to say, or the process is dead.
CHECK_DEADLOCK FALSE
