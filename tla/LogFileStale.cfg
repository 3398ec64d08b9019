\* One thread with many lines, over three periods of a clock that may be set
\* back, and a buffer that is large.
CONSTANTS
    NoThread = NoThread
    KernelTid <- MCKernelTid
    Threads = {t1}
    threadSelf = FALSE
    m_rollSize = 3
    m_flushInterval = 1
    m_checkEveryN = 3
    kRollPerSeconds = 4
    Lengths = {1}
    BufferSize = 9
    Names = {f1}
    MaxLines = 7
    MaxFlushes = 0
    MaxNow = 9
    MaxSetBacks = 1
    MessageSize = 1
    MaxErrors = 0
SPECIFICATION Safety
INVARIANTS TypeOK StaleBound
CHECK_DEADLOCK FALSE
