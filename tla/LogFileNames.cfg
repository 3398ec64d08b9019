\* Two names that the uninitialized buffer may spell.
CONSTANTS
    NoThread = NoThread
    KernelTid <- MCKernelTid
    Threads = {t1}
    threadSelf = TRUE
    m_rollSize = 0
    m_flushInterval = 1
    m_checkEveryN = 2
    kRollPerSeconds = 3
    Lengths = {1}
    BufferSize = 9
    Names = {f1, f2}
    MaxLines = 2
    MaxFlushes = 0
    MaxNow = 3
    MaxSetBacks = 0
    MessageSize = 1
    MaxErrors = 0
SPECIFICATION Safety
INVARIANT NamesAreFresh
CHECK_DEADLOCK FALSE
