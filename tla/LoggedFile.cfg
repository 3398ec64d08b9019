\* Two threads that do two things each, of a log statement, a FATAL one and a
\* flush() of the program; a second line of a file is its last.
CONSTANTS
    NoThread = NoThread
    KernelTid <- MCKernelTid
    Threads = {t1, t2}
    threadSelf = TRUE
    m_rollSize = 2
    m_flushInterval = 0
    m_checkEveryN = 2
    kRollPerSeconds = 3
    Lengths = {2}
    BufferSize = 3
    Names = {f1}
    MaxLines = 2
    MaxFlushes = 3
    MaxCalls = 2
    MaxNow = 2
    MaxSetBacks = 0
    MessageSize = 1
    MaxErrors = 1
SPECIFICATION LoggedSpec
INVARIANTS InOrder FlushDurable FatalOnDisk
PROPERTIES ImplementsJournal StatementsEnd
\* The process may die.
CHECK_DEADLOCK FALSE
