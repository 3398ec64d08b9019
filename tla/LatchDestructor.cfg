\* One wait and one countDown: the smallest life of a latch.
CONSTANTS
    NoThread = NoThread
    KernelTid <- MCKernelTid
    Count = 1
    Waiters = {w1}
    Counters = {c1}
    Readers = {}
SPECIFICATION Safety
INVARIANT DestructorAssertion
