\* Two waits and three countDowns on a count of 3, and a thread that polls
\* getCount, under the fairness of the scheduler.
CONSTANTS
    NoThread = NoThread
    KernelTid <- MCKernelTid
    Count = 3
    Waiters = {w1, w2}
    Counters = {c1, c2, c3}
    Readers = {r1}
SPECIFICATION Spec
INVARIANTS TypeOK ReleasedOnlyWhenOpen NoLostWakeup LastOut
PROPERTIES GetCountMonotone EveryWaitReturns ImplementsLatch
