\* Two timed waits and a notifier; calls begin within the first seconds.
CONSTANTS
    NoThread = NoThread
    KernelTid <- MCKernelTid
    K = 4
    Durations <- MCDurations
    LastCall = 5
    Callers = {w1, w2}
    Notifiers = {n1}
SPECIFICATION Spec
INVARIANTS TimeoutNotEarly DeadlineLateByFraction
PROPERTY CallReturns
