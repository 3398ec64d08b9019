--------------------------- MODULE MCCountDownLatch ---------------------------
(***************************************************************************)
(* Instances of CountDownLatch for TLC.                                     *)
(***************************************************************************)
EXTENDS CountDownLatch

\* Any injection will do for the kernel's thread ids: cacheTid is never
\* called (see MutexLock).
MCKernelTid == CHOOSE f \in [Threads -> 101 .. 100 + Cardinality(Threads)] :
                   \A s, t \in Threads : f[s] = f[t] => s = t
=============================================================================
