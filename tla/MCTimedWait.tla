------------------------------ MODULE MCTimedWait ------------------------------
(***************************************************************************)
(* An instance of TimedWait for TLC: a second of four units, durations from *)
(* a negative one to more than a second.                                    *)
(***************************************************************************)
EXTENDS TimedWait, FiniteSets

MCDurations == {-3, 0, 1, 2, 5}

MCKernelTid == CHOOSE f \in [Threads -> 101 .. 100 + Cardinality(Threads)] :
                   \A s, t \in Threads : f[s] = f[t] => s = t
=============================================================================
