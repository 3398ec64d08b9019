------------------------------- MODULE MCLogFile -------------------------------
(***************************************************************************)
(* Instances of LogFile for TLC.                                            *)
(***************************************************************************)
EXTENDS LogFile

MCKernelTid == CHOOSE f \in [Threads -> 101 .. 100 + Cardinality(Threads)] :
                   \A s, t \in Threads : f[s] = f[t] => s = t
=============================================================================
