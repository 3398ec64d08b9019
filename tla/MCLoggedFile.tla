------------------------------ MODULE MCLoggedFile ------------------------------
(***************************************************************************)
(* An instance of LoggedFile for TLC.                                       *)
(***************************************************************************)
EXTENDS LoggedFile

MCKernelTid == CHOOSE f \in [Threads -> 101 .. 100 + Cardinality(Threads)] :
                   \A s, t \in Threads : f[s] = f[t] => s = t
=============================================================================
