-------------------------------- MODULE MCLogger --------------------------------
(***************************************************************************)
(* Instances of Logger for TLC.  The buffer is small enough for the text to  *)
(* push any part of the tail out of it.                                     *)
(***************************************************************************)
EXTENDS Logger, TLC

MCTailSizes == [sep |-> 3, base |-> 2, colon |-> 1, line |-> 2]

\* Threads are alike, and sinks and zones are.
MCSymmetry == Permutations(Threads) \cup Permutations(Sinks) \cup Permutations(Zones)
=============================================================================
