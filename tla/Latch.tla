-------------------------------- MODULE Latch --------------------------------
(***************************************************************************)
(* What a count-down latch promises, with no mutex and no condition         *)
(* variable in it: a countDown() call takes effect at one instant, a wait() *)
(* call is released at one instant, and none is released before Count       *)
(* countDown() calls have taken effect.  A wait() that may be released      *)
(* eventually is.                                                           *)
(***************************************************************************)
EXTENDS Integers, FiniteSets

CONSTANTS Count, Waiters, Counters

VARIABLES
    counted,    \* the countDown() calls that have taken effect
    released    \* the wait() calls that have been released

latchVars == <<counted, released>>

IsOpen == Cardinality(counted) >= Count

LatchInit == counted = {} /\ released = {}

CountDown(c) ==
    /\ c \notin counted
    /\ counted' = counted \cup {c}
    /\ UNCHANGED released

Release(w) ==
    /\ IsOpen
    /\ w \notin released
    /\ released' = released \cup {w}
    /\ UNCHANGED counted

LatchNext ==
    \/ \E c \in Counters : CountDown(c)
    \/ \E w \in Waiters : Release(w)

LatchSafety == LatchInit /\ [][LatchNext]_latchVars

LatchSpec == LatchSafety /\ \A w \in Waiters : WF_latchVars(Release(w))
=============================================================================
