-------------------------------- MODULE Journal --------------------------------
(***************************************************************************)
(* What a log file promises, with no files, buffers, locks or clocks in it:  *)
(* bytes are accepted one after the other and become durable in that order,  *)
(* for good; only a write that fails loses any, and it loses what was        *)
(* accepted and not durable yet, up to where it is noticed; what a crash     *)
(* leaves is what is durable.                                               *)
(***************************************************************************)
EXTENDS Integers

VARIABLES
    accepted,   \* how many bytes have been accepted
    durable,    \* those of them that a crash does not lose
    lost,       \* those that a failed write has dropped
    failures,   \* how many writes have failed
    up          \* whether the process is running

journalVars == <<accepted, durable, lost, failures, up>>

\* Of the first n bytes, those that are neither durable nor lost.
Pending(n) == (1 .. n) \ (durable \cup lost)

JournalInit == accepted = 0 /\ durable = {} /\ lost = {} /\ failures = 0 /\ up = TRUE

\* More bytes are accepted, some of the pending ones become durable, or both.
Write ==
    /\ up
    /\ accepted' \in Nat /\ accepted' >= accepted
    /\ \E last \in 0 .. accepted' :
        durable' = durable \cup {byte \in Pending(accepted') : byte <= last}
    /\ UNCHANGED <<lost, failures, up>>

\* A write fails after the byte last, when n bytes have been accepted.
Fail ==
    /\ up
    /\ failures' = failures + 1
    /\ accepted' \in Nat
    /\ \E n \in accepted .. accepted' : \E last \in 0 .. n :
        /\ durable' = durable \cup {byte \in Pending(n) : byte <= last}
        /\ lost' = lost \cup {byte \in Pending(n) : byte > last}
    /\ UNCHANGED up

Crash ==
    /\ up
    /\ up' = FALSE
    /\ UNCHANGED <<accepted, durable, lost, failures>>

JournalNext == Write \/ Fail \/ Crash

JournalSpec == JournalInit /\ [][JournalNext]_journalVars
=============================================================================
