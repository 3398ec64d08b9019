------------------------------- MODULE TimedWait -------------------------------
(***************************************************************************)
(* muduo::base::Condition::waitForSeconds (Condition.cpp) against a clock    *)
(* that runs, threads that notify and threads that want the mutex.  Time is  *)
(* counted in units of 1/K second, so that a timespec is a number of seconds *)
(* and of units, and K units stand for kNanoSecondsPerSecond.  A member of   *)
(* Callers makes one call of waitForSeconds, a member of Notifiers one call  *)
(* of notity or notifyAll; both hold the mutex, as a monitor's user does.    *)
(***************************************************************************)
EXTENDS Condition, CArith

CONSTANTS
    K,          \* units in a second
    Durations,  \* the values of `seconds`, in units
    LastCall,   \* bound: no call begins later
    Callers, Notifiers

Threads == Callers \cup Notifiers

ASSUME UnitsAssumption ==
    /\ K \in Nat \ {0}
    /\ Durations \subseteq Int
    /\ LastCall \in Nat

ASSUME TimedThreadsAssumption ==
    /\ Callers \cap Notifiers = {}
    /\ NoThread \notin Threads
    /\ KernelTid \in [Threads -> Nat \ {0}]

VARIABLES
    now,        \* CLOCK_REALTIME
    pc,         \* the next statement of each thread
    asked,      \* when each caller read the clock, and the duration it asked for
    abstime,    \* the timespec each caller hands to pthread_cond_timedwait
    errnum      \* what pthread_cond_timedwait answered each caller

vars == <<owner, m_holder, waiting, now, pc, asked, abstime, errnum>>

-----------------------------------------------------------------------------
OK        == "0"
ETIMEDOUT == "ETIMEDOUT"
EINVAL    == "EINVAL"

Units(ts) == ts.tv_sec * K + ts.tv_nsec

\* Mutated: the carry into the seconds is forgotten.
DeadlineNoCarry(t0, d) ==
    [tv_sec |-> t0 \div K, tv_nsec |-> CMod((t0 % K) + d, K)]

\* The deadline as it is computed: both fields are advanced with +=, the
\* second one by a remainder that already holds the tv_nsec it is added to.
Deadline(t0, d) ==
    LET sec  == t0 \div K
        nsec == t0 % K
    IN  [tv_sec |-> sec + CDiv(nsec + d, K), tv_nsec |-> nsec + CMod(nsec + d, K)]

\* pthread_cond_timedwait refuses any other tv_nsec.
IsValid(ts) == ts.tv_nsec \in 0 .. K - 1

-----------------------------------------------------------------------------
Goto(t, from, to) ==
    /\ pc[t] = from
    /\ pc' = [pc EXCEPT ![t] = to]

Init ==
    /\ ConditionInit
    /\ now \in 0 .. K - 1
    /\ pc = [t \in Threads |-> "lock"]
    /\ asked = [t \in Callers |-> [at |-> 0, secs |-> 0]]
    /\ abstime = [t \in Callers |-> [tv_sec |-> 0, tv_nsec |-> 0]]
    /\ errnum = [t \in Callers |-> OK]

\* The clock runs while a call may still begin or a deadline is still to come.
Tick ==
    /\ now < LastCall \/ \E t \in waiting : now < Units(abstime[t])
    /\ now' = now + 1
    /\ UNCHANGED <<owner, m_holder, waiting, pc, asked, abstime, errnum>>

Lock(t) ==
    /\ Goto(t, "lock", IF t \in Callers THEN "deadline" ELSE "notify")
    /\ lock(t)
    /\ now <= LastCall
    /\ UNCHANGED <<waiting, now, asked, abstime, errnum>>

Unlock(t) ==
    /\ Goto(t, "unlock", "done")
    /\ unlock(t)
    /\ UNCHANGED <<waiting, now, asked, abstime, errnum>>

-----------------------------------------------------------------------------
(* waitForSeconds(seconds)                                                   *)

ReadClock(t) ==
    /\ Goto(t, "deadline", "timedwait")
    /\ \E d \in Durations :
        /\ asked' = [asked EXCEPT ![t] = [at |-> now, secs |-> d]]
        /\ abstime' = [abstime EXCEPT ![t] = Deadline(now, d)]
    /\ UNCHANGED <<owner, m_holder, waiting, now, errnum>>

\* The deadline is acceptable: the mutex is released and the thread sleeps.
TimedWaitSleep(t) ==
    /\ IsValid(abstime[t])
    /\ Goto(t, "timedwait", "asleep")
    /\ wait(t)
    /\ UNCHANGED <<now, asked, abstime, errnum>>

\* It is not: the call returns at once, with the mutex never released, and the
\* UnassignGuard writes m_holder twice.
TimedWaitRefused(t) ==
    /\ ~IsValid(abstime[t])
    /\ Goto(t, "timedwait", "unlock")
    /\ errnum' = [errnum EXCEPT ![t] = EINVAL]
    /\ assignHolder(t)
    /\ UNCHANGED <<owner, waiting, now, asked, abstime>>

\* Mutated: a wait without a deadline.
TimedWaitNeverExpires(t) == FALSE

\* The deadline passes before the thread is notified.
TimedWaitExpire(t) ==
    /\ t \in waiting
    /\ Units(abstime[t]) <= now
    /\ waiting' = waiting \ {t}
    /\ errnum' = [errnum EXCEPT ![t] = ETIMEDOUT]
    /\ UNCHANGED <<owner, m_holder, now, pc, asked, abstime>>

\* The mutex is taken again, whatever ended the sleep.
TimedWaitReturn(t) ==
    /\ Goto(t, "asleep", "unlock")
    /\ waitReturn(t)
    /\ UNCHANGED <<now, asked, abstime, errnum>>

TimedWaitSpurious(t) ==
    /\ spuriousWakeup(t)
    /\ UNCHANGED <<now, pc, asked, abstime, errnum>>

\* What waitForSeconds returns.
TimedOut(t) == errnum[t] = ETIMEDOUT

-----------------------------------------------------------------------------
Notify(t) ==
    /\ Goto(t, "notify", "unlock")
    /\ notity \/ notifyAll
    /\ UNCHANGED <<now, asked, abstime, errnum>>

CallerStep(t) ==
    \/ ReadClock(t) \/ TimedWaitSleep(t) \/ TimedWaitRefused(t)
    \/ TimedWaitExpire(t) \/ TimedWaitReturn(t)

ThreadStep(t) ==
    \/ Lock(t)
    \/ t \in Callers /\ CallerStep(t)
    \/ t \in Notifiers /\ Notify(t)
    \/ Unlock(t)

\* Everybody is done, or never called because the last call's time has passed.
Terminating ==
    /\ \A t \in Threads : pc[t] = "done" \/ (pc[t] = "lock" /\ now > LastCall)
    /\ UNCHANGED vars

Next ==
    \/ Tick
    \/ \E t \in Threads : ThreadStep(t)
    \/ \E t \in Callers : TimedWaitSpurious(t)
    \/ Terminating

Safety == Init /\ [][Next]_vars

\* Time passes and the scheduler runs every thread.  Nobody needs to notify.
Fairness ==
    /\ WF_vars(Tick)
    /\ \A t \in Callers : WF_vars(CallerStep(t) \/ Unlock(t))
    /\ \A t \in Notifiers : WF_vars(Notify(t) \/ Unlock(t))

Spec == Safety /\ Fairness

-----------------------------------------------------------------------------
(* Properties.                                                               *)

HasDeadline(t) == pc[t] \in {"timedwait", "asleep", "unlock", "done"}

\* waitForSeconds answers true only when the time asked for has really passed,
\* whatever else happened in between: notifications, spurious wakeups, other
\* threads in the mutex.  (A caller may then give up on its condition.)
TimeoutNotEarly ==
    \A t \in Callers : TimedOut(t) => now >= asked[t].at + asked[t].secs

\* The deadline's error is known: a deadline that pthread_cond_timedwait
\* accepts is late by the fraction of a second the clock showed at the call,
\* always less than one second.
DeadlineLateByFraction ==
    \A t \in Callers : HasDeadline(t) =>
        Units(abstime[t]) = asked[t].at + asked[t].secs + (asked[t].at % K)

\* waitForSeconds returns even if nobody ever notifies.
CallReturns ==
    \A t \in Callers : pc[t] = "deadline" ~> pc[t] = "done"
=============================================================================
