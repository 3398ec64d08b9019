------------------------------ MODULE Condition ------------------------------
(***************************************************************************)
(* muduo::base::Condition (Condition.hpp): a pthread condition variable     *)
(* tied to one MutexLock.  A thread in a wait is either in `waiting`, asleep *)
(* on m_pcond, or out of it again and contending for the mutex.             *)
(***************************************************************************)
EXTENDS MutexLock

VARIABLE waiting   \* the threads asleep on m_pcond

condVars == <<owner, m_holder, waiting>>

ConditionInit == MutexInit /\ waiting = {}

\* Condition::wait up to the moment the thread sleeps: the UnassignGuard is
\* built, then pthread_cond_wait releases the mutex and enqueues the thread
\* in one atomic step.
wait(t) ==
    /\ owner = t
    /\ unassignHolder
    /\ owner' = NoThread
    /\ waiting' = waiting \cup {t}

\* The rest of Condition::wait: pthread_cond_wait takes the mutex again and
\* returns, and the UnassignGuard is destroyed.
waitReturn(t) ==
    /\ t \notin waiting
    /\ owner = NoThread
    /\ owner' = t
    /\ assignHolder(t)
    /\ UNCHANGED waiting

\* Condition::notity: pthread_cond_signal wakes a thread if there is one.
notity ==
    /\ \/ waiting = {} /\ UNCHANGED waiting
       \/ \E w \in waiting : waiting' = waiting \ {w}
    /\ UNCHANGED mutexVars

\* Condition::notifyAll: pthread_cond_broadcast wakes them all.
notifyAll ==
    /\ waiting' = {}
    /\ UNCHANGED mutexVars

\* POSIX lets pthread_cond_wait wake without a signal.
spuriousWakeup(t) ==
    /\ t \in waiting
    /\ waiting' = waiting \ {t}
    /\ UNCHANGED mutexVars
=============================================================================
