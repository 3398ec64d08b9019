------------------------------ MODULE MutexLock ------------------------------
(***************************************************************************)
(* muduo::base::MutexLock (Mutex.hpp): a pthread mutex and, beside it, the  *)
(* word m_holder that is meant to name the thread holding it.  The module   *)
(* has no specification of its own: it gives the actions that the monitors  *)
(* built on it (Condition, CountDownLatch, TimedWait) are made of.          *)
(***************************************************************************)
EXTENDS Integers

CONSTANTS
    NoThread,   \* what owner is while the mutex is free
    KernelTid   \* the id CurrentThread::cacheTid would fetch for a thread

VARIABLES
    owner,      \* the thread that has locked m_mutex, or NoThread
    m_holder    \* MutexLock::m_holder, 0 for "nobody"

mutexVars == <<owner, m_holder>>

-----------------------------------------------------------------------------
(* CurrentThread: every thread starts with t_cachedTid = 9, so tid() never  *)
(* finds it 0, never calls cacheTid, and answers 9 in every thread.         *)

t_cachedTid == 9

tid(t) == IF t_cachedTid = 0 THEN KernelTid[t] ELSE t_cachedTid

-----------------------------------------------------------------------------
MutexInit == owner = NoThread /\ m_holder = 0

\* MutexLock::lock, which is all that MutexLockGuard's constructor does.
\* It does not call assignHolder.
lock(t) ==
    /\ owner = NoThread
    /\ owner' = t
    /\ UNCHANGED m_holder

\* MutexLock::unlock, which is all that MutexLockGuard's destructor does.
\* It does not call unassignHolder.
unlock(t) ==
    /\ owner = t
    /\ owner' = NoThread
    /\ UNCHANGED m_holder

\* The two halves of MutexLock::UnassignGuard: its constructor, run with the
\* mutex held, before a wait, and its destructor, run when the mutex is held
\* again.
unassignHolder  == m_holder' = 0
assignHolder(t) == m_holder' = tid(t)
=============================================================================
