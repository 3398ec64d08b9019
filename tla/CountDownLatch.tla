---------------------------- MODULE CountDownLatch ----------------------------
(***************************************************************************)
(* muduo::base::CountDownLatch (CountDownLatch.hpp, CountDownLatch.cpp) on   *)
(* the MutexLock and the Condition it owns.  A thread stands for the calls   *)
(* it makes: a member of Waiters makes one call of wait(), a member of       *)
(* Counters one call of countDown() (a thread that counts down twice is two  *)
(* members, one after the other), and a member of Readers calls getCount()   *)
(* again and again.  pc[t] is the next statement of t; a step is one         *)
(* statement, so every interleaving at the mutex and at the condition        *)
(* variable is a behavior.                                                   *)
(***************************************************************************)
EXTENDS Condition, FiniteSets

CONSTANTS
    Count,      \* the argument of the constructor
    Waiters,    \* the calls of wait()
    Counters,   \* the calls of countDown()
    Readers     \* the threads that call getCount()

Threads == Waiters \cup Counters \cup Readers

ASSUME CountAssumption == Count \in Int

ASSUME ThreadsAssumption ==
    /\ IsFiniteSet(Counters)
    /\ Waiters \cap Counters = {}
    /\ Waiters \cap Readers = {}
    /\ Counters \cap Readers = {}
    /\ NoThread \notin Threads
    /\ KernelTid \in [Threads -> Nat \ {0}]

VARIABLES
    m_count,    \* CountDownLatch::m_count
    pc,         \* the next statement of each thread
    got         \* what each reader's last getCount() returned (Count before the first)

vars == <<owner, m_holder, waiting, m_count, pc, got>>

-----------------------------------------------------------------------------
WaiterPC  == {"wait_lock", "wait_test", "wait_blocked", "wait_unlock", "wait_returned"}
CounterPC == {"down_lock", "down_dec", "down_notify", "down_unlock", "down_returned"}
ReaderPC  == {"get_lock", "get_read", "get_unlock"}

Goto(t, from, to) ==
    /\ pc[t] = from
    /\ pc' = [pc EXCEPT ![t] = to]

Init ==
    /\ ConditionInit
    /\ m_count = Count
    /\ pc = [t \in Threads |-> CASE t \in Waiters  -> "wait_lock"
                                 [] t \in Counters -> "down_lock"
                                 [] t \in Readers  -> "get_lock"]
    /\ got = [r \in Readers |-> Count]

-----------------------------------------------------------------------------
(* wait(): MutexLockGuard lock(m_mutex); while (m_count > 0) m_condition.wait(); *)

WaitLock(w) ==
    /\ Goto(w, "wait_lock", "wait_test")
    /\ lock(w)
    /\ UNCHANGED <<waiting, m_count, got>>

\* The loop test holds: the thread goes to sleep on m_condition.
WaitBlock(w) ==
    /\ m_count > 0
    /\ Goto(w, "wait_test", "wait_blocked")
    /\ wait(w)
    /\ UNCHANGED <<m_count, got>>

\* Mutated: m_condition.wait() is followed by the end of the function, as if
\* the while were an if.
WaitWakeNoRetest(w) ==
    /\ Goto(w, "wait_blocked", "wait_unlock")
    /\ waitReturn(w)
    /\ UNCHANGED <<m_count, got>>

\* m_condition.wait() returns, into the loop test again.
WaitWake(w) ==
    /\ Goto(w, "wait_blocked", "wait_test")
    /\ waitReturn(w)
    /\ UNCHANGED <<m_count, got>>

\* Mutated: the loop exits while one countDown() is still missing.
WaitExitOffByOne(w) ==
    /\ m_count <= 1
    /\ Goto(w, "wait_test", "wait_unlock")
    /\ UNCHANGED <<owner, m_holder, waiting, m_count, got>>

WaitExit(w) ==
    /\ m_count <= 0
    /\ Goto(w, "wait_test", "wait_unlock")
    /\ UNCHANGED <<owner, m_holder, waiting, m_count, got>>

WaitUnlock(w) ==
    /\ Goto(w, "wait_unlock", "wait_returned")
    /\ unlock(w)
    /\ UNCHANGED <<waiting, m_count, got>>

WaitSpurious(w) ==
    /\ spuriousWakeup(w)
    /\ UNCHANGED <<m_count, pc, got>>

WaitStep(w) ==
    \/ WaitLock(w) \/ WaitBlock(w) \/ WaitWake(w) \/ WaitExit(w) \/ WaitUnlock(w)

-----------------------------------------------------------------------------
(* countDown(): MutexLockGuard lock(m_mutex); --m_count;                     *)
(*              if (0 == m_count) m_condition.notifyAll();                   *)

DownLock(c) ==
    /\ Goto(c, "down_lock", "down_dec")
    /\ lock(c)
    /\ UNCHANGED <<waiting, m_count, got>>

\* Mutated: the zero test is made before the decrement, so a call too early
\* or none at all notifies.
DownDecrementTestFirst(c) ==
    /\ Goto(c, "down_dec", IF m_count = 0 THEN "down_notify" ELSE "down_unlock")
    /\ m_count' = m_count - 1
    /\ UNCHANGED <<owner, m_holder, waiting, got>>

\* Mutated: the guard's scope ends at the decrement, so that notifyAll is
\* called with the mutex free.
DownUnlockThenNotify(c) ==
    /\ Goto(c, "down_dec", IF m_count = 1 THEN "down_notify" ELSE "down_returned")
    /\ m_count' = m_count - 1
    /\ unlock(c)
    /\ UNCHANGED <<waiting, got>>

DownDecrement(c) ==
    /\ Goto(c, "down_dec", IF m_count = 1 THEN "down_notify" ELSE "down_unlock")
    /\ m_count' = m_count - 1
    /\ UNCHANGED <<owner, m_holder, waiting, got>>

\* Mutated: one waiter is woken where all of them should be.
DownNotifyOne(c) ==
    /\ Goto(c, "down_notify", "down_unlock")
    /\ notity
    /\ UNCHANGED <<m_count, got>>

DownNotify(c) ==
    /\ Goto(c, "down_notify", "down_unlock")
    /\ notifyAll
    /\ UNCHANGED <<m_count, got>>

\* Mutated: the call is made over again instead of returning.
DownRepeated(c) ==
    /\ Goto(c, "down_unlock", "down_lock")
    /\ unlock(c)
    /\ UNCHANGED <<waiting, m_count, got>>

DownUnlock(c) ==
    /\ Goto(c, "down_unlock", "down_returned")
    /\ unlock(c)
    /\ UNCHANGED <<waiting, m_count, got>>

CountDownStep(c) ==
    DownLock(c) \/ DownDecrement(c) \/ DownNotify(c) \/ DownUnlock(c)

-----------------------------------------------------------------------------
(* getCount(): MutexLockGuard lock(m_mutex); return m_count;                 *)

GetLock(r) ==
    /\ Goto(r, "get_lock", "get_read")
    /\ lock(r)
    /\ UNCHANGED <<waiting, m_count, got>>

GetRead(r) ==
    /\ Goto(r, "get_read", "get_unlock")
    /\ got' = [got EXCEPT ![r] = m_count]
    /\ UNCHANGED <<owner, m_holder, waiting, m_count>>

GetUnlock(r) ==
    /\ Goto(r, "get_unlock", "get_lock")
    /\ unlock(r)
    /\ UNCHANGED <<waiting, m_count, got>>

GetCountStep(r) == GetLock(r) \/ GetRead(r) \/ GetUnlock(r)

-----------------------------------------------------------------------------
AllReturned ==
    /\ \A w \in Waiters : pc[w] = "wait_returned"
    /\ \A c \in Counters : pc[c] = "down_returned"

\* Every call has returned: the program is over, which is no deadlock.
Terminating == AllReturned /\ UNCHANGED vars

Next ==
    \/ \E w \in Waiters : WaitStep(w) \/ WaitSpurious(w)
    \/ \E c \in Counters : CountDownStep(c)
    \/ \E r \in Readers : GetCountStep(r)
    \/ Terminating

\* A thread that can take its next statement eventually does: the scheduler
\* runs every thread.  Nothing is assumed of the mutex: a thread may lose the
\* race for it any number of times.  Spurious wakeups may come at any time but
\* not for ever: a waiter that is woken without end could keep taking the
\* mutex just before the thread that has to count down.
SpuriousWakeupsEnd == <>[][\A w \in Waiters : ~WaitSpurious(w)]_vars

\* For the same reason nobody polls getCount() for ever.
PollingEnds == <>[][\A r \in Readers : ~GetLock(r)]_vars

Fairness ==
    /\ \A w \in Waiters : WF_vars(WaitStep(w))
    /\ \A c \in Counters : WF_vars(CountDownStep(c))
    /\ \A r \in Readers : WF_vars(GetRead(r) \/ GetUnlock(r))
    /\ SpuriousWakeupsEnd /\ PollingEnds

Safety == Init /\ [][Next]_vars

Spec == Safety /\ Fairness

-----------------------------------------------------------------------------
(* Properties.                                                               *)

\* The type of the state.  Only a wait() call is ever asleep on m_condition,
\* and m_count stays within the number of countDown() calls of the constructor's
\* argument: no call is counted twice.
TypeOK ==
    /\ owner \in Threads \cup {NoThread}
    /\ m_holder \in {0, t_cachedTid}
    /\ waiting \in SUBSET Waiters
    /\ m_count \in (Count - Cardinality(Counters)) .. Count
    /\ pc \in [Threads -> WaiterPC \cup CounterPC \cup ReaderPC]
    /\ \A w \in Waiters : pc[w] \in WaiterPC
    /\ \A c \in Counters : pc[c] \in CounterPC
    /\ \A r \in Readers : pc[r] \in ReaderPC
    /\ got \in [Readers -> Int]

\* The countDown() calls whose decrement has been executed.
Counted == {c \in Counters : pc[c] \in {"down_notify", "down_unlock", "down_returned"}}

\* The wait() calls that have left the loop.
Released == {w \in Waiters : pc[w] \in {"wait_unlock", "wait_returned"}}

\* A wait() call leaves its loop only when Count countDown() calls have been
\* executed: no early wakeup (a spurious one, or one meant for another value
\* of m_count) gets through, and the decrements of several threads do not
\* overwrite one another.
ReleasedOnlyWhenOpen == Released # {} => Cardinality(Counted) >= Count

\* No wakeup is lost: once m_count has reached 0, a thread asleep on the
\* condition variable is about to be woken by the countDown() call that took
\* the count to 0.  (countDown notifies only at exactly 0, so a decrement
\* that jumped over it, or a waiter that fell asleep after the broadcast,
\* would leave a thread asleep for ever.)
NoLostWakeup ==
    m_count <= 0 /\ waiting # {} => \E c \in Counters : pc[c] = "down_notify"

\* When Counters holds exactly Count calls, a thread that has returned from
\* wait() finds that every countDown() call has left the latch's mutex.  This
\* is what the usual client (a latch on the stack of its only waiting thread)
\* needs of the calls when it destroys the latch; another wait() may still be
\* inside, and what ~MutexLock asserts is DestructorAssertion.
LastOut ==
    Cardinality(Counters) = Count =>
        \A w \in Waiters : pc[w] = "wait_returned" =>
            \A c \in Counters : pc[c] = "down_returned"

\* The value getCount() answers never goes up, and never is behind what the
\* caller could know: once some wait() has returned, it is at most 0.
GetCountMonotone ==
    [][\A r \in Readers : got'[r] # got[r] =>
            /\ got'[r] < got[r]
            /\ Released # {} => got'[r] <= 0]_vars

\* If enough countDown() calls are made, every wait() call returns.
EveryWaitReturns ==
    Cardinality(Counters) >= Count =>
        \A w \in Waiters : <>(pc[w] = "wait_returned")

\* CountDownLatch implements Latch: countDown() takes effect at its decrement,
\* wait() is released where it leaves its loop.
Abstract == INSTANCE Latch WITH counted <- Counted, released <- Released

ImplementsLatch == Abstract!LatchSpec

\* ~MutexLock asserts m_holder == 0: when the calls on the latch are over and
\* its mutex is free, the word should name nobody.
DestructorAssertion == AllReturned => m_holder = 0
=============================================================================
