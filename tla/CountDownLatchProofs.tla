------------------------- MODULE CountDownLatchProofs -------------------------
(***************************************************************************)
(* CountDownLatch is correct for every number of threads and every count.   *)
(* The invariants of the runs are not inductive by themselves: what a thread *)
(* may do at the mutex depends on every other thread's place in its call.   *)
(* IInv adds the three facts that make them so: who is inside the mutex, who *)
(* may be asleep, and what m_count counts.                                   *)
(***************************************************************************)
EXTENDS CountDownLatch, FiniteSetTheorems, TLAPS

Inside == {"wait_test", "wait_unlock", "down_dec", "down_notify", "down_unlock",
           "get_read", "get_unlock"}

\* The mutex is held exactly by the thread whose next statement is inside it.
Mutex == \A t \in Threads : owner = t <=> pc[t] \in Inside

\* Only a thread inside Condition::wait is asleep.
Asleep == \A w \in waiting : pc[w] = "wait_blocked"

\* m_count is the constructor's argument less the decrements executed.
CountIsExact == m_count = Count - Cardinality(Counted)

\* A thread that has left the loop saw a count of 0, or less.
ReleasedAtZero == Released # {} => m_count <= 0

TypeInv ==
    /\ owner \in Threads \cup {NoThread}
    /\ m_holder \in {0, t_cachedTid}
    /\ waiting \in SUBSET Waiters
    /\ m_count \in Int
    /\ pc \in [Threads -> WaiterPC \cup CounterPC \cup ReaderPC]
    /\ \A w \in Waiters : pc[w] \in WaiterPC
    /\ \A c \in Counters : pc[c] \in CounterPC
    /\ \A r \in Readers : pc[r] \in ReaderPC
    /\ got \in [Readers -> Int]

\* What a reader last saw is not below the count.
GotBound == \A r \in Readers : got[r] >= m_count

IInv ==
    /\ TypeInv
    /\ Mutex
    /\ Asleep
    /\ CountIsExact
    /\ ReleasedAtZero
    /\ NoLostWakeup
    /\ LastOut
    /\ GotBound

-----------------------------------------------------------------------------
(* The number of decrements executed.                                        *)

\* Counted is a finite set, no larger than Counters.
LEMMA CountedFinite ==
    /\ IsFiniteSet(Counted)
    /\ Cardinality(Counted) \in Nat
    /\ Cardinality(Counters) \in Nat
    /\ Cardinality(Counted) <= Cardinality(Counters)
    /\ Cardinality(Counted) = Cardinality(Counters) => Counted = Counters
<1>1. IsFiniteSet(Counters)
  BY ThreadsAssumption
<1>2. Counted \subseteq Counters
  BY DEF Counted
<1>3. QED
  BY <1>1, <1>2, FS_Subset, FS_CardinalityType

\* A decrement adds the call that made it, and nothing else, to Counted.
LEMMA CountedAdd ==
    ASSUME TypeInv, NEW c \in Counters, NEW to \in {"down_notify", "down_unlock"},
           Goto(c, "down_dec", to)
    PROVE  Cardinality(Counted)' = Cardinality(Counted) + 1
<1>1. c \notin Counted
  BY DEF Goto, Counted
<1>2. Counted' = Counted \cup {c}
  BY DEF Goto, Counted, TypeInv, Threads
<1>3. IsFiniteSet(Counted)
  BY CountedFinite
<1>4. QED
  BY <1>1, <1>2, <1>3, FS_AddElement

-----------------------------------------------------------------------------
(* The inductive invariant.                                                  *)

\* It holds of a latch just constructed.
LEMMA InitIInv == Init => IInv
<1> SUFFICES ASSUME Init PROVE IInv
  OBVIOUS
<1> USE ThreadsAssumption, CountAssumption DEF Init, ConditionInit, MutexInit, Threads
<1>1. /\ \A w \in Waiters : pc[w] = "wait_lock"
      /\ \A c \in Counters : pc[c] = "down_lock"
      /\ \A r \in Readers : pc[r] = "get_lock"
  OBVIOUS
<1>2. TypeInv
  BY <1>1 DEF TypeInv, WaiterPC, CounterPC, ReaderPC
<1>3. Mutex /\ Asleep
  BY <1>1 DEF Mutex, Asleep, Inside
<1>4. Counted = {} /\ Released = {}
  BY <1>1 DEF Counted, Released
<1>5. CountIsExact
  BY <1>4, FS_EmptySet DEF CountIsExact
<1>6. ReleasedAtZero /\ NoLostWakeup /\ LastOut /\ GotBound
  BY <1>1, <1>4 DEF ReleasedAtZero, NoLostWakeup, LastOut, GotBound
<1>7. QED
  BY <1>2, <1>3, <1>5, <1>6 DEF IInv

\* No step of any thread leaves the invariant.
LEMMA NextIInv == IInv /\ [Next]_vars => IInv'
<1> SUFFICES ASSUME IInv, [Next]_vars PROVE IInv'
  OBVIOUS
<1> USE ThreadsAssumption, CountAssumption DEF IInv, Threads
<1>1. ASSUME NEW w \in Waiters, WaitLock(w) PROVE IInv'
  <2> USE <1>1 DEF WaitLock, Goto, lock
  <2>1. TypeInv'
    BY DEF TypeInv, WaiterPC, CounterPC, ReaderPC
  <2>2. Mutex' /\ Asleep'
    BY DEF TypeInv, Mutex, Asleep, Inside
  <2>3. CountIsExact'
    BY DEF TypeInv, CountIsExact, Counted
  <2>4. ReleasedAtZero'
    BY DEF TypeInv, ReleasedAtZero, Released
  <2>5. NoLostWakeup'
    BY DEF TypeInv, NoLostWakeup, Mutex, Inside
  <2>6. LastOut'
    BY DEF TypeInv, LastOut
  <2>7. GotBound'
    BY DEF TypeInv, GotBound
  <2>8. QED
    BY <2>1, <2>2, <2>3, <2>4, <2>5, <2>6, <2>7
<1>2. ASSUME NEW w \in Waiters, WaitBlock(w) PROVE IInv'
  <2> USE <1>2 DEF WaitBlock, Goto, wait, unassignHolder
  <2>1. TypeInv'
    BY DEF TypeInv, WaiterPC, CounterPC, ReaderPC
  <2>2. Mutex' /\ Asleep'
    BY DEF TypeInv, Mutex, Asleep, Inside
  <2>3. CountIsExact'
    BY DEF TypeInv, CountIsExact, Counted
  <2>4. ReleasedAtZero'
    BY DEF TypeInv, ReleasedAtZero, Released
  <2>5. NoLostWakeup'
    BY DEF TypeInv, NoLostWakeup, Mutex, Inside
  <2>6. LastOut'
    BY DEF TypeInv, LastOut
  <2>7. GotBound'
    BY DEF TypeInv, GotBound
  <2>8. QED
    BY <2>1, <2>2, <2>3, <2>4, <2>5, <2>6, <2>7
<1>3. ASSUME NEW w \in Waiters, WaitWake(w) PROVE IInv'
  <2> USE <1>3 DEF WaitWake, Goto, waitReturn, assignHolder, tid
  <2>1. TypeInv'
    BY DEF TypeInv, t_cachedTid, WaiterPC, CounterPC, ReaderPC
  <2>2. Mutex' /\ Asleep'
    BY DEF TypeInv, Mutex, Asleep, Inside
  <2>3. CountIsExact'
    BY DEF TypeInv, CountIsExact, Counted
  <2>4. ReleasedAtZero'
    BY DEF TypeInv, ReleasedAtZero, Released
  <2>5. NoLostWakeup'
    BY DEF TypeInv, NoLostWakeup, Mutex, Inside
  <2>6. LastOut'
    BY DEF TypeInv, LastOut
  <2>7. GotBound'
    BY DEF TypeInv, GotBound
  <2>8. QED
    BY <2>1, <2>2, <2>3, <2>4, <2>5, <2>6, <2>7
<1>4. ASSUME NEW w \in Waiters, WaitExit(w) PROVE IInv'
  <2> USE <1>4 DEF WaitExit, Goto
  <2>1. TypeInv'
    BY DEF TypeInv, WaiterPC, CounterPC, ReaderPC
  <2>2. Mutex' /\ Asleep'
    BY DEF TypeInv, Mutex, Asleep, Inside
  <2>3. CountIsExact'
    BY DEF TypeInv, CountIsExact, Counted
  <2>4. ReleasedAtZero'
    BY DEF TypeInv, ReleasedAtZero, Released
  <2>5. NoLostWakeup'
    BY DEF TypeInv, NoLostWakeup, Mutex, Inside
  <2>6. LastOut'
    BY DEF TypeInv, LastOut
  <2>7. GotBound'
    BY DEF TypeInv, GotBound
  <2>8. QED
    BY <2>1, <2>2, <2>3, <2>4, <2>5, <2>6, <2>7
<1>5. ASSUME NEW w \in Waiters, WaitUnlock(w) PROVE IInv'
  <2> USE <1>5 DEF WaitUnlock, Goto, unlock
  <2>1. TypeInv'
    BY DEF TypeInv, WaiterPC, CounterPC, ReaderPC
  <2>2. Mutex' /\ Asleep'
    BY DEF TypeInv, Mutex, Asleep, Inside
  <2>3. CountIsExact'
    BY DEF TypeInv, CountIsExact, Counted
  <2>4. ReleasedAtZero'
    BY DEF TypeInv, ReleasedAtZero, Released
  <2>5. NoLostWakeup'
    BY DEF TypeInv, NoLostWakeup, Mutex, Inside
  <2>6. LastOut'
    <3>1. ASSUME Cardinality(Counters) = Count, NEW c \in Counters
          PROVE  pc[c] = "down_returned"
      <4>1. m_count <= 0
        BY DEF ReleasedAtZero, Released
      <4>2. Counted = Counters
        BY <3>1, <4>1, CountedFinite DEF CountIsExact, TypeInv
      <4>3. pc[c] \in {"down_notify", "down_unlock", "down_returned"}
        BY <4>2 DEF Counted
      <4>4. owner = w /\ w # c
        OBVIOUS
      <4>5. QED
        BY <4>3, <4>4 DEF Mutex, Inside
    <3>2. QED
      BY <3>1 DEF TypeInv, LastOut
  <2>7. GotBound'
    BY DEF TypeInv, GotBound
  <2>8. QED
    BY <2>1, <2>2, <2>3, <2>4, <2>5, <2>6, <2>7
<1>6. ASSUME NEW w \in Waiters, WaitSpurious(w) PROVE IInv'
  <2> USE <1>6 DEF WaitSpurious, spuriousWakeup, mutexVars
  <2>1. TypeInv'
    BY DEF TypeInv, WaiterPC, CounterPC, ReaderPC
  <2>2. Mutex' /\ Asleep'
    BY DEF TypeInv, Mutex, Asleep, Inside
  <2>3. CountIsExact'
    BY DEF TypeInv, CountIsExact, Counted
  <2>4. ReleasedAtZero'
    BY DEF TypeInv, ReleasedAtZero, Released
  <2>5. NoLostWakeup'
    BY DEF TypeInv, NoLostWakeup, Mutex, Inside
  <2>6. LastOut'
    BY DEF TypeInv, LastOut
  <2>7. GotBound'
    BY DEF TypeInv, GotBound
  <2>8. QED
    BY <2>1, <2>2, <2>3, <2>4, <2>5, <2>6, <2>7
<1>7. ASSUME NEW c \in Counters, DownLock(c) PROVE IInv'
  <2> USE <1>7 DEF DownLock, Goto, lock
  <2>1. TypeInv'
    BY DEF TypeInv, WaiterPC, CounterPC, ReaderPC
  <2>2. Mutex' /\ Asleep'
    BY DEF TypeInv, Mutex, Asleep, Inside
  <2>3. CountIsExact'
    BY DEF TypeInv, CountIsExact, Counted
  <2>4. ReleasedAtZero'
    BY DEF TypeInv, ReleasedAtZero, Released
  <2>5. NoLostWakeup'
    BY DEF TypeInv, NoLostWakeup, Mutex, Inside
  <2>6. LastOut'
    BY DEF TypeInv, LastOut
  <2>7. GotBound'
    BY DEF TypeInv, GotBound
  <2>8. QED
    BY <2>1, <2>2, <2>3, <2>4, <2>5, <2>6, <2>7
<1>8. ASSUME NEW c \in Counters, DownDecrement(c) PROVE IInv'
  <2> USE <1>8 DEF DownDecrement, Goto
  <2>1. TypeInv'
    BY DEF TypeInv, WaiterPC, CounterPC, ReaderPC
  <2>2. Mutex' /\ Asleep'
    BY DEF TypeInv, Mutex, Asleep, Inside
  <2>3. CountIsExact'
    <3>1. \E to \in {"down_notify", "down_unlock"} : Goto(c, "down_dec", to)
      BY <1>8 DEF DownDecrement
    <3>2. Cardinality(Counted)' = Cardinality(Counted) + 1
      BY <3>1, CountedAdd
    <3>3. QED
      BY <3>2, CountedFinite DEF CountIsExact, TypeInv
  <2>4. ReleasedAtZero'
    BY DEF TypeInv, ReleasedAtZero, Released
  <2>5. NoLostWakeup'
    BY DEF TypeInv, NoLostWakeup, Mutex, Inside
  <2>6. LastOut'
    BY DEF TypeInv, LastOut
  <2>7. GotBound'
    BY DEF TypeInv, GotBound
  <2>8. QED
    BY <2>1, <2>2, <2>3, <2>4, <2>5, <2>6, <2>7
<1>9. ASSUME NEW c \in Counters, DownNotify(c) PROVE IInv'
  <2> USE <1>9 DEF DownNotify, Goto, notifyAll, mutexVars
  <2>1. TypeInv'
    BY DEF TypeInv, WaiterPC, CounterPC, ReaderPC
  <2>2. Mutex' /\ Asleep'
    BY DEF TypeInv, Mutex, Asleep, Inside
  <2>3. CountIsExact'
    BY DEF TypeInv, CountIsExact, Counted
  <2>4. ReleasedAtZero'
    BY DEF TypeInv, ReleasedAtZero, Released
  <2>5. NoLostWakeup'
    BY DEF TypeInv, NoLostWakeup, Mutex, Inside
  <2>6. LastOut'
    BY DEF TypeInv, LastOut
  <2>7. GotBound'
    BY DEF TypeInv, GotBound
  <2>8. QED
    BY <2>1, <2>2, <2>3, <2>4, <2>5, <2>6, <2>7
<1>10. ASSUME NEW c \in Counters, DownUnlock(c) PROVE IInv'
  <2> USE <1>10 DEF DownUnlock, Goto, unlock
  <2>1. TypeInv'
    BY DEF TypeInv, WaiterPC, CounterPC, ReaderPC
  <2>2. Mutex' /\ Asleep'
    BY DEF TypeInv, Mutex, Asleep, Inside
  <2>3. CountIsExact'
    BY DEF TypeInv, CountIsExact, Counted
  <2>4. ReleasedAtZero'
    BY DEF TypeInv, ReleasedAtZero, Released
  <2>5. NoLostWakeup'
    BY DEF TypeInv, NoLostWakeup, Mutex, Inside
  <2>6. LastOut'
    BY DEF TypeInv, LastOut
  <2>7. GotBound'
    BY DEF TypeInv, GotBound
  <2>8. QED
    BY <2>1, <2>2, <2>3, <2>4, <2>5, <2>6, <2>7
<1>11. ASSUME NEW r \in Readers, GetLock(r) PROVE IInv'
  <2> USE <1>11 DEF GetLock, Goto, lock
  <2>1. TypeInv'
    BY DEF TypeInv, WaiterPC, CounterPC, ReaderPC
  <2>2. Mutex' /\ Asleep'
    BY DEF TypeInv, Mutex, Asleep, Inside
  <2>3. CountIsExact'
    BY DEF TypeInv, CountIsExact, Counted
  <2>4. ReleasedAtZero'
    BY DEF TypeInv, ReleasedAtZero, Released
  <2>5. NoLostWakeup'
    BY DEF TypeInv, NoLostWakeup, Mutex, Inside
  <2>6. LastOut'
    BY DEF TypeInv, LastOut
  <2>7. GotBound'
    BY DEF TypeInv, GotBound
  <2>8. QED
    BY <2>1, <2>2, <2>3, <2>4, <2>5, <2>6, <2>7
<1>12. ASSUME NEW r \in Readers, GetRead(r) PROVE IInv'
  <2> USE <1>12 DEF GetRead, Goto
  <2>1. TypeInv'
    BY DEF TypeInv, WaiterPC, CounterPC, ReaderPC
  <2>2. Mutex' /\ Asleep'
    BY DEF TypeInv, Mutex, Asleep, Inside
  <2>3. CountIsExact'
    BY DEF TypeInv, CountIsExact, Counted
  <2>4. ReleasedAtZero'
    BY DEF TypeInv, ReleasedAtZero, Released
  <2>5. NoLostWakeup'
    BY DEF TypeInv, NoLostWakeup, Mutex, Inside
  <2>6. LastOut'
    BY DEF TypeInv, LastOut
  <2>7. GotBound'
    BY DEF TypeInv, GotBound
  <2>8. QED
    BY <2>1, <2>2, <2>3, <2>4, <2>5, <2>6, <2>7
<1>13. ASSUME NEW r \in Readers, GetUnlock(r) PROVE IInv'
  <2> USE <1>13 DEF GetUnlock, Goto, unlock
  <2>1. TypeInv'
    BY DEF TypeInv, WaiterPC, CounterPC, ReaderPC
  <2>2. Mutex' /\ Asleep'
    BY DEF TypeInv, Mutex, Asleep, Inside
  <2>3. CountIsExact'
    BY DEF TypeInv, CountIsExact, Counted
  <2>4. ReleasedAtZero'
    BY DEF TypeInv, ReleasedAtZero, Released
  <2>5. NoLostWakeup'
    BY DEF TypeInv, NoLostWakeup, Mutex, Inside
  <2>6. LastOut'
    BY DEF TypeInv, LastOut
  <2>7. GotBound'
    BY DEF TypeInv, GotBound
  <2>8. QED
    BY <2>1, <2>2, <2>3, <2>4, <2>5, <2>6, <2>7
<1>14. CASE UNCHANGED vars
  BY <1>14 DEF vars, TypeInv, Mutex, Asleep, CountIsExact, Counted, ReleasedAtZero,
                 Released, NoLostWakeup, LastOut, GotBound
<1>15. QED
  BY <1>1, <1>2, <1>3, <1>4, <1>5, <1>6, <1>7, <1>8, <1>9, <1>10, <1>11, <1>12, <1>13, <1>14
     DEF Next, WaitStep, CountDownStep, GetCountStep, Terminating

-----------------------------------------------------------------------------
(* What follows for the specification.                                       *)

\* IInv holds throughout every behavior.
THEOREM IInvHolds == Safety => []IInv
  BY InitIInv, NextIInv, PTL DEF Safety

\* The type of the state, the bound on m_count included, for every count and
\* every number of calls.
THEOREM TypeCorrect == Safety => []TypeOK
<1>1. IInv => TypeOK
  BY CountedFinite, CountAssumption DEF IInv, TypeInv, TypeOK, CountIsExact
<1>2. QED
  BY <1>1, IInvHolds, PTL

\* No wait() call returns before Count countDown() calls have been made.
THEOREM NoEarlyRelease == Safety => []ReleasedOnlyWhenOpen
<1>1. IInv => ReleasedOnlyWhenOpen
  BY CountedFinite, CountAssumption
     DEF IInv, TypeInv, ReleasedAtZero, CountIsExact, ReleasedOnlyWhenOpen
<1>2. QED
  BY <1>1, IInvHolds, PTL

\* Nobody is left asleep once the count is 0, except by a thread that is just
\* about to notify.
THEOREM NoWakeupLost == Safety => []NoLostWakeup
  BY IInvHolds, PTL DEF IInv

\* The waiter that returns is the last one out of the latch.
THEOREM WaiterLastOut == Safety => []LastOut
  BY IInvHolds, PTL DEF IInv

\* What a reader sees of the count only falls.
THEOREM CountFalls == Safety => GetCountMonotone
<1>1. ASSUME IInv, [Next]_vars
      PROVE  [\A r \in Readers : got'[r] # got[r] =>
                 /\ got'[r] < got[r]
                 /\ Released # {} => got'[r] <= 0]_vars
  <2> SUFFICES ASSUME NEW r \in Readers, got'[r] # got[r]
               PROVE  got'[r] < got[r] /\ (Released # {} => got'[r] <= 0)
    OBVIOUS
  <2>1. PICK q \in Readers : GetRead(q)
    BY <1>1 DEF Next, WaitStep, WaitSpurious, CountDownStep, GetCountStep, Terminating,
                WaitLock, WaitBlock, WaitWake, WaitExit, WaitUnlock, DownLock,
                DownDecrement, DownNotify, DownUnlock, GetLock, GetUnlock, vars
  <2>2. q = r /\ got'[r] = m_count
    BY <1>1, <2>1 DEF GetRead, IInv, TypeInv
  <2>3. QED
    BY <1>1, <2>2 DEF IInv, TypeInv, GotBound, ReleasedAtZero
<1>2. QED
  BY <1>1, IInvHolds, PTL DEF Safety, GetCountMonotone

\* The latch implements the safety part of Latch: its steps are countDown()
\* at the decrement, the release of a wait() at the loop exit, and stutters.
THEOREM ImplementsLatchSafety == Safety => Abstract!LatchSafety
<1>1. Init => Abstract!LatchInit
  BY ThreadsAssumption
     DEF Init, Abstract!LatchInit, Counted, Released, Threads
<1>2. IInv /\ [Next]_vars => [Abstract!LatchNext]_<<Counted, Released>>
  <2> SUFFICES ASSUME IInv, [Next]_vars
               PROVE  Abstract!LatchNext \/ UNCHANGED <<Counted, Released>>
    OBVIOUS
  <2> USE ThreadsAssumption DEF IInv, TypeInv, Threads
  <2>1. ASSUME NEW w \in Waiters, WaitExit(w) PROVE Abstract!Release(w)
    <3>1. Released' = Released \cup {w} /\ w \notin Released /\ Counted' = Counted
      BY <2>1 DEF WaitExit, Goto, Released, Counted
    <3>2. Cardinality(Counted) >= Count
      BY <2>1, CountedFinite, CountAssumption DEF WaitExit, CountIsExact
    <3>3. QED
      <4>1. Abstract!Cardinality(Counted) = Cardinality(Counted)
        BY DEF Abstract!Cardinality, Cardinality
      <4>2. QED
        BY <3>1, <3>2, <4>1 DEF Abstract!Release, Abstract!IsOpen
  <2>2. ASSUME NEW c \in Counters, DownDecrement(c) PROVE Abstract!CountDown(c)
    BY <2>2 DEF DownDecrement, Goto, Counted, Released, Abstract!CountDown
  <2>3. ASSUME NEW w \in Waiters,
               \/ WaitLock(w) \/ WaitBlock(w) \/ WaitWake(w) \/ WaitUnlock(w)
               \/ WaitSpurious(w)
        PROVE  UNCHANGED <<Counted, Released>>
    BY <2>3 DEF WaitLock, WaitBlock, WaitWake, WaitUnlock, WaitSpurious, Goto,
                Counted, Released
  <2>4. ASSUME NEW c \in Counters, DownLock(c) \/ DownNotify(c) \/ DownUnlock(c)
        PROVE  UNCHANGED <<Counted, Released>>
    BY <2>4 DEF DownLock, DownNotify, DownUnlock, Goto, Counted, Released
  <2>5. ASSUME NEW r \in Readers, GetCountStep(r)
        PROVE  UNCHANGED <<Counted, Released>>
    BY <2>5 DEF GetCountStep, GetLock, GetRead, GetUnlock, Goto, Counted, Released
  <2>6. CASE UNCHANGED vars
    BY <2>6 DEF vars, Counted, Released
  <2>7. QED
    BY <2>1, <2>2, <2>3, <2>4, <2>5, <2>6
       DEF Next, WaitStep, CountDownStep, Terminating, Abstract!LatchNext
<1>3. QED
  BY <1>1, <1>2, IInvHolds, PTL
     DEF Safety, Abstract!LatchSafety, Abstract!latchVars
=============================================================================
