---------------------------- MODULE TimedWaitProofs ----------------------------
(***************************************************************************)
(* waitForSeconds for every unit of time, every duration and any sets of     *)
(* callers and notifiers: what deadline it computes, and that it answers     *)
(* true only when the time asked for has passed.  The second rests on the    *)
(* first, on the mutex (nobody else writes a sleeping caller's deadline) and *)
(* on a clock that does not run backwards.                                   *)
(***************************************************************************)
EXTENDS TimedWait, TLAPS

CallerPCs == {"lock", "deadline", "timedwait", "asleep", "unlock", "done"}
NotifierPCs == {"lock", "notify", "unlock", "done"}

TypeInv ==
    /\ owner \in Threads \cup {NoThread}
    /\ waiting \subseteq Callers
    /\ now \in Nat
    /\ pc \in [Threads -> CallerPCs \cup NotifierPCs]
    /\ \A t \in Callers : pc[t] \in CallerPCs
    /\ \A t \in Notifiers : pc[t] \in NotifierPCs
    /\ asked \in [Callers -> [at : Nat, secs : Int]]
    /\ abstime \in [Callers -> [tv_sec : Int, tv_nsec : Int]]
    /\ errnum \in [Callers -> {OK, ETIMEDOUT, EINVAL}]

\* Who holds the mutex, and who sleeps.
Mutex ==
    /\ \A t \in Threads :
           owner = t <=> pc[t] \in {"deadline", "timedwait", "notify", "unlock"}
    /\ \A t \in waiting : pc[t] = "asleep"

\* A call that has timed out did so at its deadline or later.
TimeoutInv ==
    \A t \in Callers : TimedOut(t) =>
        pc[t] \in {"asleep", "unlock", "done"} /\ Units(abstime[t]) <= now

IInv == TypeInv /\ Mutex /\ DeadlineLateByFraction /\ TimeoutInv

-----------------------------------------------------------------------------
\* A number is its quotient and its remainder put together, in TLA+ ...
LEMMA DivMod ==
    \A a \in Int : /\ a \div K \in Int /\ a % K \in 0 .. K - 1
                   /\ (a \div K) * K + (a % K) = a
  BY UnitsAssumption

\* ... and in C++, which rounds the other way when the number is negative.
LEMMA CDivMod ==
    ASSUME NEW a \in Int
    PROVE  CDiv(a, K) \in Int /\ CMod(a, K) \in Int /\ CDiv(a, K) * K + CMod(a, K) = a
<1>1. CASE a >= 0
  BY <1>1, DivMod DEF CDiv, CMod
<1>2. CASE ~(a >= 0)
  <2> DEFINE q == (-a) \div K
             r == (-a) % K
  <2>1. q \in Int /\ r \in Int /\ q * K + r = -a
    BY DivMod, UnitsAssumption
  <2>2. CDiv(a, K) = -q /\ CMod(a, K) = -r
    BY <1>2 DEF CDiv, CMod
  <2> HIDE DEF q, r
  <2>3. (-q) * K + (-r) = a
    BY <2>1, UnitsAssumption
  <2>4. QED
    BY <2>1, <2>2, <2>3
<1>3. QED
  BY <1>1, <1>2

\* The deadline is the time asked for plus the fraction of a second the clock
\* showed: tv_nsec is added to a remainder that holds it already.
LEMMA DeadlineIs ==
    ASSUME NEW t0 \in Nat, NEW d \in Int
    PROVE  /\ Deadline(t0, d) \in [tv_sec : Int, tv_nsec : Int]
           /\ Units(Deadline(t0, d)) = t0 + d + (t0 % K)
<1> DEFINE sec == t0 \div K
           nsec == t0 % K
           q == CDiv(nsec + d, K)
           r == CMod(nsec + d, K)
<1>1. sec \in Int /\ nsec \in Int /\ sec * K + nsec = t0
  BY DivMod, UnitsAssumption
<1>2. q \in Int /\ r \in Int /\ q * K + r = nsec + d
  <2> HIDE DEF nsec
  <2>1. nsec + d \in Int
    BY <1>1
  <2>2. QED
    BY <2>1, CDivMod
<1>3. Deadline(t0, d) = [tv_sec |-> sec + q, tv_nsec |-> nsec + r]
  BY DEF Deadline
<1>4. Units(Deadline(t0, d)) = (sec + q) * K + (nsec + r)
  <2> HIDE DEF sec, nsec, q, r
  <2> QED
    BY <1>3 DEF Units
<1>5. (sec + q) * K = sec * K + q * K
  <2> HIDE DEF sec, nsec, q, r
  <2> QED
    BY <1>1, <1>2, UnitsAssumption
<1>6. QED
  <2> HIDE DEF sec, q, r
  <2>1. sec * K \in Int /\ q * K \in Int
    BY <1>1, <1>2, UnitsAssumption
  <2>2. QED
    BY <1>1, <1>2, <1>3, <1>4, <1>5, <2>1

-----------------------------------------------------------------------------
\* It holds before the first call.
LEMMA InitIInv == Init => IInv
<1> SUFFICES ASSUME Init PROVE IInv
  OBVIOUS
<1> USE UnitsAssumption, TimedThreadsAssumption DEF Init, ConditionInit, MutexInit
<1>1. TypeInv
  BY DEF TypeInv, Threads, CallerPCs, NotifierPCs
<1>2. Mutex
  BY DEF Mutex
<1>3. DeadlineLateByFraction
  BY DEF DeadlineLateByFraction, HasDeadline, Threads
<1>4. TimeoutInv
  BY DEF TimeoutInv, TimedOut, OK, ETIMEDOUT
<1>5. QED
  BY <1>1, <1>2, <1>3, <1>4 DEF IInv

\* No tick of the clock and no statement of a caller or a notifier leaves it.
LEMMA NextIInv == IInv /\ [Next]_vars => IInv'
<1> SUFFICES ASSUME IInv, [Next]_vars PROVE IInv'
  OBVIOUS
<1> USE TimedThreadsAssumption DEF IInv
<1>0. TypeInv /\ Mutex /\ DeadlineLateByFraction /\ TimeoutInv
  OBVIOUS
<1> DEFINE Same == UNCHANGED <<asked, abstime, errnum>>
\* A step that leaves the calls' own data alone leaves what is said of them.
<1>1. ASSUME Same, now' \in Nat, now' >= now,
             \A t \in Callers :
                 /\ HasDeadline(t)' => HasDeadline(t)
                 /\ pc[t] \in {"asleep", "unlock", "done"}
                        => pc'[t] \in {"asleep", "unlock", "done"}
      PROVE  DeadlineLateByFraction' /\ TimeoutInv'
  <2>1. DeadlineLateByFraction'
    BY <1>0, <1>1 DEF DeadlineLateByFraction, Units
  <2>2. TimeoutInv'
    <3> SUFFICES ASSUME NEW t \in Callers, TimedOut(t)'
                 PROVE  /\ pc'[t] \in {"asleep", "unlock", "done"}
                        /\ Units(abstime'[t]) <= now'
      BY DEF TimeoutInv
    <3>1. pc[t] \in {"asleep", "unlock", "done"} /\ Units(abstime[t]) <= now
      BY <1>0, <1>1 DEF TimeoutInv, TimedOut
    <3>2. Units(abstime[t]) \in Int
      BY <1>0, UnitsAssumption DEF TypeInv, Units
    <3>3. now \in Nat /\ abstime' = abstime
      BY <1>0, <1>1 DEF TypeInv
    <3>4. QED
      BY <1>1, <3>1, <3>2, <3>3
  <2>3. QED
    BY <2>1, <2>2
<1>2. ASSUME Tick PROVE IInv'
  <2> USE <1>2 DEF Tick
  <2>1. TypeInv' /\ Mutex'
    BY DEF TypeInv, Mutex
  <2>2. DeadlineLateByFraction' /\ TimeoutInv'
    BY <1>1 DEF TypeInv, HasDeadline
  <2>3. QED
    BY <2>1, <2>2
<1>3. ASSUME NEW t \in Threads, Lock(t) PROVE IInv'
  <2> USE <1>3 DEF Lock, Goto, lock
  <2>1. TypeInv'
    BY DEF TypeInv, Threads, CallerPCs, NotifierPCs
  <2>2. Mutex'
    BY DEF TypeInv, Mutex, Threads
  <2>3. DeadlineLateByFraction' /\ TimeoutInv'
    BY <1>1 DEF TypeInv, HasDeadline, Threads
  <2>4. QED
    BY <2>1, <2>2, <2>3
<1>4. ASSUME NEW t \in Threads, Unlock(t) PROVE IInv'
  <2> USE <1>4 DEF Unlock, Goto, unlock
  <2>1. TypeInv'
    BY DEF TypeInv, Threads, CallerPCs, NotifierPCs
  <2>2. Mutex'
    BY DEF TypeInv, Mutex, Threads
  <2>3. DeadlineLateByFraction' /\ TimeoutInv'
    BY <1>1 DEF TypeInv, HasDeadline, Threads
  <2>4. QED
    BY <2>1, <2>2, <2>3
<1>5. ASSUME NEW t \in Callers, ReadClock(t) PROVE IInv'
  <2>1. PICK d \in Durations :
            /\ asked' = [asked EXCEPT ![t] = [at |-> now, secs |-> d]]
            /\ abstime' = [abstime EXCEPT ![t] = Deadline(now, d)]
    BY <1>5 DEF ReadClock
  <2>2. now \in Nat /\ d \in Int /\ t \in Threads
    BY UnitsAssumption DEF TypeInv, Threads
  <2>3. /\ Deadline(now, d) \in [tv_sec : Int, tv_nsec : Int]
        /\ Units(Deadline(now, d)) = now + d + (now % K)
    BY <2>2, DeadlineIs
  <2>4. /\ pc[t] = "deadline" /\ pc' = [pc EXCEPT ![t] = "timedwait"]
        /\ UNCHANGED <<owner, m_holder, waiting, now, errnum>>
    BY <1>5 DEF ReadClock, Goto
  <2>5. TypeInv'
    BY <2>1, <2>2, <2>3, <2>4 DEF TypeInv, Threads, CallerPCs
  <2>6. Mutex'
    BY <2>2, <2>4 DEF TypeInv, Mutex, Threads
  <2>7. DeadlineLateByFraction'
    <3> SUFFICES ASSUME NEW s \in Callers, HasDeadline(s)'
                 PROVE  Units(abstime'[s]) = asked'[s].at + asked'[s].secs + (asked'[s].at % K)
      BY DEF DeadlineLateByFraction, Units
    <3>1. CASE s = t
      BY <2>1, <2>3, <3>1 DEF TypeInv
    <3>2. CASE s # t
      <4>1. HasDeadline(s) /\ asked'[s] = asked[s] /\ abstime'[s] = abstime[s]
        BY <2>1, <2>4, <3>2 DEF TypeInv, HasDeadline, Threads
      <4>2. QED
        BY <4>1 DEF DeadlineLateByFraction
    <3>3. QED
      BY <3>1, <3>2
  <2>8. TimeoutInv'
    <3> SUFFICES ASSUME NEW s \in Callers, TimedOut(s)'
                 PROVE  /\ pc'[s] \in {"asleep", "unlock", "done"}
                        /\ Units(abstime'[s]) <= now'
      BY DEF TimeoutInv
    <3>1. TimedOut(s)
      BY <2>4 DEF TimedOut
    <3>2. s # t
      BY <2>4, <3>1 DEF TimeoutInv
    <3>3. abstime'[s] = abstime[s] /\ pc'[s] = pc[s] /\ now' = now
      BY <2>1, <2>4, <3>2 DEF TypeInv, Threads
    <3>4. QED
      BY <3>1, <3>3 DEF TimeoutInv
  <2>9. QED
    BY <2>5, <2>6, <2>7, <2>8
<1>6. ASSUME NEW t \in Callers, TimedWaitSleep(t) PROVE IInv'
  <2> USE <1>6 DEF TimedWaitSleep, Goto, wait
  <2>1. TypeInv'
    BY DEF TypeInv, Threads, CallerPCs, NotifierPCs
  <2>2. Mutex'
    BY DEF TypeInv, Mutex, Threads
  <2>3. DeadlineLateByFraction' /\ TimeoutInv'
    BY <1>1 DEF TypeInv, HasDeadline, Threads
  <2>4. QED
    BY <2>1, <2>2, <2>3
<1>7. ASSUME NEW t \in Callers, TimedWaitRefused(t) PROVE IInv'
  <2> USE <1>7 DEF TimedWaitRefused, Goto
  <2>1. TypeInv'
    BY DEF TypeInv, Threads, CallerPCs, NotifierPCs
  <2>2. Mutex'
    BY DEF TypeInv, Mutex, Threads
  <2>3. DeadlineLateByFraction'
    BY DEF TypeInv, DeadlineLateByFraction, HasDeadline, Threads, Units
  <2>4. TimeoutInv'
    <3> SUFFICES ASSUME NEW s \in Callers, TimedOut(s)'
                 PROVE  /\ pc'[s] \in {"asleep", "unlock", "done"}
                        /\ Units(abstime'[s]) <= now'
      BY DEF TimeoutInv
    <3>1. s # t
      BY DEF TypeInv, TimedOut, ETIMEDOUT, EINVAL
    <3>2. TimedOut(s) /\ pc'[s] = pc[s] /\ UNCHANGED <<abstime, now>>
      BY <3>1 DEF TypeInv, TimedOut, Threads
    <3>3. QED
      BY <3>2 DEF TimeoutInv
  <2>5. QED
    BY <2>1, <2>2, <2>3, <2>4
<1>8. ASSUME NEW t \in Callers, TimedWaitExpire(t) PROVE IInv'
  <2> USE <1>8 DEF TimedWaitExpire
  <2>1. TypeInv'
    BY DEF TypeInv
  <2>2. Mutex'
    BY DEF TypeInv, Mutex
  <2>3. DeadlineLateByFraction'
    BY DEF DeadlineLateByFraction, HasDeadline, Units
  <2>4. TimeoutInv'
    <3> SUFFICES ASSUME NEW s \in Callers, TimedOut(s)'
                 PROVE  /\ pc'[s] \in {"asleep", "unlock", "done"}
                        /\ Units(abstime'[s]) <= now'
      BY DEF TimeoutInv
    <3>1. UNCHANGED <<pc, abstime, now>>
      OBVIOUS
    <3>2. CASE s = t
      BY <3>1, <3>2 DEF Mutex
    <3>3. CASE s # t
      <4>1. TimedOut(s)
        BY <3>3 DEF TypeInv, TimedOut
      <4>2. QED
        BY <3>1, <4>1 DEF TimeoutInv
    <3>4. QED
      BY <3>2, <3>3
  <2>5. QED
    BY <2>1, <2>2, <2>3, <2>4
<1>9. ASSUME NEW t \in Callers, TimedWaitReturn(t) PROVE IInv'
  <2> USE <1>9 DEF TimedWaitReturn, Goto, waitReturn
  <2>1. TypeInv'
    BY DEF TypeInv, Threads, CallerPCs, NotifierPCs
  <2>2. Mutex'
    BY DEF TypeInv, Mutex, Threads
  <2>3. DeadlineLateByFraction' /\ TimeoutInv'
    BY <1>1 DEF TypeInv, HasDeadline, Threads
  <2>4. QED
    BY <2>1, <2>2, <2>3
<1>10. ASSUME NEW t \in Callers, TimedWaitSpurious(t) PROVE IInv'
  <2> USE <1>10 DEF TimedWaitSpurious, spuriousWakeup, mutexVars
  <2>1. TypeInv' /\ Mutex'
    BY DEF TypeInv, Mutex
  <2>2. DeadlineLateByFraction' /\ TimeoutInv'
    BY <1>1 DEF TypeInv, HasDeadline
  <2>3. QED
    BY <2>1, <2>2
<1>11. ASSUME NEW t \in Notifiers, Notify(t) PROVE IInv'
  <2> USE <1>11 DEF Notify, Goto, notity, notifyAll, mutexVars
  <2>1. TypeInv'
    BY DEF TypeInv, Threads, CallerPCs, NotifierPCs
  <2>2. Mutex'
    BY DEF TypeInv, Mutex, Threads
  <2>3. DeadlineLateByFraction' /\ TimeoutInv'
    BY <1>1 DEF TypeInv, HasDeadline, Threads
  <2>4. QED
    BY <2>1, <2>2, <2>3
<1>12. CASE UNCHANGED vars
  <2> USE <1>12 DEF vars
  <2>1. TypeInv' /\ Mutex'
    BY DEF TypeInv, Mutex
  <2>2. DeadlineLateByFraction' /\ TimeoutInv'
    BY <1>1 DEF TypeInv, HasDeadline
  <2>3. QED
    BY <2>1, <2>2
<1>13. QED
  BY <1>2, <1>3, <1>4, <1>5, <1>6, <1>7, <1>8, <1>9, <1>10, <1>11, <1>12
     DEF Next, ThreadStep, CallerStep, Terminating

-----------------------------------------------------------------------------
\* The inductive invariant holds throughout every behavior.
THEOREM IInvHolds == Spec => []IInv
  BY InitIInv, NextIInv, PTL DEF Spec, Safety

\* Every deadline is late by the fraction of a second the clock showed, however
\* fine the clock and whatever the duration, a negative one included.
THEOREM DeadlineError == Spec => []DeadlineLateByFraction
<1>1. IInv => DeadlineLateByFraction
  BY DEF IInv
<1>2. QED
  BY <1>1, IInvHolds, PTL

\* However many threads wait, notify or wake for no reason: true is answered
\* only when the time asked for has passed.
THEOREM NoEarlyTimeout == Spec => []TimeoutNotEarly
<1>1. IInv => TimeoutNotEarly
  <2> SUFFICES ASSUME IInv, NEW t \in Callers, TimedOut(t)
               PROVE  now >= asked[t].at + asked[t].secs
    BY DEF TimeoutNotEarly
  <2>1. HasDeadline(t) /\ Units(abstime[t]) <= now
    BY DEF IInv, TimeoutInv, HasDeadline
  <2>2. Units(abstime[t]) = asked[t].at + asked[t].secs + (asked[t].at % K)
    BY <2>1 DEF IInv, DeadlineLateByFraction
  <2>3. asked[t].at \in Nat /\ asked[t].secs \in Int /\ now \in Nat
    BY DEF IInv, TypeInv
  <2>4. asked[t].at % K \in Nat
    BY <2>3, DivMod, UnitsAssumption
  <2>5. QED
    BY <2>1, <2>2, <2>3, <2>4
<1>2. QED
  BY <1>1, IInvHolds, PTL
==============================================================================
