----------------------------- MODULE LogFileProofs -----------------------------
(***************************************************************************)
(* LogFile for every number of threads and lines and every choice of its     *)
(* parameters, alone and behind ~Logger: its type, the bound on the appends  *)
(* that find a flush or a roll overdue, the order of the bytes, what flush() *)
(* promises, that it implements Journal, and that a FATAL line is on disk    *)
(* when its statement aborts, but for what failed writes drop.  The bound     *)
(* rests on who is inside the mutex (no other append counts between the look *)
(* at m_count and what follows) and on m_lastRoll <= m_lastFlush (a flush    *)
(* that is due is never refused); the rest on what each step does to the one *)
(* sequence of bytes that the files, the buffer of a file being closed and   *)
(* that of m_file make up.                                                   *)
(***************************************************************************)
EXTENDS LoggedFile, SequenceTheorems, FiniteSetTheorems, TLAPS

-----------------------------------------------------------------------------
(* FlattenSeq, which puts the files one after the other.  It is defined by a *)
(* recursive function over the files.                                        *)

\* A set of natural numbers has a least element.
LEMMA LeastNumber ==
    ASSUME NEW T \in SUBSET Nat, T # {}
    PROVE  \E n \in T : \A k \in T : n <= k
<1> DEFINE Below(m) == T \cap 0 .. m
           D == {Below(m) : m \in T}
<1>1. \A m \in T : Below(m) \in FiniteSubsetsOf(Nat)
  <2> TAKE m \in T
  <2>1. IsFiniteSet(0 .. m)
    BY FS_Interval
  <2>2. IsFiniteSet(Below(m))
    BY <2>1, FS_Intersection
  <2>3. QED
    BY <2>2 DEF FiniteSubsetsOf
<1>2. D \subseteq FiniteSubsetsOf(Nat) /\ D # {}
  BY <1>1
<1>3. IsWellFoundedOn(StrictSubsetOrdering(Nat), FiniteSubsetsOf(Nat))
  BY FS_StrictSubsetOrderingWellFounded
<1>4. PICK X \in D : \A Y \in D : ~(<<Y, X>> \in StrictSubsetOrdering(Nat))
  <2> HIDE DEF D
  <2> QED
    BY <1>2, <1>3, WFMin
<1>5. PICK n \in T : X = Below(n)
  OBVIOUS
<1>6. ASSUME NEW k \in T, k < n PROVE FALSE
  <2>1. Below(k) \subseteq Below(n) /\ n \in Below(n) /\ n \notin Below(k)
    BY <1>6
  <2>2. <<Below(k), Below(n)>> \in StrictSubsetOrdering(Nat)
    BY <2>1 DEF StrictSubsetOrdering
  <2>3. QED
    BY <2>2, <1>4, <1>5
<1>7. QED
  BY <1>6

\* f adds up the first n of the sequences fs.
AddsUp(f, fs, n) ==
    f = [i \in 1 .. n |-> IF i = 1 THEN fs[i] ELSE f[i - 1] \o fs[i]]

\* Each of its values, from the one before it.
LEMMA AddsUpEach ==
    ASSUME NEW fs, NEW n \in Nat, NEW f, AddsUp(f, fs, n)
    PROVE  \A i \in 1 .. n : f[i] = IF i = 1 THEN fs[i] ELSE f[i - 1] \o fs[i]
<1> DEFINE F == [i \in 1 .. n |-> IF i = 1 THEN fs[i] ELSE f[i - 1] \o fs[i]]
<1>1. f = F
  BY DEF AddsUp
<1>2. \A i \in 1 .. n : F[i] = IF i = 1 THEN fs[i] ELSE f[i - 1] \o fs[i]
  OBVIOUS
<1> HIDE DEF F
<1>3. \A i \in 1 .. n : f[i] = F[i]
  BY <1>1
<1>4. QED
  BY <1>2, <1>3

\* There is such a function: the first n at which there were none would have
\* one made of the function for n - 1.
LEMMA AddsUpExists ==
    ASSUME NEW fs, NEW n \in Nat
    PROVE  \E f : AddsUp(f, fs, n)
<1> DEFINE T == {k \in Nat : ~ \E f : AddsUp(f, fs, k)}
<1> SUFFICES ASSUME T # {} PROVE FALSE
  OBVIOUS
<1>1. PICK k \in T : \A j \in T : k <= j
  <2> HIDE DEF T
  <2>1. T \in SUBSET Nat
    BY DEF T
  <2> QED
    BY LeastNumber, <2>1
<1>2. k # 0
  <2>1. AddsUp([i \in 1 .. 0 |-> {}], fs, 0)
    BY DEF AddsUp
  <2>2. QED
    BY <2>1
<1>3. k - 1 \in Nat /\ k - 1 \notin T
  BY <1>1, <1>2
<1>4. PICK f : AddsUp(f, fs, k - 1)
  BY <1>3
<1>5. AddsUp([i \in 1 .. k |-> IF i = 1 THEN fs[i] ELSE f[i - 1] \o fs[i]], fs, k)
  <2> DEFINE g == [i \in 1 .. k |-> IF i = 1 THEN fs[i] ELSE f[i - 1] \o fs[i]]
  <2>0. \A i \in 1 .. k - 1 : f[i] = IF i = 1 THEN fs[i] ELSE f[i - 1] \o fs[i]
    BY <1>4, AddsUpEach, <1>3
  <2>1. \A i \in 1 .. k - 1 : g[i] = f[i]
    <3> TAKE i \in 1 .. k - 1
    <3>1. i \in 1 .. k /\ k \in Nat
      OBVIOUS
    <3>2. g[i] = IF i = 1 THEN fs[i] ELSE f[i - 1] \o fs[i]
      BY <3>1
    <3> HIDE DEF g
    <3>3. QED
      BY <3>2, <2>0
  <2>2. \A i \in 1 .. k : g[i] = IF i = 1 THEN fs[i] ELSE g[i - 1] \o fs[i]
    <3> TAKE i \in 1 .. k
    <3>1. g[i] = IF i = 1 THEN fs[i] ELSE f[i - 1] \o fs[i]
      OBVIOUS
    <3>2. i # 1 => i - 1 \in 1 .. k - 1
      OBVIOUS
    <3> HIDE DEF g
    <3>3. i # 1 => g[i - 1] = f[i - 1]
      BY <3>2, <2>1
    <3>4. QED
      BY <3>1, <3>3
  <2>4. g = [i \in 1 .. k |-> IF i = 1 THEN fs[i] ELSE g[i - 1] \o fs[i]]
    BY <2>2
  <2>3. QED
    BY <2>4 DEF AddsUp
<1>6. QED
  BY <1>5

\* FlattenSeq is the last value of such a function, whichever is chosen.
LEMMA FlattenAdds ==
    ASSUME NEW fs, Len(fs) \in Nat \ {0}
    PROVE  \E f : AddsUp(f, fs, Len(fs)) /\ FlattenSeq(fs) = f[Len(fs)]
  BY AddsUpExists DEF AddsUp, FlattenSeq

\* What is added up does not depend on what comes after.
LEMMA AddsUpAgree ==
    ASSUME NEW S, NEW n \in Nat
    PROVE  \A fs, gs, f, g :
               /\ \A i \in 1 .. n : gs[i] = fs[i] /\ fs[i] \in Seq(S)
               /\ AddsUp(f, fs, n)
               /\ AddsUp(g, gs, n + 1)
               => \A i \in 1 .. n : f[i] = g[i] /\ f[i] \in Seq(S)
<1> SUFFICES ASSUME NEW fs, NEW gs, NEW f, NEW g,
                    \A i \in 1 .. n : gs[i] = fs[i] /\ fs[i] \in Seq(S),
                    AddsUp(f, fs, n), AddsUp(g, gs, n + 1)
             PROVE  \A i \in 1 .. n : f[i] = g[i] /\ f[i] \in Seq(S)
  OBVIOUS
<1> DEFINE T == {k \in 1 .. n : ~(f[k] = g[k] /\ f[k] \in Seq(S))}
<1> SUFFICES ASSUME T # {} PROVE FALSE
  OBVIOUS
<1>1. PICK k \in T : \A j \in T : k <= j
  <2> HIDE DEF T
  <2>1. T \in SUBSET Nat
    BY DEF T
  <2> QED
    BY LeastNumber, <2>1
<1>2. fs[k] = gs[k] /\ fs[k] \in Seq(S) /\ k \in 1 .. n
  OBVIOUS
<1>4. /\ f[k] = IF k = 1 THEN fs[k] ELSE f[k - 1] \o fs[k]
      /\ g[k] = IF k = 1 THEN gs[k] ELSE g[k - 1] \o gs[k]
  <2>1. n + 1 \in Nat /\ k \in 1 .. n + 1
    BY <1>2
  <2>2. \A i \in 1 .. n : f[i] = IF i = 1 THEN fs[i] ELSE f[i - 1] \o fs[i]
    BY AddsUpEach
  <2>3. \A i \in 1 .. n + 1 : g[i] = IF i = 1 THEN gs[i] ELSE g[i - 1] \o gs[i]
    BY <2>1, AddsUpEach
  <2>4. QED
    BY <1>2, <2>1, <2>2, <2>3
<1>5. CASE k = 1
  BY <1>5, <1>2, <1>4
<1>6. CASE k # 1
  <2>1. f[k - 1] = g[k - 1] /\ f[k - 1] \in Seq(S)
    BY <1>1, <1>6
  <2>2. QED
    <3> DEFINE Q == Seq(S)
    <3>1. \A a, b \in Q : a \o b \in Q
      BY ConcatProperties
    <3>2. f[k - 1] \in Q /\ fs[k] \in Q
      BY <2>1, <1>2
    <3> HIDE DEF Q
    <3>3. f[k - 1] \o fs[k] \in Q
      BY <3>1, <3>2
    <3>4. f[k] = f[k - 1] \o fs[k] /\ g[k] = f[k - 1] \o fs[k]
      BY <1>6, <2>1, <1>2, <1>4
    <3>5. QED
      BY <3>3, <3>4 DEF Q
<1>7. QED
  BY <1>5, <1>6

\* Concatenation is associative.
Associates(Q) == \A a, b, c \in Q : (a \o b) \o c = a \o (b \o c)

LEMMA Associative ==
    ASSUME NEW S
    PROVE  Associates(Seq(S))
<1>1. ASSUME NEW a \in Seq(S), NEW b \in Seq(S), NEW c \in Seq(S)
      PROVE  (a \o b) \o c = a \o (b \o c)
  BY ConcatAssociative
<1>2. QED
  BY <1>1 DEF Associates

\* One more sequence comes at the end, whose elements have the same type.
LEMMA FlattenAppend ==
    ASSUME NEW S, NEW fs \in Seq(Seq(S)), NEW x \in Seq(S)
    PROVE  /\ FlattenSeq(fs) \in Seq(S)
           /\ FlattenSeq(Append(fs, x)) = FlattenSeq(fs) \o x
<1> DEFINE gs == Append(fs, x)
           n == Len(fs)
<1>1. n \in Nat /\ Len(gs) = n + 1 /\ gs[n + 1] = x
  OBVIOUS
<1>2. PICK g : AddsUp(g, gs, n + 1) /\ FlattenSeq(gs) = g[n + 1]
  <2> HIDE DEF gs, n
  <2> QED
    BY <1>1, FlattenAdds
<1>3. g[n + 1] = IF n = 0 THEN x ELSE g[n] \o x
  <2> HIDE DEF gs, n
  <2>1. \A i \in 1 .. n + 1 : g[i] = IF i = 1 THEN gs[i] ELSE g[i - 1] \o gs[i]
    BY <1>1, <1>2, AddsUpEach
  <2>2. QED
    BY <1>1, <2>1
<1>4. CASE n = 0
  <2>1. fs = <<>>
    BY <1>4
  <2>2. FlattenSeq(fs) = <<>>
    BY <2>1 DEF FlattenSeq
  <2>3. <<>> \o x = x
    BY ConcatEmptySeq
  <2> HIDE DEF gs, n
  <2>4. QED
    BY <1>2, <1>3, <1>4, <2>2, <2>3 DEF gs
<1>5. CASE n # 0
  <2>1. PICK f : AddsUp(f, fs, n) /\ FlattenSeq(fs) = f[n]
    BY <1>1, <1>5, FlattenAdds
  <2>2. \A i \in 1 .. n : f[i] = g[i] /\ f[i] \in Seq(S)
    <3>1. \A i \in 1 .. n : gs[i] = fs[i] /\ fs[i] \in Seq(S)
      OBVIOUS
    <3> HIDE DEF gs, n
    <3>2. QED
      BY <1>1, <1>2, <2>1, <3>1, AddsUpAgree
  <2>3. f[n] = g[n] /\ f[n] \in Seq(S)
    BY <1>1, <1>5, <2>2
  <2> HIDE DEF gs, n
  <2>4. QED
    BY <1>2, <1>3, <1>5, <2>1, <2>3 DEF gs
<1>6. QED
  BY <1>4, <1>5

\* Writing to the last file.
LEMMA FlattenLast ==
    ASSUME NEW S, NEW fs \in Seq(Seq(S)), Len(fs) >= 1, NEW lines \in Seq(S)
    PROVE  FlattenSeq([fs EXCEPT ![Len(fs)] = @ \o lines]) = FlattenSeq(fs) \o lines
<1> DEFINE n == Len(fs)
           front == SubSeq(fs, 1, n - 1)
<1> DEFINE Q == Seq(S)
<1>0. fs \in Seq(Q) /\ lines \in Q /\ n \in Nat /\ n >= 1 /\ n = Len(fs)
  OBVIOUS
<1>1. fs[n] \in Q /\ fs[n] \o lines \in Q
  <2>1. fs[n] \in Q
    <3> HIDE DEF Q
    <3> QED
      BY <1>0
  <2>2. QED
    BY <2>1, ConcatProperties
<1> DEFINE gs == [fs EXCEPT ![n] = fs[n] \o lines]
<1>2. front \in Seq(Q) /\ fs = Append(front, fs[n]) /\ gs = Append(front, fs[n] \o lines)
  <2> HIDE DEF Q, n
  <2> QED
    BY <1>0, <1>1
<1>3. /\ FlattenSeq(front) \in Q
      /\ FlattenSeq(fs) = FlattenSeq(front) \o fs[n]
      /\ FlattenSeq(gs) = FlattenSeq(front) \o (fs[n] \o lines)
  <2> HIDE DEF front, gs, n
  <2> QED
    BY <1>1, <1>2, FlattenAppend
<1>4. QED
  <2>1. (FlattenSeq(front) \o fs[n]) \o lines = FlattenSeq(front) \o (fs[n] \o lines)
    <3>1. Associates(Q)
      BY Associative
    <3> HIDE DEF front, n, Q
    <3>2. QED
      BY <1>0, <1>1, <1>3, <3>1 DEF Associates
  <2>2. gs = [fs EXCEPT ![Len(fs)] = @ \o lines]
    OBVIOUS
  <2> HIDE DEF front, gs, n
  <2>3. QED
    BY <1>3, <2>1, <2>2

\* Opening a file.
LEMMA FlattenOpen ==
    ASSUME NEW S, NEW fs \in Seq(Seq(S))
    PROVE  FlattenSeq(Append(fs, <<>>)) = FlattenSeq(fs)
<1> DEFINE Q == Seq(S)
<1>1. <<>> \in Q
  OBVIOUS
<1>2. FlattenSeq(fs) \in Q /\ FlattenSeq(Append(fs, <<>>)) = FlattenSeq(fs) \o <<>>
  BY <1>1, FlattenAppend
<1>3. \A a \in Q : a \o <<>> = a
  BY ConcatEmptySeq
<1> HIDE DEF Q
<1>4. QED
  BY <1>2, <1>3

\* Writing to the last file but one, when the last one is empty.
LEMMA FlattenNextToLast ==
    ASSUME NEW S, NEW fs \in Seq(Seq(S)), Len(fs) >= 2, fs[Len(fs)] = <<>>,
           NEW lines \in Seq(S)
    PROVE  FlattenSeq([fs EXCEPT ![Len(fs) - 1] = @ \o lines]) = FlattenSeq(fs) \o lines
<1> DEFINE n == Len(fs)
           Q == Seq(S)
           front == SubSeq(fs, 1, n - 1)
           gs == [fs EXCEPT ![n - 1] = fs[n - 1] \o lines]
           hs == [front EXCEPT ![n - 1] = front[n - 1] \o lines]
<1>0. fs \in Seq(Q) /\ lines \in Q /\ n \in Nat /\ n >= 2 /\ n = Len(fs) /\ fs[n] = <<>>
  OBVIOUS
<1>1. /\ \A i \in 1 .. n : fs[i] \in Q
      /\ fs[n - 1] \o lines \in Q
  <2>1. \A i \in 1 .. n : fs[i] \in Q
    <3> HIDE DEF Q
    <3> QED
      BY <1>0
  <2>2. \A a, b \in Q : a \o b \in Q
    BY ConcatProperties
  <2> HIDE DEF Q, n
  <2>3. QED
    BY <2>1, <2>2, <1>0
<1>2. front \in Seq(Q) /\ Len(front) = n - 1 /\ fs = Append(front, fs[n]) /\ front[n - 1] = fs[n - 1]
  <2> HIDE DEF Q, n
  <2> QED
    BY <1>0, <1>1
<1>3. hs \in Seq(Q) /\ gs = Append(hs, fs[n])
  <2>1. front[n - 1] \o lines \in Q /\ n - 1 \in Nat
    BY <1>0, <1>1, <1>2
  <2>2. hs \in Seq(Q) /\ Len(hs) = n - 1
    <3> HIDE DEF Q, n, front
    <3> QED
      BY <1>0, <1>2, <2>1
  <2>3. gs \in Seq(Q) /\ Len(gs) = n /\ Append(hs, fs[n]) \in Seq(Q) /\ Len(Append(hs, fs[n])) = n
    <3> HIDE DEF Q, n, front, hs
    <3> QED
      BY <1>0, <1>1, <2>2
  <2>4. \A i \in 1 .. n - 1 : gs[i] = hs[i]
    <3>1. \A i \in 1 .. n - 1 : front[i] = fs[i]
      OBVIOUS
    <3> HIDE DEF Q, n, front
    <3>2. \A i \in 1 .. n - 1 : hs[i] = IF i = n - 1 THEN front[n - 1] \o lines ELSE front[i]
      BY <1>0, <1>2
    <3>3. \A i \in 1 .. n - 1 : gs[i] = IF i = n - 1 THEN fs[n - 1] \o lines ELSE fs[i]
      BY <1>0
    <3> HIDE DEF gs, hs
    <3>4. QED
      BY ONLY <1>2, <3>1, <3>2, <3>3
  <2>5. gs[n] = fs[n]
    <3>1. n \in DOMAIN fs /\ n # n - 1
      BY <1>0
    <3> HIDE DEF Q, n
    <3>2. QED
      BY <3>1
  <2> HIDE DEF Q, n, front, gs, hs
  <2>6. \A i \in 1 .. n : gs[i] = Append(hs, fs[n])[i]
    BY <1>0, <2>2, <2>4, <2>5
  <2>7. QED
    BY <1>0, <2>2, <2>3, <2>6, SeqEqual
<1>4. FlattenSeq(fs) = FlattenSeq(front) /\ FlattenSeq(gs) = FlattenSeq(hs)
  <2> HIDE DEF front, gs, hs, n
  <2> QED
    BY <1>0, <1>2, <1>3, FlattenOpen
<1>5. FlattenSeq(hs) = FlattenSeq(front) \o lines
  <2>1. hs = [front EXCEPT ![Len(front)] = @ \o lines] /\ Len(front) >= 1
    <3> HIDE DEF Q, front, n
    <3> QED
      BY <1>0, <1>2
  <2> HIDE DEF front, hs, n
  <2>2. QED
    BY <1>0, <1>2, <2>1, FlattenLast
<1>6. gs = [fs EXCEPT ![Len(fs) - 1] = @ \o lines]
  OBVIOUS
<1> HIDE DEF front, gs, hs, n
<1>7. QED
  BY <1>4, <1>5, <1>6

-----------------------------------------------------------------------------
(* The state of LogFile.                                                     *)

TypeInv ==
    /\ owner \in Threads \cup {NoThread}
    /\ m_holder = 0
    /\ now \in 1 .. MaxNow
    /\ pc \in [Threads -> PCs]
    /\ appends \in [Threads -> 0 .. MaxLines]
    /\ flushes \in [Threads -> 0 .. MaxFlushes]
    /\ late \in Nat /\ alive \in BOOLEAN

FilesInv ==
    /\ m_file \in BOOLEAN /\ m_writtenBytes \in Nat
    /\ accepted \in Nat /\ errors \in Nat /\ lost \in SUBSET Nat
    /\ buffer \in Seq(Nat) /\ retired \in Seq(Nat)
    /\ files \in Seq(Seq(Nat)) /\ names \in Seq(Names)
    /\ m_file <=> alive /\ files # <<>>
    /\ ~m_file => buffer = <<>> /\ \A t \in Threads : pc[t] = "idle"
    /\ \A t \in Threads :
           pc[t] = "close" => Len(files) >= 2 /\ files[Len(files)] = <<>> /\ buffer = <<>>
    /\ retired # <<>> => \E t \in Threads : pc[t] = "close"

\* The three times and the counter.
TimesInv ==
    /\ m_count \in 0 .. m_checkEveryN - 1
    /\ m_lastRoll \in Nat /\ m_lastFlush \in Nat
    /\ m_lastRoll <= m_lastFlush
    /\ m_startOfPeriod = Period(m_lastRoll)

Inside == PCs \ {"idle", "append_enter", "flush_enter"}

\* The mutex, where there is one, is held by the thread inside it.
Mutex == threadSelf => \A t \in Threads : owner = t <=> pc[t] \in Inside

\* How late the work can be: m_count has counted every late append, until a
\* thread is on its way to look at the clock.
LateInv ==
    \/ late <= m_count
    \/ late <= m_checkEveryN /\ \E t \in Threads : pc[t] \in {"time", "roll"}

IInv == TypeInv /\ FilesInv /\ TimesInv /\ Mutex /\ LateInv

-----------------------------------------------------------------------------
\* At most one thread is inside, with the mutex or without.
LEMMA OneInside ==
    ASSUME Mutex, NEW s \in Threads, NEW t \in Threads, pc[s] \in Inside, pc[t] \in Inside
    PROVE  s = t
  BY LogFileAssumption DEF Mutex

\* The start of a period is a natural number, 0 for the time 0.
LEMMA PeriodType == Period(0) = 0 /\ \A time \in Nat : Period(time) \in Nat
  BY LogFileAssumption DEF Period

\* The two parts of some bytes, which one after the other make them up again.
LEMMA CutType ==
    ASSUME NEW bytes \in Seq(Nat), NEW n \in 0 .. Len(bytes)
    PROVE  /\ First(bytes, n) \in Seq(Nat) /\ Len(First(bytes, n)) = n
           /\ Rest(bytes, n) \in Seq(Nat) /\ Len(Rest(bytes, n)) = Len(bytes) - n
           /\ \A i \in 1 .. n : First(bytes, n)[i] = bytes[i]
           /\ \A i \in 1 .. Len(bytes) - n : Rest(bytes, n)[i] = bytes[n + i]
  BY DEF First, Rest

\* Writing some bytes is writing all of them.
LEMMA FirstAll == \A bytes \in Seq(Nat) : First(bytes, Len(bytes)) = bytes
  BY DEF First

\* The bytes a stream takes next.
LEMMA NextBytesType ==
    ASSUME accepted \in Nat, NEW n \in Nat
    PROVE  /\ NextBytes(n) \in Seq(Nat) /\ Len(NextBytes(n)) = n
           /\ \A i \in 1 .. n : NextBytes(n)[i] = accepted + i
  BY DEF NextBytes

\* Some bytes with the next ones behind them.
LEMMA PendingType ==
    ASSUME accepted \in Nat, NEW bytes \in Seq(Nat), NEW n \in Nat
    PROVE  /\ bytes \o NextBytes(n) \in Seq(Nat)
           /\ Len(bytes \o NextBytes(n)) = Len(bytes) + n
<1>1. NextBytes(n) \in Seq(Nat) /\ Len(NextBytes(n)) = n
  BY NextBytesType
<1>2. QED
  BY <1>1, ConcatProperties

\* Writing bytes out to one of the files keeps their number and their type.
LEMMA WriteOutType ==
    ASSUME files \in Seq(Seq(Nat)), NEW i \in 1 .. Len(files),
           NEW bytes \in Seq(Nat), WriteOut(i, bytes)
    PROVE  files' \in Seq(Seq(Nat)) /\ Len(files') = Len(files)
<1>1. files[i] \o bytes \in Seq(Nat)
  OBVIOUS
<1>2. files' = [files EXCEPT ![i] = files[i] \o bytes]
  BY DEF WriteOut
<1>3. QED
  BY <1>1, <1>2

\* A write that fails keeps them, too.
LEMMA FailsType ==
    ASSUME files \in Seq(Seq(Nat)), errors \in Nat, lost \in SUBSET Nat,
           NEW i \in 1 .. Len(files), NEW bytes \in Seq(Nat), NEW n \in 0 .. Len(bytes),
           Fails(i, bytes, n)
    PROVE  /\ files' \in Seq(Seq(Nat)) /\ Len(files') = Len(files)
           /\ errors' \in Nat /\ lost' \in SUBSET Nat
<1>1. First(bytes, n) \in Seq(Nat) /\ Rest(bytes, n) \in Seq(Nat)
  BY CutType
<1>2. files' \in Seq(Seq(Nat)) /\ Len(files') = Len(files)
  BY <1>1, WriteOutType DEF Fails
<1>3. Range(Rest(bytes, n)) \in SUBSET Nat
  BY <1>1 DEF Range
<1>4. lost' \in SUBSET Nat
  <2>1. lost' = lost \cup Range(Rest(bytes, n))
    BY DEF Fails
  <2>2. QED
    BY <1>3, <2>1
<1>5. errors' \in Nat
  BY DEF Fails
<1>6. QED
  BY <1>2, <1>4, <1>5

\* Writing a buffer out is one of the two.
LEMMA WriteBufferType ==
    ASSUME files \in Seq(Seq(Nat)), errors \in Nat, lost \in SUBSET Nat,
           NEW i \in 1 .. Len(files), NEW bytes \in Seq(Nat), WriteBuffer(i, bytes)
    PROVE  /\ files' \in Seq(Seq(Nat)) /\ Len(files') = Len(files)
           /\ errors' \in Nat /\ lost' \in SUBSET Nat
<1>1. CASE Written(i, bytes)
  BY <1>1, WriteOutType DEF Written
<1>2. CASE \E n \in 0 .. Len(bytes) - 1 : Fails(i, bytes, n)
  <2>1. PICK n \in 0 .. Len(bytes) - 1 : Fails(i, bytes, n)
    BY <1>2
  <2>2. n \in 0 .. Len(bytes)
    OBVIOUS
  <2>3. QED
    BY <2>1, <2>2, FailsType
<1>3. QED
  BY <1>1, <1>2 DEF WriteBuffer

\* Opening a file adds an empty one.
LEMMA NewFileType ==
    ASSUME NEW fs \in Seq(Seq(Nat))
    PROVE  /\ Append(fs, <<>>) \in Seq(Seq(Nat))
           /\ Append(fs, <<>>) # <<>>
           /\ Len(Append(fs, <<>>)) = Len(fs) + 1
           /\ Append(fs, <<>>)[Len(fs) + 1] = <<>>
<1> DEFINE Contents == Seq(Nat)
<1>1. <<>> \in Contents
  OBVIOUS
<1>2. fs \in Seq(Contents)
  OBVIOUS
<1> HIDE DEF Contents
<1> PICK new \in Contents : new = <<>>
  BY <1>1
<1>3. /\ Append(fs, new) \in Seq(Contents) /\ Append(fs, new) # <<>>
      /\ Len(Append(fs, new)) = Len(fs) + 1 /\ Append(fs, new)[Len(fs) + 1] = new
  BY <1>2, AppendProperties
<1>4. QED
  BY <1>3 DEF Contents

-----------------------------------------------------------------------------
\* It holds of a LogFile just constructed, before any file is open.
LEMMA InitIInv == Init => IInv
<1> SUFFICES ASSUME Init PROVE IInv
  OBVIOUS
<1> USE LogFileAssumption DEF Init, MutexInit
<1>1. TypeInv
  BY DEF TypeInv, PCs
<1>2. FilesInv
  <2>1. files \in Seq(Seq(Nat)) /\ names \in Seq(Names)
    OBVIOUS
  <2>2. buffer \in Seq(Nat) /\ retired \in Seq(Nat)
    OBVIOUS
  <2>3. \A t \in Threads : pc[t] = "idle"
    OBVIOUS
  <2>4. QED
    BY <2>1, <2>2, <2>3 DEF FilesInv
<1>3. TimesInv
  BY PeriodType DEF TimesInv
<1>4. Mutex
  BY DEF Mutex, Inside
<1>5. LateInv
  BY DEF LateInv
<1>6. QED
  BY <1>1, <1>2, <1>3, <1>4, <1>5 DEF IInv

\* No statement of append(), flush() or rollFile(), no tick of the clock, no
\* crash and no failing fopen leaves it.
LEMMA NextIInv == IInv /\ [Next]_vars => IInv'
<1> SUFFICES ASSUME IInv, [Next]_vars PROVE IInv'
  OBVIOUS
<1> USE LogFileAssumption DEF IInv, mutexVars, clockVars, callVars, timeVars, fileVars, byteVars
<1>1. ASSUME NEW t \in Threads, AppendCall(t) PROVE IInv'
  <2> USE <1>1 DEF AppendCall, Goto
  <2>1. TypeInv'
    BY DEF TypeInv, PCs
  <2>2. FilesInv'
    BY OneInside DEF TypeInv, FilesInv, Inside, PCs
  <2>3. TimesInv'
    BY PeriodType DEF TypeInv, TimesInv
  <2>4. Mutex'
    BY OneInside DEF TypeInv, Mutex, Inside, PCs
  <2>5. LateInv'
    BY OneInside DEF TypeInv, TimesInv, LateInv, Inside, PCs
  <2>6. QED
    BY <2>1, <2>2, <2>3, <2>4, <2>5
<1>2. ASSUME NEW t \in Threads, AppendEnter(t) PROVE IInv'
  <2> USE <1>2 DEF AppendEnter, Goto, Enter, lock
  <2>1. TypeInv'
    BY DEF TypeInv, PCs
  <2>2. FilesInv'
    BY OneInside DEF TypeInv, FilesInv, Inside, PCs
  <2>3. TimesInv'
    BY PeriodType DEF TypeInv, TimesInv
  <2>4. Mutex'
    BY OneInside DEF TypeInv, Mutex, Inside, PCs
  <2>5. LateInv'
    BY OneInside DEF TypeInv, TimesInv, LateInv, Inside, PCs
  <2>6. QED
    BY <2>1, <2>2, <2>3, <2>4, <2>5
<1>3. ASSUME NEW t \in Threads, AppendWrite(t) PROVE IInv'
  <2> USE <1>3 DEF AppendWrite, Goto
  <2>1. TypeInv'
    BY DEF TypeInv, PCs
  <2>2. FilesInv'
    <3>1. Current \in 1 .. Len(files)
      BY DEF FilesInv, TypeInv, Current
    <3>2. PICK len \in Lengths : \E n \in 0 .. Len(buffer) + len :
              /\ WriteOut(Current, First(buffer \o NextBytes(len), n))
              /\ buffer' = Rest(buffer \o NextBytes(len), n)
              /\ accepted' = accepted + len /\ m_writtenBytes' = m_writtenBytes + len
      OBVIOUS
    <3> DEFINE bytes == buffer \o NextBytes(len)
    <3>3. len \in Nat /\ bytes \in Seq(Nat) /\ Len(bytes) = Len(buffer) + len
      BY PendingType DEF FilesInv
    <3>4. PICK n \in 0 .. Len(bytes) :
              WriteOut(Current, First(bytes, n)) /\ buffer' = Rest(bytes, n)
      BY <3>2, <3>3
    <3> HIDE DEF bytes
    <3>5. First(bytes, n) \in Seq(Nat) /\ buffer' \in Seq(Nat)
      BY <3>3, <3>4, CutType
    <3>6. files' \in Seq(Seq(Nat)) /\ Len(files') = Len(files)
      BY <3>1, <3>4, <3>5, WriteOutType DEF FilesInv
    <3>7. m_file /\ \A s \in Threads : pc[s] # "close" /\ pc'[s] # "close"
      BY OneInside DEF TypeInv, FilesInv, Inside, PCs
    <3>8. accepted' \in Nat /\ m_writtenBytes' \in Nat
      BY <3>2, <3>3 DEF FilesInv
    <3>9. files' # <<>>
      BY <3>1, <3>6
    <3>10. UNCHANGED <<m_file, retired, names, errors, lost, alive>>
      OBVIOUS
    <3>11. (m_file <=> alive /\ files # <<>>)' /\ m_file' = TRUE
      BY <3>5, <3>6, <3>7, <3>8, <3>9, <3>10 DEF FilesInv
    <3>12. QED
      BY <3>5, <3>6, <3>7, <3>8, <3>9, <3>10, <3>11 DEF FilesInv
  <2>3. TimesInv'
    BY PeriodType DEF TypeInv, TimesInv
  <2>4. Mutex'
    BY OneInside DEF TypeInv, Mutex, Inside, PCs
  <2>5. LateInv'
    BY OneInside DEF TypeInv, TimesInv, LateInv, Inside, PCs
  <2>6. QED
    BY <2>1, <2>2, <2>3, <2>4, <2>5
<1>4. ASSUME NEW t \in Threads, AppendError(t) PROVE IInv'
  <2> USE <1>4 DEF AppendError, Goto
  <2>1. TypeInv'
    BY DEF TypeInv, PCs
  <2>2. FilesInv'
    <3>1. Current \in 1 .. Len(files)
      BY DEF FilesInv, TypeInv, Current
    <3> PICK len \in Lengths : \E taken \in 0 .. len - 1 : \E n \in 0 .. Len(buffer) + taken :
              /\ Fails(Current, buffer \o NextBytes(taken), n)
              /\ buffer' = Rest(NextBytes(taken + MessageSize), taken)
              /\ accepted' = accepted + taken + MessageSize
      OBVIOUS
    <3>2. PICK taken \in 0 .. len - 1 : \E n \in 0 .. Len(buffer) + taken :
              /\ Fails(Current, buffer \o NextBytes(taken), n)
              /\ buffer' = Rest(NextBytes(taken + MessageSize), taken)
              /\ accepted' = accepted + taken + MessageSize
      OBVIOUS
    <3> DEFINE bytes == buffer \o NextBytes(taken)
               message == NextBytes(taken + MessageSize)
    <3>3. /\ taken \in Nat /\ taken \in 0 .. Len(message) /\ message \in Seq(Nat)
          /\ bytes \in Seq(Nat) /\ Len(bytes) = Len(buffer) + taken
      <4>1. taken \in Nat /\ taken + MessageSize \in Nat /\ MessageSize \in Nat
        OBVIOUS
      <4>2. bytes \in Seq(Nat) /\ Len(bytes) = Len(buffer) + taken
        BY <4>1, PendingType DEF FilesInv
      <4>3. message \in Seq(Nat) /\ Len(message) = taken + MessageSize
        BY <4>1, NextBytesType DEF FilesInv
      <4> HIDE DEF bytes, message
      <4>4. QED
        BY <4>1, <4>2, <4>3
    <3>4. PICK n \in 0 .. Len(bytes) : Fails(Current, bytes, n) /\ buffer' = Rest(message, taken)
      BY <3>2, <3>3
    <3> HIDE DEF bytes, message
    <3>5. buffer' \in Seq(Nat) /\ accepted' \in Nat
      <4>1. Rest(message, taken) \in Seq(Nat)
        BY ONLY <3>3, CutType
      <4>2. accepted \in Nat /\ taken \in Nat /\ MessageSize \in Nat
        BY <3>3 DEF FilesInv
      <4>3. accepted' = accepted + taken + MessageSize
        BY <3>2
      <4>4. accepted' \in Nat
        BY ONLY <4>2, <4>3
      <4>5. QED
        BY ONLY <3>4, <4>1, <4>4
    <3>6. /\ files' \in Seq(Seq(Nat)) /\ Len(files') = Len(files)
          /\ errors' \in Nat /\ lost' \in SUBSET Nat
      BY <3>1, <3>3, <3>4, FailsType DEF FilesInv
    <3>7. m_file /\ \A s \in Threads : pc[s] # "close" /\ pc'[s] # "close"
      BY OneInside DEF TypeInv, FilesInv, Inside, PCs
    <3>8. files' # <<>>
      BY <3>1, <3>6
    <3>9. UNCHANGED <<m_file, m_writtenBytes, retired, names, alive>>
      OBVIOUS
    <3>10. (m_file <=> alive /\ files # <<>>)' /\ m_file' = TRUE
      BY <3>5, <3>6, <3>7, <3>8, <3>9 DEF FilesInv
    <3>11. QED
      BY <3>5, <3>6, <3>7, <3>8, <3>9, <3>10 DEF FilesInv
  <2>3. TimesInv'
    BY PeriodType DEF TypeInv, TimesInv
  <2>4. Mutex'
    BY OneInside DEF TypeInv, Mutex, Inside, PCs
  <2>5. LateInv'
    BY OneInside DEF TypeInv, TimesInv, LateInv, Inside, PCs
  <2>6. QED
    BY <2>1, <2>2, <2>3, <2>4, <2>5
<1>5. ASSUME NEW t \in Threads, AppendOversize(t) PROVE IInv'
  <2> USE <1>5 DEF AppendOversize, Goto
  <2>1. TypeInv'
    BY DEF TypeInv, PCs
  <2>2. FilesInv'
    BY OneInside DEF TypeInv, FilesInv, Inside, PCs
  <2>3. TimesInv'
    BY PeriodType DEF TypeInv, TimesInv
  <2>4. Mutex'
    BY OneInside DEF TypeInv, Mutex, Inside, PCs
  <2>5. LateInv'
    BY OneInside DEF TypeInv, TimesInv, LateInv, Inside, PCs
  <2>6. QED
    BY <2>1, <2>2, <2>3, <2>4, <2>5
<1>6. ASSUME NEW t \in Threads, AppendCount(t) PROVE IInv'
  <2> USE <1>6 DEF AppendCount, Goto
  <2>1. TypeInv'
    BY DEF TypeInv, PCs
  <2>2. FilesInv'
    BY OneInside DEF TypeInv, FilesInv, Inside, PCs
  <2>3. TimesInv'
    BY PeriodType DEF TypeInv, TimesInv
  <2>4. Mutex'
    BY OneInside DEF TypeInv, Mutex, Inside, PCs
  <2>5. LateInv'
    BY OneInside DEF TypeInv, TimesInv, LateInv, Inside, PCs
  <2>6. QED
    BY <2>1, <2>2, <2>3, <2>4, <2>5
<1>7. ASSUME NEW t \in Threads, AppendNewPeriod(t) PROVE IInv'
  <2> USE <1>7 DEF AppendNewPeriod, Goto
  <2>1. TypeInv'
    BY DEF TypeInv, PCs
  <2>2. FilesInv'
    BY OneInside DEF TypeInv, FilesInv, Inside, PCs
  <2>3. TimesInv'
    BY PeriodType DEF TypeInv, TimesInv
  <2>4. Mutex'
    BY OneInside DEF TypeInv, Mutex, Inside, PCs
  <2>5. LateInv'
    BY OneInside DEF TypeInv, TimesInv, LateInv, Inside, PCs
  <2>6. QED
    BY <2>1, <2>2, <2>3, <2>4, <2>5
<1>8. ASSUME NEW t \in Threads, AppendFlush(t) PROVE IInv'
  <2> USE <1>8 DEF AppendFlush, Goto, FlushStream
  <2>1. TypeInv'
    BY DEF TypeInv, PCs
  <2>2. FilesInv'
    <3>1. Current \in 1 .. Len(files)
      BY DEF FilesInv, TypeInv, Current
    <3>2. /\ files' \in Seq(Seq(Nat)) /\ Len(files') = Len(files)
          /\ errors' \in Nat /\ lost' \in SUBSET Nat
      BY <3>1, WriteBufferType DEF FilesInv
    <3>3. m_file /\ \A s \in Threads : pc[s] # "close" /\ pc'[s] # "close"
      BY OneInside DEF TypeInv, FilesInv, Inside, PCs
    <3>4. files' # <<>> /\ retired = <<>>
      <4>1. Len(files') # 0
        BY <3>1, <3>2
      <4>2. retired = <<>>
        BY <3>3 DEF FilesInv
      <4>3. QED
        BY <4>1, <4>2
    <3>5. buffer' = <<>> /\ UNCHANGED <<m_file, m_writtenBytes, retired, names, accepted, alive>>
      OBVIOUS
    <3>6. (m_file <=> alive /\ files # <<>>)' /\ m_file' = TRUE
      BY <3>2, <3>3, <3>4, <3>5 DEF FilesInv
    <3>7. QED
      BY <3>2, <3>3, <3>4, <3>5, <3>6 DEF FilesInv
  <2>3. TimesInv'
    BY PeriodType DEF TypeInv, TimesInv
  <2>4. Mutex'
    BY OneInside DEF TypeInv, Mutex, Inside, PCs
  <2>5. LateInv'
    BY OneInside DEF TypeInv, TimesInv, LateInv, Inside, PCs
  <2>6. QED
    BY <2>1, <2>2, <2>3, <2>4, <2>5
<1>9. ASSUME NEW t \in Threads, AppendNothingDue(t) PROVE IInv'
  <2> USE <1>9 DEF AppendNothingDue, Goto, StillLate, IsDue
  <2>1. TypeInv'
    BY DEF TypeInv, PCs
  <2>2. FilesInv'
    BY OneInside DEF TypeInv, FilesInv, Inside, PCs
  <2>3. TimesInv'
    BY PeriodType DEF TypeInv, TimesInv
  <2>4. Mutex'
    BY OneInside DEF TypeInv, Mutex, Inside, PCs
  <2>5. LateInv'
    BY OneInside DEF TypeInv, TimesInv, LateInv, Inside, PCs
  <2>6. QED
    BY <2>1, <2>2, <2>3, <2>4, <2>5
<1>10. ASSUME NEW t \in Threads, RollOpen(t) PROVE IInv'
  <2> USE <1>10 DEF RollOpen, Goto, Roll, RollTimes
  <2>1. TypeInv'
    BY DEF TypeInv, PCs
  <2>2. FilesInv'
    <3>1. m_file /\ alive /\ files # <<>> /\ Len(files) >= 1
      BY DEF FilesInv, TypeInv
    <3>2. <<>> \in Seq(Nat)
      OBVIOUS
    <3>3. /\ files' \in Seq(Seq(Nat)) /\ Len(files') = Len(files) + 1 /\ files' # <<>>
          /\ files'[Len(files')] = <<>>
      <4>1. files \in Seq(Seq(Nat)) /\ files' = Append(files, <<>>)
        BY DEF FilesInv
      <4>2. QED
        BY <4>1, NewFileType
    <3>4. names' \in Seq(Names)
      BY AppendProperties DEF FilesInv
    <3>5. pc'[t] = "close"
      BY DEF TypeInv
    <3>6. /\ buffer' \in Seq(Nat) /\ retired' \in Seq(Nat)
          /\ m_file' = TRUE /\ m_writtenBytes' \in Nat
          /\ UNCHANGED <<accepted, errors, lost, alive>>
      BY <3>2 DEF FilesInv
    <3>7. Len(files') >= 2 /\ buffer' = <<>>
      BY <3>1, <3>3 DEF FilesInv
    <3>8. (m_file <=> alive /\ files # <<>>)'
      BY <3>1, <3>3, <3>6
    <3>9. QED
      BY <3>3, <3>4, <3>5, <3>6, <3>7, <3>8 DEF FilesInv
  <2>3. TimesInv'
    BY PeriodType DEF TypeInv, TimesInv
  <2>4. Mutex'
    BY OneInside DEF TypeInv, Mutex, Inside, PCs
  <2>5. LateInv'
    BY OneInside DEF TypeInv, TimesInv, LateInv, Inside, PCs
  <2>6. QED
    BY <2>1, <2>2, <2>3, <2>4, <2>5
<1>11. ASSUME NEW t \in Threads, RollRefused(t) PROVE IInv'
  <2> USE <1>11 DEF RollRefused, Goto, StillLate, IsDue
  <2>1. TypeInv'
    BY DEF TypeInv, PCs
  <2>2. FilesInv'
    BY OneInside DEF TypeInv, FilesInv, Inside, PCs
  <2>3. TimesInv'
    BY PeriodType DEF TypeInv, TimesInv
  <2>4. Mutex'
    BY OneInside DEF TypeInv, Mutex, Inside, PCs
  <2>5. LateInv'
    BY OneInside DEF TypeInv, TimesInv, LateInv, Inside, PCs
  <2>6. QED
    BY <2>1, <2>2, <2>3, <2>4, <2>5
<1>12. ASSUME NEW t \in Threads, RollClose(t) PROVE IInv'
  <2> USE <1>12 DEF RollClose, Goto
  <2>1. TypeInv'
    BY DEF TypeInv, PCs
  <2>2. FilesInv'
    <3>1. Current - 1 \in 1 .. Len(files)
      BY DEF FilesInv, TypeInv, Current
    <3>2. /\ files' \in Seq(Seq(Nat)) /\ Len(files') = Len(files)
          /\ errors' \in Nat /\ lost' \in SUBSET Nat
      BY <3>1, WriteBufferType DEF FilesInv
    <3>3. (\A s \in Threads : pc'[s] # "close") /\ m_file /\ buffer = <<>>
      BY OneInside DEF TypeInv, FilesInv, Inside, PCs
    <3>4. files' # <<>>
      BY <3>1, <3>2
    <3>5. retired' = <<>> /\ UNCHANGED <<m_file, m_writtenBytes, buffer, names, accepted, alive>>
      OBVIOUS
    <3>6. (m_file <=> alive /\ files # <<>>)' /\ m_file' = TRUE
      BY <3>2, <3>3, <3>4, <3>5 DEF FilesInv
    <3>7. QED
      BY <3>2, <3>3, <3>4, <3>5, <3>6 DEF FilesInv
  <2>3. TimesInv'
    BY PeriodType DEF TypeInv, TimesInv
  <2>4. Mutex'
    BY OneInside DEF TypeInv, Mutex, Inside, PCs
  <2>5. LateInv'
    BY OneInside DEF TypeInv, TimesInv, LateInv, Inside, PCs
  <2>6. QED
    BY <2>1, <2>2, <2>3, <2>4, <2>5
<1>13. ASSUME NEW t \in Threads, FlushCall(t) PROVE IInv'
  <2> USE <1>13 DEF FlushCall, Goto
  <2>1. TypeInv'
    BY DEF TypeInv, PCs
  <2>2. FilesInv'
    BY OneInside DEF TypeInv, FilesInv, Inside, PCs
  <2>3. TimesInv'
    BY PeriodType DEF TypeInv, TimesInv
  <2>4. Mutex'
    BY OneInside DEF TypeInv, Mutex, Inside, PCs
  <2>5. LateInv'
    BY OneInside DEF TypeInv, TimesInv, LateInv, Inside, PCs
  <2>6. QED
    BY <2>1, <2>2, <2>3, <2>4, <2>5
<1>14. ASSUME NEW t \in Threads, FlushEnter(t) PROVE IInv'
  <2> USE <1>14 DEF FlushEnter, Goto, Enter, lock
  <2>1. TypeInv'
    BY DEF TypeInv, PCs
  <2>2. FilesInv'
    BY OneInside DEF TypeInv, FilesInv, Inside, PCs
  <2>3. TimesInv'
    BY PeriodType DEF TypeInv, TimesInv
  <2>4. Mutex'
    BY OneInside DEF TypeInv, Mutex, Inside, PCs
  <2>5. LateInv'
    BY OneInside DEF TypeInv, TimesInv, LateInv, Inside, PCs
  <2>6. QED
    BY <2>1, <2>2, <2>3, <2>4, <2>5
<1>15. ASSUME NEW t \in Threads, Flush(t) PROVE IInv'
  <2> USE <1>15 DEF Flush, Goto, FlushEnds, FlushStream
  <2>1. TypeInv'
    BY DEF TypeInv, PCs
  <2>2. FilesInv'
    <3>1. Current \in 1 .. Len(files)
      BY DEF FilesInv, TypeInv, Current
    <3>2. /\ files' \in Seq(Seq(Nat)) /\ Len(files') = Len(files)
          /\ errors' \in Nat /\ lost' \in SUBSET Nat
      BY <3>1, WriteBufferType DEF FilesInv
    <3>3. m_file /\ \A s \in Threads : pc[s] # "close" /\ pc'[s] # "close"
      BY OneInside DEF TypeInv, FilesInv, Inside, PCs
    <3>4. files' # <<>> /\ retired = <<>>
      <4>1. Len(files') # 0
        BY <3>1, <3>2
      <4>2. retired = <<>>
        BY <3>3 DEF FilesInv
      <4>3. QED
        BY <4>1, <4>2
    <3>5. buffer' = <<>> /\ UNCHANGED <<m_file, m_writtenBytes, retired, names, accepted, alive>>
      OBVIOUS
    <3>6. (m_file <=> alive /\ files # <<>>)' /\ m_file' = TRUE
      BY <3>2, <3>3, <3>4, <3>5 DEF FilesInv
    <3>7. QED
      BY <3>2, <3>3, <3>4, <3>5, <3>6 DEF FilesInv
  <2>3. TimesInv'
    BY PeriodType DEF TypeInv, TimesInv
  <2>4. Mutex'
    BY OneInside DEF TypeInv, Mutex, Inside, PCs
  <2>5. LateInv'
    BY OneInside DEF TypeInv, TimesInv, LateInv, Inside, PCs
  <2>6. QED
    BY <2>1, <2>2, <2>3, <2>4, <2>5
<1>16. ASSUME NEW t \in Threads, Return(t) PROVE IInv'
  <2> USE <1>16 DEF Return, Goto, Leave, unlock
  <2>1. TypeInv'
    BY DEF TypeInv, PCs
  <2>2. FilesInv'
    BY OneInside DEF TypeInv, FilesInv, Inside, PCs
  <2>3. TimesInv'
    BY PeriodType DEF TypeInv, TimesInv
  <2>4. Mutex'
    BY OneInside DEF TypeInv, Mutex, Inside, PCs
  <2>5. LateInv'
    BY OneInside DEF TypeInv, TimesInv, LateInv, Inside, PCs
  <2>6. QED
    BY <2>1, <2>2, <2>3, <2>4, <2>5
<1>17. ASSUME Setup PROVE IInv'
  <2> USE <1>17 DEF Setup, Roll, RollTimes
  <2>1. TypeInv' /\ Mutex' /\ LateInv'
    BY DEF TypeInv, Mutex, LateInv
  <2>2. FilesInv'
    <3>1. alive /\ files = <<>> /\ \A t \in Threads : pc[t] = "idle"
      BY DEF FilesInv
    <3>2. <<>> \in Seq(Nat) /\ buffer = <<>>
      BY DEF FilesInv
    <3>3. files' \in Seq(Seq(Nat)) /\ files' # <<>>
      <4>1. files \in Seq(Seq(Nat)) /\ files' = Append(files, <<>>)
        BY DEF FilesInv
      <4>2. QED
        BY <4>1, NewFileType
    <3>4. names' \in Seq(Names)
      BY AppendProperties DEF FilesInv
    <3>5. /\ buffer' = <<>> /\ retired' = <<>> /\ m_file' = TRUE /\ m_writtenBytes' = 0
          /\ UNCHANGED <<accepted, errors, lost, alive, pc>>
      BY <3>2
    <3>6. QED
      BY <3>1, <3>2, <3>3, <3>4, <3>5 DEF FilesInv
  <2>3. TimesInv'
    BY PeriodType DEF TypeInv, TimesInv
  <2>4. QED
    BY <2>1, <2>2, <2>3
<1>18. ASSUME Tick PROVE IInv'
  <2> USE <1>18 DEF Tick
  <2>1. TypeInv' /\ Mutex' /\ LateInv'
    BY DEF TypeInv, Mutex, LateInv
  <2>2. FilesInv'
    BY DEF TypeInv, FilesInv
  <2>3. TimesInv'
    BY PeriodType DEF TypeInv, TimesInv
  <2>4. QED
    BY <2>1, <2>2, <2>3
<1>19. ASSUME SetBack PROVE IInv'
  <2> USE <1>19 DEF SetBack
  <2>1. TypeInv' /\ Mutex' /\ LateInv'
    BY DEF TypeInv, Mutex, LateInv
  <2>2. FilesInv'
    BY DEF TypeInv, FilesInv
  <2>3. TimesInv'
    BY PeriodType DEF TypeInv, TimesInv
  <2>4. QED
    BY <2>1, <2>2, <2>3
<1>20. ASSUME Crash PROVE IInv'
  <2> USE <1>20 DEF Crash
  <2>1. TypeInv' /\ Mutex' /\ LateInv'
    <3>1. TypeInv'
      <4>1. 0 \in 0 .. MaxLines /\ 0 \in 0 .. MaxFlushes
        OBVIOUS
      <4>2. /\ pc' \in [Threads -> PCs]
            /\ appends' \in [Threads -> 0 .. MaxLines]
            /\ flushes' \in [Threads -> 0 .. MaxFlushes]
        BY <4>1 DEF PCs
      <4>3. QED
        BY <4>2 DEF TypeInv
    <3>2. Mutex'
      BY DEF Mutex, Inside
    <3>3. LateInv'
      BY DEF LateInv
    <3>4. QED
      BY <3>1, <3>2, <3>3
  <2>2. FilesInv'
    <3>1. <<>> \in Seq(Nat)
      OBVIOUS
    <3>2. \A t \in Threads : pc'[t] = "idle"
      OBVIOUS
    <3>3. QED
      BY <3>1, <3>2 DEF FilesInv
  <2>3. TimesInv'
    BY PeriodType DEF TypeInv, TimesInv
  <2>4. QED
    BY <2>1, <2>2, <2>3
<1>21. CASE UNCHANGED vars
  BY <1>21 DEF vars, TypeInv, TimesInv, Mutex, FilesInv, LateInv
<1>22. QED
  BY <1>1, <1>2, <1>3, <1>4, <1>5, <1>6, <1>7, <1>8, <1>9, <1>10, <1>11, <1>12,
     <1>13, <1>14, <1>15, <1>16, <1>17, <1>18, <1>19, <1>20, <1>21
     DEF Next, AppendStep, AppendBody, FlushStep, RollFails

-----------------------------------------------------------------------------
\* The inductive invariant holds throughout every behavior.
THEOREM IInvHolds == Safety => []IInv
  BY InitIInv, NextIInv, PTL DEF Safety

\* The type of the state, with what the three times have to do with each other.
THEOREM TypeCorrect == Safety => []TypeOK
<1>1. IInv => TypeOK
  BY DEF IInv, TypeInv, TimesInv, FilesInv, TypeOK
<1>2. QED
  BY <1>1, IInvHolds, PTL

\* However many threads append and whatever the clock does, at most
\* m_checkEveryN appends in a row find a flush or a roll overdue, and the last
\* of them is about to make it.
THEOREM LateIsBounded == Safety => []StaleBound
<1>1. IInv => StaleBound
  BY LogFileAssumption DEF IInv, TypeInv, TimesInv, LateInv, StaleBound
<1>2. QED
  BY <1>1, IInvHolds, PTL

-----------------------------------------------------------------------------
(* The bytes.  They are numbered in the order in which the streams take      *)
(* them, so what has to be shown is that the files and then the buffers hold *)
(* them sorted.                                                              *)

Sorted(s) == \A i, j \in DOMAIN s : i < j => s[i] < s[j]

Below(A, B) == \A a \in A, b \in B : a < b

\* The elements of two sequences, one after the other.
LEMMA JoinRange ==
    ASSUME NEW a \in Seq(Nat), NEW b \in Seq(Nat)
    PROVE  a \o b \in Seq(Nat) /\ Range(a \o b) = Range(a) \cup Range(b)
<1> DEFINE c == a \o b
<1>1. /\ c \in Seq(Nat) /\ Len(c) = Len(a) + Len(b)
      /\ \A i \in 1 .. Len(a) : c[i] = a[i]
      /\ \A i \in 1 .. Len(b) : c[Len(a) + i] = b[i]
  BY ConcatProperties
<1>2. /\ Len(a) \in Nat /\ DOMAIN a = 1 .. Len(a)
      /\ Len(b) \in Nat /\ DOMAIN b = 1 .. Len(b) /\ DOMAIN c = 1 .. Len(c)
  OBVIOUS
<1> HIDE DEF c
<1>3. ASSUME NEW i \in DOMAIN c PROVE c[i] \in Range(a) \cup Range(b)
  <2>1. CASE i <= Len(a)
    BY <1>1, <1>2, <2>1 DEF Range
  <2>2. CASE i > Len(a)
    <3>1. i - Len(a) \in 1 .. Len(b) /\ i = Len(a) + (i - Len(a))
      BY <1>1, <1>2, <2>2
    <3>2. c[i] = b[i - Len(a)]
      BY <1>1, <3>1
    <3>3. QED
      BY <1>2, <3>1, <3>2 DEF Range
  <2>3. QED
    BY <1>1, <1>2, <2>1, <2>2
<1>4. ASSUME NEW i \in DOMAIN a PROVE a[i] \in Range(c)
  BY <1>1, <1>2 DEF Range
<1>5. ASSUME NEW i \in DOMAIN b PROVE b[i] \in Range(c)
  <2>1. Len(a) + i \in DOMAIN c /\ c[Len(a) + i] = b[i]
    BY <1>1, <1>2
  <2>2. QED
    BY <2>1 DEF Range
<1>6. Range(c) = Range(a) \cup Range(b)
  BY <1>3, <1>4, <1>5 DEF Range
<1>7. QED
  BY <1>1, <1>6 DEF c

\* Two sorted sequences, of which the second holds greater numbers.
LEMMA JoinSorted ==
    ASSUME NEW a \in Seq(Nat), NEW b \in Seq(Nat), Sorted(a), Sorted(b),
           Below(Range(a), Range(b))
    PROVE  Sorted(a \o b)
<1> DEFINE c == a \o b
<1>1. /\ c \in Seq(Nat) /\ Len(c) = Len(a) + Len(b)
      /\ \A i \in 1 .. Len(a) : c[i] = a[i]
      /\ \A i \in 1 .. Len(b) : c[Len(a) + i] = b[i]
  BY ConcatProperties
<1>2. /\ Len(a) \in Nat /\ DOMAIN a = 1 .. Len(a)
      /\ Len(b) \in Nat /\ DOMAIN b = 1 .. Len(b) /\ DOMAIN c = 1 .. Len(c)
  OBVIOUS
<1> HIDE DEF c
<1>3. ASSUME NEW i \in DOMAIN c, i > Len(a)
      PROVE  i - Len(a) \in DOMAIN b /\ c[i] = b[i - Len(a)]
  <2>1. i - Len(a) \in 1 .. Len(b) /\ i = Len(a) + (i - Len(a))
    BY <1>1, <1>2, <1>3
  <2>2. QED
    BY <1>1, <1>2, <2>1
<1>4. ASSUME NEW i \in DOMAIN c, NEW j \in DOMAIN c, i < j PROVE c[i] < c[j]
  <2>1. CASE j <= Len(a)
    <3>1. i \in DOMAIN a /\ j \in DOMAIN a /\ c[i] = a[i] /\ c[j] = a[j]
      BY <1>1, <1>2, <1>4, <2>1
    <3>2. QED
      BY <1>4, <3>1 DEF Sorted
  <2>2. CASE i <= Len(a) /\ j > Len(a)
    <3>1. i \in DOMAIN a /\ c[i] = a[i]
      BY <1>1, <1>2, <2>2
    <3>2. c[i] \in Range(a) /\ c[j] \in Range(b)
      BY <1>3, <2>2, <3>1 DEF Range
    <3>3. QED
      BY <3>2 DEF Below
  <2>3. CASE i > Len(a)
    <3>1. j > Len(a) /\ i - Len(a) < j - Len(a)
      BY <1>1, <1>2, <1>4, <2>3
    <3>2. QED
      BY <1>3, <2>3, <3>1 DEF Sorted
  <2>4. QED
    BY <1>1, <1>2, <2>1, <2>2, <2>3
<1>5. QED
  BY <1>4 DEF Sorted, c

\* The two parts of a sorted sequence: the numbers up to one of them, and the
\* numbers after it.
LEMMA CutSorted ==
    ASSUME NEW s \in Seq(Nat), NEW n \in 0 .. Len(s), Sorted(s)
    PROVE  /\ Sorted(First(s, n)) /\ Sorted(Rest(s, n))
           /\ Range(s) = Range(First(s, n)) \cup Range(Rest(s, n))
           /\ Below(Range(First(s, n)), Range(Rest(s, n)))
<1> DEFINE a == First(s, n)
           b == Rest(s, n)
<1>1. /\ a \in Seq(Nat) /\ Len(a) = n /\ \A i \in 1 .. n : a[i] = s[i]
      /\ b \in Seq(Nat) /\ Len(b) = Len(s) - n /\ \A i \in 1 .. Len(s) - n : b[i] = s[n + i]
  BY CutType
<1> HIDE DEF a, b
<1>2. /\ Len(s) \in Nat /\ DOMAIN s = 1 .. Len(s)
      /\ DOMAIN a = 1 .. n /\ DOMAIN b = 1 .. Len(s) - n
  BY <1>1
<1>3. Sorted(a)
  <2>1. SUFFICES ASSUME NEW i \in DOMAIN a, NEW j \in DOMAIN a, i < j PROVE a[i] < a[j]
    BY DEF Sorted
  <2>2. i \in DOMAIN s /\ j \in DOMAIN s
    BY <1>2, <2>1
  <2>3. QED
    BY <1>1, <1>2, <2>1, <2>2 DEF Sorted
<1>4. Sorted(b)
  <2>1. SUFFICES ASSUME NEW i \in DOMAIN b, NEW j \in DOMAIN b, i < j PROVE b[i] < b[j]
    BY DEF Sorted
  <2>2. n + i \in DOMAIN s /\ n + j \in DOMAIN s /\ n + i < n + j
    BY <1>2, <2>1
  <2>3. QED
    BY <1>1, <1>2, <2>2 DEF Sorted
<1>5. Range(s) \subseteq Range(a) \cup Range(b)
  <2>1. ASSUME NEW i \in DOMAIN s PROVE s[i] \in Range(a) \cup Range(b)
    <3>1. CASE i <= n
      <4>1. i \in DOMAIN a /\ a[i] = s[i]
        BY <1>1, <1>2, <3>1
      <4>2. QED
        BY <4>1 DEF Range
    <3>2. CASE i > n
      <4>1. i - n \in DOMAIN b /\ n + (i - n) = i
        BY <1>1, <1>2, <3>2
      <4>2. b[i - n] = s[i]
        BY <1>1, <1>2, <4>1
      <4>3. QED
        BY <4>1, <4>2 DEF Range
    <3>3. QED
      BY <1>2, <3>1, <3>2
  <2>2. QED
    BY <2>1 DEF Range
<1>6. \A i \in DOMAIN a : i \in DOMAIN s /\ a[i] = s[i]
  BY <1>1, <1>2
<1>7. ASSUME NEW i \in DOMAIN b PROVE n + i \in DOMAIN s /\ b[i] = s[n + i]
  <2>1. n + i \in 1 .. Len(s)
    BY <1>2
  <2>2. QED
    BY <1>1, <1>2, <2>1
<1>8. Range(a) \cup Range(b) \subseteq Range(s)
  BY <1>6, <1>7 DEF Range
<1>9. Below(Range(a), Range(b))
  <2>1. SUFFICES ASSUME NEW i \in DOMAIN a, NEW j \in DOMAIN b PROVE a[i] < b[j]
    BY DEF Below, Range
  <2>2. i < n + j
    BY <1>2
  <2>3. QED
    BY <1>6, <1>7, <2>2 DEF Sorted
<1>10. QED
  BY <1>3, <1>4, <1>5, <1>8, <1>9 DEF a, b

\* The bytes a stream takes next, and those of them after the first n.
LEMMA NextBytesSorted ==
    ASSUME accepted \in Nat, NEW n \in Nat
    PROVE  Sorted(NextBytes(n)) /\ Range(NextBytes(n)) = accepted + 1 .. accepted + n
<1> DEFINE s == NextBytes(n)
<1>1. s \in Seq(Nat) /\ Len(s) = n /\ \A i \in 1 .. n : s[i] = accepted + i
  BY NextBytesType
<1> HIDE DEF s
<1>2. DOMAIN s = 1 .. n
  BY <1>1
<1>3. Sorted(s)
  BY <1>1, <1>2 DEF Sorted
<1>4. ASSUME NEW x \in accepted + 1 .. accepted + n PROVE x \in Range(s)
  <2>1. x - accepted \in DOMAIN s /\ s[x - accepted] = x
    BY <1>1, <1>2
  <2>2. QED
    BY <2>1 DEF Range
<1>5. ASSUME NEW i \in DOMAIN s PROVE s[i] \in accepted + 1 .. accepted + n
  BY <1>1, <1>2
<1>6. Range(s) = accepted + 1 .. accepted + n
  BY <1>4, <1>5 DEF Range
<1>7. QED
  BY <1>3, <1>6 DEF s

LEMMA MessageSorted ==
    ASSUME accepted \in Nat, NEW k \in Nat, NEW m \in Nat
    PROVE  /\ Rest(NextBytes(k + m), k) \in Seq(Nat) /\ Sorted(Rest(NextBytes(k + m), k))
           /\ Range(Rest(NextBytes(k + m), k)) = accepted + k + 1 .. accepted + k + m
<1> DEFINE s == NextBytes(k + m)
           r == Rest(s, k)
<1>1. k + m \in Nat
  OBVIOUS
<1>2. s \in Seq(Nat) /\ Len(s) = k + m /\ \A i \in 1 .. k + m : s[i] = accepted + i
  BY <1>1, NextBytesType
<1>3. Sorted(s) /\ k \in 0 .. Len(s)
  BY <1>1, <1>2, NextBytesSorted
<1> HIDE DEF s
<1>4. /\ r \in Seq(Nat) /\ Sorted(r) /\ Len(r) = m
      /\ \A i \in 1 .. m : r[i] = s[k + i]
  <2>1. r \in Seq(Nat) /\ Len(r) = Len(s) - k /\ \A i \in 1 .. Len(s) - k : r[i] = s[k + i]
    BY <1>2, <1>3, CutType
  <2>2. Len(s) - k = m
    BY <1>2
  <2>3. Sorted(r)
    BY <1>2, <1>3, CutSorted
  <2>4. QED
    BY <2>1, <2>2, <2>3
<1> HIDE DEF r
<1>5. DOMAIN r = 1 .. m /\ \A i \in 1 .. m : r[i] = accepted + k + i
  <2>1. \A i \in 1 .. m : k + i \in 1 .. k + m
    OBVIOUS
  <2>2. QED
    BY <1>2, <1>4, <2>1
<1>6. ASSUME NEW x \in accepted + k + 1 .. accepted + k + m PROVE x \in Range(r)
  <2>1. x - (accepted + k) \in DOMAIN r /\ r[x - (accepted + k)] = x
    BY <1>5
  <2>2. QED
    BY <2>1 DEF Range
<1>7. ASSUME NEW i \in DOMAIN r PROVE r[i] \in accepted + k + 1 .. accepted + k + m
  BY <1>5
<1>8. Range(r) = accepted + k + 1 .. accepted + k + m
  BY <1>6, <1>7 DEF Range
<1>9. QED
  BY <1>4, <1>8 DEF r, s

\* Where a sorted sequence is cut, as a number.
LEMMA CutAtNumber ==
    ASSUME NEW N \in Nat, NEW s \in Seq(Nat), Sorted(s), Range(s) \subseteq 1 .. N,
           NEW n \in 0 .. Len(s)
    PROVE  \E last \in 0 .. N :
               /\ Range(First(s, n)) = {x \in Range(s) : x <= last}
               /\ Range(Rest(s, n)) = {x \in Range(s) : x > last}
<1>1. /\ Range(s) = Range(First(s, n)) \cup Range(Rest(s, n))
      /\ Below(Range(First(s, n)), Range(Rest(s, n)))
  BY CutSorted
<1>2. ASSUME NEW last \in 0 .. N, \A x \in Range(First(s, n)) : x <= last,
             \A x \in Range(Rest(s, n)) : x > last
      PROVE  /\ Range(First(s, n)) = {x \in Range(s) : x <= last}
             /\ Range(Rest(s, n)) = {x \in Range(s) : x > last}
  <2>1. \A x \in Range(s) : x \in Nat /\ last \in Nat /\ ~(x <= last /\ x > last)
    OBVIOUS
  <2>2. QED
    BY <1>1, <1>2, <2>1
<1>3. /\ Len(First(s, n)) = n /\ First(s, n) \in Seq(Nat)
      /\ \A i \in 1 .. n : First(s, n)[i] = s[i]
  BY CutType
<1>4. DOMAIN s = 1 .. Len(s) /\ DOMAIN First(s, n) = 1 .. n
  BY <1>3
<1>5. CASE n = 0
  <2>1. \A x \in Range(First(s, n)) : x <= 0
    BY <1>4, <1>5 DEF Range
  <2>2. \A x \in Range(Rest(s, n)) : x > 0
    BY <1>1
  <2>3. QED
    BY <1>2, <2>1, <2>2
<1>6. CASE n # 0
  <2>1. n \in DOMAIN s /\ n \in DOMAIN First(s, n) /\ s[n] \in 1 .. N
    <3>1. n \in 1 .. Len(s) /\ n \in 1 .. n
      BY <1>6
    <3>2. s[n] \in Range(s)
      BY <1>4, <3>1 DEF Range
    <3>3. QED
      BY <1>4, <3>1, <3>2
  <2>2. s[n] \in Range(First(s, n))
    BY <1>3, <1>4, <2>1 DEF Range
  <2>3. \A x \in Range(Rest(s, n)) : x > s[n]
    BY <1>1, <2>2 DEF Below
  <2>4. \A i \in 1 .. n : s[i] <= s[n]
    <3>1. TAKE i \in 1 .. n
    <3>2. i \in DOMAIN s /\ s[i] \in Nat /\ s[n] \in Nat
      BY <1>4, <2>1
    <3>3. i = n \/ i < n
      OBVIOUS
    <3>4. QED
      BY <2>1, <3>2, <3>3 DEF Sorted
  <2>5. \A x \in Range(First(s, n)) : x <= s[n]
    BY <1>3, <1>4, <2>4 DEF Range
  <2>6. s[n] \in 0 .. N
    BY <2>1
  <2>7. QED
    BY <1>2, <2>3, <2>5, <2>6
<1>7. QED
  BY <1>5, <1>6

-----------------------------------------------------------------------------
(* What a step does to the bytes is one of four things, or nothing;          *)
(* everything said about them below rests on this.                           *)

\* The bytes that wait to be written when a stream has taken k more.
Pend(k) == (retired \o buffer) \o NextBytes(k)

\* The first n of them are written ...
Moves ==
    \E k \in Nat : \E n \in 0 .. Len(Pend(k)) :
        /\ OnDisk' = OnDisk \o First(Pend(k), n)
        /\ retired' = <<>> /\ buffer' = Rest(Pend(k), n)
        /\ accepted' = accepted + k
        /\ UNCHANGED <<errors, lost, alive>>

\* ... and the others dropped, for a message of m bytes.
Drops ==
    \E k \in Nat, m \in Nat : \E n \in 0 .. Len(Pend(k)) :
        /\ OnDisk' = OnDisk \o First(Pend(k), n)
        /\ retired' = <<>> /\ buffer' = Rest(NextBytes(k + m), k)
        /\ accepted' = accepted + k + m
        /\ lost' = lost \cup Range(Rest(Pend(k), n)) /\ errors' = errors + 1
        /\ UNCHANGED alive

\* A roll opens a file.
Retires ==
    /\ retired = <<>>
    /\ retired' = buffer /\ buffer' = <<>>
    /\ UNCHANGED <<OnDisk, byteVars, alive>>

\* The process dies.
Dies ==
    /\ alive' = FALSE
    /\ buffer' = <<>> /\ retired' = <<>>
    /\ UNCHANGED <<OnDisk, byteVars>>

Rests == UNCHANGED <<OnDisk, retired, buffer, byteVars, alive>>

\* The files hold bytes, too, one after the other.
LEMMA OnDiskType == FilesInv => OnDisk \in Seq(Nat)
  BY FlattenAppend DEF FilesInv, OnDisk

LEMMA PendType ==
    ASSUME FilesInv, NEW k \in Nat
    PROVE  Pend(k) \in Seq(Nat)
<1>1. retired \o buffer \in Seq(Nat) /\ accepted \in Nat
  BY ConcatProperties DEF FilesInv
<1> DEFINE b == retired \o buffer
<1> HIDE DEF b
<1>2. b \o NextBytes(k) \in Seq(Nat)
  BY <1>1, PendingType DEF b
<1>3. QED
  BY <1>2 DEF Pend, b

\* With nothing retired, it is the buffer that waits; with nothing new, the
\* two buffers.
LEMMA PendIs ==
    ASSUME FilesInv
    PROVE  /\ retired = <<>> => \A k \in Nat : Pend(k) = buffer \o NextBytes(k)
           /\ Pend(0) = retired \o buffer
           /\ retired = <<>> => Pend(0) = buffer
           /\ buffer = <<>> => Pend(0) = retired
           /\ Rest(NextBytes(0 + 0), 0) = <<>>
<1> DEFINE Q == Seq(Nat)
<1>1. \A a \in Q : a \o <<>> = a /\ <<>> \o a = a
  BY ConcatEmptySeq
<1>2. retired \in Q /\ buffer \in Q /\ retired \o buffer \in Q
  BY ConcatProperties DEF FilesInv
<1>3. NextBytes(0) = <<>>
  <2>1. NextBytes(0) \in Seq(Nat) /\ Len(NextBytes(0)) = 0
    BY NextBytesType DEF FilesInv
  <2>2. QED
    BY <2>1
<1>4. Rest(NextBytes(0 + 0), 0) = <<>>
  BY <1>3 DEF Rest
<1> HIDE DEF Q
<1>5. QED
  BY <1>1, <1>2, <1>3, <1>4 DEF Pend

\* Writing to the file that m_file writes to ...
LEMMA WritesLast ==
    ASSUME FilesInv, m_file, NEW bytes \in Seq(Nat), WriteOut(Current, bytes)
    PROVE  OnDisk' = OnDisk \o bytes
<1>1. files \in Seq(Seq(Nat)) /\ Len(files) >= 1
  BY DEF FilesInv
<1>2. files' = [files EXCEPT ![Len(files)] = @ \o bytes]
  BY DEF WriteOut, Current
<1>3. QED
  BY <1>1, <1>2, FlattenLast DEF OnDisk

\* ... and to the one before it.
LEMMA WritesNextToLast ==
    ASSUME FilesInv, Len(files) >= 2, files[Len(files)] = <<>>,
           NEW bytes \in Seq(Nat), WriteOut(Current - 1, bytes)
    PROVE  OnDisk' = OnDisk \o bytes
<1>1. files \in Seq(Seq(Nat))
  BY DEF FilesInv
<1>2. files' = [files EXCEPT ![Len(files) - 1] = @ \o bytes]
  BY DEF WriteOut, Current
<1>3. QED
  BY <1>1, <1>2, FlattenNextToLast DEF OnDisk

\* Nothing is retired while a thread is anywhere in the mutex but at the close.
LEMMA NoRetired ==
    ASSUME IInv, NEW t \in Threads, pc[t] \in Inside \ {"close"}
    PROVE  retired = <<>> /\ m_file
  BY OneInside DEF IInv, FilesInv, Inside, PCs

\* Emptying a buffer that is all that waits, to a file where that adds to the
\* end of everything.
LEMMA WriteBufferStep ==
    ASSUME FilesInv, NEW i, NEW bytes \in Seq(Nat), bytes = Pend(0), WriteBuffer(i, bytes),
           \A b \in Seq(Nat) : WriteOut(i, b) => OnDisk' = OnDisk \o b,
           buffer' = <<>>, retired' = <<>>, UNCHANGED <<accepted, alive>>
    PROVE  Moves \/ Drops
<1>1. accepted \in Nat /\ accepted + 0 = accepted /\ accepted + 0 + 0 = accepted
  BY DEF FilesInv
<1>2. CASE Written(i, bytes)
  <2>1. Len(bytes) \in 0 .. Len(bytes) /\ First(bytes, Len(bytes)) = bytes
    BY FirstAll
  <2>2. Rest(bytes, Len(bytes)) = <<>>
    BY DEF Rest
  <2>3. OnDisk' = OnDisk \o First(bytes, Len(bytes))
    BY <1>2, <2>1 DEF Written
  <2>4. UNCHANGED <<errors, lost>>
    BY <1>2 DEF Written
  <2>5. Moves
    BY <1>1, <2>1, <2>2, <2>3, <2>4 DEF Moves
  <2>6. QED
    BY <2>5
<1>3. CASE \E n \in 0 .. Len(bytes) - 1 : Fails(i, bytes, n)
  <2>1. PICK n \in 0 .. Len(bytes) - 1 : Fails(i, bytes, n)
    BY <1>3
  <2>2. n \in 0 .. Len(bytes) /\ First(bytes, n) \in Seq(Nat)
    <3>1. n \in 0 .. Len(bytes)
      OBVIOUS
    <3>2. QED
      BY <3>1, CutType
  <2>3. OnDisk' = OnDisk \o First(bytes, n)
    BY <2>1, <2>2 DEF Fails
  <2>4. lost' = lost \cup Range(Rest(bytes, n)) /\ errors' = errors + 1
    BY <2>1 DEF Fails
  <2>5. Rest(NextBytes(0 + 0), 0) = <<>>
    BY PendIs
  <2>6. Drops
    BY <1>1, <2>2, <2>3, <2>4, <2>5 DEF Drops
  <2>7. QED
    BY <2>6
<1>4. QED
  BY <1>2, <1>3 DEF WriteBuffer

\* So does a flush of the stream, by whatever statement.
LEMMA FlushStreamStep ==
    ASSUME IInv, NEW t \in Threads, pc[t] \in Inside \ {"close"}, FlushStream, UNCHANGED alive
    PROVE  (Moves \/ Drops) /\ buffer' = <<>> /\ retired' = <<>>
<1>1. FilesInv /\ m_file /\ retired = <<>>
  BY NoRetired DEF IInv
<1>2. buffer \in Seq(Nat) /\ buffer = Pend(0)
  BY <1>1, PendIs DEF FilesInv
<1>3. \A b \in Seq(Nat) : WriteOut(Current, b) => OnDisk' = OnDisk \o b
  BY <1>1, WritesLast
<1>4. WriteBuffer(Current, buffer) /\ buffer' = <<>> /\ UNCHANGED <<retired, accepted, alive>>
  BY DEF FlushStream
<1>5. QED
  BY <1>1, <1>2, <1>3, <1>4, WriteBufferStep

\* The members' part of rollFile leaves the files' contents alone.
LEMMA RollRetires ==
    ASSUME FilesInv, retired = <<>>, Roll, UNCHANGED <<byteVars, alive>>
    PROVE  Retires
<1>1. files \in Seq(Seq(Nat)) /\ files' = Append(files, <<>>)
  BY DEF FilesInv, Roll
<1>2. OnDisk' = OnDisk
  BY <1>1, FlattenOpen DEF OnDisk
<1>3. QED
  BY <1>2 DEF Retires, Roll

\* Every step is one of the four, by a process that is alive, or does nothing
\* to the bytes.
LEMMA StepOfBytes ==
    IInv /\ [Next]_vars =>
        \/ alive /\ (Moves \/ Drops \/ Retires \/ Dies)
        \/ Rests
<1> SUFFICES ASSUME IInv, [Next]_vars
             PROVE  \/ alive /\ (Moves \/ Drops \/ Retires \/ Dies)
                    \/ Rests
  OBVIOUS
<1>0. TypeInv /\ FilesInv /\ Mutex
  BY DEF IInv
<1>1. ASSUME NEW t \in Threads, AppendWrite(t), alive PROVE Moves
  <2>1. retired = <<>> /\ m_file /\ accepted \in Nat /\ buffer \in Seq(Nat)
    BY <1>0, <1>1, NoRetired DEF AppendWrite, Goto, Inside, PCs, FilesInv
  <2>2. PICK len \in Lengths : \E n \in 0 .. Len(buffer) + len :
            /\ WriteOut(Current, First(buffer \o NextBytes(len), n))
            /\ buffer' = Rest(buffer \o NextBytes(len), n)
            /\ accepted' = accepted + len
    BY <1>1 DEF AppendWrite
  <2>3. len \in Nat
    BY LogFileAssumption
  <2>4. /\ Pend(len) = buffer \o NextBytes(len) /\ Pend(len) \in Seq(Nat)
        /\ Len(Pend(len)) = Len(buffer) + len
    BY <1>0, <2>1, <2>3, PendIs, PendingType
  <2>5. PICK n \in 0 .. Len(Pend(len)) :
            WriteOut(Current, First(Pend(len), n)) /\ buffer' = Rest(Pend(len), n)
    BY <2>2, <2>4
  <2>6. OnDisk' = OnDisk \o First(Pend(len), n)
    <3>1. First(Pend(len), n) \in Seq(Nat)
      BY <2>4, CutType
    <3>2. QED
      BY <1>0, <2>1, <2>5, <3>1, WritesLast
  <2>7. UNCHANGED <<retired, errors, lost, alive>>
    BY <1>1 DEF AppendWrite
  <2>8. QED
    BY <2>1, <2>2, <2>3, <2>5, <2>6, <2>7 DEF Moves
<1>2. ASSUME NEW t \in Threads, AppendError(t), alive PROVE Drops
  <2>1. retired = <<>> /\ m_file /\ accepted \in Nat /\ buffer \in Seq(Nat)
    BY <1>0, <1>2, NoRetired DEF AppendError, Goto, Inside, PCs, FilesInv
  <2>2. PICK len \in Lengths : \E taken \in 0 .. len - 1 : \E n \in 0 .. Len(buffer) + taken :
            /\ Fails(Current, buffer \o NextBytes(taken), n)
            /\ buffer' = Rest(NextBytes(taken + MessageSize), taken)
            /\ accepted' = accepted + taken + MessageSize
    BY <1>2 DEF AppendError
  <2>3. PICK taken \in 0 .. len - 1 : \E n \in 0 .. Len(buffer) + taken :
            /\ Fails(Current, buffer \o NextBytes(taken), n)
            /\ buffer' = Rest(NextBytes(taken + MessageSize), taken)
            /\ accepted' = accepted + taken + MessageSize
    BY <2>2
  <2>4. taken \in Nat /\ MessageSize \in Nat
    BY LogFileAssumption
  <2>5. /\ Pend(taken) = buffer \o NextBytes(taken) /\ Pend(taken) \in Seq(Nat)
        /\ Len(Pend(taken)) = Len(buffer) + taken
    BY <1>0, <2>1, <2>4, PendIs, PendingType
  <2>6. PICK n \in 0 .. Len(Pend(taken)) : Fails(Current, Pend(taken), n)
    BY <2>3, <2>5
  <2>7. OnDisk' = OnDisk \o First(Pend(taken), n)
    <3>1. First(Pend(taken), n) \in Seq(Nat)
      BY <2>5, CutType
    <3>2. QED
      BY <1>0, <2>1, <2>6, <3>1, WritesLast DEF Fails
  <2>8. lost' = lost \cup Range(Rest(Pend(taken), n)) /\ errors' = errors + 1
    BY <2>6 DEF Fails
  <2>9. UNCHANGED <<retired, alive>>
    BY <1>2 DEF AppendError
  <2>10. QED
    BY <2>1, <2>3, <2>4, <2>6, <2>7, <2>8, <2>9 DEF Drops
<1>3. ASSUME NEW t \in Threads, AppendFlush(t), alive PROVE Moves \/ Drops
  <2>1. pc[t] \in Inside \ {"close"} /\ FlushStream /\ UNCHANGED alive
    BY <1>3 DEF AppendFlush, Goto, Inside, PCs
  <2>2. QED
    BY <2>1, FlushStreamStep
<1>4. ASSUME NEW t \in Threads, Flush(t), alive PROVE Moves \/ Drops
  <2>1. pc[t] \in Inside \ {"close"} /\ FlushStream /\ UNCHANGED alive
    BY <1>4 DEF Flush, FlushEnds, Goto, Inside, PCs
  <2>2. QED
    BY <2>1, FlushStreamStep
<1>5. ASSUME NEW t \in Threads, RollOpen(t), alive PROVE Retires
  <2>1. pc[t] \in Inside \ {"close"} /\ Roll /\ UNCHANGED <<byteVars, alive>>
    BY <1>5 DEF RollOpen, Goto, Inside, PCs
  <2>2. QED
    BY <1>0, <2>1, NoRetired, RollRetires
<1>6. ASSUME NEW t \in Threads, RollClose(t), alive PROVE Moves \/ Drops
  <2>1. Len(files) >= 2 /\ files[Len(files)] = <<>> /\ retired \in Seq(Nat) /\ buffer = <<>>
    BY <1>0, <1>6 DEF FilesInv, RollClose, Goto
  <2>2. retired = Pend(0)
    BY <1>0, <2>1, PendIs
  <2>3. \A b \in Seq(Nat) : WriteOut(Current - 1, b) => OnDisk' = OnDisk \o b
    BY <1>0, <2>1, WritesNextToLast
  <2>4. /\ WriteBuffer(Current - 1, retired) /\ retired' = <<>>
        /\ UNCHANGED <<buffer, accepted, alive>>
    BY <1>6 DEF RollClose
  <2>5. QED
    BY <1>0, <2>1, <2>2, <2>3, <2>4, WriteBufferStep
<1>7. ASSUME Setup PROVE Retires
  <2>1. retired = <<>>
    BY <1>0, <1>7 DEF Setup, FilesInv
  <2>2. QED
    BY <1>0, <1>7, <2>1, RollRetires DEF Setup
<1>8. ASSUME Crash PROVE alive /\ Dies
  BY <1>8 DEF Crash, Dies, OnDisk
<1>9. ASSUME NEW t \in Threads,
             \/ AppendCall(t) \/ AppendEnter(t) \/ AppendOversize(t) \/ AppendCount(t)
             \/ AppendNewPeriod(t) \/ AppendNothingDue(t) \/ RollRefused(t)
             \/ FlushCall(t) \/ FlushEnter(t) \/ Return(t)
      PROVE  Rests
  BY <1>9 DEF AppendCall, AppendEnter, AppendOversize, AppendCount, AppendNewPeriod,
              AppendNothingDue, RollRefused, FlushCall, FlushEnter, Return, Rests, OnDisk,
              fileVars
<1>10. ASSUME Tick \/ SetBack PROVE Rests
  BY <1>10 DEF Tick, SetBack, Rests, OnDisk, fileVars
<1>11. CASE UNCHANGED vars
  BY <1>11 DEF vars, fileVars, Rests, OnDisk
<1>12. CASE Next
  BY <1>1, <1>2, <1>3, <1>4, <1>5, <1>6, <1>7, <1>8, <1>9, <1>10, <1>12
     DEF Next, AppendStep, AppendBody, FlushStep, Setup, RollFails
<1>13. QED
  BY <1>11, <1>12

-----------------------------------------------------------------------------
\* What the files and the two buffers hold of the bytes that have been accepted.
OrderInv ==
    /\ Sorted(OnDisk) /\ Sorted(retired) /\ Sorted(buffer)
    /\ Below(Range(OnDisk), Range(retired))
    /\ Below(Range(OnDisk), Range(buffer))
    /\ Below(Range(retired), Range(buffer))
    /\ Range(OnDisk) \cup Range(retired) \cup Range(buffer) \subseteq (1 .. accepted) \ lost
    /\ lost \subseteq 1 .. accepted
    /\ alive => 1 .. accepted \subseteq
                    Range(OnDisk) \cup Range(retired) \cup Range(buffer) \cup lost
    /\ errors = 0 => lost = {}

\* What waits to be written is sorted, comes after what has been written, and
\* is all there is, but for the bytes that are lost.
LEMMA PendSorted ==
    ASSUME FilesInv, OrderInv, NEW k \in Nat
    PROVE  /\ Pend(k) \in Seq(Nat) /\ Sorted(Pend(k))
           /\ Range(Pend(k)) =
                  Range(retired) \cup Range(buffer) \cup (accepted + 1 .. accepted + k)
           /\ Range(Pend(k)) \subseteq (1 .. accepted + k) \ lost
           /\ Below(Range(OnDisk), Range(Pend(k)))
<1> DEFINE A == Range(retired)
           B == Range(buffer)
           C == accepted + 1 .. accepted + k
           D == Range(OnDisk)
<1>1. /\ accepted \in Nat /\ retired \in Seq(Nat) /\ buffer \in Seq(Nat)
      /\ NextBytes(k) \in Seq(Nat) /\ Sorted(NextBytes(k)) /\ Range(NextBytes(k)) = C
  BY NextBytesType, NextBytesSorted DEF FilesInv
<1>2. D \cup A \cup B \subseteq (1 .. accepted) \ lost /\ lost \subseteq 1 .. accepted
  BY DEF OrderInv
<1>3. Below(D, A) /\ Below(D, B) /\ Below(A, B) /\ Sorted(retired) /\ Sorted(buffer)
  BY DEF OrderInv
<1>4. \A x \in 1 .. accepted : \A y \in C : x < y
  BY <1>1
<1> DEFINE ab == retired \o buffer
<1>5. ab \in Seq(Nat) /\ Range(ab) = A \cup B /\ Sorted(ab)
  BY <1>1, <1>3, JoinRange, JoinSorted
<1>6. Below(Range(ab), C) /\ Below(D, C)
  <2> HIDE DEF ab, A, B, C, D
  <2> QED
    BY <1>2, <1>4, <1>5 DEF Below
<1>7. Pend(k) = ab \o NextBytes(k)
  BY DEF Pend
<1>8. Pend(k) \in Seq(Nat) /\ Sorted(Pend(k)) /\ Range(Pend(k)) = A \cup B \cup C
  <2> HIDE DEF ab, A, B, C, D
  <2>1. ab \o NextBytes(k) \in Seq(Nat) /\ Range(ab \o NextBytes(k)) = Range(ab) \cup C
    BY <1>1, <1>5, JoinRange
  <2>2. Sorted(ab \o NextBytes(k))
    BY <1>1, <1>5, <1>6, JoinSorted
  <2>3. QED
    BY <1>5, <1>7, <2>1, <2>2
<1>9. Below(D, Range(Pend(k)))
  <2> HIDE DEF ab, A, B, C, D
  <2> QED
    BY <1>3, <1>6, <1>8 DEF Below
<1>10. Range(Pend(k)) \subseteq (1 .. accepted + k) \ lost
  <2>1. \A x \in 1 .. accepted : x \in 1 .. accepted + k
    BY <1>1
  <2>2. \A x \in C : x \in 1 .. accepted + k /\ x \notin 1 .. accepted
    BY <1>1
  <2> HIDE DEF ab, A, B, C, D
  <2>3. QED
    BY <1>2, <1>8, <2>1, <2>2
<1>11. QED
  BY <1>8, <1>9, <1>10

\* Before the first append there is nothing anywhere.
LEMMA InitOrderInv == Init => OrderInv
<1>1. Init => OnDisk = <<>> /\ retired = <<>> /\ buffer = <<>>
  BY DEF Init, OnDisk, FlattenSeq
<1>2. Sorted(<<>>) /\ Range(<<>>) = {}
  BY DEF Sorted, Range
<1>3. Init => accepted = 0 /\ lost = {}
  BY DEF Init
<1>4. QED
  BY <1>1, <1>2, <1>3 DEF OrderInv, Below

\* No step breaks the order of the bytes: what moves, moves from the front of
\* one place to the end of the place before it.
LEMMA NextOrderInv == IInv /\ OrderInv /\ [Next]_vars => OrderInv'
<1> SUFFICES ASSUME IInv, OrderInv, [Next]_vars PROVE OrderInv'
  OBVIOUS
<1>1. /\ OnDisk \in Seq(Nat) /\ retired \in Seq(Nat) /\ buffer \in Seq(Nat)
      /\ accepted \in Nat /\ errors \in Nat /\ FilesInv
  BY OnDiskType DEF IInv, FilesInv
<1>2. Sorted(<<>>) /\ Range(<<>>) = {} /\ \A A : Below(A, {}) /\ Below({}, A)
  BY DEF Sorted, Range, Below
<1> DEFINE D == Range(OnDisk)
<1>3. /\ D \subseteq (1 .. accepted) \ lost /\ lost \subseteq 1 .. accepted
      /\ (alive => 1 .. accepted \subseteq D \cup Range(retired) \cup Range(buffer) \cup lost)
      /\ (errors = 0 => lost = {})
      /\ Sorted(OnDisk)
  BY DEF OrderInv
<1>4. ASSUME NEW k \in Nat, NEW n \in 0 .. Len(Pend(k)),
             OnDisk' = OnDisk \o First(Pend(k), n)
      PROVE  /\ Sorted(OnDisk') /\ Range(OnDisk') = D \cup Range(First(Pend(k), n))
             /\ Sorted(Rest(Pend(k), n))
             /\ Range(Pend(k)) = Range(First(Pend(k), n)) \cup Range(Rest(Pend(k), n))
             /\ Below(Range(OnDisk'), Range(Rest(Pend(k), n)))
             /\ Range(OnDisk') \cup Range(Rest(Pend(k), n)) \subseteq (1 .. accepted + k) \ lost
             /\ (alive => 1 .. accepted + k \subseteq
                              Range(OnDisk') \cup Range(Rest(Pend(k), n)) \cup lost)
  <2> DEFINE F == Range(First(Pend(k), n))
             R == Range(Rest(Pend(k), n))
             P == Range(Pend(k))
  <2>1. /\ Pend(k) \in Seq(Nat) /\ Sorted(Pend(k))
        /\ P = Range(retired) \cup Range(buffer) \cup (accepted + 1 .. accepted + k)
        /\ P \subseteq (1 .. accepted + k) \ lost
        /\ Below(D, P)
    BY <1>1, PendSorted
  <2>2. /\ Sorted(First(Pend(k), n)) /\ Sorted(Rest(Pend(k), n)) /\ P = F \cup R /\ Below(F, R)
        /\ First(Pend(k), n) \in Seq(Nat)
    BY <2>1, CutSorted, CutType
  <2>3. Below(D, F) /\ Below(D \cup F, R)
    <3> HIDE DEF D, F, R, P
    <3> QED
      BY <2>1, <2>2 DEF Below
  <2>4. Sorted(OnDisk') /\ Range(OnDisk') = D \cup F
    BY <1>1, <1>3, <1>4, <2>2, <2>3, JoinSorted, JoinRange
  <2>5. \A x \in 1 .. accepted : x \in 1 .. accepted + k
    BY <1>1
  <2>6. \A x \in 1 .. accepted + k : x \in 1 .. accepted \/ x \in accepted + 1 .. accepted + k
    BY <1>1
  <2> HIDE DEF D, F, R, P
  <2>7. D \cup F \cup R \subseteq (1 .. accepted + k) \ lost
    BY <1>3, <2>1, <2>2, <2>5
  <2>8. alive => 1 .. accepted + k \subseteq D \cup F \cup R \cup lost
    BY <1>3, <2>1, <2>2, <2>6
  <2>9. QED
    BY <2>2, <2>3, <2>4, <2>7, <2>8 DEF F, R, P
<1>5. CASE alive /\ Moves
  <2>1. PICK k \in Nat : \E n \in 0 .. Len(Pend(k)) :
            /\ OnDisk' = OnDisk \o First(Pend(k), n)
            /\ retired' = <<>> /\ buffer' = Rest(Pend(k), n)
            /\ accepted' = accepted + k
            /\ UNCHANGED <<errors, lost, alive>>
    BY <1>5 DEF Moves
  <2>2. PICK n \in 0 .. Len(Pend(k)) :
            /\ OnDisk' = OnDisk \o First(Pend(k), n)
            /\ retired' = <<>> /\ buffer' = Rest(Pend(k), n)
            /\ accepted' = accepted + k
            /\ UNCHANGED <<errors, lost, alive>>
    BY <2>1
  <2>3. /\ Sorted(OnDisk') /\ Sorted(buffer') /\ Below(Range(OnDisk'), Range(buffer'))
        /\ Range(OnDisk') \cup Range(buffer') \subseteq (1 .. accepted') \ lost
        /\ (alive => 1 .. accepted' \subseteq Range(OnDisk') \cup Range(buffer') \cup lost)
    BY <1>4, <2>2
  <2>4. \A x \in 1 .. accepted : x \in 1 .. accepted'
    BY <1>1, <2>2
  <2>5. lost' \subseteq 1 .. accepted' /\ (errors' = 0 => lost' = {})
    BY <1>3, <2>2, <2>4
  <2>6. QED
    BY <1>2, <2>2, <2>3, <2>5 DEF OrderInv
<1>6. CASE alive /\ Drops
  <2>1. PICK k \in Nat, m \in Nat : \E n \in 0 .. Len(Pend(k)) :
            /\ OnDisk' = OnDisk \o First(Pend(k), n)
            /\ retired' = <<>> /\ buffer' = Rest(NextBytes(k + m), k)
            /\ accepted' = accepted + k + m
            /\ lost' = lost \cup Range(Rest(Pend(k), n)) /\ errors' = errors + 1
            /\ UNCHANGED alive
    BY <1>6 DEF Drops
  <2>2. PICK n \in 0 .. Len(Pend(k)) :
            /\ OnDisk' = OnDisk \o First(Pend(k), n)
            /\ retired' = <<>> /\ buffer' = Rest(NextBytes(k + m), k)
            /\ accepted' = accepted + k + m
            /\ lost' = lost \cup Range(Rest(Pend(k), n)) /\ errors' = errors + 1
            /\ UNCHANGED alive
    BY <2>1
  <2> DEFINE R == Range(Rest(Pend(k), n))
             DD == Range(OnDisk')
             M == accepted + k + 1 .. accepted + k + m
  <2>3. /\ Sorted(OnDisk') /\ Below(DD, R) /\ DD \cup R \subseteq (1 .. accepted + k) \ lost
        /\ (alive => 1 .. accepted + k \subseteq DD \cup R \cup lost)
    BY <1>4, <2>2
  <2>4. Sorted(buffer') /\ Range(buffer') = M
    BY <1>1, <2>2, MessageSorted
  <2>5. /\ \A x \in 1 .. accepted + k : \A y \in M : x < y /\ y \notin 1 .. accepted + k
        /\ \A x \in 1 .. accepted + k : x \in 1 .. accepted'
        /\ \A x \in M : x \in 1 .. accepted'
        /\ \A x \in 1 .. accepted' : x \in 1 .. accepted + k \/ x \in M
        /\ \A x \in 1 .. accepted : x \in 1 .. accepted + k
    BY <1>1, <2>2
  <2>6. DD \cap R = {}
    <3>1. DD \subseteq Nat
      BY <2>3
    <3> HIDE DEF DD, R
    <3>2. QED
      BY <2>3, <3>1 DEF Below
  <2>7. errors' # 0
    BY <1>1, <2>2
  <2> HIDE DEF R, M
  <2>8. Below(DD, M)
    <3> HIDE DEF DD
    <3> QED
      BY <2>3, <2>5 DEF Below
  <2>9. DD \cup M \subseteq (1 .. accepted') \ (lost \cup R)
    BY <1>3, <2>3, <2>5, <2>6
  <2>10. lost \cup R \subseteq 1 .. accepted'
    BY <1>3, <2>3, <2>5
  <2>11. alive => 1 .. accepted' \subseteq DD \cup M \cup (lost \cup R)
    BY <2>3, <2>5
  <2>12. lost' = lost \cup R /\ retired' = <<>> /\ UNCHANGED alive
    BY <2>2 DEF R
  <2>13. QED
    BY <1>2, <2>3, <2>4, <2>7, <2>8, <2>9, <2>10, <2>11, <2>12 DEF OrderInv
<1>7. CASE alive /\ Retires
  <2>1. /\ retired = <<>> /\ retired' = buffer /\ buffer' = <<>>
        /\ UNCHANGED <<OnDisk, errors, accepted, lost, alive>>
    BY <1>7 DEF Retires, byteVars
  <2>2. QED
    BY <1>2, <2>1 DEF OrderInv
<1>8. CASE alive /\ Dies
  <2>1. ~alive' /\ buffer' = <<>> /\ retired' = <<>> /\ UNCHANGED <<OnDisk, errors, accepted, lost>>
    BY <1>8 DEF Dies, byteVars
  <2>2. QED
    BY <1>2, <1>3, <2>1 DEF OrderInv
<1>9. CASE Rests
  BY <1>9 DEF Rests, OrderInv, byteVars
<1>10. QED
  BY <1>5, <1>6, <1>7, <1>8, <1>9, StepOfBytes

\* So everything, read one after the other, is sorted.
LEMMA OrderInvInOrder == FilesInv /\ OrderInv => InOrder
<1> SUFFICES ASSUME FilesInv, OrderInv PROVE InOrder
  OBVIOUS
<1>1. OnDisk \in Seq(Nat) /\ retired \in Seq(Nat) /\ buffer \in Seq(Nat)
  BY OnDiskType DEF FilesInv
<1> DEFINE a == OnDisk \o retired
<1>2. /\ a \in Seq(Nat) /\ Sorted(a) /\ Range(a) = Range(OnDisk) \cup Range(retired)
  BY <1>1, JoinSorted, JoinRange DEF OrderInv
<1> HIDE DEF a
<1>3. Below(Range(a), Range(buffer))
  BY <1>2 DEF OrderInv, Below
<1>4. /\ Sorted(a \o buffer)
      /\ Range(a \o buffer) = Range(OnDisk) \cup Range(retired) \cup Range(buffer)
  BY <1>1, <1>2, <1>3, JoinSorted, JoinRange DEF OrderInv
<1>5. Content = a \o buffer
  BY DEF Content, a
<1>6. \A i, j \in DOMAIN Content : i < j => Content[i] < Content[j]
  BY <1>4, <1>5 DEF Sorted
<1>7. /\ Range(Content) \subseteq (1 .. accepted) \ lost
      /\ alive => (1 .. accepted) \ lost \subseteq Range(Content)
      /\ errors = 0 => lost = {}
  BY <1>4, <1>5 DEF OrderInv
<1>8. QED
  BY <1>6, <1>7 DEF InOrder

\* The order is an invariant.
LEMMA OrderInvHolds == Safety => []OrderInv
  BY InitOrderInv, NextOrderInv, IInvHolds, PTL DEF Safety

\* However many threads append, flush, roll and die, whatever the clock does
\* and whichever writes fail: no byte is doubled or out of order, and none is
\* lost but by a write that fails or a crash.
THEOREM OrderKept == Safety => []InOrder
<1>1. IInv /\ OrderInv => InOrder
  BY OrderInvInOrder DEF IInv
<1>2. QED
  BY <1>1, OrderInvHolds, IInvHolds, PTL

-----------------------------------------------------------------------------
(* flush().                                                                  *)

\* What is on disk stays there, and what is lost stays lost.
LEMMA BytesStay ==
    IInv /\ [Next]_vars =>
        /\ accepted' \in Nat /\ accepted <= accepted'
        /\ Range(OnDisk) \subseteq Range(OnDisk') /\ lost \subseteq lost'
<1> SUFFICES ASSUME IInv, [Next]_vars
             PROVE  /\ accepted' \in Nat /\ accepted <= accepted'
                    /\ Range(OnDisk) \subseteq Range(OnDisk') /\ lost \subseteq lost'
  OBVIOUS
<1>1. accepted \in Nat /\ OnDisk \in Seq(Nat) /\ FilesInv
  BY OnDiskType DEF IInv, FilesInv
<1>2. ASSUME NEW k \in Nat, NEW n \in 0 .. Len(Pend(k)),
             OnDisk' = OnDisk \o First(Pend(k), n)
      PROVE  Range(OnDisk) \subseteq Range(OnDisk')
  <2>1. First(Pend(k), n) \in Seq(Nat)
    BY <1>1, PendType, CutType
  <2>2. QED
    BY <1>1, <1>2, <2>1, JoinRange
<1>3. CASE Moves
  BY <1>1, <1>2, <1>3 DEF Moves
<1>4. CASE Drops
  <2>1. PICK k \in Nat, m \in Nat : \E n \in 0 .. Len(Pend(k)) :
            /\ OnDisk' = OnDisk \o First(Pend(k), n)
            /\ accepted' = accepted + k + m
            /\ lost' = lost \cup Range(Rest(Pend(k), n))
    BY <1>4 DEF Drops
  <2>2. Range(OnDisk) \subseteq Range(OnDisk') /\ lost \subseteq lost'
    BY <1>2, <2>1
  <2>3. accepted' \in Nat /\ accepted <= accepted'
    BY <1>1, <2>1
  <2>4. QED
    BY <2>2, <2>3
<1>5. CASE Retires \/ Dies \/ Rests
  BY <1>1, <1>5 DEF Retires, Dies, Rests, byteVars
<1>6. QED
  BY <1>3, <1>4, <1>5, StepOfBytes

\* A flush leaves nothing in a buffer.
LEMMA FlushEmpties ==
    ASSUME IInv, OrderInv, NEW t \in Threads, Flush(t), alive
    PROVE  1 .. accepted' \subseteq Range(OnDisk') \cup lost'
<1>1. pc[t] \in Inside \ {"close"} /\ FlushStream /\ UNCHANGED alive
  BY DEF Flush, FlushEnds, Goto, Inside, PCs
<1>2. buffer' = <<>> /\ retired' = <<>> /\ alive'
  BY <1>1, FlushStreamStep
<1>3. OrderInv'
  BY NextOrderInv DEF Next, FlushStep
<1>4. Range(<<>>) = {}
  BY DEF Range
<1>5. QED
  BY <1>2, <1>3, <1>4 DEF OrderInv

LEMMA MaxOfTwo ==
    ASSUME NEW a \in Nat, NEW b \in Nat
    PROVE  Max({a, b}) \in {a, b} /\ a <= Max({a, b}) /\ b <= Max({a, b})
<1>1. \E x \in {a, b} : \A y \in {a, b} : x >= y
  BY a >= b \/ b >= a
<1>2. QED
  BY <1>1 DEF Max

\* While a flush() is under way, what it has promised has been accepted.
FlushInv ==
    /\ before \in [Threads -> Nat] /\ \A t \in Threads : before[t] <= accepted
    /\ flushed \in Nat /\ flushed <= accepted
    /\ FlushDurable

\* The statements of flush(), as far as its promise is concerned.
LEMMA StepOfFlush ==
    [Next]_vars =>
        \/ \E t \in Threads : FlushCall(t)
        \/ alive /\ \E t \in Threads : Flush(t)
        \/ UNCHANGED <<before, flushed>>
        \/ before' = [t \in Threads |-> 0] /\ UNCHANGED flushed
<1> USE DEF callVars
<1>1. ASSUME NEW t \in Threads, AppendStep(t) \/ FlushEnter(t) \/ Return(t)
      PROVE  UNCHANGED <<before, flushed>>
  BY <1>1
     DEF AppendStep, AppendCall, AppendEnter, AppendBody, AppendWrite, AppendError,
         AppendOversize, AppendCount, AppendNewPeriod, AppendFlush, AppendNothingDue,
         RollOpen, RollRefused, RollClose, FlushEnter, Return
<1>2. ASSUME Setup \/ Tick \/ SetBack \/ UNCHANGED vars PROVE UNCHANGED <<before, flushed>>
  BY <1>2 DEF Setup, Tick, SetBack, vars
<1>3. ASSUME Crash \/ RollFails PROVE before' = [t \in Threads |-> 0] /\ UNCHANGED flushed
  BY <1>3 DEF Crash, RollFails
<1>4. QED
  BY <1>1, <1>2, <1>3 DEF Next, FlushStep

\* What flush() has promised is kept: by the flush itself when the mutex was
\* free, by whoever flushed or rolled in between when it was not.
LEMMA NextFlushInv == IInv /\ OrderInv /\ FlushInv /\ [Next]_vars => FlushInv'
<1> SUFFICES ASSUME IInv, OrderInv, FlushInv, [Next]_vars PROVE FlushInv'
  OBVIOUS
<1> DEFINE D == Range(OnDisk)
<1>1. /\ accepted \in Nat /\ accepted' \in Nat /\ accepted <= accepted'
      /\ D \subseteq D' /\ lost \subseteq lost'
  BY BytesStay DEF IInv, FilesInv
<1>2. /\ before \in [Threads -> Nat] /\ \A t \in Threads : before[t] <= accepted
      /\ flushed \in Nat /\ flushed <= accepted /\ (1 .. flushed) \ lost \subseteq D
  BY DEF FlushInv, FlushDurable
<1> HIDE DEF D
<1>3. (1 .. flushed) \ lost' \subseteq D'
  BY <1>1, <1>2
<1>4. \A t \in Threads : before[t] <= accepted'
  BY <1>1, <1>2
<1> DEFINE Kept ==
        /\ before' \in [Threads -> Nat] /\ \A t \in Threads : before'[t] <= accepted'
        /\ flushed' \in Nat /\ flushed' <= accepted'
        /\ (1 .. flushed') \ lost' \subseteq D'
<1>5. SUFFICES Kept
  BY DEF FlushInv, FlushDurable, D
<1>6. ASSUME NEW t \in Threads, FlushCall(t) PROVE Kept
  <2>1. before' = [before EXCEPT ![t] = accepted] /\ flushed' = flushed
    BY <1>6 DEF FlushCall
  <2>2. QED
    BY <1>1, <1>2, <1>3, <1>4, <2>1
<1>7. ASSUME NEW t \in Threads, Flush(t), alive PROVE Kept
  <2>1. flushed' = Max({flushed, before[t]}) /\ before' = [before EXCEPT ![t] = 0]
    BY <1>7 DEF Flush, FlushEnds
  <2>2. flushed' \in Nat /\ flushed' <= accepted'
    BY <1>1, <1>2, <1>4, <2>1, MaxOfTwo
  <2>3. 1 .. accepted' \subseteq D' \cup lost'
    BY <1>7, FlushEmpties DEF D
  <2>4. (1 .. flushed') \ lost' \subseteq D'
    <3>1. \A x \in 1 .. flushed' : x \in 1 .. accepted'
      BY <1>1, <2>2
    <3>2. QED
      BY <2>3, <3>1
  <2>5. before' \in [Threads -> Nat] /\ \A s \in Threads : before'[s] <= accepted'
    BY <1>1, <1>2, <1>4, <2>1
  <2>6. QED
    BY <2>2, <2>4, <2>5
<1>8. CASE UNCHANGED <<before, flushed>>
  BY <1>1, <1>2, <1>3, <1>4, <1>8
<1>9. CASE before' = [t \in Threads |-> 0] /\ UNCHANGED flushed
  BY <1>1, <1>2, <1>3, <1>9
<1>10. QED
  BY <1>6, <1>7, <1>8, <1>9, StepOfFlush

\* No flush() has been called yet.
LEMMA InitFlushInv == Init => FlushInv
  BY DEF Init, FlushInv, FlushDurable

LEMMA FlushInvHolds == Safety => []FlushInv
  BY InitFlushInv, NextFlushInv, IInvHolds, OrderInvHolds, PTL DEF Safety

\* When flush() has returned, what was appended before it was called is in the
\* files, whoever else appends, flushes and rolls meanwhile, but for what a
\* failed write has dropped; and it stays there when the process dies.
THEOREM FlushIsDurable == Safety => []FlushDurable
<1>1. FlushInv => FlushDurable
  BY DEF FlushInv
<1>2. QED
  BY <1>1, FlushInvHolds, PTL

-----------------------------------------------------------------------------
(* The refinement of Journal.                                                *)

\* What waits to be written is what is pending, and a write cuts it in two.
LEMMA WriteCuts ==
    ASSUME IInv, OrderInv, alive, NEW k \in Nat, NEW n \in 0 .. Len(Pend(k)),
           OnDisk' = OnDisk \o First(Pend(k), n)
    PROVE  /\ accepted + k \in Nat
           /\ \E last \in 0 .. accepted + k :
                  /\ Range(OnDisk') = Range(OnDisk)
                         \cup {byte \in J!Pending(accepted + k) : byte <= last}
                  /\ Range(Rest(Pend(k), n)) =
                         {byte \in J!Pending(accepted + k) : byte > last}
<1>1. FilesInv /\ accepted \in Nat /\ accepted + k \in Nat /\ OnDisk \in Seq(Nat)
  BY OnDiskType DEF IInv, FilesInv
<1> DEFINE P == Pend(k)
           N == accepted + k
           D == Range(OnDisk)
<1>2. /\ P \in Seq(Nat) /\ Sorted(P) /\ Range(P) \subseteq (1 .. N) \ lost
      /\ Range(P) = Range(retired) \cup Range(buffer) \cup (accepted + 1 .. N)
      /\ Below(D, Range(P))
  BY <1>1, PendSorted
<1>3. Range(P) = (1 .. N) \ (D \cup lost)
  <2>1. /\ 1 .. accepted \subseteq D \cup Range(retired) \cup Range(buffer) \cup lost
        /\ D \subseteq 1 .. accepted
    BY DEF OrderInv
  <2>2. \A x \in 1 .. N : x \in 1 .. accepted \/ x \in accepted + 1 .. N
    BY <1>1
  <2>3. \A x \in Range(P) : x \notin D /\ x \in Nat
    <3>1. \A x \in Range(P) : x \in Nat /\ ~(x < x)
      BY <1>2
    <3> HIDE DEF P, D, N
    <3>2. QED
      BY <1>2, <3>1 DEF Below
  <2> HIDE DEF P, D, N
  <2>4. QED
    BY <1>2, <2>1, <2>2, <2>3
<1>4. Range(OnDisk') = D \cup Range(First(P, n))
  <2>1. First(P, n) \in Seq(Nat)
    BY <1>2, CutType
  <2>2. QED
    BY <1>1, <2>1, JoinRange
<1>5. J!Pending(N) = Range(P)
  BY <1>3 DEF J!Pending
<1> HIDE DEF P, D, N
<1>6. N \in Nat /\ n \in 0 .. Len(P) /\ Range(P) \subseteq 1 .. N
  BY <1>1, <1>2 DEF N, P
<1>7. PICK last \in 0 .. N :
          /\ Range(First(P, n)) = {x \in Range(P) : x <= last}
          /\ Range(Rest(P, n)) = {x \in Range(P) : x > last}
  BY <1>2, <1>6, CutAtNumber
<1>8. QED
  BY <1>1, <1>4, <1>5, <1>7 DEF N, P, D

\* Each step is one of Journal's or no step at all.
LEMMA StepOfJournal ==
    IInv /\ OrderInv /\ [Next]_vars => [J!JournalNext]_(J!journalVars)
<1> SUFFICES ASSUME IInv, OrderInv, [Next]_vars PROVE [J!JournalNext]_(J!journalVars)
  OBVIOUS
<1>1. alive \in BOOLEAN /\ accepted \in Nat
  BY DEF IInv, TypeInv, FilesInv
<1>2. CASE alive /\ Moves
  <2>1. PICK k \in Nat : \E n \in 0 .. Len(Pend(k)) :
            /\ OnDisk' = OnDisk \o First(Pend(k), n)
            /\ accepted' = accepted + k
            /\ UNCHANGED <<errors, lost, alive>>
    BY <1>2 DEF Moves
  <2>2. \E last \in 0 .. accepted + k :
            Range(OnDisk') = Range(OnDisk) \cup {byte \in J!Pending(accepted + k) : byte <= last}
    BY <1>2, <2>1, WriteCuts
  <2>3. accepted' \in Nat /\ accepted' >= accepted
    BY <1>1, <2>1
  <2>4. J!Write
    BY <1>2, <2>1, <2>2, <2>3 DEF J!Write
  <2>5. QED
    BY <2>4 DEF J!JournalNext
<1>3. CASE alive /\ Drops
  <2>1. PICK k \in Nat, m \in Nat : \E n \in 0 .. Len(Pend(k)) :
            /\ OnDisk' = OnDisk \o First(Pend(k), n)
            /\ accepted' = accepted + k + m
            /\ lost' = lost \cup Range(Rest(Pend(k), n)) /\ errors' = errors + 1
            /\ UNCHANGED alive
    BY <1>3 DEF Drops
  <2>2. \E last \in 0 .. accepted + k :
            /\ Range(OnDisk') =
                   Range(OnDisk) \cup {byte \in J!Pending(accepted + k) : byte <= last}
            /\ lost' = lost \cup {byte \in J!Pending(accepted + k) : byte > last}
    <3>1. PICK n \in 0 .. Len(Pend(k)) :
              /\ OnDisk' = OnDisk \o First(Pend(k), n)
              /\ lost' = lost \cup Range(Rest(Pend(k), n))
      BY <2>1
    <3>2. \E last \in 0 .. accepted + k :
              /\ Range(OnDisk') =
                     Range(OnDisk) \cup {byte \in J!Pending(accepted + k) : byte <= last}
              /\ Range(Rest(Pend(k), n)) =
                     {byte \in J!Pending(accepted + k) : byte > last}
      BY <1>3, <3>1, WriteCuts
    <3>3. QED
      BY <3>1, <3>2
  <2>3. accepted' \in Nat /\ accepted + k \in accepted .. accepted'
    BY <1>1, <2>1
  <2>4. J!Fail
    BY <1>3, <2>1, <2>2, <2>3 DEF J!Fail
  <2>5. QED
    BY <2>4 DEF J!JournalNext
<1>4. CASE alive /\ Retires
  BY <1>4 DEF Retires, byteVars, J!journalVars
<1>5. CASE alive /\ Dies
  BY <1>5 DEF Dies, byteVars, J!JournalNext, J!Crash
<1>6. CASE Rests
  BY <1>6 DEF Rests, byteVars, J!journalVars
<1>7. QED
  BY <1>2, <1>3, <1>4, <1>5, <1>6, StepOfBytes

\* LogFile implements Journal: bytes become durable in the order in which they
\* are accepted, a write that fails loses none that are durable, and a crash
\* keeps exactly those.
THEOREM LogFileImplementsJournal == Safety => ImplementsJournal
<1>1. Init => J!JournalInit
  <2>1. Init => OnDisk = <<>>
    BY DEF Init, OnDisk, FlattenSeq
  <2>2. Range(<<>>) = {}
    BY DEF Range
  <2>3. QED
    BY <2>1, <2>2 DEF Init, J!JournalInit
<1>2. QED
  BY <1>1, StepOfJournal, IInvHolds, OrderInvHolds, PTL
     DEF Safety, ImplementsJournal, J!JournalSpec

-----------------------------------------------------------------------------
(* LoggedFile: ~Logger in front of it.                                       *)

\* Every step of LoggedFile is one of LogFile's, or leaves it alone.
LEMMA LoggedStepIsStep == [LoggedNext]_loggedVars => [Next]_vars
<1> SUFFICES ASSUME [LoggedNext]_loggedVars PROVE [Next]_vars
  OBVIOUS
<1>1. ASSUME NEW t \in Threads, alive, LoggerStep(t) PROVE Next
  BY <1>1 DEF LoggerStep, LogStatement, ClientFlush, FatalFlush, Inner, LogFileReturns, Abort,
              Next, AppendStep, FlushStep
<1>2. ASSUME World PROVE Next
  BY <1>2 DEF World, Next
<1>3. CASE UNCHANGED loggedVars
  BY <1>3 DEF loggedVars
<1>4. QED
  BY <1>1, <1>2, <1>3 DEF LoggedNext

\* Whatever holds of LogFile holds of it behind Logger.
THEOREM LoggedIsLogFile == LoggedSpec => Safety
  BY LoggedStepIsStep, PTL DEF LoggedSpec, LoggedInit, Safety

\* So the run's instance of LoggedFile and every other keep LogFile's promises.
COROLLARY LoggedPromises ==
    LoggedSpec => [](InOrder /\ FlushDurable) /\ ImplementsJournal
  BY LoggedIsLogFile, OrderKept, FlushIsDurable, LogFileImplementsJournal, PTL

\* Where ~Logger is, and where in LogFile it is then.
StageInv ==
    /\ stage \in [Threads -> {"idle", "output", "written", "flush", "abort"}]
    /\ fatal \in [Threads -> BOOLEAN]
    /\ lineEnd \in [Threads -> Nat] /\ \A t \in Threads : lineEnd[t] <= accepted
    /\ \A t \in Threads :
           /\ stage[t] = "output" => pc[t] \notin {"idle", "flush_enter", "flush"}
           /\ stage[t] = "flush" => pc[t] \in {"flush_enter", "flush", "leave"}
           /\ stage[t] = "abort" => fatal[t]
           /\ stage[t] \in {"idle", "written", "abort"} => pc[t] = "idle"

\* The flush that follows a FATAL line was called when the line was in the
\* stream, and when it is over it counts for the line.
FatalInv ==
    \A t \in Threads :
        /\ fatal[t] /\ stage[t] = "flush" =>
               IF pc[t] = "leave" THEN lineEnd[t] <= flushed ELSE lineEnd[t] <= before[t]
        /\ stage[t] = "abort" => lineEnd[t] <= flushed

LoggedInv == StageInv /\ FatalInv

\* No statement is under way when the program starts.
LEMMA InitLoggedInv == LoggedInit => LoggedInv
  BY DEF LoggedInit, Init, LoggedInv, StageInv, FatalInv

\* What one of LogFile's statements can do to another thread, and to the flush
\* that its own thread may be in.
LEMMA InnerStep ==
    ASSUME IInv, FlushInv, NEW t \in Threads, Inner(t)
    PROVE  /\ UNCHANGED stageVars
           /\ \A s \in Threads \ {t} : pc'[s] = pc[s] /\ before'[s] = before[s]
           /\ pc[t] \notin {"idle", "leave"} /\ pc'[t] # "idle"
           /\ pc'[t] = "flush" <=> pc[t] = "flush_enter"
           /\ pc'[t] # "flush_enter" /\ flushed' \in Nat /\ flushed <= flushed'
           /\ pc[t] = "flush_enter" => before'[t] = before[t]
           /\ pc[t] = "flush" => pc'[t] = "leave" /\ before[t] <= flushed'
<1>0. pc \in [Threads -> PCs] /\ before \in [Threads -> Nat] /\ flushed \in Nat
  BY DEF IInv, TypeInv, FlushInv
<1>1. UNCHANGED stageVars
  BY DEF Inner
<1>2. CASE Flush(t)
  <2>1. /\ pc[t] = "flush" /\ pc' = [pc EXCEPT ![t] = "leave"]
        /\ flushed' = Max({flushed, before[t]}) /\ before' = [before EXCEPT ![t] = 0]
    BY <1>2 DEF Flush, FlushEnds, Goto
  <2>2. flushed' \in Nat /\ flushed <= flushed' /\ before[t] <= flushed'
    BY <1>0, <2>1, MaxOfTwo
  <2>3. QED
    BY <1>0, <1>1, <2>1, <2>2
<1>3. CASE AppendEnter(t) \/ AppendBody(t) \/ FlushEnter(t)
  <2>1. UNCHANGED <<before, flushed>>
    BY <1>3 DEF AppendEnter, AppendBody, AppendWrite, AppendError, AppendOversize, AppendCount,
                AppendNewPeriod, AppendFlush, AppendNothingDue, RollOpen, RollRefused,
                RollClose, FlushEnter, callVars
  <2>2. /\ \A s \in Threads \ {t} : pc'[s] = pc[s]
        /\ pc[t] \notin {"idle", "leave", "flush"} /\ pc'[t] \notin {"idle", "flush_enter"}
        /\ pc'[t] = "flush" <=> pc[t] = "flush_enter"
    BY <1>0, <1>3
       DEF Goto, AppendEnter, AppendBody, AppendWrite, AppendError, AppendOversize,
           AppendCount, AppendNewPeriod, AppendFlush, AppendNothingDue, RollOpen, RollRefused,
           RollClose, FlushEnter
  <2>3. QED
    BY <1>0, <1>1, <2>1, <2>2
<1>4. QED
  BY <1>2, <1>3 DEF Inner

\* Nothing is left of the stages when the process dies.
LEMMA GoneLoggedInv ==
    ASSUME IInv, FlushInv, Crash, Gone
    PROVE  LoggedInv'
  BY DEF IInv, FilesInv, FlushInv, Crash, Gone, byteVars, LoggedInv, StageInv, FatalInv

\* The stages follow the statements of LogFile's functions, and what the flush
\* of a FATAL statement is called with includes its line.
LEMMA NextLoggedInv ==
    IInv /\ FlushInv /\ LoggedInv /\ [LoggedNext]_loggedVars => LoggedInv'
<1> SUFFICES ASSUME IInv, FlushInv, LoggedInv, [LoggedNext]_loggedVars PROVE LoggedInv'
  OBVIOUS
<1> USE DEF Goto, Stage
<1>0. /\ pc \in [Threads -> PCs] /\ StageInv /\ FatalInv
      /\ accepted \in Nat /\ accepted' \in Nat /\ accepted <= accepted'
      /\ before \in [Threads -> Nat] /\ flushed \in Nat
  BY BytesStay, LoggedStepIsStep DEF IInv, TypeInv, FilesInv, FlushInv, LoggedInv
<1>1. ASSUME NEW t \in Threads, LogStatement(t) PROVE LoggedInv'
  <2>1. /\ stage[t] = "idle" /\ stage' = [stage EXCEPT ![t] = "output"]
        /\ pc[t] = "idle" /\ pc' = [pc EXCEPT ![t] = "append_enter"]
        /\ \E isFatal \in BOOLEAN : fatal' = [fatal EXCEPT ![t] = isFatal]
        /\ UNCHANGED <<lineEnd, accepted, before, flushed>>
    BY <1>1 DEF LogStatement, AppendCall, byteVars
  <2>2. QED
    BY <1>0, <2>1 DEF LoggedInv, StageInv, FatalInv
<1>2. ASSUME NEW t \in Threads, ClientFlush(t) \/ FatalFlush(t) PROVE LoggedInv'
  <2>1. /\ stage[t] \in {"idle", "written"} /\ stage' = [stage EXCEPT ![t] = "flush"]
        /\ pc[t] = "idle" /\ pc' = [pc EXCEPT ![t] = "flush_enter"]
        /\ before' = [before EXCEPT ![t] = accepted]
        /\ fatal' = fatal \/ fatal' = [fatal EXCEPT ![t] = FALSE]
        /\ UNCHANGED <<lineEnd, accepted, flushed>>
    BY <1>2 DEF ClientFlush, FatalFlush, FlushCall, byteVars
  <2>2. QED
    BY <1>0, <2>1 DEF LoggedInv, StageInv, FatalInv
<1>3. ASSUME NEW t \in Threads, Inner(t) PROVE LoggedInv'
  <2>1. /\ UNCHANGED <<stage, fatal, lineEnd>>
        /\ \A s \in Threads \ {t} : pc'[s] = pc[s] /\ before'[s] = before[s]
        /\ pc[t] \notin {"idle", "leave"} /\ pc'[t] # "idle"
        /\ pc'[t] = "flush" <=> pc[t] = "flush_enter"
        /\ pc'[t] # "flush_enter" /\ flushed' \in Nat /\ flushed <= flushed'
        /\ pc[t] = "flush_enter" => before'[t] = before[t]
        /\ pc[t] = "flush" => pc'[t] = "leave" /\ before[t] <= flushed'
    BY <1>3, InnerStep DEF stageVars
  <2>2. StageInv'
    BY <1>0, <2>1 DEF StageInv
  <2>3. FatalInv'
    <3>1. SUFFICES ASSUME NEW s \in Threads
                   PROVE  /\ fatal[s] /\ stage[s] = "flush" =>
                                 IF pc'[s] = "leave" THEN lineEnd[s] <= flushed'
                                                     ELSE lineEnd[s] <= before'[s]
                          /\ stage[s] = "abort" => lineEnd[s] <= flushed'
      BY <2>1 DEF FatalInv
    <3>2. /\ fatal[s] /\ stage[s] = "flush" =>
                 IF pc[s] = "leave" THEN lineEnd[s] <= flushed ELSE lineEnd[s] <= before[s]
          /\ stage[s] = "abort" => lineEnd[s] <= flushed
          /\ lineEnd[s] \in Nat /\ before[s] \in Nat
          /\ stage[s] = "flush" => pc[s] \in {"flush_enter", "flush", "leave"}
          /\ stage[s] = "abort" => pc[s] = "idle"
      BY <1>0 DEF FatalInv, StageInv
    <3>3. CASE s = t
      BY <1>0, <2>1, <3>2, <3>3
    <3>4. CASE s # t
      BY <1>0, <2>1, <3>2, <3>4
    <3>5. QED
      BY <3>3, <3>4
  <2>4. QED
    BY <2>2, <2>3 DEF LoggedInv
<1>4. ASSUME NEW t \in Threads, LogFileReturns(t) PROVE LoggedInv'
  <2>1. /\ stage[t] \in {"output", "flush"} /\ stage' = [stage EXCEPT ![t] = After(t)]
        /\ pc[t] = "leave" /\ pc' = [pc EXCEPT ![t] = "idle"]
        /\ lineEnd' = [lineEnd EXCEPT ![t] =
                           IF fatal[t] /\ stage[t] = "output" THEN accepted ELSE @]
        /\ UNCHANGED <<fatal, accepted, before, flushed>>
    BY <1>4 DEF LogFileReturns, Return, callVars, byteVars
  <2>2. /\ After(t) \in {"idle", "written", "abort"}
        /\ After(t) = "abort" => fatal[t] /\ stage[t] = "flush"
    BY <2>1 DEF After
  <2>3. StageInv'
    BY <1>0, <2>1, <2>2 DEF StageInv
  <2>4. FatalInv'
    <3>1. ASSUME After(t) = "abort" PROVE lineEnd'[t] <= flushed
      BY <1>0, <2>1, <2>2, <3>1 DEF FatalInv, StageInv
    <3>2. QED
      BY <1>0, <2>1, <2>2, <3>1 DEF FatalInv, StageInv
  <2>5. QED
    BY <2>3, <2>4 DEF LoggedInv
<1>5. ASSUME NEW t \in Threads, Abort(t) PROVE LoggedInv'
  BY <1>5, GoneLoggedInv DEF Abort
<1>6. ASSUME World PROVE LoggedInv'
  <2>1. CASE (Setup \/ Tick \/ SetBack) /\ UNCHANGED stageVars
    <3>1. UNCHANGED <<stage, fatal, lineEnd, pc, before, flushed, accepted>>
      BY <2>1 DEF Setup, Tick, SetBack, stageVars, callVars, byteVars
    <3>2. QED
      BY <1>0, <3>1 DEF LoggedInv, StageInv, FatalInv
  <2>2. CASE (Crash \/ RollFails) /\ Gone
    BY <2>2, GoneLoggedInv DEF RollFails
  <2>3. QED
    BY <1>6, <2>1, <2>2 DEF World
<1>7. CASE UNCHANGED loggedVars
  <2>1. UNCHANGED <<stage, fatal, lineEnd, pc, before, flushed, accepted>>
    BY <1>7 DEF loggedVars, stageVars, vars, callVars, byteVars
  <2>2. QED
    BY <1>0, <2>1 DEF LoggedInv, StageInv, FatalInv
<1>8. QED
  BY <1>1, <1>2, <1>3, <1>4, <1>5, <1>6, <1>7 DEF LoggedNext, LoggerStep

\* When a FATAL statement comes to abort(), its line and all lines before it
\* are in the files, whatever the other threads did since its append, but for
\* what a failed write has dropped.
THEOREM FatalReachesDisk == LoggedSpec => []FatalOnDisk
<1>1. LoggedSpec => [](IInv /\ FlushInv)
  BY LoggedIsLogFile, IInvHolds, FlushInvHolds, PTL
<1>2. LoggedSpec => []LoggedInv
  BY <1>1, InitLoggedInv, NextLoggedInv, PTL DEF LoggedSpec
<1>3. FlushInv /\ LoggedInv => FatalOnDisk
  <2> SUFFICES ASSUME FlushInv, LoggedInv, NEW t \in Threads, stage[t] = "abort"
               PROVE  (1 .. lineEnd[t]) \ lost \subseteq Range(OnDisk)
    BY DEF FatalOnDisk
  <2>1. lineEnd[t] <= flushed /\ lineEnd[t] \in Nat /\ flushed \in Nat
    BY DEF LoggedInv, StageInv, FatalInv, FlushInv
  <2>2. \A x \in 1 .. lineEnd[t] : x \in 1 .. flushed
    BY <2>1
  <2>3. (1 .. flushed) \ lost \subseteq Range(OnDisk)
    BY DEF FlushInv, FlushDurable
  <2>4. QED
    BY <2>2, <2>3
<1>4. QED
  BY <1>1, <1>2, <1>3, PTL
==============================================================================
