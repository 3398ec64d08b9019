------------------------------ MODULE AtomicProofs ------------------------------
(***************************************************************************)
(* AtomicIntergerT implements Counter, for every number of threads and every *)
(* type: each operation takes effect at its builtin, and the second addition *)
(* of addAndGet is a step that Counter does not see.                        *)
(***************************************************************************)
EXTENDS Atomic, TLAPS

Results == Int \X (Int \cup {Undefined})

TypeInv ==
    /\ m_value \in Values
    /\ addPc \in [Threads -> {"idle", "sum", "drop"}]
    /\ fetched \in [Threads -> Values]
    /\ operand \in [Threads -> Values]
    /\ result \in [Threads -> Results]

\* What is brought into the type is in it.
LEMMA WrapInValues == \A n \in Int : Wrap(n) \in Values
<1> SUFFICES ASSUME NEW n \in Int PROVE Wrap(n) \in Values
  OBVIOUS
<1> DEFINE Size == MaxValue - MinValue + 1
<1>1. Size \in Int /\ Size > 0 /\ n - MinValue \in Int
  BY AtomicAssumption
<1>2. (n - MinValue) % Size \in 0 .. Size - 1
  BY <1>1
<1>3. QED
  BY <1>2, AtomicAssumption DEF Wrap, Values

\* The type invariant holds of a new integer.
LEMMA InitType == AtomicInit => TypeInv
  BY AtomicAssumption DEF AtomicInit, TypeInv, Values, Results

\* Every operation, and the second addition, keeps it.
LEMMA NextType == TypeInv /\ [AtomicNext]_atomicVars => TypeInv'
<1> SUFFICES ASSUME TypeInv, [AtomicNext]_atomicVars PROVE TypeInv'
  OBVIOUS
<1> USE AtomicAssumption DEF TypeInv, Values, Results, Idle, Returns, addVars
<1>1. Values \subseteq Int /\ Operands \subseteq Values
  OBVIOUS
<1>2. ASSUME NEW t \in Threads, get(t) PROVE TypeInv'
  BY <1>2 DEF get
<1>3. ASSUME NEW t \in Threads, Sum(t) PROVE TypeInv'
  <2>1. Signed(fetched[t] + operand[t]) \in Int \cup {Undefined}
    BY DEF Signed
  <2>2. QED
    BY <1>3, <2>1 DEF Sum
<1>4. ASSUME NEW t \in Threads, NEW x \in Values, getAndSet(t, x) PROVE TypeInv'
  BY <1>4 DEF getAndSet
<1>5. ASSUME NEW t \in Threads, NEW x \in Operands, getAndAdd(t, x) \/ add(t, x) PROVE TypeInv'
  <2>1. Wrap(m_value + x) \in Values
    BY WrapInValues, <1>1
  <2>2. QED
    BY <1>5, <2>1 DEF getAndAdd, add
<1>6. ASSUME NEW t \in Threads, NEW x \in Operands, NEW next \in {"sum", "drop"},
             addAndGet(t, x, next)
      PROVE  TypeInv'
  <2>1. Wrap(m_value + x) \in Values
    BY WrapInValues, <1>1
  <2>2. QED
    BY <1>6, <2>1 DEF addAndGet
<1>7. CASE UNCHANGED atomicVars
  BY <1>7 DEF atomicVars
<1>8. QED
  BY <1>2, <1>3, <1>4, <1>5, <1>6, <1>7 DEF AtomicNext

-----------------------------------------------------------------------------
\* A new integer is a new Counter.
LEMMA InitCounter == AtomicInit => C!CounterInit
  BY DEF AtomicInit, C!CounterInit, Answered

\* A step that leaves a thread's additions alone, and returns <<x, n>> to it,
\* answers just that.
LEMMA ReturnAnswers ==
    ASSUME TypeInv, NEW t \in Threads, NEW x, NEW n, Idle(t), Returns(t, x, n)
    PROVE  C!Answers(t, x, n)
<1>1. Answered' = [Answered EXCEPT ![t] = <<x, n>>]
  BY DEF TypeInv, Idle, addVars, Returns, Answered
<1>2. QED
  BY <1>1 DEF C!Answers

\* Counter computes as Atomic does.
LEMMA SameArithmetic == \A n \in Int : C!Wrap(n) = Wrap(n) /\ C!Exact(n) = Signed(n)
  BY DEF C!Wrap, Wrap, C!Exact, Signed, C!Values, Values

\* Every step of Atomic is one of Counter, or leaves it alone.
LEMMA StepCounter == TypeInv /\ [AtomicNext]_atomicVars => [C!CounterNext]_C!counterVars
<1> SUFFICES ASSUME TypeInv, [AtomicNext]_atomicVars PROVE [C!CounterNext]_C!counterVars
  OBVIOUS
<1> USE DEF C!CounterNext
<1>0. /\ C!Values = Values /\ Operands \subseteq Values /\ Values \subseteq Int
      /\ m_value \in Int
  BY AtomicAssumption DEF C!Values, Values, TypeInv
<1>1. ASSUME NEW t \in Threads, get(t) PROVE C!CounterNext
  <2>1. C!Answers(t, 0, m_value)
    BY <1>1, ReturnAnswers DEF get
  <2>2. C!Read(t)
    BY <1>1, <2>1 DEF get, C!Read
  <2>3. QED
    BY <2>2
<1>2. ASSUME NEW t \in Threads, Sum(t) PROVE UNCHANGED C!counterVars
  <2>1. Answered' = Answered
    <3>1. CASE addPc[t] = "sum"
      BY <1>2, <3>1 DEF TypeInv, Sum, Returns, Answered
    <3>2. CASE addPc[t] = "drop"
      BY <1>2, <3>2 DEF TypeInv, Sum, Answered
    <3>3. QED
      BY <1>2, <3>1, <3>2 DEF Sum
  <2>2. QED
    BY <1>2, <2>1 DEF Sum, C!counterVars
<1>3. ASSUME NEW t \in Threads, NEW x \in Values, getAndSet(t, x) PROVE C!CounterNext
  <2>1. C!Answers(t, 0, m_value)
    BY <1>3, ReturnAnswers DEF getAndSet
  <2>2. C!Exchange(t, x)
    BY <1>3, <2>1 DEF getAndSet, C!Exchange
  <2>3. QED
    BY <1>0, <2>2
<1>4. ASSUME NEW t \in Threads, NEW x \in Operands, getAndAdd(t, x) PROVE C!CounterNext
  <2>1. C!Answers(t, 0, m_value)
    BY <1>4, ReturnAnswers DEF getAndAdd
  <2>2. C!FetchAdd(t, x)
    BY <1>0, <1>4, <2>1, SameArithmetic DEF getAndAdd, C!FetchAdd
  <2>3. QED
    BY <1>0, <2>2
<1>5. ASSUME NEW t \in Threads, NEW x \in Operands, add(t, x) PROVE C!CounterNext
  <2>1. Answered' = Answered
    BY <1>5 DEF add, Idle, addVars, Answered
  <2>2. C!JustAdd(x)
    BY <1>0, <1>5, <2>1, SameArithmetic DEF add, C!JustAdd
  <2>3. QED
    BY <1>0, <2>2
<1>6. ASSUME NEW t \in Threads, NEW x \in Operands, addAndGet(t, x, "sum") PROVE C!CounterNext
  <2>1. Answered' = [Answered EXCEPT ![t] = <<x, Signed(m_value + x)>>]
    BY <1>6 DEF TypeInv, addAndGet, Answered
  <2>2. C!AddFetch(t, x)
    <3>1. m_value + x \in Int
      BY <1>0
    <3>2. C!Exact(m_value + x) = Signed(m_value + x) /\ C!Wrap(m_value + x) = Wrap(m_value + x)
      BY <3>1, SameArithmetic
    <3>3. C!Answers(t, x, C!Exact(m_value + x))
      BY <2>1, <3>2 DEF C!Answers
    <3>4. QED
      BY <1>6, <3>2, <3>3 DEF addAndGet, C!AddFetch
  <2>3. QED
    BY <1>0, <2>2
<1>7. ASSUME NEW t \in Threads, NEW x \in Operands, addAndGet(t, x, "drop") PROVE C!CounterNext
  <2>1. Answered' = Answered
    BY <1>7 DEF TypeInv, addAndGet, Answered
  <2>2. C!JustAdd(x)
    BY <1>0, <1>7, <2>1, SameArithmetic DEF addAndGet, C!JustAdd
  <2>3. QED
    BY <1>0, <2>2
<1>8. CASE UNCHANGED atomicVars
  BY <1>8 DEF atomicVars, addVars, Answered, C!counterVars
<1>9. QED
  BY <1>1, <1>2, <1>3, <1>4, <1>5, <1>6, <1>7, <1>8 DEF AtomicNext

-----------------------------------------------------------------------------
\* The value never leaves its type, wherever the sums go.
THEOREM TypeHolds == AtomicSpec => []TypeInv
  BY InitType, NextType, PTL DEF AtomicSpec

\* Every operation of AtomicIntergerT is atomic, addAndGet and what is made of
\* it included.
THEOREM Linearizable == AtomicSpec => ImplementsCounter
<1>1. AtomicSpec => []TypeInv
  BY TypeHolds
<1>2. QED
  BY <1>1, InitCounter, StepCounter, PTL DEF AtomicSpec, ImplementsCounter, C!CounterSpec
=============================================================================
