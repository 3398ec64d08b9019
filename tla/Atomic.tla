--------------------------------- MODULE Atomic ---------------------------------
(***************************************************************************)
(* muduo::base::detail::AtomicIntergerT (Atomic.hpp), shared by threads.     *)
(* Each __sync builtin is one step; addAndGet adds its operand once more to  *)
(* what the builtin returned, in a step of its own and in signed arithmetic, *)
(* where the builtin's own addition wraps around.                           *)
(***************************************************************************)
EXTENDS Integers

CONSTANTS
    Threads,
    MinValue, MaxValue,     \* of T
    Operands,               \* what is added
    Undefined               \* the outcome of a signed overflow: any value of T

ASSUME AtomicAssumption ==
    /\ MinValue \in Int /\ MaxValue \in Int
    /\ 0 \in MinValue .. MaxValue /\ Operands \subseteq MinValue .. MaxValue
    /\ Undefined \notin Int

VARIABLES
    m_value,
    addPc,              \* of each thread: "idle", or "sum" or "drop" before the second addition
    fetched, operand,   \* of its addAndGet
    result              \* what the last operation that returns something has given it,
                        \* and the operand that is part of a sum

addVars    == <<addPc, fetched, operand>>
atomicVars == <<m_value, addVars, result>>

-----------------------------------------------------------------------------
Values == MinValue .. MaxValue

\* __sync_fetch_and_add in two's complement.
Wrap(n) == MinValue + ((n - MinValue) % (MaxValue - MinValue + 1))

\* Signed arithmetic of T.
Signed(n) == IF n \in Values THEN n ELSE Undefined

Idle(t) == addPc[t] = "idle" /\ UNCHANGED addVars

Returns(t, x, n) == result' = [result EXCEPT ![t] = <<x, n>>]

AtomicInit ==
    /\ m_value = 0
    /\ addPc = [t \in Threads |-> "idle"]
    /\ fetched = [t \in Threads |-> 0]
    /\ operand = [t \in Threads |-> 0]
    /\ result = [t \in Threads |-> <<0, 0>>]

\* A compare-and-swap of 0 with 0.
get(t) == Idle(t) /\ Returns(t, 0, m_value) /\ UNCHANGED m_value

getAndAdd(t, x) == Idle(t) /\ Returns(t, 0, m_value) /\ m_value' = Wrap(m_value + x)

add(t, x) == Idle(t) /\ m_value' = Wrap(m_value + x) /\ UNCHANGED result

getAndSet(t, newValue) == Idle(t) /\ Returns(t, 0, m_value) /\ m_value' = newValue

\* addAndGet(x), incrementAndGet and decrementAndGet among it; increment() and
\* decrement() drop the sum.
addAndGet(t, x, next) ==
    /\ addPc[t] = "idle"
    /\ addPc' = [addPc EXCEPT ![t] = next]
    /\ fetched' = [fetched EXCEPT ![t] = m_value]
    /\ operand' = [operand EXCEPT ![t] = x]
    /\ m_value' = Wrap(m_value + x)
    /\ UNCHANGED result

\* Mutated: add(x); return get();
SumReread(t) ==
    /\ addPc[t] \in {"sum", "drop"}
    /\ addPc' = [addPc EXCEPT ![t] = "idle"]
    /\ IF addPc[t] = "sum" THEN Returns(t, operand[t], m_value) ELSE UNCHANGED result
    /\ fetched' = [fetched EXCEPT ![t] = 0]
    /\ operand' = [operand EXCEPT ![t] = 0]
    /\ UNCHANGED m_value

\* ... + x
Sum(t) ==
    /\ addPc[t] \in {"sum", "drop"}
    /\ addPc' = [addPc EXCEPT ![t] = "idle"]
    /\ IF addPc[t] = "sum" THEN Returns(t, operand[t], Signed(fetched[t] + operand[t]))
                           ELSE UNCHANGED result
    /\ fetched' = [fetched EXCEPT ![t] = 0]
    /\ operand' = [operand EXCEPT ![t] = 0]
    /\ UNCHANGED m_value

AtomicNext ==
    \E t \in Threads :
        \/ get(t) \/ Sum(t)
        \/ \E x \in Values : getAndSet(t, x)
        \/ \E x \in Operands :
            \/ getAndAdd(t, x) \/ add(t, x)
            \/ addAndGet(t, x, "sum")
            \/ x \in {-1, 1} /\ addAndGet(t, x, "drop")

AtomicSpec == AtomicInit /\ [][AtomicNext]_atomicVars

-----------------------------------------------------------------------------
(* Properties.                                                               *)

\* What a thread will have been answered once it has done its second addition.
Answered ==
    [t \in Threads |-> IF addPc[t] = "sum" THEN <<operand[t], Signed(fetched[t] + operand[t])>>
                                           ELSE result[t]]

C == INSTANCE Counter WITH value <- m_value, answer <- Answered

\* Every operation is atomic, addAndGet included, although it is two steps and
\* other threads change the value between them: what it returns is the value at
\* the moment of its own addition, so two incrementAndGets never return the same
\* (until the value has gone round).  Only where the value goes round is the
\* answer of addAndGet not the value: it is undefined.
ImplementsCounter == C!CounterSpec
=============================================================================
