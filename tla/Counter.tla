-------------------------------- MODULE Counter --------------------------------
(***************************************************************************)
(* What an atomic integer promises: every operation takes effect at one      *)
(* moment, and what it returns is what the integer was, or became, at that   *)
(* very moment.  The value goes round at the ends of its type; a sum that    *)
(* would have to is undefined.                                              *)
(***************************************************************************)
EXTENDS Integers

CONSTANTS Threads, MinValue, MaxValue, Undefined

VARIABLES
    value,
    answer      \* what the last operation that returns something has given each
                \* thread, and the operand that is part of a sum

counterVars == <<value, answer>>

-----------------------------------------------------------------------------
Values == MinValue .. MaxValue

\* n, brought into the type.
Wrap(n) == MinValue + ((n - MinValue) % (MaxValue - MinValue + 1))

\* n, computed in the type: an overflow is undefined.
Exact(n) == IF n \in Values THEN n ELSE Undefined

Answers(t, x, n) == answer' = [answer EXCEPT ![t] = <<x, n>>]

CounterInit ==
    /\ value = 0
    /\ answer = [t \in Threads |-> <<0, 0>>]

\* The operation that leaves the value alone, the three that replace it by an
\* operand or a sum, and the one that returns nothing.
Read(t)        == Answers(t, 0, value) /\ UNCHANGED value
Exchange(t, x) == Answers(t, 0, value) /\ value' = x
FetchAdd(t, x) == Answers(t, 0, value) /\ value' = Wrap(value + x)
AddFetch(t, x) == Answers(t, x, Exact(value + x)) /\ value' = Wrap(value + x)
JustAdd(x)     == value' = Wrap(value + x) /\ UNCHANGED answer

CounterNext ==
    \/ \E t \in Threads : Read(t)
    \/ \E t \in Threads, x \in Values : Exchange(t, x) \/ FetchAdd(t, x) \/ AddFetch(t, x)
    \/ \E x \in Values : JustAdd(x)

CounterSpec == CounterInit /\ [][CounterNext]_counterVars
=============================================================================
