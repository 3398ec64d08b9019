--------------------------------- MODULE Convert ---------------------------------
(***************************************************************************)
(* The operators << of integers and pointers (LogStream.hpp, LogStream.cpp)  *)
(* on a LogStream: detail::convert and detail::convertHex write the digits   *)
(* backwards, with the remainder of a negative value negative too, then the  *)
(* sign, then reverse them in place; then add() accounts for them.  The      *)
(* value is never negated, so the smallest one needs no special case; digit  *)
(* characters are the numbers they stand for.  Between two numbers the       *)
(* stream takes anything else that LogStream describes.                      *)
(***************************************************************************)
EXTENDS LogStream, CArith, SequencesExt

CONSTANTS
    MinValue, MaxValue      \* the smallest and the largest value of the integer types

\* The powers of b, up to one that no text of a number has the digits for.
Powers(b) ==
    LET power[k \in 0 .. MaxDigits] == IF k = 0 THEN 1 ELSE b * power[k - 1]
    IN  power

\* A text has MaxDigits characters at most: the digits of the largest value,
\* those of the smallest one with its sign, and those of a pointer behind "0x".
ASSUME ConvertAssumption ==
    /\ MinValue \in Int /\ MinValue <= 0 /\ MaxValue \in Nat
    /\ MaxDigits >= 3
    /\ MaxValue < Powers(10)[MaxDigits]
    /\ -MinValue < Powers(10)[MaxDigits - 1]
    /\ MaxValue < Powers(16)[MaxDigits - 2]

VARIABLES
    value, base,    \* the argument, and 10 or 16
    i,              \* the loop variable
    buf,            \* the characters from m_cur, or behind "0x", up to p
    pc              \* "idle", "loop", "sign" or "add"

numberVars == <<value, base, i, buf, pc>>
streamVars == <<m_cur, touched, thrown>>
convertVars == <<streamVars, numberVars>>

-----------------------------------------------------------------------------
\* The character, which is no digit.
Minus == -1

ConvertInit ==
    /\ Init
    /\ value = 0 /\ base = 10 /\ i = 0 /\ buf = <<>> /\ pc = "idle"

\* formatInteger and operator<<(const void*): nothing happens if there is too
\* little room.
formatInteger ==
    /\ pc = "idle" /\ NumberFits(m_cur)
    /\ \/ base' = 10 /\ value' \in MinValue .. MaxValue
       \/ base' = 16 /\ value' \in 0 .. MaxValue
    /\ i' = value' /\ buf' = <<>> /\ pc' = "loop"
    /\ UNCHANGED streamVars

\* Mutated: digits[] has no mirrored half.
digitWrapped(lsd) == lsd % 10

\* zero[lsd], for lsd in -9 .. 9; digitsHex[lsd]
digit(lsd) == IF lsd < 0 THEN -lsd ELSE lsd

\* i /= 10, or 16
quotient(n) == CDiv(n, base)

\* The body of do ... while (i != 0).
Digit ==
    /\ pc = "loop"
    /\ buf' = Append(buf, digit(CMod(i, base)))
    /\ i' = quotient(i)
    /\ pc' = IF i' # 0 THEN "loop" ELSE "sign"
    /\ UNCHANGED <<streamVars, value, base>>

hasSign(v) == v < 0

\* if (value < 0) *p++ = '-'; and std::reverse
Sign ==
    /\ pc = "sign"
    /\ buf' = Reverse(IF hasSign(value) THEN Append(buf, Minus) ELSE buf)
    /\ pc' = "add"
    /\ UNCHANGED <<streamVars, value, base, i>>

\* "0x" stands before the digits of a pointer.
Length == IF base = 16 THEN Len(buf) + 2 ELSE Len(buf)

\* Mutated: the NUL is taken for a part of the text.
AddWithNul ==
    /\ pc = "add" /\ pc' = "idle"
    /\ touched' = larger(touched, m_cur + Length + 1)
    /\ m_cur' = append(m_cur, Length + 1)
    /\ thrown' = (thrown \/ ~Fits(m_cur, Length))
    /\ value' = 0 /\ base' = 10 /\ i' = 0 /\ buf' = <<>>

\* m_buffer.add(len)
Add ==
    /\ pc = "add" /\ pc' = "idle"
    /\ Number(Length)
    /\ value' = 0 /\ base' = 10 /\ i' = 0 /\ buf' = <<>>

\* The operators << of everything else, doubles among it.
Other == pc = "idle" /\ Next /\ UNCHANGED numberVars

ConvertNext == formatInteger \/ Digit \/ Sign \/ Add \/ Other

ConvertSpec == ConvertInit /\ [][ConvertNext]_convertVars

-----------------------------------------------------------------------------
(* Properties.                                                               *)

IsNegative == Head(buf) = Minus
Digits == IF IsNegative THEN Tail(buf) ELSE buf
Magnitude == FoldLeft(LAMBDA n, d : base * n + d, 0, Digits)

\* The text is the usual one, and reading it back gives the value, for every
\* value of the type, the smallest one (which has no negation) included: no
\* leading zeros, a sign only before a number that is less than 0, and only
\* digits behind it.
ReadsBack ==
    pc = "add" =>
        /\ value = IF IsNegative THEN -Magnitude ELSE Magnitude
        /\ \A k \in 1 .. Len(Digits) : Digits[k] \in 0 .. base - 1
        /\ Len(Digits) > 1 => Head(Digits) # 0
        /\ IsNegative => Digits # <<0>>

\* Seen from outside, the conversion of a number is LogStream's Number: what is
\* proved of LogStream holds of the stream with the conversions in it.
ImplementsLogStream == Spec
=============================================================================
