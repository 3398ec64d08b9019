------------------------------- MODULE LogStream -------------------------------
(***************************************************************************)
(* muduo::base::LogStream and the detail::FixedBuffer it writes to           *)
(* (LogStream.hpp, LogStream.cpp), at the level of lengths: where m_cur is,  *)
(* and how far the array has been written.  A piece that does not fit is     *)
(* dropped; a number is formatted in place, behind m_cur and without looking *)
(* at the end of the array, once kMaxNumercSize bytes are free.              *)
(***************************************************************************)
EXTENDS Integers

CONSTANTS
    SIZE,               \* the template argument of FixedBuffer
    kMaxNumercSize,
    MaxDigits,          \* the longest text of an integer, sign included, of a
                        \* pointer, "0x" included, or of a double
    Lengths,            \* the lengths of the other pieces
    SizeMax             \* one more than the largest size_t

ASSUME LogStreamAssumption ==
    /\ SIZE \in Nat \ {0}
    /\ kMaxNumercSize \in Nat /\ MaxDigits \in Nat
    /\ MaxDigits < kMaxNumercSize
    /\ Lengths \subseteq Int
    /\ SizeMax \in Nat /\ SizeMax > SIZE

VARIABLES
    m_cur,      \* m_cur - m_data
    touched,    \* one past the last byte of m_data ever written
    thrown      \* has add() thrown?

vars == <<m_cur, touched, thrown>>

-----------------------------------------------------------------------------
larger(a, b) == IF a > b THEN a ELSE b

avail(cur) == SIZE - cur

\* The conversion of an int, which may be negative, to size_t.
SizeT(n) == n % SizeMax

\* Mutated: a piece may fill the array to the last byte.
FitsExactly(cur, len) == SizeT(avail(cur)) >= SizeT(len)

\* FixedBuffer::append and add: there must be more room than the piece needs.
Fits(cur, len) == SizeT(avail(cur)) > SizeT(len)

\* FixedBuffer::append(buf, len)
append(cur, len) == IF Fits(cur, len) THEN cur + SizeT(len) ELSE cur

\* Mutated: a number needs a byte of room.
NumberFitsByte(cur) == avail(cur) >= 1

\* formatInteger and the operators << of pointers and doubles: is there room?
NumberFits(cur) == avail(cur) >= kMaxNumercSize

Init == m_cur = 0 /\ touched = 0 /\ thrown = FALSE

\* The operators << of everything but numbers: bool and char, strings,
\* "(null)", StringPiece, another Buffer, Fmt; and LogStream::append, whose int
\* length becomes a size_t.
Piece(len) ==
    /\ m_cur' = append(m_cur, len)
    /\ touched' = larger(touched, m_cur')
    /\ UNCHANGED thrown

\* A number: digits bytes and a NUL are written at m_cur, then add(digits)
\* moves m_cur, or throws.
Number(digits) ==
    IF NumberFits(m_cur)
    THEN /\ touched' = larger(touched, m_cur + digits + 1)
         /\ m_cur' = append(m_cur, digits)
         /\ thrown' = (thrown \/ ~Fits(m_cur, digits))
    ELSE UNCHANGED vars

\* FixedBuffer::debugString: *m_cur = '\0'
debugString ==
    /\ touched' = larger(touched, m_cur + 1)
    /\ UNCHANGED <<m_cur, thrown>>

resetBuffer == m_cur' = 0 /\ UNCHANGED <<touched, thrown>>

Next ==
    \/ \E len \in Lengths : Piece(len)
    \/ \E digits \in 1 .. MaxDigits : Number(digits)
    \/ debugString
    \/ resetBuffer

Spec == Init /\ [][Next]_vars

-----------------------------------------------------------------------------
(* Properties.                                                               *)

\* However the pieces were chosen, no operator << has written behind the array,
\* neither the text nor the NUL that convert adds to it; and the byte m_cur
\* points to is inside: debugString's NUL, which is written without a check,
\* has room too, and avail() is never 0.
InBounds == touched \in 0 .. SIZE /\ m_cur \in 0 .. SIZE - 1

\* add() never finds that the number just formatted is too long, so no
\* operator << throws.
NeverThrows == ~thrown
=============================================================================
