------------------------------ MODULE StringPiece ------------------------------
(***************************************************************************)
(* muduo::base::StringPiece (StringPiech.hpp): a pointer and a length into   *)
(* memory that somebody else owns, two of them being cut and compared; and   *)
(* ProcessInfo::procname (ProcessInfo.cpp), which returns one.  Characters   *)
(* are their codes.  No operation looks at the bounds: a caller removes no   *)
(* more than there is.                                                      *)
(***************************************************************************)
EXTENDS Integers, FiniteSetsExt, Sequences

CONSTANTS
    Chars,      \* the characters that occur, 0 among them
    TextSize    \* the size of the memory, with the NUL that ends it

ASSUME StringPieceAssumption ==
    /\ 0 \in Chars /\ Chars \subseteq 0 .. 255
    /\ TextSize \in Nat \ {0}

VARIABLES memory, piece     \* the characters, and the two pieces

pieceVars == <<memory, piece>>

-----------------------------------------------------------------------------
\* StringPiece(), and clear(): a null pointer, which is -1 here.
NoPiece == [m_ptr |-> -1, m_length |-> 0]

PieceInit ==
    /\ memory \in {Append(text, 0) : text \in [1 .. TextSize - 1 -> Chars]}
    /\ piece = [p \in {1, 2} |-> NoPiece]

\* The character at a pointer, and the length of the C string there.
At(ptr) == memory[ptr + 1]
strlen(ptr) == Min({n \in 0 .. TextSize - ptr - 1 : At(ptr + n) = 0})

as_string(p) == [k \in 1 .. p.m_length |-> At(p.m_ptr + k - 1)]

remove_prefix(p, n) == [m_ptr |-> p.m_ptr + n, m_length |-> p.m_length - n]
remove_suffix(p, n) == [p EXCEPT !.m_length = @ - n]

\* string_view::find: the place of the first such character, or behind the end.
find(p, char) == Min({k \in 0 .. p.m_length - 1 : At(p.m_ptr + k) = char} \cup {p.m_length})

\* procname(stat): what stands between the first '(' and the first ')'.
procname(p) ==
    LET lp == find(p, 40)
        rp == find(p, 41)
    IN  IF lp < rp /\ rp < p.m_length
        THEN [m_ptr |-> p.m_ptr + lp + 1, m_length |-> rp - lp - 1]
        ELSE NoPiece

\* The constructors and set() with a C string and with a length, clear(),
\* remove_prefix, remove_suffix and procname.
Assign(k, p) == piece' = [piece EXCEPT ![k] = p]

PieceNext ==
    /\ \E k \in {1, 2} :
        \/ \E ptr \in 0 .. TextSize - 1 :
            \/ Assign(k, [m_ptr |-> ptr, m_length |-> strlen(ptr)])
            \/ \E len \in 0 .. TextSize - ptr : Assign(k, [m_ptr |-> ptr, m_length |-> len])
        \/ Assign(k, NoPiece)
        \/ \E n \in 0 .. piece[k].m_length :
            Assign(k, remove_prefix(piece[k], n)) \/ Assign(k, remove_suffix(piece[k], n))
        \/ Assign(k, procname(piece[3 - k]))
    /\ UNCHANGED memory

PieceSpec == PieceInit /\ [][PieceNext]_pieceVars

-----------------------------------------------------------------------------
(* Comparisons.                                                              *)

lesser(p, q) == Min({p.m_length, q.m_length})

\* The sign of the first difference, as unsigned characters.
memcmp(p, q, size) ==
    LET differ == {k \in 0 .. size - 1 : At(p.m_ptr + k) # At(q.m_ptr + k)}
    IN  IF differ = {} THEN 0
        ELSE IF At(p.m_ptr + Min(differ)) < At(q.m_ptr + Min(differ)) THEN -1 ELSE 1

equal(p, q) == p.m_length = q.m_length /\ memcmp(p, q, p.m_length) = 0

\* Mutated: a prefix is not before what it is a prefix of.
less_first(p, q) ==
    LET r == memcmp(p, q, lesser(p, q)) IN r < 0

\* STRINGPIECH_BINARY_PREDICATE; >= and > are these two with p and q exchanged
\* in each of its comparisons.
less(p, q) ==
    LET r == memcmp(p, q, lesser(p, q))
    IN  r < 0 \/ (r = 0 /\ p.m_length < q.m_length)

lessEqual(p, q) ==
    LET r == memcmp(p, q, lesser(p, q))
    IN  r < 0 \/ (r = 0 /\ p.m_length <= q.m_length)

compare(p, q) ==
    LET r == memcmp(p, q, lesser(p, q))
    IN  IF r # 0 THEN r
        ELSE IF p.m_length < q.m_length THEN -1
        ELSE IF p.m_length > q.m_length THEN 1 ELSE 0

starts_with(p, q) == p.m_length >= q.m_length /\ memcmp(p, q, q.m_length) = 0

-----------------------------------------------------------------------------
(* Properties.                                                               *)

Prefix(s, t) == Len(s) <= Len(t) /\ s = SubSeq(t, 1, Len(s))

\* The order of the dictionary, of whole texts.
Before(s, t) ==
    \/ s # t /\ Prefix(s, t)
    \/ \E k \in 1 .. Min({Len(s), Len(t)}) :
        SubSeq(s, 1, k - 1) = SubSeq(t, 1, k - 1) /\ s[k] < t[k]

\* However a piece came about, by construction, by cutting or by procname, it
\* lies inside the memory; and the six comparisons, compare() and
\* starts_with(), made of one memcmp each, agree with each other and with the
\* order of the texts, for pieces of different lengths, empty ones (of a null
\* pointer too), ones that overlap, and ones with a NUL inside.
PieceOrder ==
    LET p == piece[1] q == piece[2]
        s == as_string(p) t == as_string(q)
    IN  /\ \A k \in {1, 2} : piece[k] # NoPiece =>
            0 <= piece[k].m_ptr /\ 0 <= piece[k].m_length
                /\ piece[k].m_ptr + piece[k].m_length <= TextSize
        /\ equal(p, q) <=> s = t
        /\ less(p, q) <=> Before(s, t)
        /\ lessEqual(p, q) <=> ~Before(t, s)
        /\ compare(p, q) = IF s = t THEN 0 ELSE IF Before(s, t) THEN -1 ELSE 1
        /\ starts_with(p, q) <=> Prefix(t, s)
=============================================================================
