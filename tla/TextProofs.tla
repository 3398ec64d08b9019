------------------------------ MODULE TextProofs ------------------------------
(***************************************************************************)
(* Theorems about LogStream, Convert and StringPiece, for every value of     *)
(* their constants.  The buffer is never written out of bounds, and no add() *)
(* throws; every integer reads back from its text, and the conversion, digit *)
(* by digit, implements LogStream's one step; the comparisons of two pieces  *)
(* of text are one order.                                                   *)
(***************************************************************************)
EXTENDS Convert, StringPiece, FiniteSetTheorems, WellFoundedInduction, TLAPS

-----------------------------------------------------------------------------
(* FixedBuffer.  Fits compares sizes modulo SizeMax; the first lemma says    *)
(* what that amounts to while m_cur is inside the array.                     *)

IInv ==
    /\ m_cur \in 0 .. SIZE - 1
    /\ touched \in 0 .. SIZE
    /\ thrown = FALSE

\* A piece that fits leaves m_cur inside, and is not of negative length.
LEMMA FitsInside ==
    ASSUME NEW cur \in 0 .. SIZE - 1, NEW len \in Int, Fits(cur, len)
    PROVE  SizeT(len) \in 0 .. SIZE - cur - 1
<1>1. avail(cur) \in 1 .. SIZE
  BY LogStreamAssumption DEF avail
<1>2. SizeT(avail(cur)) = avail(cur)
  BY <1>1, LogStreamAssumption DEF SizeT
<1>3. SizeT(len) \in Nat
  BY LogStreamAssumption DEF SizeT
<1>4. QED
  BY <1>1, <1>2, <1>3 DEF Fits, avail

\* append() moves m_cur forwards, if at all, and keeps it inside.
LEMMA AppendInside ==
    ASSUME NEW cur \in 0 .. SIZE - 1, NEW len \in Int
    PROVE  append(cur, len) \in cur .. SIZE - 1
<1>1. CASE Fits(cur, len)
  BY <1>1, FitsInside, LogStreamAssumption DEF append
<1>2. CASE ~Fits(cur, len)
  BY <1>2, LogStreamAssumption DEF append
<1>3. QED
  BY <1>1, <1>2

\* Where a number may be written, the number and its NUL fit.
LEMMA NumberInside ==
    ASSUME NEW cur \in 0 .. SIZE - 1, NumberFits(cur), NEW digits \in 1 .. MaxDigits
    PROVE  Fits(cur, digits) /\ cur + digits + 1 <= SIZE
<1>1. cur + digits + 1 <= SIZE
  BY LogStreamAssumption DEF NumberFits, avail
<1>2. SizeT(digits) = digits /\ SizeT(avail(cur)) = avail(cur)
  <2>1. digits \in 0 .. SizeMax - 1 /\ avail(cur) \in 0 .. SizeMax - 1
    BY <1>1, LogStreamAssumption DEF avail
  <2>2. QED
    BY <2>1, LogStreamAssumption DEF SizeT
<1>3. QED
  BY <1>1, <1>2, LogStreamAssumption DEF Fits, avail

\* An empty buffer satisfies it.
LEMMA InitIInv == Init => IInv
  BY LogStreamAssumption DEF Init, IInv

\* Every operator, debugString and resetBuffer keep it.
LEMMA NextIInv == IInv /\ [Next]_vars => IInv'
<1> SUFFICES ASSUME IInv, [Next]_vars PROVE IInv'
  OBVIOUS
<1> USE LogStreamAssumption DEF IInv, larger
<1>1. ASSUME NEW len \in Lengths, Piece(len) PROVE IInv'
  <2>1. m_cur' \in 0 .. SIZE - 1
    BY <1>1, AppendInside DEF Piece
  <2>2. QED
    BY <1>1, <2>1 DEF Piece
<1>2. ASSUME NEW digits \in 1 .. MaxDigits, Number(digits) PROVE IInv'
  <2>1. CASE NumberFits(m_cur)
    <3>1. m_cur' \in 0 .. SIZE - 1
      BY <1>2, <2>1, AppendInside DEF Number
    <3>2. Fits(m_cur, digits) /\ m_cur + digits + 1 <= SIZE
      BY <1>2, <2>1, NumberInside
    <3>3. touched' = larger(touched, m_cur + digits + 1)
      BY <1>2, <2>1 DEF Number
    <3>4. touched' \in 0 .. SIZE
      BY <3>2, <3>3
    <3>5. thrown' = (thrown \/ ~Fits(m_cur, digits))
      BY <1>2, <2>1, Zenon DEF Number
    <3>6. thrown' = FALSE
      BY <3>2, <3>5, Zenon
    <3>7. QED
      BY <3>1, <3>4, <3>6
  <2>2. CASE ~NumberFits(m_cur)
    BY <1>2, <2>2 DEF Number, vars
  <2>3. QED
    BY <2>1, <2>2
<1>3. CASE debugString
  BY <1>3 DEF debugString
<1>4. CASE resetBuffer
  BY <1>4 DEF resetBuffer
<1>5. CASE UNCHANGED vars
  BY <1>5 DEF vars
<1>6. QED
  BY <1>1, <1>2, <1>3, <1>4, <1>5 DEF Next

\* The inductive invariant holds throughout every behavior.
THEOREM IInvHolds == Spec => []IInv
  BY InitIInv, NextIInv, PTL DEF Spec

\* No operator << writes behind the array, and debugString does not either.
THEOREM WritesInBounds == Spec => []InBounds
<1>1. IInv => InBounds
  BY DEF IInv, InBounds
<1>2. QED
  BY <1>1, IInvHolds, PTL

\* No operator << throws.
THEOREM AddNeverThrows == Spec => []NeverThrows
<1>1. IInv => NeverThrows
  BY DEF IInv, NeverThrows
<1>2. QED
  BY <1>1, IInvHolds, PTL

-----------------------------------------------------------------------------
(* Numbers.                                                                  *)

\* A set of numbers that is not empty has a least one.
LEMMA LeastNumber ==
    ASSUME NEW T \in SUBSET Nat, T # {}
    PROVE  \E n \in T : \A k \in T : n <= k
<1> DEFINE Below(m) == T \cap 0 .. m
           D == {Below(m) : m \in T}
<1>1. \A m \in T : Below(m) \in FiniteSubsetsOf(Nat)
  <2> TAKE m \in T
  <2>1. IsFiniteSet(0 .. m)
    BY FS_Interval
  <2>2. IsFiniteSet(Below(m))
    BY <2>1, FS_Intersection
  <2>3. QED
    BY <2>2 DEF FiniteSubsetsOf
<1>2. D \subseteq FiniteSubsetsOf(Nat) /\ D # {}
  BY <1>1
<1>3. IsWellFoundedOn(StrictSubsetOrdering(Nat), FiniteSubsetsOf(Nat))
  BY FS_StrictSubsetOrderingWellFounded
<1>4. PICK X \in D : \A Y \in D : ~(<<Y, X>> \in StrictSubsetOrdering(Nat))
  <2> HIDE DEF D
  <2> QED
    BY <1>2, <1>3, WFMin
<1>5. PICK n \in T : X = Below(n)
  OBVIOUS
<1>6. ASSUME NEW k \in T, k < n PROVE FALSE
  <2>1. Below(k) \subseteq Below(n) /\ n \in Below(n) /\ n \notin Below(k)
    BY <1>6
  <2>2. <<Below(k), Below(n)>> \in StrictSubsetOrdering(Nat)
    BY <2>1 DEF StrictSubsetOrdering
  <2>3. QED
    BY <2>2, <1>4, <1>5
<1>7. QED
  BY <1>6

-----------------------------------------------------------------------------
(* The text of an integer.                                                   *)

\* The greatest of the first numbers.
LEMMA MaxOfFirst ==
    ASSUME NEW n \in Nat \ {0}, NEW T \in SUBSET (1 .. n), n \in T
    PROVE  Max(T) = n
<1>1. \A x \in T : (\A y \in T : x >= y) => x = n
  OBVIOUS
<1>2. \A y \in T : n >= y
  OBVIOUS
<1>3. QED
  BY <1>1, <1>2 DEF Max

\* f folds the digits of seq into a number, for each set of their places.
FoldsTo(f, b, seq, n) ==
    f = [T \in SUBSET (1 .. n) |->
            IF T = {} THEN 0 ELSE b * f[T \ {Max(T)}] + seq[Max(T)]]

\* The same of each set.
FoldsEach(f, b, seq, n) ==
    \A T \in SUBSET (1 .. n) :
        f[T] = IF T = {} THEN 0 ELSE b * f[T \ {Max(T)}] + seq[Max(T)]

LEMMA FoldsToEach ==
    ASSUME NEW f, NEW b, NEW seq, NEW n \in Nat, FoldsTo(f, b, seq, n)
    PROVE  FoldsEach(f, b, seq, n)
<1> DEFINE F == [T \in SUBSET (1 .. n) |->
                    IF T = {} THEN 0 ELSE b * f[T \ {Max(T)}] + seq[Max(T)]]
<1>1. f = F
  BY DEF FoldsTo
<1>2. \A T \in SUBSET (1 .. n) :
        F[T] = IF T = {} THEN 0 ELSE b * f[T \ {Max(T)}] + seq[Max(T)]
  OBVIOUS
<1> HIDE DEF F
<1>3. \A T \in SUBSET (1 .. n) : f[T] = F[T]
  BY <1>1
<1>4. QED
  BY <1>2, <1>3 DEF FoldsEach

\* There is such a function: the first n without one would have one made of the
\* function for n - 1.
LEMMA FoldsToExists ==
    ASSUME NEW b, NEW seq, NEW n \in Nat
    PROVE  \E f : FoldsTo(f, b, seq, n)
<1> DEFINE N == {k \in Nat : ~ \E f : FoldsTo(f, b, seq, k)}
<1> SUFFICES ASSUME N # {} PROVE FALSE
  OBVIOUS
<1>1. PICK k \in N : \A j \in N : k <= j
  <2> HIDE DEF N
  <2>1. N \in SUBSET Nat
    BY DEF N
  <2> QED
    BY LeastNumber, <2>1
<1>2. k # 0
  <2> DEFINE F == [T \in SUBSET (1 .. 0) |-> 0]
  <2>1. \A T \in SUBSET (1 .. 0) : T = {}
    OBVIOUS
  <2>2. F = [T \in SUBSET (1 .. 0) |->
               IF T = {} THEN 0 ELSE b * F[T \ {Max(T)}] + seq[Max(T)]]
    BY <2>1
  <2> HIDE DEF F
  <2>3. FoldsTo(F, b, seq, 0)
    BY <2>2 DEF FoldsTo
  <2>4. QED
    BY <2>3
<1>3. k - 1 \in Nat /\ k - 1 \notin N /\ k \in Nat \ {0}
  BY <1>1, <1>2
<1>4. PICK f : FoldsTo(f, b, seq, k - 1)
  BY <1>3
<1> DEFINE h == [T \in SUBSET (1 .. k) |->
                   IF T = {} THEN 0
                   ELSE IF k \in T THEN b * f[T \ {k}] + seq[k] ELSE f[T]]
<1>5. \A T \in SUBSET (1 .. k - 1) :
        f[T] = IF T = {} THEN 0 ELSE b * f[T \ {Max(T)}] + seq[Max(T)]
  <2> DEFINE m == k - 1
  <2>1. m \in Nat /\ FoldsTo(f, b, seq, m)
    BY <1>3, <1>4
  <2> HIDE DEF m
  <2>2. FoldsEach(f, b, seq, m)
    BY <2>1, FoldsToEach
  <2>3. QED
    BY <2>2 DEF m, FoldsEach
<1>6. \A T \in SUBSET (1 .. k) :
        h[T] = IF T = {} THEN 0
               ELSE IF k \in T THEN b * f[T \ {k}] + seq[k] ELSE f[T]
  OBVIOUS
<1>7. h = [T \in SUBSET (1 .. k) |-> h[T]]
  OBVIOUS
<1> HIDE DEF h
<1>8. \A T \in SUBSET (1 .. k - 1) : h[T] = f[T]
  <2> TAKE T \in SUBSET (1 .. k - 1)
  <2>1. T \in SUBSET (1 .. k) /\ k \notin T
    BY <1>3
  <2>2. {} \in SUBSET (1 .. k - 1)
    OBVIOUS
  <2>3. f[{}] = 0
    BY <1>5, <2>2
  <2>4. QED
    BY <2>1, <2>3, <1>6
<1>9. ASSUME NEW T \in SUBSET (1 .. k)
      PROVE  h[T] = IF T = {} THEN 0 ELSE b * h[T \ {Max(T)}] + seq[Max(T)]
  <2>1. CASE T = {}
    BY <2>1, <1>6
  <2>2. CASE k \in T
    <3>1. Max(T) = k
      BY <2>2, <1>3, MaxOfFirst
    <3>2. T \ {k} \in SUBSET (1 .. k - 1)
      BY <1>3
    <3>3. h[T \ {k}] = f[T \ {k}]
      BY <3>2, <1>8
    <3>4. QED
      BY <3>1, <3>3, <2>2, <1>6
  <2>3. CASE T # {} /\ k \notin T
    <3>1. T \in SUBSET (1 .. k - 1)
      BY <2>3, <1>3
    <3>2. T \ {Max(T)} \in SUBSET (1 .. k - 1)
      BY <3>1
    <3>3. h[T] = f[T] /\ h[T \ {Max(T)}] = f[T \ {Max(T)}]
      BY <3>1, <3>2, <1>8
    <3>4. f[T] = b * f[T \ {Max(T)}] + seq[Max(T)]
      BY <3>1, <2>3, <1>5
    <3>5. QED
      BY <3>3, <3>4, <2>3
  <2>4. QED
    BY <2>1, <2>2, <2>3
<1>10. FoldsTo(h, b, seq, k)
  BY <1>7, <1>9 DEF FoldsTo
<1>11. QED
  BY <1>10

\* What a text of digits stands for.
NumberOf(b, seq) == FoldLeft(LAMBDA n, d : b * n + d, 0, seq)

LEMMA FoldIs ==
    ASSUME NEW b, NEW seq, NEW n \in Nat, DOMAIN seq = 1 .. n
    PROVE  \E f : FoldsTo(f, b, seq, n) /\ NumberOf(b, seq) = f[1 .. n]
<1> DEFINE h == CHOOSE f : FoldsTo(f, b, seq, n)
<1>1. FoldsTo(h, b, seq, n)
  BY FoldsToExists
<1>2. NumberOf(b, seq) = h[1 .. n]
  BY DEF NumberOf, FoldLeft, MapThenFoldSet, FoldsTo
<1>3. QED
  BY <1>1, <1>2

\* g is what is left of a number before each of its digits d is taken off it.
TakesOff(g, b, d) ==
    /\ g \in [0 .. Len(d) -> Nat]
    /\ \A k \in 1 .. Len(d) : g[k - 1] = b * g[k] + d[k]

LEMMA ReadReversed ==
    ASSUME NEW b \in Nat, NEW d \in Seq(Nat), NEW g, TakesOff(g, b, d), g[Len(d)] = 0
    PROVE  NumberOf(b, Reverse(d)) = g[0]
<1> DEFINE n == Len(d)
           seq == Reverse(d)
<1>1. /\ n \in Nat /\ DOMAIN seq = 1 .. n
      /\ \A k \in 1 .. n : seq[k] = d[(n - k) + 1]
  BY DEF Reverse
<1>2. /\ g \in [0 .. n -> Nat] /\ g[n] = 0
      /\ \A k \in 1 .. n : g[k - 1] = b * g[k] + d[k]
  BY DEF TakesOff
<1> HIDE DEF n, seq
<1>3. PICK f : FoldsTo(f, b, seq, n) /\ NumberOf(b, seq) = f[1 .. n]
  <2>1. n \in Nat /\ DOMAIN seq = 1 .. n
    BY <1>1
  <2>2. QED
    BY ONLY <2>1, FoldIs, Zenon
<1>4. \A T \in SUBSET (1 .. n) :
        f[T] = IF T = {} THEN 0 ELSE b * f[T \ {Max(T)}] + seq[Max(T)]
  <2>1. n \in Nat
    BY <1>1
  <2>2. FoldsEach(f, b, seq, n)
    BY <2>1, <1>3, FoldsToEach
  <2>3. QED
    BY <2>2 DEF FoldsEach
<1> DEFINE N == {k \in 0 .. n : f[1 .. k] # g[n - k]}
<1>5. N = {}
  <2> SUFFICES ASSUME N # {} PROVE FALSE
    OBVIOUS
  <2>1. PICK k \in N : \A j \in N : k <= j
    <3> HIDE DEF N
    <3>1. N \in SUBSET Nat
      BY DEF N
    <3> QED
      BY LeastNumber, <3>1
  <2>2. k \in 0 .. n /\ f[1 .. k] # g[n - k]
    OBVIOUS
  <2>3. k # 0
    <3>1. 1 .. 0 = {} /\ {} \in SUBSET (1 .. n) /\ n - 0 = n
      BY <1>1
    <3>2. f[{}] = 0
      BY <1>4, <3>1
    <3>3. QED
      BY <3>1, <3>2, <2>2, <1>2
  <2>4. k - 1 \in 0 .. n /\ k - 1 \notin N /\ k \in Nat \ {0} /\ k <= n /\ n - (k - 1) = (n - k) + 1
    BY <1>1, <2>1, <2>2, <2>3
  <2>5. f[1 .. (k - 1)] = g[(n - k) + 1]
    BY <2>4
  <2>6. 1 .. k \in SUBSET (1 .. n) /\ 1 .. k # {} /\ k \in 1 .. k /\ (1 .. k) \ {k} = 1 .. (k - 1)
    <3>1. k \in 1 .. k /\ k \in Nat /\ k >= 1
      BY <2>4
    <3>2. \A x : x \in 1 .. k => x \in 1 .. n
      BY <1>1, <2>4
    <3>3. \A x : x \in (1 .. k) \ {k} <=> x \in 1 .. (k - 1)
      BY <3>1
    <3>4. (1 .. k) \ {k} = 1 .. (k - 1)
      BY ONLY <3>3, Zenon
    <3>5. QED
      BY <3>1, <3>2, <3>4
  <2>7. Max(1 .. k) = k
    BY <2>4, <2>6, MaxOfFirst
  <2>8. f[1 .. k] = b * f[1 .. (k - 1)] + seq[k]
    BY <1>4, <2>6, <2>7
  <2>9. seq[k] = d[(n - k) + 1]
    BY <1>1, <2>4
  <2>10. (n - k) + 1 \in 1 .. n /\ ((n - k) + 1) - 1 = n - k
    BY <1>1, <2>4
  <2>11. g[n - k] = b * g[(n - k) + 1] + d[(n - k) + 1]
    BY <1>2, <2>10
  <2>12. QED
    BY <2>2, <2>5, <2>8, <2>9, <2>11
<1>6. n \in 0 .. n /\ n - n = 0
  BY <1>1
<1>7. f[1 .. n] = g[0]
  BY <1>5, <1>6
<1>8. QED
  BY <1>3, <1>7 DEF seq

\* The magnitude of a value, and what a turn of the loop does to it: the digit
\* and the quotient make it up again, and the quotient keeps the sign.
Mag(n) == IF n < 0 THEN -n ELSE n

LEMMA MagIs ==
    ASSUME NEW n \in Int
    PROVE  Mag(n) \in Nat /\ (n # 0 <=> Mag(n) >= 1)
  BY DEF Mag

\* The elements of a sequence, for the provers.
LEMMA ElementsOf ==
    ASSUME NEW S, NEW s \in Seq(S)
    PROVE  \A k \in 1 .. Len(s) : s[k] \in S
  OBVIOUS

LEMMA SequenceOf ==
    ASSUME NEW S, NEW n \in Nat, NEW s \in [1 .. n -> S]
    PROVE  s \in Seq(S) /\ Len(s) = n
  OBVIOUS

LEMMA WiderSequence ==
    ASSUME NEW S, NEW T, S \subseteq T, NEW s \in Seq(S)
    PROVE  s \in Seq(T)
  OBVIOUS

LEMMA DigitIs ==
    ASSUME NEW b \in {10, 16}, NEW a \in Int
    PROVE  /\ digit(CMod(a, b)) \in 0 .. b - 1
           /\ CDiv(a, b) \in Int
           /\ a >= 0 => CDiv(a, b) >= 0
           /\ a <= 0 => CDiv(a, b) <= 0
           /\ Mag(a) = b * Mag(CDiv(a, b)) + digit(CMod(a, b))
<1>1. ASSUME NEW n \in Nat
      PROVE  /\ n \div b \in Nat /\ n % b \in 0 .. b - 1
             /\ n = b * (n \div b) + (n % b)
  <2>1. CASE b = 10
    BY <2>1
  <2>2. CASE b = 16
    BY <2>2
  <2>3. QED
    BY <2>1, <2>2
<1>2. CASE a >= 0
  <2>1. CDiv(a, b) = a \div b /\ CMod(a, b) = a % b /\ a \in Nat
    BY <1>2 DEF CDiv, CMod
  <2> DEFINE q == a \div b
             r == a % b
  <2>2. q \in Nat /\ r \in 0 .. b - 1 /\ a = b * q + r
    BY <2>1, <1>1
  <2> HIDE DEF q, r
  <2>3. digit(r) = r /\ Mag(a) = a /\ Mag(q) = q /\ (a = 0 => q = 0)
    BY <1>2, <2>2 DEF digit, Mag
  <2>4. QED
    BY <1>2, <2>1, <2>2, <2>3 DEF q, r
<1>3. CASE a < 0
  <2>1. CDiv(a, b) = -((-a) \div b) /\ CMod(a, b) = -((-a) % b) /\ -a \in Nat
    BY <1>3 DEF CDiv, CMod
  <2> DEFINE q == (-a) \div b
             r == (-a) % b
  <2>2. q \in Nat /\ r \in 0 .. b - 1 /\ -a = b * q + r
    BY <2>1, <1>1
  <2>3. CDiv(a, b) = -q /\ CMod(a, b) = -r
    BY <2>1
  <2> HIDE DEF q, r
  <2>4. digit(-r) = r /\ Mag(a) = -a /\ Mag(-q) = q
    BY <1>3, <2>2 DEF digit, Mag
  <2>5. QED
    BY <1>3, <2>2, <2>3, <2>4
<1>4. QED
  BY <1>2, <1>3

\* p holds the first powers of b.
PowersTo(p, b, n) == p = [k \in 0 .. n |-> IF k = 0 THEN 1 ELSE b * p[k - 1]]

LEMMA PowersToEach ==
    ASSUME NEW p, NEW b, NEW n \in Nat, PowersTo(p, b, n)
    PROVE  \A k \in 0 .. n : p[k] = IF k = 0 THEN 1 ELSE b * p[k - 1]
<1> DEFINE P == [k \in 0 .. n |-> IF k = 0 THEN 1 ELSE b * p[k - 1]]
<1>1. p = P
  BY DEF PowersTo
<1>2. \A k \in 0 .. n : P[k] = IF k = 0 THEN 1 ELSE b * p[k - 1]
  OBVIOUS
<1> HIDE DEF P
<1>3. \A k \in 0 .. n : p[k] = P[k]
  BY <1>1
<1>4. QED
  BY <1>2, <1>3

LEMMA PowersToExist ==
    ASSUME NEW b, NEW n \in Nat
    PROVE  \E p : PowersTo(p, b, n)
<1> DEFINE N == {k \in Nat : ~ \E p : PowersTo(p, b, k)}
<1> SUFFICES ASSUME N # {} PROVE FALSE
  OBVIOUS
<1>1. PICK m \in N : \A j \in N : m <= j
  <2> HIDE DEF N
  <2>1. N \in SUBSET Nat
    BY DEF N
  <2> QED
    BY LeastNumber, <2>1
<1>2. m # 0
  <2> DEFINE P == [k \in 0 .. 0 |-> 1]
  <2>1. P = [k \in 0 .. 0 |-> IF k = 0 THEN 1 ELSE b * P[k - 1]]
    OBVIOUS
  <2> HIDE DEF P
  <2>2. PowersTo(P, b, 0)
    BY <2>1 DEF PowersTo
  <2>3. QED
    BY <2>2
<1>3. m - 1 \in Nat /\ m - 1 \notin N /\ m \in Nat \ {0}
  BY <1>1, <1>2
<1>4. PICK p : PowersTo(p, b, m - 1)
  BY <1>3
<1>5. \A k \in 0 .. m - 1 : p[k] = IF k = 0 THEN 1 ELSE b * p[k - 1]
  BY <1>3, <1>4, PowersToEach
<1> DEFINE h == [k \in 0 .. m |-> IF k = 0 THEN 1 ELSE b * p[k - 1]]
<1>6. h = [k \in 0 .. m |-> h[k]] /\ \A k \in 0 .. m : h[k] = IF k = 0 THEN 1 ELSE b * p[k - 1]
  OBVIOUS
<1> HIDE DEF h
<1>7. \A k \in 0 .. m - 1 : h[k] = p[k]
  BY <1>3, <1>5, <1>6
<1>8. \A k \in 0 .. m : h[k] = IF k = 0 THEN 1 ELSE b * h[k - 1]
  <2> TAKE k \in 0 .. m
  <2>1. k # 0 => k - 1 \in 0 .. m - 1
    BY <1>3
  <2>2. QED
    BY <2>1, <1>6, <1>7
<1>9. PowersTo(h, b, m)
  BY <1>6, <1>8 DEF PowersTo
<1>10. QED
  BY <1>9

\* What Powers holds.
LEMMA PowersAre ==
    ASSUME NEW b \in Nat
    PROVE  /\ \A k \in 0 .. MaxDigits : Powers(b)[k] \in Nat
           /\ Powers(b)[0] = 1
           /\ \A k \in 1 .. MaxDigits : Powers(b)[k] = b * Powers(b)[k - 1]
<1> DEFINE p == Powers(b)
<1>1. MaxDigits \in Nat
  BY LogStreamAssumption
<1>2. p = CHOOSE f : PowersTo(f, b, MaxDigits)
  BY DEF Powers, PowersTo
<1>3. PowersTo(p, b, MaxDigits)
  BY <1>1, <1>2, PowersToExist
<1> HIDE DEF p
<1>4. \A k \in 0 .. MaxDigits : p[k] = IF k = 0 THEN 1 ELSE b * p[k - 1]
  BY <1>1, <1>3, PowersToEach
<1> DEFINE N == {k \in 0 .. MaxDigits : p[k] \notin Nat}
<1>5. N = {}
  <2> SUFFICES ASSUME N # {} PROVE FALSE
    OBVIOUS
  <2>1. PICK k \in N : \A j \in N : k <= j
    <3> HIDE DEF N
    <3>1. N \in SUBSET Nat
      BY DEF N
    <3> QED
      BY LeastNumber, <3>1
  <2>2. k \in 0 .. MaxDigits /\ p[k] \notin Nat
    OBVIOUS
  <2>3. k # 0
    BY <1>1, <1>4, <2>2
  <2>4. k - 1 \in 0 .. MaxDigits /\ k - 1 \notin N
    BY <1>1, <2>1, <2>2, <2>3
  <2>5. p[k - 1] \in Nat
    BY <2>4
  <2>6. QED
    BY <1>4, <2>2, <2>3, <2>5
<1>6. QED
  BY <1>1, <1>4, <1>5 DEF p

\* How many digits the text of a value may have, and with what stands before
\* them.
Limit == IF base = 16 THEN MaxDigits - 2 ELSE IF value < 0 THEN MaxDigits - 1 ELSE MaxDigits

\* The digits in buf have been taken off the value, and rest is what is left.
Taken(rest) ==
    \E g : TakesOff(g, base, buf) /\ g[0] = Mag(value) /\ g[Len(buf)] = rest

NumberInv ==
    /\ base \in {10, 16} /\ value \in Int /\ i \in Int
    /\ base = 16 => value >= 0
    /\ Mag(value) < Powers(base)[Limit]

LoopInv ==
    pc = "loop" =>
        /\ buf \in Seq(0 .. base - 1)
        /\ value >= 0 => i >= 0
        /\ value < 0 => i <= 0
        /\ Len(buf) > 0 => i # 0
        /\ Taken(Mag(i))
        /\ Len(buf) < Limit
        /\ Powers(base)[Len(buf)] * Mag(i) <= Mag(value)

SignInv ==
    pc = "sign" =>
        /\ buf \in Seq(0 .. base - 1)
        /\ Len(buf) \in 1 .. Limit
        /\ Len(buf) > 1 => buf[Len(buf)] # 0
        /\ Taken(0)

AddInv == pc = "add" => Length \in 1 .. MaxDigits

ConvertInv ==
    /\ pc \in {"idle", "loop", "sign", "add"}
    /\ NumberInv /\ LoopInv /\ SignInv /\ AddInv /\ ReadsBack

\* Each value fits into a text.
LEMMA ValueFits ==
    /\ MaxDigits \in Nat /\ MaxDigits >= 3
    /\ \A n \in MinValue .. MaxValue :
         Mag(n) < Powers(10)[IF n < 0 THEN MaxDigits - 1 ELSE MaxDigits]
    /\ \A n \in 0 .. MaxValue : Mag(n) < Powers(16)[MaxDigits - 2]
<1>1. MaxDigits \in Nat /\ MaxDigits >= 3 /\ MinValue \in Int /\ MaxValue \in Nat
  BY LogStreamAssumption, ConvertAssumption
<1>2. /\ Powers(10)[MaxDigits] \in Nat /\ Powers(10)[MaxDigits - 1] \in Nat
      /\ Powers(16)[MaxDigits - 2] \in Nat
  <2>1. MaxDigits \in 0 .. MaxDigits /\ MaxDigits - 1 \in 0 .. MaxDigits
        /\ MaxDigits - 2 \in 0 .. MaxDigits
    BY <1>1
  <2>2. QED
    BY <2>1, PowersAre
<1>3. /\ MaxValue < Powers(10)[MaxDigits]
      /\ -MinValue < Powers(10)[MaxDigits - 1]
      /\ MaxValue < Powers(16)[MaxDigits - 2]
  BY ConvertAssumption
<1> DEFINE P == Powers(10)[MaxDigits]
           Q == Powers(10)[MaxDigits - 1]
           R == Powers(16)[MaxDigits - 2]
<1> HIDE DEF P, Q, R
<1>4. P \in Nat /\ Q \in Nat /\ R \in Nat /\ MaxValue < P /\ -MinValue < Q /\ MaxValue < R
  BY <1>2, <1>3 DEF P, Q, R
<1>5. \A n \in MinValue .. MaxValue : IF n < 0 THEN Mag(n) < Q ELSE Mag(n) < P
  BY <1>1, <1>4 DEF Mag
<1>6. \A n \in 0 .. MaxValue : Mag(n) < R
  BY <1>1, <1>4 DEF Mag
<1>7. QED
  BY <1>1, <1>5, <1>6 DEF P, Q, R

LEMMA ConvertInvInit == ConvertInit => ConvertInv
<1> SUFFICES ASSUME ConvertInit PROVE ConvertInv
  OBVIOUS
<1>1. value = 0 /\ base = 10 /\ i = 0 /\ buf = <<>> /\ pc = "idle"
  BY DEF ConvertInit
<1>2. 0 \in MinValue .. MaxValue /\ 10 \in {10, 16} /\ ~(10 = 16)
  BY ConvertAssumption
<1>3. Mag(0) < Powers(10)[MaxDigits]
  BY <1>2, ValueFits
<1>4. NumberInv
  BY <1>1, <1>2, <1>3 DEF NumberInv, Limit
<1>5. QED
  BY <1>1, <1>4 DEF ConvertInv, LoopInv, SignInv, AddInv, ReadsBack

\* A number to be converted.
LEMMA FormatKeeps == ConvertInv /\ formatInteger => ConvertInv'
<1> SUFFICES ASSUME ConvertInv, formatInteger PROVE ConvertInv'
  OBVIOUS
<1>1. /\ i' = value' /\ buf' = <<>> /\ pc' = "loop"
      /\ (base' = 10 /\ value' \in MinValue .. MaxValue) \/ (base' = 16 /\ value' \in 0 .. MaxValue)
  BY DEF formatInteger
<1>2. /\ base' \in {10, 16} /\ value' \in Int /\ (base' = 16 => value' >= 0)
  BY <1>1, ConvertAssumption
<1>3. Mag(value)' < Powers(base')[Limit'] /\ Limit' \in Nat /\ Limit' >= 1
  <2>1. CASE base' = 10 /\ value' \in MinValue .. MaxValue
    <3>1. Limit' = IF value' < 0 THEN MaxDigits - 1 ELSE MaxDigits
      BY <2>1 DEF Limit
    <3>2. Mag(value') < Powers(10)[Limit']
      BY <3>1, <2>1, ValueFits
    <3>3. QED
      BY <3>1, <3>2, <2>1, ValueFits
  <2>2. CASE base' = 16 /\ value' \in 0 .. MaxValue
    <3>1. Limit' = MaxDigits - 2
      BY <2>2 DEF Limit
    <3>2. Mag(value') < Powers(16)[Limit']
      BY <3>1, <2>2, ValueFits
    <3>3. QED
      BY <3>1, <3>2, <2>2, ValueFits
  <2>3. QED
    BY <1>1, <2>1, <2>2
<1>4. NumberInv'
  BY <1>1, <1>2, <1>3 DEF NumberInv
<1>5. Mag(value') \in Nat
  BY <1>2, MagIs
<1>6. Taken(Mag(i))'
  <2> DEFINE g == [k \in 0 .. 0 |-> Mag(value')]
  <2>1. /\ g \in [0 .. Len(buf') -> Nat] /\ 1 .. Len(buf') = {}
        /\ g[0] = Mag(value') /\ g[Len(buf')] = Mag(i')
    BY <1>1, <1>5
  <2> HIDE DEF g
  <2>2. TakesOff(g, base', buf')
    BY <2>1 DEF TakesOff
  <2>3. QED
    BY <2>1, <2>2 DEF Taken
<1>7. Powers(base')[Len(buf')] * Mag(i') <= Mag(value')
  <2>1. Powers(base')[0] = 1 /\ Len(buf') = 0
    BY <1>1, <1>2, PowersAre
  <2>2. QED
    BY <2>1, <1>1, <1>5
<1>8. LoopInv'
  <2>1. buf' \in Seq(0 .. base' - 1) /\ Len(buf') = 0
    BY <1>1
  <2>2. QED
    BY <2>1, <1>1, <1>2, <1>3, <1>6, <1>7 DEF LoopInv
<1>9. SignInv' /\ AddInv' /\ ReadsBack'
  BY <1>1 DEF SignInv, AddInv, ReadsBack
<1>10. QED
  BY <1>1, <1>4, <1>8, <1>9 DEF ConvertInv

\* A turn of the loop.
LEMMA DigitKeeps == ConvertInv /\ Digit => ConvertInv'
<1> SUFFICES ASSUME ConvertInv, Digit PROVE ConvertInv'
  OBVIOUS
<1> DEFINE d == digit(CMod(i, base))
           n == Len(buf)
<1>1. /\ pc = "loop" /\ buf' = Append(buf, d) /\ i' = CDiv(i, base)
      /\ pc' = (IF i' # 0 THEN "loop" ELSE "sign") /\ value' = value /\ base' = base
  BY DEF Digit, quotient
<1>2. /\ base \in {10, 16} /\ value \in Int /\ i \in Int
      /\ base = 16 => value >= 0
      /\ Mag(value) < Powers(base)[Limit]
  BY DEF ConvertInv, NumberInv
<1>3. /\ buf \in Seq(0 .. base - 1) /\ (value >= 0 => i >= 0) /\ (value < 0 => i <= 0)
      /\ (n > 0 => i # 0) /\ Taken(Mag(i)) /\ n < Limit
      /\ Powers(base)[n] * Mag(i) <= Mag(value)
  BY <1>1 DEF ConvertInv, LoopInv
<1>4. /\ d \in 0 .. base - 1 /\ i' \in Int /\ (i >= 0 => i' >= 0) /\ (i <= 0 => i' <= 0)
      /\ Mag(i) = base * Mag(i') + d
  BY <1>1, <1>2, DigitIs
<1>5. n \in Nat /\ Limit \in Nat /\ Limit <= MaxDigits /\ Limit' = Limit
  BY <1>1, <1>2, <1>3, ValueFits DEF Limit
<1> HIDE DEF d
<1>6. /\ buf' \in Seq(0 .. base - 1) /\ Len(buf') = n + 1 /\ buf'[n + 1] = d
      /\ \A k \in 1 .. n : buf'[k] = buf[k]
  BY <1>1, <1>3, <1>4
<1> HIDE DEF n
<1>7. Mag(i) \in Nat /\ Mag(i') \in Nat /\ Mag(value) \in Nat
  BY <1>2, <1>4, <1>1, MagIs
<1>8. Taken(Mag(i))'
  <2>1. PICK g : TakesOff(g, base, buf) /\ g[0] = Mag(value) /\ g[n] = Mag(i)
    BY <1>3 DEF Taken, n
  <2>2. g \in [0 .. n -> Nat] /\ \A k \in 1 .. n : g[k - 1] = base * g[k] + buf[k]
    BY <2>1 DEF TakesOff, n
  <2> DEFINE h == [k \in 0 .. n + 1 |-> IF k = n + 1 THEN Mag(i') ELSE g[k]]
  <2>3. h \in [0 .. n + 1 -> Nat]
    BY <2>2, <1>5, <1>7
  <2>4. h[n + 1] = Mag(i') /\ \A k \in 0 .. n : h[k] = g[k]
    BY <1>5
  <2> HIDE DEF h
  <2>5. ASSUME NEW k \in 1 .. n + 1 PROVE h[k - 1] = base * h[k] + buf'[k]
    <3>1. CASE k = n + 1
      <4>1. k - 1 = n /\ n \in 0 .. n
        BY <3>1, <1>5
      <4>2. QED
        BY <4>1, <3>1, <2>1, <2>4, <1>4, <1>6
    <3>2. CASE k # n + 1
      <4>1. k \in 1 .. n /\ k \in 0 .. n /\ k - 1 \in 0 .. n
        BY <3>2, <1>5
      <4>2. QED
        BY <4>1, <2>2, <2>4, <1>6
    <3>3. QED
      BY <3>1, <3>2
  <2>6. TakesOff(h, base, buf')
    BY <2>3, <2>5, <1>6 DEF TakesOff
  <2>7. h[0] = Mag(value)
    BY <2>1, <2>4, <1>5
  <2>8. QED
    BY <2>4, <2>6, <2>7, <1>1, <1>6 DEF Taken
<1>9. NumberInv'
  BY <1>1, <1>2, <1>4, <1>5 DEF NumberInv
<1>10. ASSUME i' # 0
       PROVE  n + 1 < Limit /\ Powers(base)[n + 1] * Mag(i') <= Mag(value)
  <2> DEFINE P == Powers(base)[n]
             Q == Powers(base)[n + 1]
             m == Mag(i')
  <2>1. P \in Nat /\ Q \in Nat /\ Q = base * P
    <3>1. n \in 0 .. MaxDigits /\ n + 1 \in 0 .. MaxDigits /\ n + 1 \in 1 .. MaxDigits
          /\ (n + 1) - 1 = n /\ base \in Nat
      BY <1>2, <1>3, <1>5, ValueFits
    <3>2. QED
      BY <3>1, PowersAre
  <2>2. m \in Nat /\ m >= 1
    BY <1>4, <1>10, MagIs
  <2>3. P * Mag(i) <= Mag(value) /\ Mag(i) >= base * m
    <3> HIDE DEF m
    <3>1. Mag(i) = base * m + d
      BY <1>4 DEF m
    <3>2. base * m \in Nat
      BY <1>2, <2>2
    <3>3. QED
      BY <1>3, <1>4, <3>1, <3>2
  <2> HIDE DEF P, Q, m
  <2>4. Q * m <= Mag(value)
    <3>1. P * (base * m) <= P * Mag(i)
      BY <1>2, <1>7, <2>1, <2>2, <2>3
    <3>2. P * (base * m) = Q * m
      BY <1>2, <2>1, <2>2
    <3>3. P * Mag(i) \in Nat /\ Q * m \in Nat
      BY <1>7, <2>1, <2>2
    <3>4. QED
      BY <3>1, <3>2, <3>3, <2>3, <1>7
  <2>5. Q <= Mag(value)
    BY <2>1, <2>2, <2>4, <1>7
  <2>6. n + 1 # Limit
    <3> SUFFICES ASSUME n + 1 = Limit PROVE FALSE
      OBVIOUS
    <3>1. Mag(value) < Q
      BY <1>2 DEF Q
    <3>2. QED
      BY <3>1, <2>1, <2>5, <1>7
  <2>7. QED
    BY <2>4, <2>6, <1>3, <1>5 DEF Q, m
<1>11. LoopInv'
  BY <1>1, <1>3, <1>4, <1>5, <1>6, <1>8, <1>10 DEF LoopInv
<1>12. SignInv'
  <2> SUFFICES ASSUME pc' = "sign"
               PROVE  /\ buf' \in Seq(0 .. base' - 1) /\ Len(buf') \in 1 .. Limit'
                      /\ Len(buf') > 1 => buf'[Len(buf')] # 0
                      /\ Taken(0)'
    BY DEF SignInv
  <2>1. i' = 0
    BY <1>1
  <2>2. Mag(i') = 0 /\ Mag(i) = d
    BY <2>1, <1>2, <1>4 DEF Mag
  <2>3. Taken(0)'
    BY <1>8, <2>2 DEF Taken
  <2>4. n > 0 => d # 0
    BY <2>2, <1>2, <1>3 DEF Mag
  <2>5. QED
    BY <2>3, <2>4, <1>1, <1>3, <1>5, <1>6
<1>13. AddInv' /\ ReadsBack'
  BY <1>1 DEF AddInv, ReadsBack
<1>14. QED
  BY <1>1, <1>9, <1>11, <1>12, <1>13 DEF ConvertInv

\* The sign, and the reversal.
LEMMA SignKeeps == ConvertInv /\ Sign => ConvertInv'
<1> SUFFICES ASSUME ConvertInv, Sign PROVE ConvertInv'
  OBVIOUS
<1> DEFINE n == Len(buf)
           rev == Reverse(buf)
<1>1. /\ pc = "sign" /\ pc' = "add" /\ value' = value /\ base' = base /\ i' = i
      /\ buf' = Reverse(IF value < 0 THEN Append(buf, Minus) ELSE buf)
  BY DEF Sign, hasSign
<1>2. /\ base \in {10, 16} /\ value \in Int /\ i \in Int
      /\ base = 16 => value >= 0
      /\ Mag(value) < Powers(base)[Limit]
  BY DEF ConvertInv, NumberInv
<1>3. /\ buf \in Seq(0 .. base - 1) /\ n \in 1 .. Limit
      /\ (n > 1 => buf[n] # 0) /\ Taken(0)
  BY <1>1 DEF ConvertInv, SignInv
<1>4. n \in Nat /\ Limit \in Nat /\ Limit' = Limit
  BY <1>1, <1>2, <1>3, ValueFits DEF Limit
<1>5. PICK g : TakesOff(g, base, buf) /\ g[0] = Mag(value) /\ g[n] = 0
  BY <1>3 DEF Taken
<1>6. \A k \in 1 .. n : buf[k] \in 0 .. base - 1
  BY <1>3, ElementsOf
<1>7. NumberOf(base, rev) = Mag(value)
  <2>1. 0 .. base - 1 \subseteq Nat /\ base \in Nat
    BY <1>2
  <2>2. buf \in Seq(Nat)
    BY <2>1, <1>3
  <2>3. QED
    BY <2>1, <2>2, <1>5, ReadReversed
<1>8. /\ rev \in Seq(0 .. base - 1) /\ Len(rev) = n
      /\ \A k \in 1 .. n : rev[k] = buf[(n - k) + 1]
  <2>1. rev = [k \in 1 .. n |-> buf[(n - k) + 1]]
    BY DEF Reverse
  <2>2. \A k \in 1 .. n : (n - k) + 1 \in 1 .. n
    BY <1>4
  <2> HIDE DEF rev, n
  <2>3. \A k \in 1 .. n : rev[k] = buf[(n - k) + 1] /\ buf[(n - k) + 1] \in 0 .. base - 1
    BY <2>1, <2>2, <1>6
  <2>4. rev \in [1 .. n -> 0 .. base - 1]
    BY <2>1, <2>2, <1>6
  <2>5. rev \in Seq(0 .. base - 1) /\ Len(rev) = n
    BY <2>4, <1>4, SequenceOf
  <2>6. QED
    BY <2>3, <2>5
<1> HIDE DEF rev, n
<1>9. rev[1] = buf[n] /\ Head(rev) = buf[n] /\ buf[n] \in 0 .. base - 1
  <2>1. 1 \in 1 .. n /\ n \in 1 .. n /\ (n - 1) + 1 = n
    BY <1>3, <1>4
  <2>2. QED
    BY <2>1, <1>6, <1>8
<1>10. /\ IsNegative' <=> value < 0
       /\ Digits' = rev /\ Len(buf') = IF value < 0 THEN n + 1 ELSE n
  <2>1. CASE value < 0
    <3> DEFINE long == Append(buf, Minus)
    <3>1. /\ long \in Seq(Int) /\ Len(long) = n + 1 /\ long[n + 1] = Minus
          /\ \A k \in 1 .. n : long[k] = buf[k]
      <4>1. buf \in Seq(Int) /\ Minus \in Int
        <5>1. 0 .. base - 1 \subseteq Int /\ Minus \in Int
          BY DEF Minus
        <5>2. buf \in Seq(Int)
          BY <5>1, <1>3, WiderSequence
        <5>3. QED
          BY <5>1, <5>2
      <4>2. QED
        BY <4>1 DEF n
    <3>2. buf' = [k \in 1 .. n + 1 |-> long[((n + 1) - k) + 1]]
      BY <2>1, <1>1, <3>1 DEF Reverse
    <3> HIDE DEF long
    <3>3. /\ \A k \in 1 .. n + 1 : buf'[k] = long[((n + 1) - k) + 1]
          /\ \A k \in 1 .. n + 1 : ((n + 1) - k) + 1 \in 1 .. n + 1
      BY <3>2, <1>4
    <3>4. buf' \in Seq(Int) /\ Len(buf') = n + 1
      <4>1. \A k \in 1 .. n + 1 : long[k] \in Int
        BY <3>1
      <4>2. buf' \in [1 .. n + 1 -> Int]
        BY <4>1, <3>2, <3>3
      <4>3. n + 1 \in Nat
        BY <1>4
      <4>4. QED
        BY <4>2, <4>3
    <3>5. Head(buf') = Minus
      <4>1. 1 \in 1 .. n + 1 /\ ((n + 1) - 1) + 1 = n + 1
        BY <1>4
      <4>2. buf'[1] = Minus
        BY <4>1, <3>1, <3>3
      <4>3. QED
        BY <4>2, <3>4, <1>4
    <3>6. Tail(buf') = rev
      <4>1. /\ Tail(buf') \in Seq(Int) /\ Len(Tail(buf')) = n
            /\ \A k \in 1 .. n : Tail(buf')[k] = buf'[k + 1]
        BY <3>4, <1>4
      <4>2. \A k \in 1 .. n : Tail(buf')[k] = rev[k]
        <5> TAKE k \in 1 .. n
        <5>1. k + 1 \in 1 .. n + 1 /\ ((n + 1) - (k + 1)) + 1 = (n - k) + 1 /\ (n - k) + 1 \in 1 .. n
          BY <1>4
        <5>2. buf'[k + 1] = long[(n - k) + 1]
          BY <5>1, <3>3
        <5>3. QED
          BY <5>1, <5>2, <3>1, <4>1, <1>8
      <4>3. rev \in Seq(Int)
        <5>1. 0 .. base - 1 \subseteq Int
          OBVIOUS
        <5>2. QED
          BY <5>1, <1>8, WiderSequence
      <4>4. QED
        <5> DEFINE tl == Tail(buf')
        <5>1. tl \in Seq(Int) /\ Len(tl) = n /\ \A k \in 1 .. n : tl[k] = rev[k]
          BY <4>1, <4>2
        <5> HIDE DEF tl
        <5>2. tl \in [1 .. n -> Int] /\ rev \in [1 .. n -> Int]
          BY <5>1, <4>3, <1>8
        <5>3. tl = rev
          BY <5>1, <5>2
        <5>4. QED
          BY <5>3 DEF tl
    <3>7. QED
      BY <2>1, <3>4, <3>5, <3>6 DEF IsNegative, Digits
  <2>2. CASE ~(value < 0)
    <3>1. buf' = rev
      BY <2>2, <1>1 DEF rev
    <3>2. Head(buf') # Minus
      BY <3>1, <1>2, <1>9 DEF Minus
    <3>3. QED
      BY <2>2, <3>1, <3>2, <1>8 DEF IsNegative, Digits
  <2>3. QED
    BY <2>1, <2>2
<1>11. Magnitude' = Mag(value)
  <2>1. Magnitude' = NumberOf(base', Digits')
    BY DEF Magnitude, NumberOf, FoldLeft, MapThenFoldSet
  <2>2. QED
    BY <2>1, <1>1, <1>7, <1>10
<1>12. ReadsBack'
  <2>1. value' = IF IsNegative' THEN -Magnitude' ELSE Magnitude'
    BY <1>1, <1>2, <1>10, <1>11 DEF Mag
  <2>2. \A k \in 1 .. Len(Digits') : Digits'[k] \in 0 .. base' - 1
    <3>1. \A k \in 1 .. Len(rev) : rev[k] \in 0 .. base - 1
      BY <1>8, ElementsOf
    <3>2. QED
      BY <3>1, <1>1, <1>10
  <2>3. Len(Digits') > 1 => Head(Digits') # 0
    BY <1>3, <1>8, <1>9, <1>10
  <2>4. IsNegative' => Digits' # <<0>>
    <3> SUFFICES ASSUME 0 > value, Len(rev) = 1, rev[1] = 0 PROVE FALSE
      BY <1>10
    <3>1. n = 1 /\ buf[1] = 0
      BY <1>8, <1>9
    <3>2. g[0] = base * g[1] + buf[1] /\ g[1] = 0
      <4>1. 1 \in 1 .. Len(buf) /\ 1 - 1 = 0
        BY <3>1 DEF n
      <4>2. QED
        BY <4>1, <3>1, <1>5 DEF TakesOff
    <3>3. Mag(value) = 0
      BY <3>1, <3>2, <1>2, <1>5
    <3>4. QED
      BY <3>3, <1>2 DEF Mag
  <2>5. QED
    BY <2>1, <2>2, <2>3, <2>4 DEF ReadsBack
<1>13. Length' \in 1 .. MaxDigits
  <2>1. Length' = (IF base = 16 THEN Len(buf') + 2 ELSE Len(buf')) /\ MaxDigits \in Nat /\ MaxDigits >= 3
    BY <1>1, ValueFits DEF Length
  <2>2. Limit = IF base = 16 THEN MaxDigits - 2 ELSE IF value < 0 THEN MaxDigits - 1 ELSE MaxDigits
    BY DEF Limit
  <2>3. QED
    BY <2>1, <2>2, <1>2, <1>3, <1>4, <1>10
<1>14. NumberInv'
  BY <1>1, <1>2, <1>4 DEF NumberInv
<1>15. QED
  BY <1>1, <1>12, <1>13, <1>14 DEF ConvertInv, LoopInv, SignInv, AddInv

\* add(), and everything else.
LEMMA ConvertInvNext == ConvertInv /\ [ConvertNext]_convertVars => ConvertInv'
<1> SUFFICES ASSUME ConvertInv, [ConvertNext]_convertVars PROVE ConvertInv'
  OBVIOUS
<1>1. CASE formatInteger
  BY <1>1, FormatKeeps
<1>2. CASE Digit
  BY <1>2, DigitKeeps
<1>3. CASE Sign
  BY <1>3, SignKeeps
<1>4. CASE Add
  <2>1. pc' = "idle" /\ value' = 0 /\ base' = 10 /\ i' = 0
    BY <1>4 DEF Add
  <2>2. 0 \in MinValue .. MaxValue /\ 10 \in {10, 16} /\ ~(10 = 16)
    BY ConvertAssumption
  <2>3. Mag(0) < Powers(10)[MaxDigits]
    BY <2>2, ValueFits
  <2>4. NumberInv'
    BY <2>1, <2>2, <2>3 DEF NumberInv, Limit
  <2>5. QED
    BY <2>1, <2>4 DEF ConvertInv, LoopInv, SignInv, AddInv, ReadsBack
<1>5. CASE Other \/ UNCHANGED convertVars
  <2>1. value' = value /\ base' = base /\ i' = i /\ buf' = buf /\ pc' = pc
    BY <1>5 DEF Other, convertVars, numberVars
  <2>2. NumberInv' /\ LoopInv' /\ SignInv' /\ AddInv'
    BY <2>1 DEF ConvertInv, NumberInv, LoopInv, SignInv, AddInv, Limit, Taken, Length
  <2>3. Magnitude' = NumberOf(base', Digits') /\ Magnitude = NumberOf(base, Digits)
    BY DEF Magnitude, NumberOf, FoldLeft, MapThenFoldSet
  <2>4. Digits' = Digits /\ (IsNegative' <=> IsNegative)
    BY <2>1 DEF Digits, IsNegative
  <2>5. Magnitude' = Magnitude
    BY <2>1, <2>3, <2>4
  <2>6. ReadsBack'
    BY <2>1, <2>4, <2>5 DEF ConvertInv, ReadsBack
  <2>7. QED
    BY <2>1, <2>2, <2>6 DEF ConvertInv
<1>6. QED
  BY <1>1, <1>2, <1>3, <1>4, <1>5 DEF ConvertNext

\* The text of every value of an integer type, of any width whose texts fit,
\* is the usual one and reads back as the value.
THEOREM ReadsBackHolds == ConvertSpec => []ReadsBack
<1>1. ConvertInv => ReadsBack
  BY DEF ConvertInv
<1>2. QED
  BY <1>1, ConvertInvInit, ConvertInvNext, PTL DEF ConvertSpec

\* The conversion of a number, digit by digit and with its sign, implements
\* LogStream's one step, whose length is that of a text that fits.
THEOREM ConvertImplements == ConvertSpec => ImplementsLogStream
<1>1. ConvertInit => Init
  BY DEF ConvertInit
<1>2. ConvertInv /\ [ConvertNext]_convertVars => [Next]_vars
  <2> SUFFICES ASSUME ConvertInv, [ConvertNext]_convertVars PROVE [Next]_vars
    OBVIOUS
  <2>1. CASE formatInteger \/ Digit \/ Sign \/ UNCHANGED convertVars
    BY <2>1 DEF formatInteger, Digit, Sign, convertVars, streamVars, vars
  <2>2. CASE Add
    <3>1. Length \in 1 .. MaxDigits /\ Number(Length)
      BY <2>2 DEF Add, ConvertInv, AddInv
    <3>2. QED
      BY <3>1 DEF Next
  <2>3. CASE Other
    BY <2>3 DEF Other
  <2>4. QED
    BY <2>1, <2>2, <2>3 DEF ConvertNext
<1>3. QED
  BY <1>1, <1>2, ConvertInvInit, ConvertInvNext, PTL DEF ConvertSpec, Spec, ImplementsLogStream

\* So what is proved of LogStream holds of the stream with the conversions in it.
THEOREM ConversionInBounds == ConvertSpec => [](InBounds /\ NeverThrows)
<1>1. ConvertSpec => Spec
  BY ConvertImplements DEF ImplementsLogStream
<1>2. QED
  BY <1>1, WritesInBounds, AddNeverThrows, PTL

-----------------------------------------------------------------------------
(* Pieces of text.                                                           *)

\* What Min returns of one.
LEMMA MinIsLeast ==
    ASSUME NEW S \in SUBSET Nat, S # {}
    PROVE  Min(S) \in S /\ Min(S) \in Nat /\ \A k \in S : Min(S) <= k
<1>1. PICK n \in S : \A k \in S : n <= k
  BY LeastNumber
<1>2. \A x \in S : (\A y \in S : x <= y) => x = n
  BY <1>1
<1>3. Min(S) = n
  BY <1>1, <1>2 DEF Min
<1>4. QED
  BY <1>1, <1>3

LEMMA MinOfTwo ==
    ASSUME NEW a \in Nat, NEW b \in Nat
    PROVE  Min({a, b}) = IF a <= b THEN a ELSE b
<1>1. {a, b} \in SUBSET Nat /\ {a, b} # {}
  OBVIOUS
<1>2. Min({a, b}) \in {a, b} /\ Min({a, b}) <= a /\ Min({a, b}) <= b
  BY <1>1, MinIsLeast
<1>3. QED
  BY <1>2

\* A piece is a part of the memory, or the null pointer with no length.
InMemory(p) ==
    /\ p \in [m_ptr : Int, m_length : Nat]
    /\ p = NoPiece \/ (0 <= p.m_ptr /\ p.m_ptr + p.m_length <= TextSize)

PieceInv ==
    /\ memory \in [1 .. TextSize -> Chars] /\ memory[TextSize] = 0
    /\ piece \in [{1, 2} -> [m_ptr : Int, m_length : Nat]]
    /\ \A k \in {1, 2} : InMemory(piece[k])

\* A C string ends inside the memory.
LEMMA StrlenInside ==
    ASSUME PieceInv, NEW ptr \in 0 .. TextSize - 1
    PROVE  strlen(ptr) \in Nat /\ ptr + strlen(ptr) <= TextSize
<1> DEFINE S == {n \in 0 .. TextSize - ptr - 1 : At(ptr + n) = 0}
           last == TextSize - ptr - 1
<1>1. TextSize \in Nat /\ ptr \in Nat /\ last \in Nat
  BY StringPieceAssumption
<1>2. ptr + last + 1 = TextSize /\ ptr + last \in Int
  BY <1>1
<1>3. At(ptr + last) = 0
  BY <1>2 DEF At, PieceInv
<1>4. S \in SUBSET Nat /\ last \in S /\ S \subseteq 0 .. last
  BY <1>1, <1>3
<1> HIDE DEF S
<1>5. Min(S) \in S
  BY <1>4, MinIsLeast
<1>6. strlen(ptr) = Min(S)
  BY DEF strlen, S
<1> HIDE DEF last
<1>7. Min(S) \in Nat /\ Min(S) <= last
  <2>1. Min(S) \in 0 .. last
    BY <1>4, <1>5
  <2>2. QED
    BY <2>1, <1>1
<1>8. ptr + Min(S) <= TextSize
  BY <1>1, <1>2, <1>7
<1>9. QED
  BY <1>6, <1>7, <1>8

\* What find returns.
LEMMA FindInside ==
    ASSUME NEW p \in [m_ptr : Int, m_length : Nat], NEW char
    PROVE  find(p, char) \in 0 .. p.m_length
<1> DEFINE S == {k \in 0 .. p.m_length - 1 : At(p.m_ptr + k) = char} \cup {p.m_length}
<1>1. p.m_length \in Nat
  OBVIOUS
<1>2. S \in SUBSET Nat /\ S # {} /\ S \subseteq 0 .. p.m_length
  BY <1>1
<1> HIDE DEF S
<1>3. Min(S) \in S
  BY <1>2, MinIsLeast
<1>4. find(p, char) = Min(S)
  BY DEF find, S
<1>5. QED
  BY <1>2, <1>3, <1>4

\* A name is inside the piece it is found in.
LEMMA ProcnameInside ==
    ASSUME NEW p, InMemory(p)
    PROVE  InMemory(procname(p))
<1> DEFINE lp == find(p, 40)
           rp == find(p, 41)
           found == [m_ptr |-> p.m_ptr + lp + 1, m_length |-> rp - lp - 1]
<1>1. p \in [m_ptr : Int, m_length : Nat] /\ p.m_ptr \in Int /\ p.m_length \in Nat
  BY DEF InMemory
<1>2. lp \in 0 .. p.m_length /\ rp \in 0 .. p.m_length
  BY <1>1, FindInside
<1> HIDE DEF lp, rp
<1>3. CASE lp < rp /\ rp < p.m_length
  <2>1. procname(p) = found
    BY <1>3 DEF procname, lp, rp
  <2>2. p # NoPiece
    BY <1>2, <1>3 DEF NoPiece
  <2>3. 0 <= p.m_ptr /\ p.m_ptr + p.m_length <= TextSize
    BY <2>2 DEF InMemory
  <2>4. /\ p.m_ptr + lp + 1 \in Int /\ rp - lp - 1 \in Nat /\ 0 <= p.m_ptr + lp + 1
        /\ (p.m_ptr + lp + 1) + (rp - lp - 1) <= TextSize
    BY <1>1, <1>2, <1>3, <2>3, StringPieceAssumption
  <2>5. found \in [m_ptr : Int, m_length : Nat]
    BY <2>4
  <2>6. found.m_ptr = p.m_ptr + lp + 1 /\ found.m_length = rp - lp - 1
    OBVIOUS
  <2> HIDE DEF found
  <2>7. QED
    BY <2>1, <2>4, <2>5, <2>6 DEF InMemory
<1>4. CASE ~(lp < rp /\ rp < p.m_length)
  <2>1. procname(p) = NoPiece
    BY <1>4 DEF procname, lp, rp
  <2>2. NoPiece \in [m_ptr : Int, m_length : Nat]
    BY DEF NoPiece
  <2>3. QED
    BY <2>1, <2>2 DEF InMemory
<1>5. QED
  BY <1>3, <1>4

\* The null pieces at the beginning.
LEMMA PieceInvInit == PieceInit => PieceInv
<1> SUFFICES ASSUME PieceInit PROVE PieceInv
  OBVIOUS
<1>1. NoPiece \in [m_ptr : Int, m_length : Nat] /\ InMemory(NoPiece)
  BY DEF NoPiece, InMemory
<1>2. PICK text \in [1 .. TextSize - 1 -> Chars] : memory = Append(text, 0)
  BY DEF PieceInit
<1>3. TextSize \in Nat \ {0} /\ 0 \in Chars /\ TextSize - 1 \in Nat
  BY StringPieceAssumption
<1>4. text \in Seq(Chars) /\ Len(text) = TextSize - 1
  BY <1>2, <1>3
<1>5. /\ memory \in Seq(Chars) /\ Len(memory) = TextSize /\ memory[TextSize] = 0
  <2>1. Len(text) + 1 = TextSize
    BY <1>3, <1>4
  <2>2. QED
    BY <2>1, <1>2, <1>3, <1>4
<1>6. memory \in [1 .. TextSize -> Chars]
  BY <1>5
<1>7. piece = [p \in {1, 2} |-> NoPiece]
  BY DEF PieceInit
<1> HIDE DEF PieceInit
<1>8. piece \in [{1, 2} -> [m_ptr : Int, m_length : Nat]] /\ \A k \in {1, 2} : InMemory(piece[k])
  BY <1>1, <1>7
<1>9. QED
  BY <1>5, <1>6, <1>8 DEF PieceInv

\* Every operation on a piece.
LEMMA PieceInvNext == PieceInv /\ [PieceNext]_pieceVars => PieceInv'
<1> SUFFICES ASSUME PieceInv, [PieceNext]_pieceVars PROVE PieceInv'
  OBVIOUS
<1>1. /\ memory \in [1 .. TextSize -> Chars] /\ memory[TextSize] = 0
      /\ piece \in [{1, 2} -> [m_ptr : Int, m_length : Nat]]
      /\ \A k \in {1, 2} : InMemory(piece[k])
  BY DEF PieceInv
<1>2. CASE UNCHANGED pieceVars
  BY <1>1, <1>2 DEF PieceInv, pieceVars, InMemory
<1>3. ASSUME memory' = memory, NEW k \in {1, 2}, NEW p, InMemory(p), Assign(k, p)
      PROVE  PieceInv'
  <2>1. piece' = [piece EXCEPT ![k] = p] /\ p \in [m_ptr : Int, m_length : Nat]
    BY <1>3 DEF Assign, InMemory
  <2>2. piece' \in [{1, 2} -> [m_ptr : Int, m_length : Nat]]
    BY <2>1, <1>1
  <2>3. \A j \in {1, 2} : piece'[j] = p \/ piece'[j] = piece[j]
    BY <2>1, <1>1
  <2>4. \A j \in {1, 2} : InMemory(piece'[j])
    BY <2>3, <1>1, <1>3
  <2>5. QED
    BY <2>2, <2>4, <1>1, <1>3 DEF PieceInv, InMemory
<1>4. CASE PieceNext
  <2>1. memory' = memory
    BY <1>4 DEF PieceNext
  <2>2. PICK k \in {1, 2} :
            \/ \E ptr \in 0 .. TextSize - 1 :
                \/ Assign(k, [m_ptr |-> ptr, m_length |-> strlen(ptr)])
                \/ \E len \in 0 .. TextSize - ptr : Assign(k, [m_ptr |-> ptr, m_length |-> len])
            \/ Assign(k, NoPiece)
            \/ \E n \in 0 .. piece[k].m_length :
                Assign(k, remove_prefix(piece[k], n)) \/ Assign(k, remove_suffix(piece[k], n))
            \/ Assign(k, procname(piece[3 - k]))
    BY <1>4 DEF PieceNext
  <2>3. TextSize \in Nat
    BY StringPieceAssumption
  <2>4. ASSUME NEW ptr \in 0 .. TextSize - 1, NEW len \in Nat, ptr + len <= TextSize
        PROVE  InMemory([m_ptr |-> ptr, m_length |-> len])
    BY <2>3, <2>4 DEF InMemory
  <2>5. ASSUME NEW ptr \in 0 .. TextSize - 1,
               Assign(k, [m_ptr |-> ptr, m_length |-> strlen(ptr)])
        PROVE  PieceInv'
    <3>1. strlen(ptr) \in Nat /\ ptr + strlen(ptr) <= TextSize
      BY StrlenInside
    <3>2. InMemory([m_ptr |-> ptr, m_length |-> strlen(ptr)])
      BY <3>1, <2>4
    <3>3. QED
      BY <3>2, <2>1, <2>5, <1>3
  <2>6. ASSUME NEW ptr \in 0 .. TextSize - 1, NEW len \in 0 .. TextSize - ptr,
               Assign(k, [m_ptr |-> ptr, m_length |-> len])
        PROVE  PieceInv'
    <3>1. len \in Nat /\ ptr + len <= TextSize
      BY <2>3
    <3>2. InMemory([m_ptr |-> ptr, m_length |-> len])
      BY <3>1, <2>4
    <3>3. QED
      BY <3>2, <2>1, <2>6, <1>3
  <2>7. CASE Assign(k, NoPiece)
    <3>1. InMemory(NoPiece)
      BY DEF InMemory, NoPiece
    <3>2. QED
      BY <3>1, <2>1, <2>7, <1>3
  <2>8. ASSUME NEW n \in 0 .. piece[k].m_length,
               Assign(k, remove_prefix(piece[k], n)) \/ Assign(k, remove_suffix(piece[k], n))
        PROVE  PieceInv'
    <3> DEFINE q == piece[k]
    <3>1. q \in [m_ptr : Int, m_length : Nat] /\ InMemory(q) /\ q.m_ptr \in Int /\ q.m_length \in Nat
      BY <1>1
    <3>2. InMemory(remove_prefix(q, n))
      <4> DEFINE cut == [m_ptr |-> q.m_ptr + n, m_length |-> q.m_length - n]
      <4>1. cut \in [m_ptr : Int, m_length : Nat] /\ remove_prefix(q, n) = cut
        BY <3>1 DEF remove_prefix
      <4>2. CASE q = NoPiece
        <5>1. q.m_length = 0 /\ q.m_ptr = -1
          BY <4>2 DEF NoPiece
        <5>2. n = 0
          BY <5>1
        <5>3. cut = NoPiece
          BY <5>1, <5>2 DEF NoPiece
        <5>4. QED
          BY <4>1, <5>3 DEF InMemory
      <4>3. CASE 0 <= q.m_ptr /\ q.m_ptr + q.m_length <= TextSize
        <5>1. 0 <= q.m_ptr + n /\ (q.m_ptr + n) + (q.m_length - n) <= TextSize
          BY <4>3, <3>1, <2>3
        <5>2. QED
          BY <4>1, <5>1 DEF InMemory
      <4>4. QED
        BY <4>2, <4>3, <3>1 DEF InMemory
    <3>3. InMemory(remove_suffix(q, n))
      <4>1. remove_suffix(q, n) = [m_ptr |-> q.m_ptr, m_length |-> q.m_length - n]
        BY <3>1 DEF remove_suffix
      <4> DEFINE cut == [m_ptr |-> q.m_ptr, m_length |-> q.m_length - n]
      <4>2. cut \in [m_ptr : Int, m_length : Nat]
        BY <3>1
      <4>3. CASE q = NoPiece
        <5>1. q.m_length = 0 /\ q.m_ptr = -1
          BY <4>3 DEF NoPiece
        <5>2. n = 0
          BY <5>1
        <5>3. cut = NoPiece
          BY <5>1, <5>2 DEF NoPiece
        <5>4. QED
          BY <4>1, <4>2, <5>3 DEF InMemory
      <4>4. CASE 0 <= q.m_ptr /\ q.m_ptr + q.m_length <= TextSize
        <5>1. q.m_ptr + (q.m_length - n) <= TextSize
          BY <4>4, <3>1, <2>3
        <5>2. QED
          BY <4>1, <4>2, <4>4, <5>1 DEF InMemory
      <4>5. QED
        BY <4>3, <4>4, <3>1 DEF InMemory
    <3> HIDE DEF q
    <3>4. QED
      BY <3>2, <3>3, <2>1, <2>8, <1>3 DEF q
  <2>9. CASE Assign(k, procname(piece[3 - k]))
    <3>1. 3 - k \in {1, 2}
      OBVIOUS
    <3>2. InMemory(procname(piece[3 - k]))
      BY <3>1, <1>1, ProcnameInside
    <3>3. QED
      BY <3>2, <2>1, <2>9, <1>3
  <2>10. QED
    BY <2>2, <2>5, <2>6, <2>7, <2>8, <2>9
<1>5. QED
  BY <1>2, <1>4

\* The text of a piece.
LEMMA TextOf ==
    ASSUME PieceInv, NEW p, InMemory(p)
    PROVE  /\ as_string(p) \in Seq(Nat) /\ Len(as_string(p)) = p.m_length /\ p.m_length \in Nat
           /\ \A k \in 1 .. p.m_length : as_string(p)[k] = At(p.m_ptr + k - 1)
<1>1. p \in [m_ptr : Int, m_length : Nat] /\ p.m_ptr \in Int /\ p.m_length \in Nat
  BY DEF InMemory
<1>2. ASSUME NEW k \in 1 .. p.m_length PROVE At(p.m_ptr + k - 1) \in Nat
  <2>1. p # NoPiece
    BY <1>1 DEF NoPiece
  <2>2. 0 <= p.m_ptr /\ p.m_ptr + p.m_length <= TextSize
    BY <2>1 DEF InMemory
  <2>3. (p.m_ptr + k - 1) + 1 \in 1 .. TextSize
    BY <1>1, <2>2, StringPieceAssumption
  <2>4. At(p.m_ptr + k - 1) \in Chars
    BY <2>3 DEF At, PieceInv
  <2>5. Chars \subseteq Nat
    BY StringPieceAssumption
  <2>6. QED
    BY <2>4, <2>5
<1>3. as_string(p) = [k \in 1 .. p.m_length |-> At(p.m_ptr + k - 1)]
  BY DEF as_string
<1>4. QED
  BY <1>1, <1>2, <1>3

\* Two texts that are the same up to some place.
Same(s, t, n) == \A k \in 1 .. n : s[k] = t[k]

\* Their first difference is at a place, where the first one is less.
LessAt(s, t, d) == Same(s, t, d - 1) /\ s[d] < t[d]

\* What memcmp returns of the texts of two pieces.
LEMMA MemcmpIs ==
    ASSUME PieceInv, NEW p, InMemory(p), NEW q, InMemory(q),
           NEW size \in Nat, size <= p.m_length, size <= q.m_length
    PROVE  \/ memcmp(p, q, size) = 0 /\ Same(as_string(p), as_string(q), size)
           \/ memcmp(p, q, size) = -1 /\ \E d \in 1 .. size : LessAt(as_string(p), as_string(q), d)
           \/ memcmp(p, q, size) = 1 /\ \E d \in 1 .. size : LessAt(as_string(q), as_string(p), d)
<1> DEFINE s == as_string(p)
           t == as_string(q)
           differ == {k \in 0 .. size - 1 : At(p.m_ptr + k) # At(q.m_ptr + k)}
<1>1. /\ s \in Seq(Nat) /\ Len(s) = p.m_length /\ p.m_length \in Nat /\ p.m_ptr \in Int
      /\ t \in Seq(Nat) /\ Len(t) = q.m_length /\ q.m_length \in Nat /\ q.m_ptr \in Int
  BY TextOf DEF InMemory
<1>2. ASSUME NEW k \in 0 .. size - 1
      PROVE  s[k + 1] = At(p.m_ptr + k) /\ t[k + 1] = At(q.m_ptr + k)
             /\ s[k + 1] \in Nat /\ t[k + 1] \in Nat
  <2>1. k + 1 \in 1 .. p.m_length /\ k + 1 \in 1 .. q.m_length
    BY <1>1
  <2>2. s[k + 1] = At(p.m_ptr + (k + 1) - 1) /\ t[k + 1] = At(q.m_ptr + (k + 1) - 1)
    BY <2>1, TextOf
  <2>3. p.m_ptr + (k + 1) - 1 = p.m_ptr + k /\ q.m_ptr + (k + 1) - 1 = q.m_ptr + k
    BY <1>1
  <2>4. s[k + 1] \in Nat /\ t[k + 1] \in Nat
    <3>1. \A j \in 1 .. p.m_length : s[j] \in Nat
      BY <1>1, ElementsOf
    <3>2. \A j \in 1 .. q.m_length : t[j] \in Nat
      BY <1>1, ElementsOf
    <3>3. QED
      BY <3>1, <3>2, <2>1
  <2>5. QED
    BY <2>2, <2>3, <2>4
<1>3. \A k \in 0 .. size - 1 : k \in differ <=> s[k + 1] # t[k + 1]
  BY <1>2
<1>4. differ \in SUBSET Nat /\ differ \subseteq 0 .. size - 1
  OBVIOUS
<1>5. memcmp(p, q, size) =
        IF differ = {} THEN 0
        ELSE IF At(p.m_ptr + Min(differ)) < At(q.m_ptr + Min(differ)) THEN -1 ELSE 1
  BY DEF memcmp
<1> HIDE DEF differ, s, t
<1>6. CASE differ = {}
  <2>1. ASSUME NEW k \in 1 .. size PROVE s[k] = t[k]
    <3>1. k - 1 \in 0 .. size - 1 /\ (k - 1) + 1 = k
      OBVIOUS
    <3>2. QED
      BY <3>1, <1>3, <1>6
  <2>2. QED
    BY <2>1, <1>5, <1>6 DEF Same, s, t
<1>7. CASE differ # {}
  <2> DEFINE m == Min(differ)
             d == m + 1
  <2>1. m \in differ /\ m \in 0 .. size - 1 /\ \A k \in differ : m <= k
    BY <1>4, <1>7, MinIsLeast
  <2> HIDE DEF m
  <2>2. d \in 1 .. size
    BY <2>1
  <2>3. s[d] # t[d] /\ s[d] = At(p.m_ptr + m) /\ t[d] = At(q.m_ptr + m)
        /\ s[d] \in Nat /\ t[d] \in Nat
    BY <2>1, <1>2, <1>3
  <2>4. ASSUME NEW k \in 1 .. d - 1 PROVE s[k] = t[k]
    <3>1. k - 1 \in 0 .. size - 1 /\ (k - 1) + 1 = k /\ k - 1 < m
      BY <2>1
    <3>2. k - 1 \notin differ
      BY <3>1, <2>1
    <3>3. QED
      BY <3>1, <3>2, <1>3
  <2>5. memcmp(p, q, size) = IF s[d] < t[d] THEN -1 ELSE 1
    BY <1>5, <1>7, <2>3 DEF m
  <2> HIDE DEF d
  <2>6. Same(s, t, d - 1) /\ Same(t, s, d - 1)
    BY <2>4 DEF Same
  <2>7. CASE s[d] < t[d]
    BY <2>2, <2>5, <2>6, <2>7 DEF LessAt, s, t
  <2>8. CASE ~(s[d] < t[d])
    <3>1. t[d] < s[d]
      BY <2>3, <2>8
    <3>2. QED
      BY <2>2, <2>5, <2>6, <2>8, <3>1 DEF LessAt, s, t
  <2>9. QED
    BY <2>7, <2>8
<1>8. QED
  BY <1>6, <1>7

\* The first characters of two texts.
LEMMA StartIs ==
    ASSUME NEW s \in Seq(Nat), NEW t \in Seq(Nat), NEW n \in Nat, n <= Len(s), n <= Len(t)
    PROVE  SubSeq(s, 1, n) = SubSeq(t, 1, n) <=> Same(s, t, n)
<1>1. SubSeq(s, 1, n) \in Seq(Nat) /\ Len(SubSeq(s, 1, n)) = n
      /\ \A k \in 1 .. n : SubSeq(s, 1, n)[k] = s[k]
  OBVIOUS
<1>2. SubSeq(t, 1, n) \in Seq(Nat) /\ Len(SubSeq(t, 1, n)) = n
      /\ \A k \in 1 .. n : SubSeq(t, 1, n)[k] = t[k]
  OBVIOUS
<1> DEFINE a == SubSeq(s, 1, n)
           b == SubSeq(t, 1, n)
<1>3. a \in [1 .. n -> Nat] /\ b \in [1 .. n -> Nat]
  <2>1. \A u \in Seq(Nat) : Len(u) = n => u \in [1 .. n -> Nat]
    OBVIOUS
  <2>2. QED
    BY <2>1, <1>1, <1>2
<1>4. \A k \in 1 .. n : a[k] = s[k] /\ b[k] = t[k]
  BY <1>1, <1>2
<1> HIDE DEF a, b
<1>5. a = b <=> \A k \in 1 .. n : a[k] = b[k]
  BY <1>3
<1>6. a = b <=> Same(s, t, n)
  BY <1>4, <1>5 DEF Same
<1>7. QED
  BY <1>6 DEF a, b

LEMMA PrefixIs ==
    ASSUME NEW s \in Seq(Nat), NEW t \in Seq(Nat)
    PROVE  Prefix(s, t) <=> Len(s) <= Len(t) /\ Same(s, t, Len(s))
<1>1. s = SubSeq(s, 1, Len(s)) /\ Len(s) \in Nat
  OBVIOUS
<1>2. Len(s) <= Len(t) => (SubSeq(s, 1, Len(s)) = SubSeq(t, 1, Len(s)) <=> Same(s, t, Len(s)))
  <2> DEFINE n == Len(s)
  <2>1. n \in Nat /\ n <= Len(s)
    BY <1>1
  <2> HIDE DEF n
  <2>2. n <= Len(t) => (SubSeq(s, 1, n) = SubSeq(t, 1, n) <=> Same(s, t, n))
    BY <2>1, StartIs
  <2>3. QED
    BY <2>2 DEF n
<1>3. QED
  BY <1>1, <1>2 DEF Prefix

LEMMA EqualIs ==
    ASSUME NEW s \in Seq(Nat), NEW t \in Seq(Nat)
    PROVE  s = t <=> Len(s) = Len(t) /\ Same(s, t, Len(s))
<1>1. s \in [1 .. Len(s) -> Nat] /\ t \in [1 .. Len(t) -> Nat]
  OBVIOUS
<1>2. ASSUME Len(s) = Len(t), Same(s, t, Len(s)) PROVE s = t
  BY <1>1, <1>2 DEF Same
<1>3. s = t => Len(s) = Len(t) /\ Same(s, t, Len(s))
  BY DEF Same
<1>4. QED
  BY <1>2, <1>3

\* The order of the dictionary, by the first difference.
LEMMA BeforeIs ==
    ASSUME NEW s \in Seq(Nat), NEW t \in Seq(Nat)
    PROVE  Before(s, t) <=>
             \/ Len(s) < Len(t) /\ Same(s, t, Len(s))
             \/ \E d \in 1 .. Len(s) : d <= Len(t) /\ LessAt(s, t, d)
<1> DEFINE n == Min({Len(s), Len(t)})
<1>1. Len(s) \in Nat /\ Len(t) \in Nat
  OBVIOUS
<1>2. n = (IF Len(s) <= Len(t) THEN Len(s) ELSE Len(t)) /\ n \in Nat
  BY <1>1, MinOfTwo
<1> HIDE DEF n
<1>3. \A d : d \in 1 .. n <=> d \in 1 .. Len(s) /\ d <= Len(t)
  BY <1>1, <1>2
<1>4. ASSUME NEW d \in 1 .. n
      PROVE  (SubSeq(s, 1, d - 1) = SubSeq(t, 1, d - 1) /\ s[d] < t[d]) <=> LessAt(s, t, d)
  <2>1. d - 1 \in Nat /\ d - 1 <= Len(s) /\ d - 1 <= Len(t)
    BY <1>1, <1>3
  <2>2. SubSeq(s, 1, d - 1) = SubSeq(t, 1, d - 1) <=> Same(s, t, d - 1)
    BY <2>1, StartIs
  <2>3. QED
    BY <2>2 DEF LessAt
<1>5. (s # t /\ Prefix(s, t)) <=> Len(s) < Len(t) /\ Same(s, t, Len(s))
  <2>1. s = t <=> Len(s) = Len(t) /\ Same(s, t, Len(s))
    BY EqualIs
  <2>2. Prefix(s, t) <=> Len(s) <= Len(t) /\ Same(s, t, Len(s))
    BY PrefixIs
  <2>3. QED
    BY <1>1, <2>1, <2>2
<1>6. Before(s, t) <=>
        \/ s # t /\ Prefix(s, t)
        \/ \E d \in 1 .. n : SubSeq(s, 1, d - 1) = SubSeq(t, 1, d - 1) /\ s[d] < t[d]
  BY DEF Before, n
<1>7. QED
  BY <1>3, <1>4, <1>5, <1>6

\* Two texts of which the shorter one begins the other.
LEMMA SameStart ==
    ASSUME NEW s \in Seq(Nat), NEW t \in Seq(Nat), NEW n \in Nat,
           n <= Len(s), n <= Len(t), n = Len(s) \/ n = Len(t), Same(s, t, n)
    PROVE  /\ s = t <=> Len(s) = Len(t)
           /\ Before(s, t) <=> Len(s) < Len(t)
           /\ Before(t, s) <=> Len(t) < Len(s)
           /\ Prefix(t, s) <=> Len(t) <= Len(s)
<1>1. Len(s) \in Nat /\ Len(t) \in Nat
  OBVIOUS
<1>2. \A k \in 1 .. n : s[k] = t[k] /\ s[k] \in Nat /\ t[k] \in Nat
  BY DEF Same
<1>3. ASSUME NEW d \in 1 .. n PROVE ~(s[d] < t[d]) /\ ~(t[d] < s[d])
  BY <1>2
<1>4. Len(s) <= Len(t) => Same(s, t, Len(s))
  BY <1>1, <1>2 DEF Same
<1>5. Len(t) <= Len(s) => Same(t, s, Len(t))
  BY <1>1, <1>2 DEF Same
<1>6. \A d \in 1 .. Len(s) : d <= Len(t) => ~LessAt(s, t, d)
  BY <1>1, <1>3 DEF LessAt
<1>7. \A d \in 1 .. Len(t) : d <= Len(s) => ~LessAt(t, s, d)
  BY <1>1, <1>3 DEF LessAt
<1>8. s = t <=> Len(s) = Len(t)
  BY <1>1, <1>4, EqualIs
<1>9. Before(s, t) <=> Len(s) < Len(t)
  BY <1>1, <1>4, <1>6, BeforeIs
<1>10. Before(t, s) <=> Len(t) < Len(s)
  BY <1>1, <1>5, <1>7, BeforeIs
<1>11. Prefix(t, s) <=> Len(t) <= Len(s)
  BY <1>1, <1>5, PrefixIs
<1>12. QED
  BY <1>8, <1>9, <1>10, <1>11

\* Two texts with a first difference.
LEMMA FirstDifference ==
    ASSUME NEW s \in Seq(Nat), NEW t \in Seq(Nat), NEW d \in 1 .. Len(s), d <= Len(t),
           LessAt(s, t, d)
    PROVE  s # t /\ Before(s, t) /\ ~Before(t, s) /\ ~Prefix(t, s) /\ ~Prefix(s, t)
<1>1. Len(s) \in Nat /\ Len(t) \in Nat /\ d \in 1 .. Len(t)
  OBVIOUS
<1>2. s[d] \in Nat /\ t[d] \in Nat /\ s[d] < t[d] /\ \A k \in 1 .. d - 1 : s[k] = t[k]
  BY <1>1 DEF LessAt, Same
<1>3. ~Same(t, s, Len(t)) /\ ~Same(s, t, Len(s))
  BY <1>1, <1>2 DEF Same
<1>4. ASSUME NEW e \in 1 .. Len(t), e <= Len(s), LessAt(t, s, e) PROVE FALSE
  <2>1. t[e] < s[e] /\ t[e] \in Nat /\ s[e] \in Nat /\ \A k \in 1 .. e - 1 : t[k] = s[k]
    BY <1>1, <1>4 DEF LessAt, Same
  <2>2. CASE e < d
    BY <2>1, <2>2, <1>2
  <2>3. CASE d < e
    BY <2>1, <2>3, <1>2
  <2>4. CASE d = e
    BY <2>1, <2>4, <1>2
  <2>5. QED
    BY <2>2, <2>3, <2>4
<1>5. Before(s, t)
  BY BeforeIs
<1>6. ~Before(t, s)
  BY <1>3, <1>4, BeforeIs
<1>7. QED
  BY <1>3, <1>5, <1>6, EqualIs, PrefixIs

\* The comparisons with the lesser length.
LEMMA ComparedByLesser ==
    ASSUME PieceInv, NEW p, InMemory(p), NEW q, InMemory(q)
    PROVE  /\ less(p, q) <=> Before(as_string(p), as_string(q))
           /\ lessEqual(p, q) <=> ~Before(as_string(q), as_string(p))
           /\ compare(p, q) = IF as_string(p) = as_string(q) THEN 0
                              ELSE IF Before(as_string(p), as_string(q)) THEN -1 ELSE 1
<1> DEFINE s == as_string(p)
           t == as_string(q)
           n == lesser(p, q)
           r == memcmp(p, q, n)
<1>1. /\ s \in Seq(Nat) /\ Len(s) = p.m_length /\ p.m_length \in Nat
      /\ t \in Seq(Nat) /\ Len(t) = q.m_length /\ q.m_length \in Nat
  BY TextOf
<1>2. n \in Nat /\ n <= p.m_length /\ n <= q.m_length /\ (n = p.m_length \/ n = q.m_length)
  <2>1. n = IF p.m_length <= q.m_length THEN p.m_length ELSE q.m_length
    BY <1>1, MinOfTwo DEF lesser
  <2> HIDE DEF n
  <2>2. QED
    BY <2>1, <1>1
<1>3. \/ r = 0 /\ Same(s, t, n)
      \/ r = -1 /\ \E d \in 1 .. n : LessAt(s, t, d)
      \/ r = 1 /\ \E d \in 1 .. n : LessAt(t, s, d)
  BY <1>2, MemcmpIs
<1>4. less(p, q) <=> r < 0 \/ (r = 0 /\ p.m_length < q.m_length)
  BY DEF less
<1>5. lessEqual(p, q) <=> r < 0 \/ (r = 0 /\ p.m_length <= q.m_length)
  BY DEF lessEqual
<1>6. compare(p, q) = IF r # 0 THEN r
                      ELSE IF p.m_length < q.m_length THEN -1
                      ELSE IF p.m_length > q.m_length THEN 1 ELSE 0
  BY DEF compare
<1> HIDE DEF n, r, s, t
<1>7. CASE r = 0 /\ Same(s, t, n)
  <2>1. /\ s = t <=> Len(s) = Len(t)
        /\ Before(s, t) <=> Len(s) < Len(t)
        /\ Before(t, s) <=> Len(t) < Len(s)
    BY <1>1, <1>2, <1>7, SameStart
  <2>2. QED
    BY <2>1, <1>1, <1>4, <1>5, <1>6, <1>7 DEF s, t
<1>8. ASSUME r = -1, NEW d \in 1 .. n, LessAt(s, t, d)
      PROVE  s # t /\ Before(s, t) /\ ~Before(t, s)
  <2>1. d \in 1 .. Len(s) /\ d <= Len(t)
    BY <1>1, <1>2
  <2>2. QED
    BY <2>1, <1>1, <1>8, FirstDifference
<1>9. ASSUME r = 1, NEW d \in 1 .. n, LessAt(t, s, d)
      PROVE  s # t /\ Before(t, s) /\ ~Before(s, t)
  <2>1. d \in 1 .. Len(t) /\ d <= Len(s)
    BY <1>1, <1>2
  <2>2. QED
    BY <2>1, <1>1, <1>9, FirstDifference
<1>10. CASE r = -1 /\ \E d \in 1 .. n : LessAt(s, t, d)
  BY <1>10, <1>8, <1>4, <1>5, <1>6 DEF s, t
<1>11. CASE r = 1 /\ \E d \in 1 .. n : LessAt(t, s, d)
  BY <1>11, <1>9, <1>4, <1>5, <1>6 DEF s, t
<1>12. QED
  BY <1>3, <1>7, <1>10, <1>11

\* equal() and starts_with() give memcmp a length of their own.
LEMMA ComparedByLength ==
    ASSUME PieceInv, NEW p, InMemory(p), NEW q, InMemory(q)
    PROVE  /\ equal(p, q) <=> as_string(p) = as_string(q)
           /\ starts_with(p, q) <=> Prefix(as_string(q), as_string(p))
<1> DEFINE s == as_string(p)
           t == as_string(q)
           r == memcmp(p, q, q.m_length)
<1>1. /\ s \in Seq(Nat) /\ Len(s) = p.m_length /\ p.m_length \in Nat
      /\ t \in Seq(Nat) /\ Len(t) = q.m_length /\ q.m_length \in Nat
  BY TextOf
<1>2. equal(p, q) <=> p.m_length = q.m_length /\ r = 0
  BY DEF equal
<1>3. starts_with(p, q) <=> p.m_length >= q.m_length /\ r = 0
  BY DEF starts_with
<1>4. p.m_length >= q.m_length =>
      \/ r = 0 /\ Same(s, t, q.m_length)
      \/ r = -1 /\ \E d \in 1 .. q.m_length : LessAt(s, t, d)
      \/ r = 1 /\ \E d \in 1 .. q.m_length : LessAt(t, s, d)
  BY <1>1, MemcmpIs
<1> HIDE DEF r, s, t
<1>5. CASE p.m_length < q.m_length
  <2>1. ~equal(p, q) /\ ~starts_with(p, q)
    BY <1>1, <1>2, <1>3, <1>5
  <2>2. s # t /\ ~Prefix(t, s)
    BY <1>1, <1>5, PrefixIs
  <2>3. QED
    BY <2>1, <2>2 DEF s, t
<1>6. CASE p.m_length >= q.m_length
  <2>1. CASE r = 0 /\ Same(s, t, q.m_length)
    <3>1. /\ s = t <=> Len(s) = Len(t)
          /\ Prefix(t, s) <=> Len(t) <= Len(s)
      BY <1>1, <1>6, <2>1, SameStart
    <3>2. QED
      BY <3>1, <2>1, <1>1, <1>2, <1>3 DEF s, t
  <2>2. ASSUME r = -1, NEW d \in 1 .. q.m_length, LessAt(s, t, d)
        PROVE  s # t /\ ~Prefix(t, s)
    <3>1. d \in 1 .. Len(s) /\ d <= Len(t)
      BY <1>1, <1>6
    <3>2. QED
      BY <3>1, <1>1, <2>2, FirstDifference
  <2>3. ASSUME r = 1, NEW d \in 1 .. q.m_length, LessAt(t, s, d)
        PROVE  s # t /\ ~Prefix(t, s)
    <3>1. d \in 1 .. Len(t) /\ d <= Len(s)
      BY <1>1, <1>6
    <3>2. QED
      BY <3>1, <1>1, <2>3, FirstDifference
  <2>4. CASE (r = -1 /\ \E d \in 1 .. q.m_length : LessAt(s, t, d))
             \/ (r = 1 /\ \E d \in 1 .. q.m_length : LessAt(t, s, d))
    <3>1. s # t /\ ~Prefix(t, s) /\ r # 0
      BY <2>4, <2>2, <2>3
    <3>2. QED
      BY <3>1, <1>2, <1>3 DEF s, t
  <2>5. QED
    BY <2>1, <2>4, <1>4, <1>6
<1>7. QED
  BY <1>5, <1>6, <1>1

\* A piece lies inside the memory, and its comparisons are those of its text,
\* for every memory and every way the pieces came about.
THEOREM PieceOrderHolds == PieceSpec => []PieceOrder
<1>1. PieceInv => PieceOrder
  <2> SUFFICES ASSUME PieceInv PROVE PieceOrder
    OBVIOUS
  <2> DEFINE p == piece[1]
             q == piece[2]
  <2>1. InMemory(p) /\ InMemory(q) /\ \A k \in {1, 2} : InMemory(piece[k])
    BY DEF PieceInv
  <2>2. \A k \in {1, 2} : piece[k] # NoPiece =>
            0 <= piece[k].m_ptr /\ 0 <= piece[k].m_length
                /\ piece[k].m_ptr + piece[k].m_length <= TextSize
    BY <2>1 DEF InMemory
  <2> HIDE DEF p, q
  <2>3. /\ less(p, q) <=> Before(as_string(p), as_string(q))
        /\ lessEqual(p, q) <=> ~Before(as_string(q), as_string(p))
        /\ compare(p, q) = IF as_string(p) = as_string(q) THEN 0
                           ELSE IF Before(as_string(p), as_string(q)) THEN -1 ELSE 1
    BY <2>1, ComparedByLesser
  <2>4. /\ equal(p, q) <=> as_string(p) = as_string(q)
        /\ starts_with(p, q) <=> Prefix(as_string(q), as_string(p))
    BY <2>1, ComparedByLength
  <2>5. QED
    BY <2>2, <2>3, <2>4 DEF PieceOrder, p, q
<1>2. QED
  BY PieceInvInit, PieceInvNext, <1>1, PTL DEF PieceSpec
=============================================================================
