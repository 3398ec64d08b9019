----------------------------- MODULE FileUtilProofs -----------------------------
(***************************************************************************)
(* AppendFile for lines of any length, however many writes and errors it     *)
(* takes to append them; ReadSmallFile for every buffer, limit and file; the *)
(* walks of ProcessInfo for any number of threads and descriptors.           *)
(***************************************************************************)
EXTENDS AppendFile, ReadSmallFile, ProcessInfo,
        FiniteSetTheorems, SequenceTheorems, WellFoundedInduction, TLAPS

-----------------------------------------------------------------------------
(* AppendFile.                                                               *)

AppendType ==
    /\ stream \in Seq(Nat \X Nat)
    /\ ferror \in BOOLEAN
    /\ m_writtenBytes \in Nat
    /\ pc \in {"idle", "loop"}
    /\ len \in Seq(Nat)
    /\ written \in Nat
    /\ pc = "loop" => Line >= 1 /\ written <= len[Line]

\* The places of a line that have been given to the stream, as far as the loop
\* knows: those of the line being appended end at written.
Given(line) == IF line = Line /\ pc = "loop" THEN written ELSE len[line]

\* The bytes in the stream are in order, and each is one that has been given,
\* with the one before it; of the line being appended none is missing, of the
\* others none if there has been no error.
Placed(i) ==
    /\ stream[i][1] \in 1 .. Line /\ stream[i][2] \in 1 .. Given(stream[i][1])
    /\ stream[i][2] > 1 => InStream(<<stream[i][1], stream[i][2] - 1>>)

BytesInv ==
    /\ \A i, j \in LineBytes : i < j => Before(stream[i], stream[j])
    /\ \A i \in LineBytes : Placed(i)
    /\ \A line \in 1 .. Line : \A place \in 1 .. Given(line) :
           ~ferror \/ (line = Line /\ pc = "loop") => InStream(<<line, place>>)

\* What the loop has written is in the stream but not counted yet.
Counted == IF pc = "loop" THEN m_writtenBytes + written ELSE m_writtenBytes

CountInv ==
    /\ Counted <= Cardinality(LineBytes)
    /\ ~ferror => Counted = Cardinality(LineBytes)

-----------------------------------------------------------------------------
\* The bytes of a write, one by one.
LEMMA BytesValue ==
    ASSUME NEW first \in Nat, NEW n \in Nat, len \in Seq(Nat)
    PROVE  /\ Bytes(first + 1, first + n) \in Seq(Nat \X Nat)
           /\ Len(Bytes(first + 1, first + n)) = n
           /\ \A i \in 1 .. n : Bytes(first + 1, first + n)[i] = <<Line, first + i>>
<1>1. Line \in Nat
  BY DEF Line
<1>2. Bytes(first + 1, first + n) = [i \in 1 .. n |-> <<Line, first + i>>]
  <2>1. first + n - (first + 1) + 1 = n
    OBVIOUS
  <2>2. \A i \in 1 .. n : first + 1 + i - 1 = first + i
    OBVIOUS
  <2>3. QED
    BY <2>1, <2>2 DEF Bytes
<1>3. [i \in 1 .. n |-> <<Line, first + i>>] \in Seq(Nat \X Nat)
  BY <1>1
<1>4. Len([i \in 1 .. n |-> <<Line, first + i>>]) = n
  OBVIOUS
<1>5. QED
  BY <1>2, <1>3, <1>4

\* The positions of a longer sequence are those of its first part and those of
\* its second.
LEMMA Joined ==
    ASSUME NEW s \in Seq(Nat \X Nat), NEW u \in Seq(Nat \X Nat),
           NEW m \in Nat, m = Len(s), NEW n \in Nat, n = Len(u)
    PROVE  /\ s \o u \in Seq(Nat \X Nat) /\ Len(s \o u) = m + n /\ DOMAIN (s \o u) = 1 .. m + n
           /\ \A i \in 1 .. m : (s \o u)[i] = s[i]
           /\ \A i \in m + 1 .. m + n : i - m \in 1 .. n /\ (s \o u)[i] = u[i - m]
<1>1. s \o u \in Seq(Nat \X Nat) /\ Len(s \o u) = m + n /\ DOMAIN (s \o u) = 1 .. m + n
  OBVIOUS
<1>2. \A i \in 1 .. m : (s \o u)[i] = s[i]
  OBVIOUS
<1>3. \A i \in m + 1 .. m + n : i - m \in 1 .. n
  OBVIOUS
<1>4. \A i \in m + 1 .. m + n : (s \o u)[i] = u[i - m]
  OBVIOUS
<1>5. QED
  BY <1>1, <1>2, <1>3, <1>4

\* A step has brought the byte into the stream, or left it there.
Arrived(byte) == \E i \in DOMAIN stream' : stream'[i] = byte

\* What a write that takes n bytes, and perhaps an error message, does to the
\* stream.
LEMMA Wrote ==
    ASSUME AppendType, pc = "loop", NEW n \in 0 .. len[Line] - written,
           NEW message \in {<<>>, <<MessageByte>>},
           stream' = stream \o Bytes(written + 1, written + n) \o message,
           NEW L, L = Len(stream)
    PROVE  /\ stream' \in Seq(Nat \X Nat)
           /\ LineBytes \subseteq 1 .. L /\ LineBytes' = LineBytes \cup (L + 1 .. L + n)
           /\ \A i \in LineBytes : stream'[i] = stream[i]
           /\ \A byte : InStream(byte) => Arrived(byte)
           /\ \A i \in L + 1 .. L + n : stream'[i] = <<Line, written + (i - L)>>
           /\ \A k \in 1 .. n : Arrived(<<Line, written + k>>)
<1> DEFINE new == Bytes(written + 1, written + n)
           all == stream \o new
<1>1. /\ n \in Nat /\ written \in Nat /\ Line \in Nat \ {0} /\ L \in Nat
      /\ len \in Seq(Nat) /\ stream \in Seq(Nat \X Nat)
  <2>1. Line \in Nat \ {0} /\ len[Line] \in Nat
    BY DEF AppendType, Line
  <2>2. QED
    BY <2>1 DEF AppendType
<1>2. /\ new \in Seq(Nat \X Nat) /\ Len(new) = n
      /\ \A i \in 1 .. n : new[i] = <<Line, written + i>>
  BY <1>1, BytesValue
<1> HIDE DEF new
<1>3. /\ all \in Seq(Nat \X Nat) /\ Len(all) = L + n
      /\ \A i \in 1 .. L : all[i] = stream[i]
      /\ \A i \in L + 1 .. L + n : i - L \in 1 .. n /\ all[i] = new[i - L]
  <2>1. /\ stream \in Seq(Nat \X Nat) /\ L \in Nat /\ L = Len(stream)
        /\ new \in Seq(Nat \X Nat) /\ n \in Nat /\ n = Len(new)
    BY <1>1, <1>2
  <2>2. /\ stream \o new \in Seq(Nat \X Nat) /\ Len(stream \o new) = L + n
        /\ \A i \in 1 .. L : (stream \o new)[i] = stream[i]
        /\ \A i \in L + 1 .. L + n : i - L \in 1 .. n /\ (stream \o new)[i] = new[i - L]
    BY ONLY <2>1, Joined
  <2>3. QED
    BY <2>2
<1>4. PICK l \in {0, 1} : /\ message \in Seq(Nat \X Nat) /\ Len(message) = l
                          /\ \A i \in 1 .. l : message[i] = MessageByte
  <2>1. CASE message = <<>>
    BY <2>1
  <2>2. CASE message = <<MessageByte>>
    <3>1. MessageByte \in Nat \X Nat
      BY DEF MessageByte
    <3>2. message \in Seq(Nat \X Nat) /\ Len(message) = 1 /\ message[1] = MessageByte
      BY <2>2, <3>1
    <3>3. QED
      BY <3>2
  <2>3. QED
    BY <2>1, <2>2
<1>5. stream' = all \o message
  BY DEF new
<1> HIDE DEF all
<1>6. L + n \in Nat /\ l \in Nat
  BY <1>1
<1>7. /\ stream' \in Seq(Nat \X Nat) /\ DOMAIN stream' = 1 .. L + n + l
      /\ \A i \in 1 .. L + n : stream'[i] = all[i]
      /\ \A i \in L + n + 1 .. L + n + l : i - (L + n) \in 1 .. l /\ stream'[i] = message[i - (L + n)]
  <2> DEFINE m == L + n
  <2>1. /\ all \in Seq(Nat \X Nat) /\ m \in Nat /\ m = Len(all)
        /\ message \in Seq(Nat \X Nat) /\ l \in Nat /\ l = Len(message)
    BY <1>3, <1>4, <1>6
  <2> HIDE DEF m
  <2>2. /\ all \o message \in Seq(Nat \X Nat) /\ DOMAIN (all \o message) = 1 .. m + l
        /\ \A i \in 1 .. m : (all \o message)[i] = all[i]
        /\ \A i \in m + 1 .. m + l : i - m \in 1 .. l /\ (all \o message)[i] = message[i - m]
    BY ONLY <2>1, Joined
  <2>3. QED
    BY <1>5, <2>2 DEF m
<1>8. ASSUME NEW i \in 1 .. L PROVE i \in DOMAIN stream' /\ stream'[i] = stream[i]
  <2>1. i \in 1 .. L + n /\ i \in 1 .. L + n + l
    BY ONLY <1>1, <1>6
  <2>2. QED
    BY <1>3, <1>7, <2>1
<1>9. ASSUME NEW i \in L + 1 .. L + n
      PROVE  /\ i \in DOMAIN stream' /\ stream'[i] = <<Line, written + (i - L)>>
             /\ stream'[i] # MessageByte
  <2>1. i \in 1 .. L + n /\ i - L \in 1 .. n /\ i \in DOMAIN stream'
    <3>1. i \in 1 .. L + n /\ i - L \in 1 .. n /\ i \in 1 .. L + n + l
      BY ONLY <1>1, <1>6
    <3>2. QED
      BY <1>7, <3>1
  <2>2. stream'[i] = all[i] /\ all[i] = new[i - L] /\ new[i - L] = <<Line, written + (i - L)>>
    BY <1>2, <1>3, <1>7, <2>1
  <2>3. <<Line, written + (i - L)>> # <<0, 0>>
    BY <1>1
  <2>4. QED
    BY <2>1, <2>2, <2>3 DEF MessageByte
<1>10. ASSUME NEW i \in L + n + 1 .. L + n + l PROVE stream'[i] = MessageByte
  BY <1>4, <1>7
<1>11. DOMAIN stream = 1 .. L
  BY <1>1
<1>12. LineBytes' = {i \in DOMAIN stream' : stream'[i] # MessageByte}
  BY DEF LineBytes, MessageByte
<1>13. LineBytes' = LineBytes \cup (L + 1 .. L + n)
  <2>1. ASSUME NEW i \in DOMAIN stream'
        PROVE  i \in 1 .. L \/ i \in L + 1 .. L + n \/ i \in L + n + 1 .. L + n + l
    <3>1. i \in 1 .. L + n + l
      BY <1>7, <2>1
    <3>2. QED
      BY ONLY <1>1, <1>6, <3>1
  <2>2. QED
    BY <1>8, <1>9, <1>10, <1>11, <1>12, <2>1 DEF LineBytes
<1>14. \A byte : InStream(byte) => Arrived(byte)
  BY <1>8, <1>11 DEF InStream, Arrived
<1>15. ASSUME NEW k \in 1 .. n PROVE Arrived(<<Line, written + k>>)
  <2> DEFINE i == L + k
  <2>1. i \in L + 1 .. L + n /\ i - L = k
    BY ONLY <1>1, k \in 1 .. n
  <2> HIDE DEF i
  <2>2. i \in DOMAIN stream' /\ stream'[i] = <<Line, written + (i - L)>>
    BY <1>9, <2>1
  <2>3. QED
    BY ONLY <2>1, <2>2 DEF Arrived
<1>16. QED
  BY <1>7, <1>8, <1>9, <1>11, <1>13, <1>14, <1>15 DEF LineBytes

\* It makes the lines' bytes n more.
LEMMA MoreBytes ==
    ASSUME NEW L \in Nat, NEW n \in Nat, NEW S \in SUBSET (1 .. L)
    PROVE  Cardinality(S) \in Nat /\ Cardinality(S \cup (L + 1 .. L + n)) = Cardinality(S) + n
<1>1. IsFiniteSet(1 .. L)
  BY FS_Interval
<1>2. IsFiniteSet(S)
  BY <1>1, FS_Subset
<1>3. IsFiniteSet(L + 1 .. L + n) /\ Cardinality(L + 1 .. L + n) = n
  <2>1. L + 1 \in Int /\ L + n \in Int
    OBVIOUS
  <2>2. /\ IsFiniteSet(L + 1 .. L + n)
        /\ Cardinality(L + 1 .. L + n) = IF L + 1 > L + n THEN 0 ELSE L + n - (L + 1) + 1
    BY <2>1, FS_Interval
  <2>3. QED
    BY <2>2
<1>4. S \cap (L + 1 .. L + n) = {}
  OBVIOUS
<1>5. Cardinality(S \cup (L + 1 .. L + n))
          = Cardinality(S) + Cardinality(L + 1 .. L + n) - Cardinality(S \cap (L + 1 .. L + n))
  BY <1>2, <1>3, FS_Union
<1>6. Cardinality(S) \in Nat /\ Cardinality(S \cap (L + 1 .. L + n)) = 0
  BY <1>2, <1>4, FS_EmptySet, FS_CardinalityType
<1>7. QED
  BY <1>3, <1>5, <1>6

\* The order of the bytes after a write.
LEMMA WriteInOrder ==
    ASSUME AppendType, BytesInv, pc = "loop", NEW n \in 0 .. len[Line] - written,
           NEW message \in {<<>>, <<MessageByte>>},
           stream' = stream \o Bytes(written + 1, written + n) \o message
    PROVE  /\ \A i, j \in LineBytes' : i < j => Before(stream'[i], stream'[j])
           /\ \A i \in LineBytes' :
                  /\ \/ stream'[i][1] = Line /\ stream'[i][2] \in 1 .. written + n
                     \/ stream'[i][1] \in 1 .. Line - 1 /\ stream'[i][2] \in 1 .. len[stream'[i][1]]
                  /\ stream'[i][2] > 1 => Arrived(<<stream'[i][1], stream'[i][2] - 1>>)
<1>1. written \in Nat /\ n \in Nat /\ Line \in Nat \ {0} /\ Len(stream) \in Nat
  BY DEF AppendType, Line
<1>2. PICK L \in Nat : L = Len(stream)
  BY <1>1
<1>3. ASSUME NEW i \in LineBytes
      PROVE  /\ i \in 1 .. L /\ stream'[i] = stream[i]
             /\ \/ stream[i][1] = Line /\ stream[i][2] \in 1 .. written
                \/ stream[i][1] \in 1 .. Line - 1 /\ stream[i][2] \in 1 .. len[stream[i][1]]
             /\ stream[i][2] > 1 => Arrived(<<stream[i][1], stream[i][2] - 1>>)
  <2>1. i \in 1 .. L /\ stream'[i] = stream[i]
    BY <1>2, Wrote
  <2>2. /\ stream[i][1] \in 1 .. Line /\ stream[i][2] \in 1 .. Given(stream[i][1])
        /\ stream[i][2] > 1 => InStream(<<stream[i][1], stream[i][2] - 1>>)
    BY DEF BytesInv, Placed
  <2>3. stream[i][1] = Line \/ (stream[i][1] \in 1 .. Line - 1 /\ stream[i][1] # Line)
    BY ONLY <1>1, <2>2
  <2>4. QED
    BY <2>1, <2>2, <2>3, Wrote DEF Given
<1>4. ASSUME NEW i \in L + 1 .. L + n
      PROVE  /\ stream'[i][1] = Line /\ stream'[i][2] = written + (i - L)
             /\ i - L \in 1 .. n
             /\ stream'[i][2] > 1 => Arrived(<<stream'[i][1], stream'[i][2] - 1>>)
  <2>1. i - L \in 1 .. n
    BY <1>1, <1>2
  <2>2. stream'[i] = <<Line, written + (i - L)>>
    BY <1>2, Wrote
  <2>3. stream'[i][1] = Line /\ stream'[i][2] = written + (i - L)
    BY ONLY <2>2
  <2>4. ASSUME i - L = 1, written + 1 > 1 PROVE Arrived(<<Line, written>>)
    <3>1. Line \in 1 .. Line /\ written \in 1 .. Given(Line)
      BY <1>1, <2>4 DEF Given
    <3>2. InStream(<<Line, written>>)
      BY <3>1 DEF BytesInv
    <3>3. QED
      BY <1>2, <3>2, Wrote
  <2>5. ASSUME i - L # 1 PROVE Arrived(<<Line, written + (i - L - 1)>>)
    <3>1. i - L - 1 \in 1 .. n
      BY <1>1, <2>1, <2>5
    <3>2. \A k \in 1 .. n : Arrived(<<Line, written + k>>)
      BY <1>2, Wrote
    <3>3. QED
      BY ONLY <3>1, <3>2
  <2>6. i - L = 1 => written + (i - L) - 1 = written
    BY <1>1
  <2>7. written + (i - L) - 1 = written + (i - L - 1)
    BY <1>1, <1>2
  <2>8. ASSUME stream'[i][2] > 1 PROVE Arrived(<<stream'[i][1], stream'[i][2] - 1>>)
    <3>1. stream'[i][2] - 1 = written + (i - L) - 1
      <4>1. (written + (i - L)) - 1 = written + (i - L) - 1
        BY <1>1, <2>1
      <4>2. QED
        BY ONLY <2>3, <4>1
    <3>2. CASE i - L = 1
      <4>1. stream'[i][2] - 1 = written /\ written + 1 > 1
        BY ONLY <2>3, <2>6, <2>8, <3>1, <3>2
      <4>2. QED
        BY ONLY <2>3, <2>4, <3>2, <4>1
    <3>3. CASE i - L # 1
      <4>1. stream'[i][2] - 1 = written + (i - L - 1)
        BY ONLY <2>7, <3>1
      <4>2. QED
        BY ONLY <2>3, <2>5, <3>3, <4>1
    <3>4. QED
      BY ONLY <3>2, <3>3
  <2>9. QED
    BY ONLY <2>1, <2>3, <2>8
<1>5. ASSUME NEW i \in LineBytes' PROVE i \in LineBytes \/ i \in L + 1 .. L + n
  BY <1>2, Wrote
<1>6. ASSUME NEW i \in LineBytes', NEW j \in LineBytes', i < j
      PROVE  Before(stream'[i], stream'[j])
  <2>1. CASE i \in LineBytes /\ j \in LineBytes
    BY <1>3, <1>6, <2>1 DEF BytesInv
  <2>2. CASE i \in LineBytes /\ j \in L + 1 .. L + n
    <3>1. stream'[j][1] = Line /\ stream'[j][2] = written + (j - L) /\ j - L \in 1 .. n
      BY <1>4, <2>2
    <3>2. \/ stream'[i][1] = Line /\ stream'[i][2] \in 1 .. written
          \/ stream'[i][1] \in 1 .. Line - 1
      BY <1>3, <2>2
    <3>3. QED
      BY ONLY <1>1, <3>1, <3>2 DEF Before
  <2>3. CASE i \in L + 1 .. L + n /\ j \in LineBytes
    <3>1. j \in 1 .. L
      BY <1>3, <2>3
    <3>2. QED
      BY ONLY <1>1, <1>2, <1>6, <2>3, <3>1
  <2>4. CASE i \in L + 1 .. L + n /\ j \in L + 1 .. L + n
    <3>1. /\ stream'[i][1] = Line /\ stream'[i][2] = written + (i - L)
          /\ stream'[j][1] = Line /\ stream'[j][2] = written + (j - L)
      BY <1>4, <2>4
    <3>2. written + (i - L) < written + (j - L)
      BY <1>1, <1>2, <1>6, <2>4
    <3>3. QED
      BY <3>1, <3>2 DEF Before
  <2>5. QED
    BY <1>5, <2>1, <2>2, <2>3, <2>4
<1>7. ASSUME NEW i \in LineBytes'
      PROVE  /\ \/ stream'[i][1] = Line /\ stream'[i][2] \in 1 .. written + n
                \/ stream'[i][1] \in 1 .. Line - 1 /\ stream'[i][2] \in 1 .. len[stream'[i][1]]
             /\ stream'[i][2] > 1 => Arrived(<<stream'[i][1], stream'[i][2] - 1>>)
  <2>1. CASE i \in LineBytes
    <3>1. 1 .. written \subseteq 1 .. written + n
      BY <1>1
    <3>2. QED
      BY <1>3, <2>1, <3>1
  <2>2. CASE i \in L + 1 .. L + n
    <3>1. stream'[i][1] = Line /\ stream'[i][2] = written + (i - L) /\ i - L \in 1 .. n
      BY <1>4, <2>2
    <3>2. stream'[i][2] \in 1 .. written + n
      BY ONLY <1>1, <3>1
    <3>3. QED
      BY <1>4, <2>2, <3>1, <3>2
  <2>3. QED
    BY <1>5, <2>1, <2>2
<1>8. QED
  BY <1>6, <1>7

\* The two writes of the loop.
LEMMA Writes ==
    ASSUME AppendType, WriteTaken \/ WriteFailed
    PROVE  \E n \in 0 .. len[Line] - written, message \in {<<>>, <<MessageByte>>} :
               /\ pc = "loop" /\ UNCHANGED <<len, onDisk, m_fp>>
               /\ stream' = stream \o Bytes(written + 1, written + n) \o message
               /\ \/ /\ pc' = "loop" /\ written' = written + n
                     /\ UNCHANGED <<ferror, m_writtenBytes>>
                  \/ /\ pc' = "idle" /\ ferror' /\ ferror' \in BOOLEAN
                     /\ m_writtenBytes' = m_writtenBytes + written /\ written' = written
<1>1. written \in Nat /\ len \in Seq(Nat)
  BY DEF AppendType
<1>2. CASE WriteTaken
  <2>1. PICK n \in 1 .. len[Line] - written :
            Write(n) /\ written' = written + n
    BY <1>2 DEF WriteTaken
  <2>2. pc = "loop" /\ UNCHANGED <<len, onDisk, m_fp, ferror, m_writtenBytes, pc>>
    BY <1>2, <2>1 DEF WriteTaken, AppendType
  <2>3. Line \in 1 .. Len(len) /\ len[Line] \in Nat
    BY <2>2 DEF AppendType, Line
  <2>4. n \in Nat /\ n \in 0 .. len[Line] - written
    BY <1>1, <2>3
  <2>5. stream' = stream \o Bytes(written + 1, written + n)
    BY <2>1 DEF Write
  <2>6. Bytes(written + 1, written + n) \in Seq(Nat \X Nat) /\ stream \in Seq(Nat \X Nat)
    BY <1>1, <2>4, BytesValue DEF AppendType
  <2>7. stream' \in Seq(Nat \X Nat)
    BY ONLY <2>5, <2>6
  <2>8. stream' = stream' \o <<>>
    BY ONLY <2>7
  <2>9. QED
    BY <2>1, <2>2, <2>4, <2>5, <2>8
<1>3. CASE WriteFailed
  <2>1. PICK n \in 0 .. len[Line] - written - 1, message \in {<<>>, <<MessageByte>>} :
            stream' = stream \o Bytes(written + 1, written + n) \o message
    BY <1>3 DEF WriteFailed
  <2>2. /\ pc = "loop" /\ pc' = "idle" /\ ferror' = TRUE
        /\ m_writtenBytes' = m_writtenBytes + written
        /\ UNCHANGED <<len, onDisk, m_fp, written>>
    BY <1>3 DEF WriteFailed
  <2>3. Line \in 1 .. Len(len) /\ len[Line] \in Nat
    BY <2>2 DEF AppendType, Line
  <2>4. n \in 0 .. len[Line] - written
    BY <1>1, <2>3
  <2>5. QED
    BY <2>1, <2>2, <2>4
<1>4. QED
  BY <1>2, <1>3

\* A stream that has just been opened is empty.
LEMMA InitAppend == Init => AppendType /\ BytesInv /\ CountInv
<1> SUFFICES ASSUME Init PROVE AppendType /\ BytesInv /\ CountInv
  OBVIOUS
<1>1. AppendType
  <2>1. stream \in Seq(Nat \X Nat) /\ len \in Seq(Nat)
    BY DEF Init
  <2>2. QED
    BY <2>1 DEF Init, AppendType
<1>2. LineBytes = {} /\ Line = 0
  BY DEF Init, LineBytes, Line
<1>3. BytesInv
  BY <1>2 DEF BytesInv, Init
<1>4. CountInv
  BY <1>2, FS_EmptySet DEF CountInv, Counted, Init
<1>5. QED
  BY <1>1, <1>3, <1>4

\* Another line.
LEMMA AnotherLine ==
    ASSUME AppendType, AppendCall
    PROVE  /\ len' \in Seq(Nat) /\ Line \in Nat /\ Line' = Line + 1
           /\ \A line \in 1 .. Line : len'[line] = len[line]
           /\ len'[Line'] \in Nat /\ written' = 0 /\ pc = "idle" /\ pc' = "loop"
<1>1. PICK n \in Nat : len' = Append(len, n)
  BY AppendFileAssumption DEF AppendCall
<1>2. len \in Seq(Nat)
  BY DEF AppendType
<1>3. /\ len' \in Seq(Nat) /\ Len(len) \in Nat /\ Len(len') = Len(len) + 1
      /\ \A line \in 1 .. Len(len) : len'[line] = len[line]
      /\ len'[Len(len) + 1] = n
  BY ONLY <1>1, <1>2
<1>4. QED
  BY <1>3 DEF Line, AppendCall

\* The type of the state after each step ...
LEMMA NextAppendType == AppendType /\ [Next]_vars => AppendType'
<1> SUFFICES ASSUME AppendType, [Next]_vars PROVE AppendType'
  OBVIOUS
<1>1. CASE AppendCall
  <2>1. Line' >= 1 /\ 0 <= len'[Line']
    BY <1>1, AnotherLine
  <2>2. QED
    BY <1>1, <2>1, AnotherLine DEF AppendCall, AppendType
<1>2. CASE WriteTaken \/ WriteFailed
  <2>1. PICK n \in 0 .. len[Line] - written, message \in {<<>>, <<MessageByte>>} :
            /\ pc = "loop" /\ UNCHANGED <<len, onDisk, m_fp>>
            /\ stream' = stream \o Bytes(written + 1, written + n) \o message
            /\ \/ /\ pc' = "loop" /\ written' = written + n
                  /\ UNCHANGED <<ferror, m_writtenBytes>>
               \/ /\ pc' = "idle" /\ ferror' /\ ferror' \in BOOLEAN
                  /\ m_writtenBytes' = m_writtenBytes + written /\ written' = written
    BY <1>2, Writes
  <2>2. stream' \in Seq(Nat \X Nat)
    BY <2>1, Wrote
  <2>3. Line \in 1 .. Len(len) /\ len[Line] \in Nat /\ Line' = Line
    BY <2>1 DEF AppendType, Line
  <2>4. n \in Nat /\ written + n <= len[Line] /\ written \in Nat /\ m_writtenBytes \in Nat
    BY <2>3 DEF AppendType
  <2>5. written' \in Nat /\ m_writtenBytes' \in Nat /\ ferror' \in BOOLEAN
    BY <2>1, <2>4 DEF AppendType
  <2>6. pc' \in {"idle", "loop"} /\ (pc' = "loop" => written' <= len[Line])
    BY <2>1, <2>4
  <2>7. QED
    BY <2>1, <2>2, <2>3, <2>5, <2>6 DEF AppendType
<1>3. CASE Return
  BY <1>3 DEF Return, AppendType
<1>4. CASE Flush
  BY <1>4 DEF Flush, AppendType, Line
<1>5. CASE BufferFull \/ Close \/ Terminating \/ UNCHANGED vars
  BY <1>5 DEF BufferFull, Close, Terminating, vars, AppendType, Line
<1>6. QED
  BY <1>1, <1>2, <1>3, <1>4, <1>5 DEF Next, Loop

\* ... its bytes ...
LEMMA NextBytesInv == AppendType /\ BytesInv /\ [Next]_vars => BytesInv'
<1> SUFFICES ASSUME AppendType, BytesInv, [Next]_vars PROVE BytesInv'
  OBVIOUS
<1>1. CASE AppendCall
  <2>1. /\ UNCHANGED <<stream, ferror>> /\ LineBytes' = LineBytes
        /\ \A byte : InStream(byte)' <=> InStream(byte)
    BY <1>1 DEF AppendCall, LineBytes, MessageByte, InStream
  <2>2. \A line \in 1 .. Line : line \in 1 .. Line' /\ Given(line)' = Given(line)
    BY <1>1, AnotherLine DEF Given
  <2>3. \A line \in 1 .. Line' : line \in 1 .. Line \/ Given(line)' = 0
    BY <1>1, AnotherLine DEF Given
  <2>4. ASSUME NEW i \in LineBytes PROVE Placed(i)'
    <3>1. Placed(i) /\ stream'[i] = stream[i]
      BY <2>1 DEF BytesInv
    <3>2. Given(stream[i][1])' = Given(stream[i][1]) /\ stream[i][1] \in 1 .. Line'
      BY <2>1, <2>2, <3>1 DEF Placed
    <3>3. QED
      BY <2>1, <3>1, <3>2 DEF Placed
  <2>5. ASSUME NEW line \in 1 .. Line', NEW place \in 1 .. Given(line)',
               ~ferror' \/ (line = Line' /\ pc' = "loop")
        PROVE  InStream(<<line, place>>)'
    <3>1. CASE Given(line)' = 0
      BY <3>1
    <3>2. CASE line \in 1 .. Line
      <4>1. ~ferror /\ place \in 1 .. Given(line)
        BY <1>1, <2>1, <2>2, <2>5, <3>2, AnotherLine
      <4>2. QED
        BY <2>1, <3>2, <4>1 DEF BytesInv
    <3>3. QED
      BY <2>3, <3>1, <3>2
  <2>6. QED
    BY <2>1, <2>4, <2>5 DEF BytesInv
<1>2. CASE WriteTaken \/ WriteFailed
  <2>1. PICK n \in 0 .. len[Line] - written, message \in {<<>>, <<MessageByte>>} :
            /\ pc = "loop" /\ UNCHANGED <<len, onDisk, m_fp>>
            /\ stream' = stream \o Bytes(written + 1, written + n) \o message
            /\ \/ /\ pc' = "loop" /\ written' = written + n
                  /\ UNCHANGED <<ferror, m_writtenBytes>>
               \/ /\ pc' = "idle" /\ ferror' /\ ferror' \in BOOLEAN
                  /\ m_writtenBytes' = m_writtenBytes + written /\ written' = written
    BY <1>2, Writes
  <2>2. /\ \A i, j \in LineBytes' : i < j => Before(stream'[i], stream'[j])
        /\ \A i \in LineBytes' :
              /\ \/ stream'[i][1] = Line /\ stream'[i][2] \in 1 .. written + n
                 \/ stream'[i][1] \in 1 .. Line - 1 /\ stream'[i][2] \in 1 .. len[stream'[i][1]]
              /\ stream'[i][2] > 1 => Arrived(<<stream'[i][1], stream'[i][2] - 1>>)
    BY <2>1, WriteInOrder
  <2>3. /\ Line \in 1 .. Len(len) /\ Line \in Nat /\ len[Line] \in Nat /\ Line' = Line
        /\ n \in Nat /\ written \in Nat /\ written + n <= len[Line]
    BY <2>1 DEF AppendType, Line
  <2>4. \A byte : InStream(byte)' <=> Arrived(byte)
    BY DEF InStream, Arrived
  <2>5. \A line \in 1 .. Line - 1 : Given(line)' = len[line] /\ Given(line) = len[line] /\ line \in 1 .. Line
    BY ONLY <2>1, <2>3 DEF Given
  <2>6. Given(Line)' \in Nat /\ written + n <= Given(Line)' /\ (pc' = "loop" => Given(Line)' = written + n)
    BY ONLY <2>1, <2>3 DEF Given
  <2>7. ASSUME NEW i \in LineBytes' PROVE Placed(i)'
    <3> DEFINE line == stream'[i][1]
               place == stream'[i][2]
    <3>1. 1 .. written + n \subseteq 1 .. Given(Line)' /\ Line \in 1 .. Line
      BY ONLY <2>3, <2>6
    <3>2. /\ \/ line = Line /\ place \in 1 .. written + n
             \/ line \in 1 .. Line - 1 /\ place \in 1 .. len[line]
          /\ place > 1 => Arrived(<<line, place - 1>>)
      BY <2>2
    <3>3. line \in 1 .. Line /\ \E l \in 1 .. Line : line = l /\ place \in 1 .. Given(l)'
      BY ONLY <2>3, <2>5, <3>1, <3>2
    <3>4. QED
      BY <2>3, <2>4, <3>2, <3>3 DEF Placed
  <2>8. ASSUME NEW line \in 1 .. Line, NEW place \in 1 .. Given(line)',
               ~ferror' \/ (line = Line /\ pc' = "loop")
        PROVE  InStream(<<line, place>>)'
    <3>1. pc' = "loop" /\ ferror' = ferror
      BY <2>1, <2>8
    <3>2. CASE line = Line
      <4>1. place \in 1 .. written \/ place - written \in 1 .. n
        BY ONLY <2>3, <2>6, <3>1, <3>2, place \in 1 .. Given(line)'
      <4>2. CASE place \in 1 .. written
        <5>1. InStream(<<line, place>>)
          BY <2>1, <2>3, <3>2, <4>2 DEF BytesInv, Given
        <5>2. QED
          BY <2>1, <2>4, <5>1, Wrote
      <4>3. CASE place - written \in 1 .. n
        <5>1. Arrived(<<Line, written + (place - written)>>)
          BY <2>1, <4>3, Wrote
        <5>2. written + (place - written) = place
          BY <2>3, <2>6, <3>2
        <5>3. QED
          BY <2>4, <3>2, <5>1, <5>2
      <4>4. QED
        BY <4>1, <4>2, <4>3
    <3>3. CASE line # Line
      <4>1. line \in 1 .. Line - 1
        BY ONLY <2>3, <3>3, line \in 1 .. Line
      <4>2. InStream(<<line, place>>)
        BY <2>5, <2>8, <3>1, <3>3, <4>1 DEF BytesInv
      <4>3. QED
        BY <2>1, <2>4, <4>2, Wrote
    <3>4. QED
      BY <3>2, <3>3
  <2>9. QED
    BY <2>2, <2>3, <2>7, <2>8 DEF BytesInv
<1>3. CASE Return
  <2>1. /\ pc = "loop" /\ pc' = "idle" /\ written = len[Line]
        /\ UNCHANGED <<stream, ferror, len, written>>
    BY <1>3 DEF Return
  <2>2. Line' = Line /\ \A line : Given(line)' = Given(line)
    BY <2>1 DEF Line, Given
  <2>3. LineBytes' = LineBytes /\ \A byte : InStream(byte)' <=> InStream(byte)
    BY <2>1 DEF LineBytes, MessageByte, InStream
  <2>4. QED
    BY <2>1, <2>2, <2>3 DEF BytesInv, Placed
<1>4. ASSUME UNCHANGED <<stream, pc, len, written>>, ferror => ferror' PROVE BytesInv'
  <2>1. Line' = Line /\ \A line : Given(line)' = Given(line)
    BY <1>4 DEF Line, Given
  <2>2. LineBytes' = LineBytes /\ \A byte : InStream(byte)' <=> InStream(byte)
    BY <1>4 DEF LineBytes, MessageByte, InStream
  <2>3. QED
    BY <1>4, <2>1, <2>2 DEF BytesInv, Placed
<1>5. CASE Flush
  BY <1>4, <1>5 DEF Flush
<1>6. CASE BufferFull \/ Close \/ Terminating \/ UNCHANGED vars
  BY <1>4, <1>6 DEF BufferFull, Close, Terminating, vars
<1>7. QED
  BY <1>1, <1>2, <1>3, <1>5, <1>6 DEF Next, Loop

\* ... and its count.
LEMMA NextCountInv == AppendType /\ CountInv /\ [Next]_vars => CountInv'
<1> SUFFICES ASSUME AppendType, CountInv, [Next]_vars PROVE CountInv'
  OBVIOUS
<1>1. Len(stream) \in Nat /\ LineBytes \in SUBSET (1 .. Len(stream))
  BY DEF AppendType, LineBytes
<1>2. Cardinality(LineBytes) \in Nat
  BY <1>1, MoreBytes
<1>3. CASE WriteTaken \/ WriteFailed
  <2>1. PICK n \in 0 .. len[Line] - written, message \in {<<>>, <<MessageByte>>} :
            /\ pc = "loop" /\ UNCHANGED <<len, onDisk, m_fp>>
            /\ stream' = stream \o Bytes(written + 1, written + n) \o message
            /\ \/ /\ pc' = "loop" /\ written' = written + n
                  /\ UNCHANGED <<ferror, m_writtenBytes>>
               \/ /\ pc' = "idle" /\ ferror' /\ ferror' \in BOOLEAN
                  /\ m_writtenBytes' = m_writtenBytes + written /\ written' = written
    BY <1>3, Writes
  <2>2. n \in Nat /\ written \in Nat /\ m_writtenBytes \in Nat
    BY DEF AppendType
  <2>3. LineBytes' = LineBytes \cup (Len(stream) + 1 .. Len(stream) + n)
    BY <2>1, Wrote
  <2>4. Cardinality(LineBytes') = Cardinality(LineBytes) + n
    BY <1>1, <2>2, <2>3, MoreBytes
  <2>5. Counted = m_writtenBytes + written
    BY <2>1 DEF Counted
  <2>6. \/ Counted' = Counted + n /\ ferror' = ferror
        \/ Counted' = Counted /\ ferror'
    BY <2>1, <2>2, <2>5 DEF Counted
  <2>7. QED
    BY <1>2, <2>2, <2>4, <2>5, <2>6 DEF CountInv
<1>4. ASSUME UNCHANGED stream, Counted' = Counted, ferror => ferror' PROVE CountInv'
  BY <1>4 DEF CountInv, LineBytes, MessageByte
<1>5. CASE AppendCall
  BY <1>4, <1>5 DEF AppendCall, Counted, AppendType
<1>6. CASE Return
  BY <1>4, <1>6 DEF Return, Counted
<1>7. CASE Flush
  BY <1>4, <1>7 DEF Flush, Counted
<1>8. CASE BufferFull \/ Close \/ Terminating \/ UNCHANGED vars
  BY <1>4, <1>8 DEF BufferFull, Close, Terminating, vars, Counted
<1>9. QED
  BY <1>3, <1>5, <1>6, <1>7, <1>8 DEF Next, Loop

\* Whatever parts fwrite takes a line in, and whenever it fails, AppendFile's
\* bytes are in the stream in order and once, and all of them as long as
\* there has been no error.
THEOREM LinesStayIntact == Spec => []LinesIntact
<1>1. AppendType /\ BytesInv => LinesIntact
  <2> SUFFICES ASSUME AppendType, BytesInv PROVE LinesIntact
    OBVIOUS
  <2>1. ASSUME NEW line \in 1 .. Line
        PROVE  Given(line) \in Nat /\ Given(line) <= len[line] /\ (pc = "idle" => Given(line) = len[line])
    BY DEF AppendType, Given, Line
  <2>2. ASSUME NEW i \in LineBytes
        PROVE  /\ stream[i][1] \in 1 .. Line /\ stream[i][2] \in 1 .. len[stream[i][1]]
               /\ stream[i][2] > 1 => InStream(<<stream[i][1], stream[i][2] - 1>>)
    <3>1. /\ stream[i][1] \in 1 .. Line /\ stream[i][2] \in 1 .. Given(stream[i][1])
          /\ stream[i][2] > 1 => InStream(<<stream[i][1], stream[i][2] - 1>>)
      BY DEF BytesInv, Placed
    <3>2. len[stream[i][1]] \in Nat
      <4>1. \A line \in 1 .. Line : len[line] \in Nat
        BY DEF AppendType, Line
      <4>2. QED
        BY <3>1, <4>1
    <3>3. QED
      BY <2>1, <3>1, <3>2
  <2>3. ASSUME pc = "idle", ~ferror, NEW line \in 1 .. Line, NEW place \in 1 .. len[line]
        PROVE  InStream(<<line, place>>)
    BY <2>1, <2>3 DEF BytesInv
  <2>4. QED
    BY <2>2, <2>3 DEF BytesInv, LinesIntact
<1>2. QED
  BY InitAppend, NextAppendType, NextBytesInv, <1>1, PTL DEF Spec

\* m_writtenBytes, which decides when a LogFile rolls, never exceeds the bytes
\* that the stream has taken, and equals them until the first error.
THEOREM CountStaysBehind == Spec => []CountNotAhead
<1>1. AppendType /\ CountInv => CountNotAhead
  <2> SUFFICES ASSUME AppendType, CountInv PROVE CountNotAhead
    OBVIOUS
  <2>1. m_writtenBytes <= Counted /\ Counted \in Nat /\ (pc = "idle" => Counted = m_writtenBytes)
    BY DEF AppendType, Counted
  <2>2. Len(stream) \in Nat /\ LineBytes \in SUBSET (1 .. Len(stream))
    BY DEF AppendType, LineBytes
  <2>3. Cardinality(LineBytes) \in Nat
    BY <2>2, MoreBytes
  <2>4. QED
    BY <2>1, <2>3 DEF CountInv, CountNotAhead, AppendType
<1>2. QED
  BY InitAppend, NextAppendType, NextCountInv, <1>1, PTL DEF Spec

-----------------------------------------------------------------------------
(* ReadSmallFile.                                                            *)

Errors == {"ok", "open", "read", "stat", "isdir"}

FileType ==
    /\ kind \in {"regular", "proc", "directory", "other"}
    /\ file \in Seq(Nat) /\ changes \in Nat

ObjectType ==
    /\ m_fd \in {"none", "open", "closed"} /\ m_err \in {"ok", "open"}
    /\ m_buff \in [0 .. kBuffSize - 1 -> Int]
    /\ offset \in Nat
    /\ readPc \in {"new", "idle", "stat", "loop", "done", "thrown", "gone"}

AnswerType ==
    /\ maxSize \in Int /\ content \in Seq(Nat)
    /\ fileSize \in Nat \cup {NoSize} /\ err \in Errors
    /\ from \in Nat /\ seen \subseteq Nat \X Nat /\ least \in Nat
    /\ text \in Seq(Int)

ReadType == FileType /\ ObjectType /\ AnswerType

\* A readToString has begun, or is over.
Reading == readPc \in {"stat", "loop", "done", "thrown"}

\* content is what lies between the offset at the call and that of now.
HonestInv ==
    Reading =>
        /\ BytesAt \subseteq seen
        /\ m_fd = "open" =>
               /\ offset = from + Len(content) /\ Len(content) <= limit
               /\ \A i \in DOMAIN content : <<from + i, content[i]>> \in seen

\* The object reads only what it could open, and not from a directory; the
\* file is never shorter than the history says.
MissedInv ==
    /\ readPc = "new" => m_err = "ok" /\ m_fd = "none"
    /\ readPc \notin {"new", "gone"} => (m_err = "ok" <=> m_fd = "open")
    /\ readPc \in {"stat", "loop"} => m_fd = "open"
    /\ Reading =>
           /\ least <= Len(file)
           /\ m_fd = "open" /\ kind = "directory" => content = <<>>
    /\ NothingMissed

\* There is no text before there is an object.
TextInv == (readPc = "new" => text = <<>>) /\ BufferIsText

-----------------------------------------------------------------------------
\* What the assumption says of the sizes, and limit's range.
LEMMA ReadSizes == kBuffSize \in Nat \ {0} /\ SizeMax \in Nat \ {0} /\ MaxLength \in Nat
  BY ReadAssumption

LEMMA LimitNat == maxSize \in Int => limit \in Nat
  BY ReadSizes DEF limit

\* What was enough of a file is enough of a shorter one.
LEMMA Shorter ==
    ASSUME NEW was \in Nat, NEW is \in Nat, is <= was, NEW start \in Nat, NEW bound \in Nat,
           NEW size \in Nat, size >= Least(bound, was - start)
    PROVE  size >= Least(bound, is - start)
  BY DEF Least

\* The bytes of a part of the file.
LEMMA Part ==
    ASSUME NEW s \in Seq(Nat), NEW first \in Nat, NEW n \in Nat, first + n <= Len(s)
    PROVE  /\ SubSeq(s, first + 1, first + n) \in Seq(Nat)
           /\ Len(SubSeq(s, first + 1, first + n)) = n
           /\ \A i \in 1 .. n : /\ SubSeq(s, first + 1, first + n)[i] = s[first + i]
                              /\ first + i \in DOMAIN s
<1>1. \A i \in first + 1 .. first + n : i \in 1 .. Len(s) /\ s[i] \in Nat
  OBVIOUS
<1>2. /\ SubSeq(s, first + 1, first + n) \in Seq(Nat)
      /\ Len(SubSeq(s, first + 1, first + n))
             = IF first + 1 <= first + n THEN first + n - (first + 1) + 1 ELSE 0
      /\ \A i \in 1 .. first + n - (first + 1) + 1 :
             SubSeq(s, first + 1, first + n)[i] = s[first + 1 + i - 1]
  BY <1>1, SubSeqProperties
<1>3. first + n - (first + 1) + 1 = n /\ \A i \in 1 .. n : first + 1 + i - 1 = first + i
  OBVIOUS
<1>4. Len(SubSeq(s, first + 1, first + n)) = n
  BY <1>2
<1>5. \A i \in 1 .. n : first + i \in DOMAIN s
  OBVIOUS
<1>6. QED
  BY <1>2, <1>3, <1>4, <1>5

\* A read of n bytes: what it adds to content, and what it puts into m_buff.
LEMMA Chunk ==
    ASSUME ReadType, ReadChunk
    PROVE  \E n \in Nat \ {0} :
               /\ n <= toRead /\ offset + n <= Len(file) /\ offset' = offset + n
               /\ content' \in Seq(Nat) /\ Len(content') = Len(content) + n
               /\ \A i \in 1 .. Len(content) : content'[i] = content[i]
               /\ \A i \in 1 .. n : /\ content'[Len(content) + i] = file[offset + i]
                                  /\ offset + i \in DOMAIN file
               /\ m_buff' \in [0 .. kBuffSize - 1 -> Int]
<1>1. PICK n \in 1 .. Least(toRead, Len(file) - offset) :
          LET bytes == SubSeq(file, offset + 1, offset + n)
          IN  content' = content \o bytes /\ m_buff' = Put(bytes) /\ offset' = offset + n
  BY DEF ReadChunk
<1>2. /\ Len(file) \in Nat /\ offset \in Nat /\ limit \in Nat /\ content \in Seq(Nat)
      /\ Len(content) \in Nat /\ file \in Seq(Nat)
  BY LimitNat DEF ReadType, FileType, ObjectType, AnswerType
<1>3. toRead \in Int
  BY <1>2, ReadSizes DEF toRead, Least
<1>4. n \in Nat \ {0} /\ n <= toRead /\ offset + n <= Len(file)
  BY <1>2, <1>3 DEF Least
<1> DEFINE bytes == SubSeq(file, offset + 1, offset + n)
<1>5. /\ bytes \in Seq(Nat) /\ Len(bytes) = n
      /\ \A i \in 1 .. n : bytes[i] = file[offset + i] /\ offset + i \in DOMAIN file
  BY <1>2, <1>4, Part
<1>6. content' = content \o bytes /\ m_buff' = Put(bytes) /\ offset' = offset + n
  BY <1>1
<1> HIDE DEF bytes
<1>7. /\ content' \in Seq(Nat) /\ Len(content') = Len(content) + n
      /\ \A i \in 1 .. Len(content) : content'[i] = content[i]
      /\ \A i \in 1 .. n : content'[Len(content) + i] = bytes[i]
  <2>1. content \o bytes \in Seq(Nat) /\ Len(content \o bytes) = Len(content) + n
    BY ONLY <1>2, <1>5, ConcatProperties
  <2>2. \A i \in 1 .. Len(content) : (content \o bytes)[i] = content[i]
    BY ONLY <1>2, <1>5
  <2>3. \A i \in 1 .. n : (content \o bytes)[Len(content) + i] = bytes[i]
    BY ONLY <1>2, <1>5
  <2>4. QED
    BY <1>6, <2>1, <2>2, <2>3
<1>8. m_buff' \in [0 .. kBuffSize - 1 -> Int]
  <2>1. \A i \in 0 .. kBuffSize - 1 : i < Len(bytes) => i + 1 \in 1 .. Len(bytes) /\ bytes[i + 1] \in Int
    BY <1>5, ReadSizes
  <2>2. QED
    BY <1>6, <2>1 DEF Put, ReadType, ObjectType
<1>9. QED
  BY <1>4, <1>5, <1>6, <1>7, <1>8

\* A pread, too, but for content.
LEMMA PreadText ==
    ASSUME ReadType, NEW n \in 0 .. Least(preadSize, Len(file)), Pread(n)
    PROVE  /\ text' \in Seq(Int) /\ Len(text') = n /\ n \in 0 .. kBuffSize - 1
           /\ m_buff' \in [0 .. kBuffSize - 1 -> Int] /\ m_buff'[n] = NUL
           /\ \A i \in 1 .. n : m_buff'[i - 1] = text'[i]
<1>1. Len(file) \in Nat /\ file \in Seq(Nat)
  BY DEF ReadType, FileType
<1>2. n \in Nat /\ n <= Len(file) /\ n \in 0 .. kBuffSize - 1
  BY <1>1, ReadSizes DEF Least, preadSize
<1>3. SubSeq(file, 0 + 1, 0 + n) = SubSeq(file, 1, n)
  BY <1>2
<1>4. text' \in Seq(Nat) /\ Len(text') = n
  BY <1>1, <1>2, <1>3, Part DEF Pread
<1>5. m_buff' = [i \in 0 .. kBuffSize - 1 |-> IF i = n THEN NUL
                                            ELSE IF i < n THEN text'[i + 1] ELSE m_buff[i]]
  BY <1>4 DEF Pread, Put, ReadType, ObjectType
<1>6. \A i \in 0 .. kBuffSize - 1 : i < n => i + 1 \in 1 .. n /\ text'[i + 1] \in Int
  BY <1>2, <1>4
<1>7. m_buff' \in [0 .. kBuffSize - 1 -> Int]
  BY <1>5, <1>6 DEF NUL, ReadType, ObjectType
<1>8. ASSUME NEW i \in 1 .. n PROVE m_buff'[i - 1] = text'[i]
  <2>1. i - 1 \in 0 .. kBuffSize - 1 /\ i - 1 < n /\ i - 1 # n /\ i - 1 + 1 = i
    BY ONLY <1>2, ReadSizes, i \in 1 .. n
  <2>2. QED
    BY <1>5, <2>1
<1>9. text' \in Seq(Int)
  BY <1>4
<1>10. QED
  BY <1>2, <1>4, <1>5, <1>7, <1>8, <1>9

\* Nothing has been read of a file when the object is constructed.
LEMMA InitRead == ReadInit => ReadType /\ HonestInv /\ MissedInv /\ TextInv
<1> SUFFICES ASSUME ReadInit PROVE ReadType /\ HonestInv /\ MissedInv /\ TextInv
  OBVIOUS
<1>1. ReadType
  <2>1. file \in Seq(Nat) /\ content \in Seq(Nat) /\ text \in Seq(Int)
    <3>1. <<>> \in Seq(Nat) /\ <<0>> \in Seq(Nat) /\ <<0, 0>> \in Seq(Nat) /\ <<>> \in Seq(Int)
      OBVIOUS
    <3>2. QED
      BY ONLY <3>1, ReadInit DEF ReadInit
  <2>2. m_buff \in [0 .. kBuffSize - 1 -> Int]
    BY DEF ReadInit, Junk
  <2>3. QED
    BY <2>1, <2>2 DEF ReadInit, ReadType, FileType, ObjectType, AnswerType, NoSize, Errors
<1>2. HonestInv /\ MissedInv /\ TextInv
  BY DEF ReadInit, HonestInv, MissedInv, TextInv, Reading, NothingMissed, BufferIsText
<1>3. QED
  BY <1>1, <1>2

\* Each step keeps the type.
LEMMA NextReadType == ReadType /\ [ReadNext]_readVars => ReadType'
<1> SUFFICES ASSUME ReadType, [ReadNext]_readVars PROVE ReadType'
  OBVIOUS
<1> USE DEF ReadType, FileType, ObjectType, AnswerType, Errors, Steps, fileState, object, answer, readHist
<1>1. Len(file) \in Nat /\ BytesAt \subseteq Nat \X Nat
  <2>1. \A i \in DOMAIN file : i \in Nat /\ file[i] \in Nat
    BY DEF ReadType, FileType
  <2>2. QED
    BY <2>1 DEF BytesAt
<1>2. CASE Open
  BY <1>2, ReadSizes DEF Open, NUL
<1>3. CASE CloseFd
  BY <1>3 DEF CloseFd
<1>4. CASE readToBuff
  <2>1. CASE \E n \in 0 .. Least(preadSize, Len(file)) : Pread(n)
    <3>1. text' \in Seq(Int) /\ m_buff' \in [0 .. kBuffSize - 1 -> Int]
      BY <2>1, PreadText
    <3>2. QED
      BY <1>4, <3>1 DEF readToBuff, Call
  <2>2. CASE UNCHANGED <<m_buff, text>>
    BY <1>4, <2>2 DEF readToBuff, Call
  <2>3. QED
    BY <1>4, <2>1, <2>2 DEF readToBuff
<1>5. CASE readToString
  <2>1. maxSize' \in Int
    BY <1>5, ReadAssumption DEF readToString
  <2>2. content' \in Seq(Nat)
    <3>1. content' = <<>> \/ content' = content
      BY <1>5 DEF readToString
    <3>2. <<>> \in Seq(Nat)
      OBVIOUS
    <3>3. QED
      BY <3>1, <3>2
  <2>3. readPc' \in {"stat", "loop", "done"}
    BY <1>5 DEF readToString
  <2>4. QED
    BY <1>1, <1>5, <2>1, <2>2, <2>3 DEF readToString
<1>6. CASE Fstat
  <2>1. fileSize' \in Nat \cup {NoSize} /\ err' \in Errors /\ least' \in Nat
    BY <1>1, <1>6 DEF Fstat, st_size
  <2>2. QED
    BY <1>6, <2>1 DEF Fstat
<1>7. CASE FstatFails
  BY <1>7 DEF FstatFails
<1>8. CASE ReadChunk
  <2>1. content' \in Seq(Nat) /\ m_buff' \in [0 .. kBuffSize - 1 -> Int] /\ offset' \in Nat
    BY <1>8, Chunk
  <2>2. text' \in Seq(Int)
    <3>1. <<Junk>> \in Seq(Int)
      BY DEF Junk
    <3>2. QED
      BY <1>8, <3>1 DEF ReadChunk
  <2>3. QED
    BY <1>8, <2>1, <2>2 DEF ReadChunk
<1>9. CASE ReadEnd \/ ReadError \/ ReadLimit
  BY <1>9 DEF ReadEnd, ReadError, ReadLimit
<1>10. CASE Change
  <2>1. file' \in Seq(Nat) /\ changes' \in Nat
    <3>1. changes' \in Nat
      BY <1>10 DEF Change
    <3>2. CASE file' = Append(file, changes')
      BY <3>1, <3>2
    <3>3. CASE \E n \in 0 .. Len(file) - 1 : file' = SubSeq(file, 1, n)
      <4>1. PICK n \in 0 .. Len(file) - 1 : file' = SubSeq(file, 1, n)
        BY <3>3
      <4>2. n \in Nat /\ 0 + n <= Len(file) /\ file \in Seq(Nat)
        BY <1>1
      <4>3. SubSeq(file, 0 + 1, 0 + n) = SubSeq(file, 1, n)
        BY <4>2
      <4>4. SubSeq(file, 0 + 1, 0 + n) \in Seq(Nat)
        BY ONLY <4>2, Part
      <4>5. QED
        BY <3>1, <4>1, <4>3, <4>4
    <3>4. QED
      BY <1>10, <3>1, <3>2, <3>3 DEF Change
  <2>2. BytesAt' \subseteq Nat \X Nat /\ Len(file') \in Nat
    <3>1. \A i \in DOMAIN file' : i \in Nat /\ file'[i] \in Nat
      BY <2>1
    <3>2. QED
      BY <2>1, <3>1 DEF BytesAt
  <2>3. least' \in Nat /\ seen' \subseteq Nat \X Nat
    BY <1>10, <2>2 DEF Change, Least
  <2>4. QED
    BY <1>10, <2>1, <2>3 DEF Change
<1>11. CASE ReadTerminating \/ UNCHANGED readVars
  BY <1>11 DEF ReadTerminating, readVars
<1>12. QED
  BY <1>2, <1>3, <1>4, <1>5, <1>6, <1>7, <1>8, <1>9, <1>10, <1>11 DEF ReadNext, Reader

\* What has been read was there.
LEMMA NextHonestInv == ReadType /\ HonestInv /\ [ReadNext]_readVars => HonestInv'
<1> SUFFICES ASSUME ReadType, HonestInv, [ReadNext]_readVars PROVE HonestInv'
  OBVIOUS
<1> USE DEF Steps, Reading, fileState, object, answer, readHist
<1>1. offset \in Nat /\ content \in Seq(Nat) /\ from \in Nat /\ limit \in Nat /\ Len(content) \in Nat
  BY LimitNat DEF ReadType, ObjectType, AnswerType
<1>2. ASSUME Reading' => Reading, UNCHANGED <<file, seen, m_fd, offset, from, content, maxSize>>
      PROVE  HonestInv'
  BY <1>2 DEF HonestInv, BytesAt, limit
<1>3. CASE Open \/ CloseFd \/ readToBuff
  BY <1>3 DEF Open, CloseFd, readToBuff, HonestInv
<1>4. CASE readToString
  <2>1. BytesAt' = BytesAt /\ seen' = BytesAt
    BY <1>4 DEF readToString, BytesAt
  <2>2. limit' \in Nat
    <3>1. maxSize' \in Int
      BY <1>4, ReadAssumption DEF readToString
    <3>2. \A m \in Int : m % SizeMax \in Nat
      BY ReadSizes
    <3>3. QED
      BY <3>1, <3>2 DEF limit
  <2>3. ASSUME m_fd' = "open"
        PROVE  offset' = from' + Len(content') /\ Len(content') = 0 /\ DOMAIN content' = {}
    <3>1. content' = <<>> /\ from' = offset /\ offset' = offset
      BY <1>4, <2>3 DEF readToString
    <3>2. QED
      BY <1>1, <3>1
  <2>4. QED
    BY <2>1, <2>2, <2>3 DEF HonestInv
<1>5. CASE Fstat \/ FstatFails
  BY <1>2, <1>5 DEF Fstat, FstatFails
<1>6. CASE ReadChunk
  <2>1. PICK n \in Nat \ {0} :
            /\ n <= toRead /\ offset + n <= Len(file) /\ offset' = offset + n
            /\ content' \in Seq(Nat) /\ Len(content') = Len(content) + n
            /\ \A i \in 1 .. Len(content) : content'[i] = content[i]
            /\ \A i \in 1 .. n : /\ content'[Len(content) + i] = file[offset + i]
                               /\ offset + i \in DOMAIN file
    BY <1>6, Chunk
  <2>2. Reading /\ BytesAt' = BytesAt /\ limit' = limit /\ UNCHANGED <<seen, from, m_fd>>
    BY <1>6 DEF ReadChunk, BytesAt, limit
  <2>3. n <= limit - Len(content)
    BY <1>1, <2>1, ReadSizes DEF toRead, Least
  <2>4. ASSUME m_fd = "open", NEW i \in DOMAIN content' PROVE <<from + i, content'[i]>> \in seen
    <3>1. offset = from + Len(content)
      BY <2>2, <2>4 DEF HonestInv
    <3>2. i \in Int /\ (i \in 1 .. Len(content) \/ i - Len(content) \in 1 .. n)
      BY <1>1, <2>1
    <3>3. CASE i \in 1 .. Len(content)
      <4>1. i \in DOMAIN content
        BY <1>1, <3>3
      <4>2. <<from + i, content[i]>> \in seen
        BY <2>2, <2>4, <4>1 DEF HonestInv
      <4>3. QED
        BY <2>1, <3>3, <4>2
    <3>4. CASE i - Len(content) \in 1 .. n
      <4> DEFINE k == i - Len(content)
      <4>1. k \in 1 .. n /\ i = Len(content) + k /\ from + i = offset + k
        BY ONLY <1>1, <2>1, <3>1, <3>2, <3>4
      <4> HIDE DEF k
      <4>2. content'[i] = file[offset + k] /\ offset + k \in DOMAIN file
        BY <2>1, <4>1
      <4>3. <<offset + k, file[offset + k]>> \in BytesAt
        BY <4>2 DEF BytesAt
      <4>4. QED
        BY <2>2, <4>1, <4>2, <4>3 DEF HonestInv
    <3>5. QED
      BY <3>2, <3>3, <3>4
  <2>5. Len(content') <= limit
    BY ONLY <1>1, <2>1, <2>3
  <2>6. m_fd = "open" => offset' = from + Len(content')
    <3>1. m_fd = "open" => offset = from + Len(content)
      BY <2>2 DEF HonestInv
    <3>2. QED
      BY ONLY <1>1, <2>1, <3>1
  <2>7. QED
    BY <2>2, <2>4, <2>5, <2>6 DEF HonestInv
<1>7. CASE ReadEnd \/ ReadError \/ ReadLimit
  BY <1>2, <1>7 DEF ReadEnd, ReadError, ReadLimit
<1>8. CASE Change
  <2>1. /\ UNCHANGED <<readPc, m_fd, offset, from, content, maxSize>>
        /\ seen \subseteq seen' /\ BytesAt' \subseteq seen'
    BY <1>8 DEF Change
  <2>2. QED
    BY <2>1 DEF HonestInv, limit
<1>9. CASE ReadTerminating \/ UNCHANGED readVars
  BY <1>2, <1>9 DEF ReadTerminating, readVars
<1>10. QED
  BY <1>3, <1>4, <1>5, <1>6, <1>7, <1>8, <1>9 DEF ReadNext, Reader

\* An answer of 0 means that nothing was missed.
LEMMA NextMissedInv ==
    ReadType /\ HonestInv /\ MissedInv /\ [ReadNext]_readVars => MissedInv'
<1> SUFFICES ASSUME ReadType, HonestInv, MissedInv, [ReadNext]_readVars PROVE MissedInv'
  OBVIOUS
<1> USE DEF Steps, Reading, fileState, object, answer, readHist
<1>1. /\ offset \in Nat /\ content \in Seq(Nat) /\ from \in Nat /\ limit \in Nat
      /\ Len(content) \in Nat /\ Len(file) \in Nat /\ least \in Nat /\ m_err \in {"ok", "open"}
  BY LimitNat DEF ReadType, FileType, ObjectType, AnswerType
<1>2. CASE Open
  BY <1>2 DEF Open, MissedInv, NothingMissed, ReadType, ObjectType
<1>3. CASE CloseFd
  BY <1>3 DEF CloseFd, MissedInv, NothingMissed
<1>4. CASE readToBuff
  BY <1>4 DEF readToBuff, MissedInv, NothingMissed
<1>5. CASE readToString
  <2>1. /\ UNCHANGED <<m_fd, m_err, kind, file>> /\ (m_err = "ok" <=> m_fd = "open")
        /\ err' = m_err /\ least' = Len(file) /\ fileSize' = NoSize
    BY <1>5 DEF readToString, MissedInv
  <2>2. \/ m_fd = "open" /\ content' = <<>> /\ readPc' \in {"stat", "loop"}
        \/ m_fd # "open" /\ readPc' = "done"
    BY <1>5 DEF readToString
  <2>3. CASE m_fd = "open"
    BY <1>1, <2>1, <2>2, <2>3 DEF MissedInv, NothingMissed
  <2>4. CASE m_fd # "open"
    <3>1. readPc' = "done" /\ err' # "ok"
      BY <2>1, <2>2, <2>4
    <3>2. QED
      BY <1>1, <2>1, <2>4, <3>1 DEF MissedInv, NothingMissed
  <2>5. QED
    BY <2>3, <2>4
<1>6. CASE Fstat
  BY <1>1, <1>6 DEF Fstat, MissedInv, NothingMissed
<1>7. CASE FstatFails
  BY <1>7 DEF FstatFails, MissedInv, NothingMissed
<1>8. CASE ReadChunk
  BY <1>8 DEF ReadChunk, MissedInv, NothingMissed
<1>9. CASE ReadEnd
  <2>1. /\ readPc = "loop" /\ readPc' = "done" /\ kind # "directory" /\ offset >= Len(file)
        /\ UNCHANGED <<fileState, object, answer, readHist>>
    BY <1>9 DEF ReadEnd
  <2>2. m_fd = "open" /\ offset = from + Len(content) /\ least <= Len(file)
    BY <2>1 DEF MissedInv, HonestInv
  <2>3. Len(content) >= least - from
    BY <1>1, <2>1, <2>2
  <2>4. Len(content) >= Least(limit, least - from)
    BY <1>1, <2>3 DEF Least
  <2>5. Len(content)' >= Least(limit, least - from)'
    BY <2>1, <2>4 DEF Least, limit
  <2>6. QED
    BY <2>1, <2>2, <2>5 DEF MissedInv, NothingMissed
<1>10. CASE ReadLimit
  <2>1. /\ readPc = "loop" /\ readPc' = "done" /\ Len(content) >= limit
        /\ UNCHANGED <<fileState, object, answer, readHist>>
    BY <1>10 DEF ReadLimit
  <2>2. m_fd = "open" /\ (kind = "directory" => content = <<>>)
    BY <2>1 DEF MissedInv
  <2>3. Len(content) >= Least(limit, least - from)
    BY <1>1, <2>1 DEF Least
  <2>4. kind = "directory" => limit = 0
    BY <1>1, <2>1, <2>2
  <2>5. Len(content)' >= Least(limit, least - from)' /\ limit' = limit
    BY <2>1, <2>3 DEF Least, limit
  <2>6. QED
    BY <2>1, <2>2, <2>4, <2>5 DEF MissedInv, NothingMissed
<1>11. CASE ReadError
  BY <1>11 DEF ReadError, MissedInv, NothingMissed
<1>12. CASE Change
  <2>1. /\ kind # "directory" /\ least' = Least(least, Len(file'))
        /\ UNCHANGED <<kind, object, readPc, reads, answer, from, text>>
    BY <1>12 DEF Change
  <2>2. Len(file') \in Nat
    <3>1. file' \in Seq(Nat)
      BY NextReadType DEF ReadType, FileType
    <3>2. QED
      BY <3>1
  <2>3. least' \in Nat /\ least' <= least /\ least' <= Len(file')
    BY <1>1, <2>1, <2>2 DEF Least
  <2>4. Len(content) >= Least(limit, least - from) => Len(content) >= Least(limit, least' - from)
    BY <1>1, <2>3, Shorter
  <2>5. Least(limit, least - from)' = Least(limit, least' - from)
    BY <2>1 DEF Least, limit
  <2>6. NothingMissed'
    BY <2>1, <2>4, <2>5 DEF MissedInv, NothingMissed
  <2>7. QED
    BY <2>1, <2>3, <2>6 DEF MissedInv
<1>13. CASE ReadTerminating \/ UNCHANGED readVars
  BY <1>13 DEF ReadTerminating, readVars, MissedInv, NothingMissed, limit
<1>14. QED
  BY <1>2, <1>3, <1>4, <1>5, <1>6, <1>7, <1>8, <1>9, <1>10, <1>11, <1>12, <1>13
     DEF ReadNext, Reader

\* m_buff ends in a NUL where the text does.
LEMMA NextTextInv == ReadType /\ TextInv /\ [ReadNext]_readVars => TextInv'
<1> SUFFICES ASSUME ReadType, TextInv, [ReadNext]_readVars PROVE TextInv'
  OBVIOUS
<1> USE DEF Steps, fileState, object, answer, readHist
<1>1. DOMAIN m_buff = 0 .. kBuffSize - 1 /\ 0 \in 0 .. kBuffSize - 1
  BY ReadSizes DEF ReadType, ObjectType
<1>2. CASE Open
  <2>1. text' = <<>> /\ m_buff'[0] = NUL /\ 0 \in DOMAIN m_buff' /\ readPc' = "idle"
    BY <1>1, <1>2 DEF Open, TextInv
  <2>2. Len(text') = 0 /\ 1 .. 0 = {}
    BY <2>1
  <2>3. QED
    BY <2>1, <2>2 DEF TextInv, BufferIsText
<1>3. ASSUME UNCHANGED <<m_buff, text>>, readPc' # "new", readPc # "new" PROVE TextInv'
  BY <1>3 DEF TextInv, BufferIsText
<1>4. CASE readToBuff
  <2>1. CASE \E n \in 0 .. Least(preadSize, Len(file)) : Pread(n)
    <3>1. PICK n \in 0 .. Least(preadSize, Len(file)) : Pread(n)
      BY <2>1
    <3>2. /\ Len(text') = n /\ n \in 0 .. kBuffSize - 1
          /\ m_buff' \in [0 .. kBuffSize - 1 -> Int] /\ m_buff'[n] = NUL
          /\ \A i \in 1 .. n : m_buff'[i - 1] = text'[i]
      BY <3>1, PreadText
    <3>3. n \in DOMAIN m_buff' /\ readPc' = "idle"
      BY <1>4, <3>2 DEF readToBuff
    <3>4. QED
      BY <3>2, <3>3 DEF TextInv, BufferIsText
  <2>2. CASE UNCHANGED <<m_buff, text>>
    BY <1>3, <1>4, <2>2 DEF readToBuff
  <2>3. QED
    BY <1>4, <2>1, <2>2 DEF readToBuff
<1>5. CASE ReadChunk
  BY <1>5 DEF ReadChunk, TextInv, BufferIsText
<1>6. CASE CloseFd \/ readToString \/ Fstat \/ FstatFails \/ ReadEnd \/ ReadError \/ ReadLimit
  BY <1>3, <1>6 DEF CloseFd, readToString, Fstat, FstatFails, ReadEnd, ReadError, ReadLimit
<1>7. CASE Change \/ ReadTerminating \/ UNCHANGED readVars
  BY <1>7 DEF Change, ReadTerminating, readVars, TextInv, BufferIsText
<1>8. QED
  BY <1>2, <1>4, <1>5, <1>6, <1>7 DEF ReadNext, Reader

\* However the file changes between two reads and however little they return,
\* readToString puts together only bytes that the file held at their place
\* during the call, and no more of them than maxSize.
THEOREM ReadStaysHonest == ReadSpec => []ReadIsHonest
<1>1. HonestInv => ReadIsHonest
  BY DEF HonestInv, ReadIsHonest, Reading
<1>2. QED
  BY InitRead, NextReadType, NextHonestInv, <1>1, PTL DEF ReadSpec

\* When readToString returns 0, it could open the file, which is no directory,
\* and has read all that the file still had when it was shortest since the
\* call's fstat (or its beginning), up to maxSize.
THEOREM ZeroMeansAll == ReadSpec => []NothingMissed
<1>1. MissedInv => NothingMissed
  BY DEF MissedInv
<1>2. QED
  BY InitRead, NextReadType, NextHonestInv, NextMissedInv, <1>1, PTL DEF ReadSpec

\* readToBuff leaves a text ended by a NUL inside m_buff, for every size of the
\* array and of the file.
THEOREM BufferStaysText == ReadSpec => []BufferIsText
<1>1. TextInv => BufferIsText
  BY DEF TextInv
<1>2. QED
  BY InitRead, NextReadType, NextTextInv, <1>1, PTL DEF ReadSpec

-----------------------------------------------------------------------------
(* ProcessInfo.                                                              *)

\* A set of numbers that is not empty has a least one.
LEMMA LeastNumber ==
    ASSUME NEW T \in SUBSET Nat, T # {}
    PROVE  \E n \in T : \A k \in T : n <= k
<1> DEFINE Below(m) == T \cap 0 .. m
           D == {Below(m) : m \in T}
<1>1. \A m \in T : Below(m) \in FiniteSubsetsOf(Nat)
  <2> TAKE m \in T
  <2>1. IsFiniteSet(0 .. m)
    BY FS_Interval
  <2>2. IsFiniteSet(Below(m))
    BY <2>1, FS_Intersection
  <2>3. QED
    BY <2>2 DEF FiniteSubsetsOf
<1>2. D \subseteq FiniteSubsetsOf(Nat) /\ D # {}
  BY <1>1
<1>3. IsWellFoundedOn(StrictSubsetOrdering(Nat), FiniteSubsetsOf(Nat))
  BY FS_StrictSubsetOrderingWellFounded
<1>4. PICK X \in D : \A Y \in D : ~(<<Y, X>> \in StrictSubsetOrdering(Nat))
  <2> HIDE DEF D
  <2> QED
    BY <1>2, <1>3, WFMin
<1>5. PICK n \in T : X = Below(n)
  OBVIOUS
<1>6. ASSUME NEW k \in T, k < n PROVE FALSE
  <2>1. Below(k) \subseteq Below(n) /\ n \in Below(n) /\ n \notin Below(k)
    BY <1>6
  <2>2. <<Below(k), Below(n)>> \in StrictSubsetOrdering(Nat)
    BY <2>1 DEF StrictSubsetOrdering
  <2>3. QED
    BY <2>2, <1>4, <1>5
<1>7. QED
  BY <1>6

\* What Min returns of one.
LEMMA MinIsLeast ==
    ASSUME NEW S \in SUBSET Nat, S # {}
    PROVE  Min(S) \in S /\ Min(S) \in Nat /\ \A k \in S : Min(S) <= k
<1>1. PICK n \in S : \A k \in S : n <= k
  BY LeastNumber
<1>2. \A x \in S : (\A y \in S : x <= y) => x = n
  BY <1>1
<1>3. Min(S) = n
  BY <1>1, <1>2 DEF Min
<1>4. QED
  BY <1>1, <1>3

\* The entries that are kept.
Kept(t) == returned[t] \ {Dots}

Files == 0 .. MaxFiles - 1

InfoType ==
    /\ live \subseteq Nat /\ Callers \subseteq live
    /\ open \subseteq Files
    /\ scanPc \in [Callers -> {"idle", "scan"}]
    /\ dir \in [Callers -> {"task", "fd"}]
    /\ scans \in [Callers -> Nat]
    /\ dirfd \in [Callers -> Files \cup {NoFd}]
    /\ t_numOpenFiles \in [Callers -> Nat]
    /\ t_pids \in [Callers -> Nat]
    /\ result \in [Callers -> Seq(Nat)]
    /\ \A t \in Callers : returned[t] \subseteq Nat \cup {Dots}
    /\ DOMAIN returned = Callers

\* What a walk has seen so far, in the thread's own variables.
Walks(t) ==
    /\ dirfd[t] \in open
    /\ always[t] \subseteq Entries(dir[t], live, open)
    /\ Entries(dir[t], live, open) \subseteq ever[t]
    /\ Kept(t) \subseteq ever[t]
    /\ IF dir[t] = "fd"
       THEN /\ ever[t] \subseteq Files /\ dirfd[t] \in always[t]
            /\ IsFiniteSet(Kept(t)) /\ t_numOpenFiles[t] = Cardinality(Kept(t))
       ELSE /\ ever[t] \subseteq Nat /\ t \in always[t] /\ t_pids[t] = t
            /\ IsInjective(result[t]) /\ ToSet(result[t]) = Kept(t)

\* What a call has answered.
IsOwn(t) ==
    IF dirfd[t] = NoFd
    THEN IF dir[t] = "fd" THEN t_numOpenFiles[t] = 0 ELSE result[t] = <<>>
    ELSE IF dir[t] = "fd"
    THEN /\ t_numOpenFiles[t] \in Cardinality(always[t]) .. Cardinality(ever[t])
         /\ dirfd[t] \in always[t]
    ELSE /\ \A m, n \in DOMAIN result[t] : m < n => result[t][m] < result[t][n]
         /\ always[t] \subseteq ToSet(result[t]) /\ ToSet(result[t]) \subseteq ever[t]
         /\ t \in always[t]

\* No two walks have one descriptor.
Apart(t) ==
    \A s \in Callers \ {t} : scanPc[s] = "scan" /\ scanPc[t] = "scan" => dirfd[s] # dirfd[t]

InfoInv ==
    /\ InfoType
    /\ \A t \in Callers : scanPc[t] = "scan" => Walks(t)
    /\ \A t \in Callers : Answered(t) => IsOwn(t)
    /\ \A t \in Callers : Apart(t)

\* The constants.
LEMMA InfoConstants ==
    /\ Callers \subseteq Nat \ {0} /\ Others \subseteq Nat \ {0} /\ Callers \cap Others = {}
    /\ MaxFiles \in Nat \ {0} /\ Files \subseteq Nat /\ IsFiniteSet(Files)
    /\ NoFd \notin Files /\ NoFd \notin Nat /\ Dots \notin Nat /\ 0 \in Files
<1>1. /\ Callers \subseteq Nat \ {0} /\ Others \subseteq Nat \ {0} /\ Callers \cap Others = {}
      /\ MaxFiles \in Nat \ {0}
  BY ProcessInfoAssumption
<1>2. IsFiniteSet(0 .. MaxFiles - 1)
  BY <1>1, FS_Interval
<1>3. QED
  BY <1>1, <1>2 DEF Files, NoFd, Dots

\* The lowest free descriptor.
LEMMA FreeFd ==
    ASSUME FreeFds # {}
    PROVE  Min(FreeFds) \in Files /\ Min(FreeFds) \notin open
<1>1. FreeFds = Files \ open
  BY DEF FreeFds, Files
<1>2. FreeFds \in SUBSET Nat
  BY <1>1, InfoConstants
<1>3. Min(FreeFds) \in FreeFds
  BY <1>2, MinIsLeast
<1>4. QED
  BY <1>1, <1>3

LEMMA InfoInvInit == InfoInit => InfoInv
<1> SUFFICES ASSUME InfoInit PROVE InfoInv
  OBVIOUS
<1>1. /\ live = Callers /\ open = {0}
      /\ scanPc = [t \in Callers |-> "idle"]
      /\ dir = [t \in Callers |-> "task"]
      /\ scans = [t \in Callers |-> 0]
      /\ dirfd = [t \in Callers |-> NoFd]
      /\ returned = [t \in Callers |-> {}]
      /\ t_numOpenFiles = [t \in Callers |-> 0]
      /\ t_pids = [t \in Callers |-> 0]
      /\ result = [t \in Callers |-> <<>>]
  BY DEF InfoInit, Null
<1>2. InfoType
  BY <1>1, InfoConstants DEF InfoType
<1>3. \A t \in Callers : scanPc[t] # "scan" /\ ~Answered(t)
  BY <1>1 DEF Answered
<1>4. QED
  BY <1>2, <1>3 DEF InfoInv, Apart

\* What happens elsewhere leaves a walk as it is, and an answer.
Untouched(t) ==
    /\ scanPc'[t] = scanPc[t] /\ dir'[t] = dir[t] /\ scans'[t] = scans[t]
    /\ dirfd'[t] = dirfd[t] /\ returned'[t] = returned[t]
    /\ t_numOpenFiles'[t] = t_numOpenFiles[t] /\ t_pids'[t] = t_pids[t]
    /\ result'[t] = result[t]

\* What a thread sees, from one step to the next.
Watches(t) ==
    LET Now == Entries(dir'[t], live', open')
    IN  /\ always'[t] = IF ~(scanPc'[t] = "scan") THEN always[t]
                        ELSE IF scanPc[t] # "scan" THEN Now ELSE always[t] \cap Now
        /\ ever'[t] = IF ~(scanPc'[t] = "scan") THEN ever[t]
                      ELSE IF scanPc[t] # "scan" THEN Now ELSE ever[t] \cup Now

LEMMA WatchEach ==
    ASSUME Watch, NEW t \in Callers
    PROVE  Watches(t)
  BY DEF Watch, Watches

LEMMA ElsewhereKeeps ==
    ASSUME InfoInv, InfoType', NEW t \in Callers, Untouched(t),
           Watches(t) \/ (always'[t] = always[t] /\ ever'[t] = ever[t]
                            /\ live' = live /\ open' = open),
           scanPc[t] = "scan" => dirfd[t] \in open'
    PROVE  /\ scanPc'[t] = "scan" => Walks(t)'
           /\ Answered(t)' => IsOwn(t)'
<1>1. CASE scanPc[t] = "scan"
  <2>1. Walks(t)
    BY <1>1 DEF InfoInv
  <2>2. Entries(dir[t], live', open') \subseteq IF dir[t] = "fd" THEN Files ELSE Nat
    <3>1. live' \subseteq Nat /\ open' \subseteq Files /\ dir[t] \in {"task", "fd"}
      BY DEF InfoType, InfoInv
    <3>2. CASE dir[t] = "fd"
      BY <3>1, <3>2 DEF Entries
    <3>3. CASE dir[t] = "task"
      BY <3>1, <3>3 DEF Entries
    <3>4. QED
      BY <3>1, <3>2, <3>3
  <2>3. dir[t] = "fd" => dirfd[t] \in Entries(dir[t], live', open')
    BY <1>1 DEF Entries
  <2>4. dir[t] # "fd" => t \in Entries(dir[t], live', open')
    BY DEF InfoType, Entries, InfoInv
  <2> DEFINE now == Entries(dir[t], live', open')
  <2>5. \/ always'[t] = always[t] \cap now /\ ever'[t] = ever[t] \cup now
        \/ always'[t] = always[t] /\ ever'[t] = ever[t] /\ now = Entries(dir[t], live, open)
    BY <1>1 DEF Watches, Untouched
  <2> HIDE DEF now
  <2>6. always'[t] \subseteq now /\ now \subseteq ever'[t] /\ Kept(t) \subseteq ever'[t]
    BY <2>1, <2>5 DEF Walks
  <2>7. Kept(t)' = Kept(t)
    BY DEF Untouched, Kept
  <2>8. CASE dir[t] = "fd"
    <3>1. ever[t] \subseteq Files /\ dirfd[t] \in always[t]
          /\ IsFiniteSet(Kept(t)) /\ t_numOpenFiles[t] = Cardinality(Kept(t))
      BY <2>1, <2>8 DEF Walks
    <3>2. ever'[t] \subseteq Files /\ dirfd[t] \in always'[t]
      BY <3>1, <2>2, <2>3, <2>5, <2>8 DEF now
    <3>3. Walks(t)'
      BY <3>1, <3>2, <2>6, <2>7, <2>8, <1>1 DEF Walks, Untouched, now
    <3>4. QED
      BY <3>3, <1>1 DEF Answered, Untouched
  <2>9. CASE dir[t] # "fd"
    <3>1. ever[t] \subseteq Nat /\ t \in always[t] /\ t_pids[t] = t
          /\ IsInjective(result[t]) /\ ToSet(result[t]) = Kept(t)
      BY <2>1, <2>9 DEF Walks
    <3>2. ever'[t] \subseteq Nat /\ t \in always'[t]
      BY <3>1, <2>2, <2>4, <2>5, <2>9 DEF now
    <3>3. Walks(t)'
      BY <3>1, <3>2, <2>6, <2>7, <2>9, <1>1 DEF Walks, Untouched, now
    <3>4. QED
      BY <3>3, <1>1 DEF Answered, Untouched
  <2>10. QED
    BY <2>8, <2>9
<1>2. CASE scanPc[t] # "scan"
  <2>1. always'[t] = always[t] /\ ever'[t] = ever[t] /\ scanPc'[t] # "scan"
    BY <1>2 DEF Watches, Untouched
  <2>2. Answered(t)' => Answered(t)
    BY DEF Answered, Untouched
  <2>3. Answered(t) => IsOwn(t)
    BY DEF InfoInv
  <2>4. IsOwn(t) => IsOwn(t)'
    BY <2>1 DEF IsOwn, Untouched
  <2>5. QED
    BY <2>1, <2>2, <2>3, <2>4
<1>3. QED
  BY <1>1, <1>2

\* A call, which opens the directory or finds no descriptor.
LEMMA CallKeeps ==
    ASSUME InfoInv, NEW t \in Callers, ScanCall(t)
    PROVE  InfoInv'
<1>1. InfoType
  BY DEF InfoInv
<1>2. PICK which \in {"task", "fd"} :
        /\ dir' = [dir EXCEPT ![t] = which]
        /\ IF which = "fd"
           THEN /\ t_numOpenFiles' = [t_numOpenFiles EXCEPT ![t] = 0]
                /\ UNCHANGED <<t_pids, result>>
           ELSE /\ result' = [result EXCEPT ![t] = <<>>]
                /\ t_pids' = [t_pids EXCEPT ![t] = IF FreeFds = {} THEN 0 ELSE t]
                /\ UNCHANGED t_numOpenFiles
  BY DEF ScanCall, TlsOf, Null
<1>3. /\ scanPc[t] = "idle" /\ scans' = [scans EXCEPT ![t] = @ + 1]
      /\ returned' = [returned EXCEPT ![t] = {}]
      /\ live' = live /\ Watch
  BY DEF ScanCall
<1>4. IF FreeFds = {}
      THEN dirfd' = [dirfd EXCEPT ![t] = NoFd] /\ open' = open /\ scanPc' = scanPc
      ELSE /\ dirfd' = [dirfd EXCEPT ![t] = Min(FreeFds)]
           /\ open' = open \cup {Min(FreeFds)}
           /\ scanPc' = [scanPc EXCEPT ![t] = "scan"]
  BY DEF ScanCall
<1>5. FreeFds # {} => Min(FreeFds) \in Files /\ Min(FreeFds) \notin open
  BY FreeFd
<1>6. t \in Nat /\ t # 0 /\ t \in live
  BY <1>1, InfoConstants DEF InfoType
<1>7. InfoType'
  <2>1. live' \subseteq Nat /\ Callers \subseteq live' /\ open' \subseteq Files
    BY <1>1, <1>3, <1>4, <1>5 DEF InfoType
  <2>2. scanPc' \in [Callers -> {"idle", "scan"}] /\ dirfd' \in [Callers -> Files \cup {NoFd}]
    <3>1. scanPc \in [Callers -> {"idle", "scan"}] /\ dirfd \in [Callers -> Files \cup {NoFd}]
      BY <1>1 DEF InfoType
    <3>2. CASE FreeFds = {}
      BY <3>1, <3>2, <1>4
    <3>3. CASE FreeFds # {}
      <4>1. /\ dirfd' = [dirfd EXCEPT ![t] = Min(FreeFds)] /\ Min(FreeFds) \in Files
            /\ scanPc' = [scanPc EXCEPT ![t] = "scan"]
        BY <3>3, <1>4, <1>5
      <4>2. QED
        BY <3>1, <4>1
    <3>4. QED
      BY <3>2, <3>3
  <2>3. dir' \in [Callers -> {"task", "fd"}] /\ scans' \in [Callers -> Nat]
    BY <1>1, <1>2, <1>3 DEF InfoType
  <2>4. /\ t_numOpenFiles' \in [Callers -> Nat] /\ t_pids' \in [Callers -> Nat]
        /\ result' \in [Callers -> Seq(Nat)]
    <3>1. /\ t_numOpenFiles \in [Callers -> Nat] /\ t_pids \in [Callers -> Nat]
          /\ result \in [Callers -> Seq(Nat)]
      BY <1>1 DEF InfoType
    <3>2. CASE which = "fd"
      <4>1. /\ t_numOpenFiles' = [t_numOpenFiles EXCEPT ![t] = 0]
            /\ t_pids' = t_pids /\ result' = result
        BY <3>2, <1>2
      <4>2. QED
        BY <3>1, <4>1
    <3>3. CASE which # "fd"
      <4>1. /\ result' = [result EXCEPT ![t] = <<>>] /\ <<>> \in Seq(Nat)
            /\ t_numOpenFiles' = t_numOpenFiles
            /\ t_pids' = [t_pids EXCEPT ![t] = IF FreeFds = {} THEN 0 ELSE t]
        BY <3>3, <1>2
      <4>2. (IF FreeFds = {} THEN 0 ELSE t) \in Nat
        BY <1>6
      <4>3. result' \in [Callers -> Seq(Nat)]
        BY <3>1, <4>1
      <4>4. t_pids' \in [Callers -> Nat]
        BY <3>1, <4>1, <4>2
      <4>5. QED
        BY <3>1, <4>1, <4>3, <4>4
    <3>4. QED
      BY <3>2, <3>3
  <2>5. (\A s \in Callers : returned'[s] \subseteq Nat \cup {Dots}) /\ DOMAIN returned' = Callers
    BY <1>1, <1>3 DEF InfoType
  <2>6. QED
    BY <2>1, <2>2, <2>3, <2>4, <2>5 DEF InfoType
<1>8. ASSUME NEW s \in Callers, s # t
      PROVE  /\ Untouched(s)
             /\ scanPc'[s] = "scan" => Walks(s)'
             /\ Answered(s)' => IsOwn(s)'
  <2>1. Untouched(s)
    BY <1>1, <1>2, <1>3, <1>4, <1>8 DEF Untouched, InfoType
  <2>2. Watches(s)
    BY <1>3, WatchEach
  <2>3. scanPc[s] = "scan" => dirfd[s] \in open'
    BY <1>4 DEF InfoInv, Walks
  <2>4. QED
    BY <2>1, <2>2, <2>3, <1>7, ElsewhereKeeps
<1>9. /\ dir'[t] = which /\ returned'[t] = {}
      /\ which = "fd" => t_numOpenFiles'[t] = 0
      /\ which # "fd" => result'[t] = <<>> /\ (FreeFds # {} => t_pids'[t] = t)
      /\ FreeFds = {} => scanPc'[t] = "idle" /\ dirfd'[t] = NoFd
      /\ FreeFds # {} => scanPc'[t] = "scan" /\ dirfd'[t] = Min(FreeFds)
  BY <1>1, <1>2, <1>3, <1>4 DEF InfoType
<1>10. scanPc'[t] = "scan" => Walks(t)'
  <2> SUFFICES ASSUME scanPc'[t] = "scan" PROVE Walks(t)'
    OBVIOUS
  <2>1. FreeFds # {} /\ dirfd'[t] = Min(FreeFds) /\ open' = open \cup {Min(FreeFds)}
    BY <1>4, <1>9
  <2>2. always'[t] = Entries(which, live', open') /\ ever'[t] = Entries(which, live', open')
    BY <1>3, <1>9, WatchEach DEF Watches
  <2>3. Kept(t)' = {} /\ IsFiniteSet({}) /\ Cardinality({}) = 0
    BY <1>9, FS_EmptySet DEF Kept
  <2>4. CASE which = "fd"
    <3>1. Entries(which, live', open') = open'
      BY <2>4 DEF Entries
    <3>2. open' \subseteq Files
      BY <1>7 DEF InfoType
    <3>3. QED
      BY <2>1, <2>2, <2>3, <2>4, <3>1, <3>2, <1>9 DEF Walks
  <2>5. CASE which # "fd"
    <3>1. Entries(which, live', open') = live'
      BY <2>5, <1>2 DEF Entries
    <3>2. live' \subseteq Nat /\ t \in live'
      BY <1>7 DEF InfoType
    <3>3. result'[t] = <<>> /\ t_pids'[t] = t
      BY <2>1, <2>5, <1>9
    <3>4. IsInjective(<<>>) /\ ToSet(<<>>) = {}
      BY DEF IsInjective, ToSet
    <3>5. QED
      BY <2>1, <2>2, <2>3, <2>5, <3>1, <3>2, <3>3, <3>4, <1>9 DEF Walks
  <2>6. QED
    BY <2>4, <2>5
<1>11. Answered(t)' => IsOwn(t)'
  <2> SUFFICES ASSUME scanPc'[t] = "idle" PROVE IsOwn(t)'
    BY DEF Answered
  <2>1. FreeFds = {} /\ dirfd'[t] = NoFd
    BY <1>9
  <2>2. QED
    BY <2>1, <1>2, <1>9 DEF IsOwn
<1>12. \A s \in Callers : Apart(s)'
  <2> SUFFICES ASSUME NEW s \in Callers, NEW r \in Callers, r # s,
                      scanPc'[r] = "scan", scanPc'[s] = "scan"
               PROVE  dirfd'[r] # dirfd'[s]
    BY DEF Apart
  <2>1. \A u \in Callers \ {t} : scanPc'[u] = "scan" =>
          scanPc[u] = "scan" /\ dirfd'[u] = dirfd[u] /\ dirfd[u] \in open
    BY <1>8 DEF Untouched, InfoInv, Walks
  <2>2. scanPc'[t] = "scan" => dirfd'[t] \notin open
    BY <1>5, <1>9
  <2>3. CASE r # t /\ s # t
    BY <2>1, <2>3 DEF InfoInv, Apart
  <2>4. CASE r = t \/ s = t
    BY <2>1, <2>2, <2>4
  <2>5. QED
    BY <2>3, <2>4
<1>13. QED
  BY <1>7, <1>8, <1>10, <1>11, <1>12 DEF InfoInv

\* One more in a sequence of different elements.
LEMMA AppendDifferent ==
    ASSUME NEW s \in Seq(Nat), IsInjective(s), NEW x \in Nat, x \notin ToSet(s)
    PROVE  IsInjective(Append(s, x)) /\ ToSet(Append(s, x)) = ToSet(s) \cup {x}
<1> DEFINE n == Len(s)
           u == Append(s, x)
<1>1. /\ n \in Nat /\ DOMAIN s = 1 .. n /\ DOMAIN u = 1 .. n + 1
      /\ u[n + 1] = x /\ \A k \in 1 .. n : u[k] = s[k] /\ s[k] \in ToSet(s)
  BY DEF ToSet
<1>2. \A j, k \in 1 .. n : s[j] = s[k] => j = k
  BY <1>1 DEF IsInjective
<1> HIDE DEF n, u
<1>3. \A k \in 1 .. n + 1 : k \in 1 .. n \/ k = n + 1
  BY <1>1
<1>4. IsInjective(u)
  <2> SUFFICES ASSUME NEW j \in 1 .. n + 1, NEW k \in 1 .. n + 1, u[j] = u[k] PROVE j = k
    BY <1>1 DEF IsInjective
  <2>1. CASE j \in 1 .. n /\ k \in 1 .. n
    BY <2>1, <1>1, <1>2
  <2>2. CASE j = n + 1 \/ k = n + 1
    BY <2>2, <1>1, <1>3
  <2>3. QED
    BY <2>1, <2>2, <1>3
<1>5. ToSet(u) = ToSet(s) \cup {x}
  <2>1. ToSet(u) = {u[k] : k \in 1 .. n + 1} /\ ToSet(s) = {s[k] : k \in 1 .. n}
    BY <1>1 DEF ToSet
  <2>2. n + 1 \in 1 .. n + 1 /\ \A k \in 1 .. n : k \in 1 .. n + 1
    BY <1>1
  <2>3. QED
    BY <2>1, <2>2, <1>1, <1>3
<1>6. QED
  BY <1>4, <1>5 DEF u

\* readdir returns an entry.
LEMMA ReadDirKeeps ==
    ASSUME InfoInv, NEW t \in Callers, ReadDir(t)
    PROVE  InfoInv'
<1>1. InfoType /\ Walks(t)
  BY DEF InfoInv, ReadDir
<1>2. PICK entry \in (Entries(dir[t], live, open) \cup {Dots}) \ returned[t] :
        returned' = [returned EXCEPT ![t] = @ \cup {entry}] /\ Filter(t, entry)
  BY DEF ReadDir
<1>3. /\ scanPc[t] = "scan" /\ live' = live /\ open' = open /\ scanPc' = scanPc /\ dir' = dir
      /\ scans' = scans /\ dirfd' = dirfd /\ t_pids' = t_pids /\ always' = always /\ ever' = ever
  BY DEF ReadDir, processVars
<1>4. dir[t] # "fd" => dir[t] = "task" /\ t_pids[t] = t /\ t # 0
  BY <1>1, InfoConstants DEF Walks, InfoType
<1>5. entry \in Nat \cup {Dots} /\ (entry # Dots => entry \in Nat /\ entry \in ever[t])
  BY <1>1, InfoConstants DEF InfoType, Entries, Walks
<1>6. \/ entry = Dots /\ t_numOpenFiles' = t_numOpenFiles /\ result' = result
      \/ /\ entry # Dots /\ dir[t] = "fd"
         /\ t_numOpenFiles' = [t_numOpenFiles EXCEPT ![t] = @ + 1] /\ result' = result
      \/ /\ entry # Dots /\ dir[t] # "fd"
         /\ result' = [result EXCEPT ![t] = Append(@, entry)] /\ t_numOpenFiles' = t_numOpenFiles
  <2>1. isdigit(entry) <=> entry # Dots
    BY <1>5 DEF isdigit, Dots
  <2>2. ~(dir[t] = "task" /\ t_pids[t] = 0)
    BY <1>4
  <2>3. QED
    BY <2>1, <2>2, <1>2, <1>4 DEF Filter, TlsOf, Null
<1>7. InfoType'
  <2>0. t_numOpenFiles \in [Callers -> Nat] /\ result \in [Callers -> Seq(Nat)]
    BY <1>1 DEF InfoType
  <2>1. t_numOpenFiles' \in [Callers -> Nat]
    <3>1. t_numOpenFiles[t] + 1 \in Nat
      BY <2>0
    <3>2. t_numOpenFiles' = t_numOpenFiles
          \/ t_numOpenFiles' = [t_numOpenFiles EXCEPT ![t] = t_numOpenFiles[t] + 1]
      BY <1>6
    <3>3. QED
      BY <2>0, <3>1, <3>2
  <2>2. result' \in [Callers -> Seq(Nat)]
    <3>1. entry \in Nat => Append(result[t], entry) \in Seq(Nat)
      BY <2>0
    <3>2. result' = result
          \/ (entry \in Nat /\ result' = [result EXCEPT ![t] = Append(result[t], entry)])
      BY <1>5, <1>6
    <3>3. QED
      BY <2>0, <3>1, <3>2
  <2>3. (\A s \in Callers : returned'[s] \subseteq Nat \cup {Dots}) /\ DOMAIN returned' = Callers
    BY <1>1, <1>2, <1>5 DEF InfoType
  <2>4. QED
    BY <2>1, <2>2, <2>3, <1>1, <1>3 DEF InfoType
<1>8. ASSUME NEW s \in Callers, s # t
      PROVE  /\ scanPc'[s] = "scan" => Walks(s)'
             /\ Answered(s)' => IsOwn(s)'
  <2>1. Untouched(s)
    BY <1>1, <1>2, <1>3, <1>6, <1>8 DEF Untouched, InfoType
  <2>2. scanPc[s] = "scan" => dirfd[s] \in open'
    BY <1>3 DEF InfoInv, Walks
  <2>3. QED
    BY <2>1, <2>2, <1>3, <1>7, ElsewhereKeeps
<1>9. Walks(t)'
  <2>1. Kept(t)' = IF entry = Dots THEN Kept(t) ELSE Kept(t) \cup {entry}
    BY <1>1, <1>2 DEF Kept, InfoType
  <2>2. entry # Dots => entry \notin Kept(t)
    BY <1>2 DEF Kept
  <2>3. Kept(t)' \subseteq ever[t]
    BY <2>1, <1>1, <1>5 DEF Walks
  <2>4. CASE dir[t] = "fd"
    <3>1. IsFiniteSet(Kept(t)) /\ t_numOpenFiles[t] = Cardinality(Kept(t))
      BY <1>1, <2>4 DEF Walks
    <3>2. IsFiniteSet(Kept(t))' /\ t_numOpenFiles'[t] = Cardinality(Kept(t)')
      <4>1. CASE entry = Dots
        BY <4>1, <3>1, <2>1, <1>6
      <4>2. CASE entry # Dots
        <5>1. IsFiniteSet(Kept(t) \cup {entry})
              /\ Cardinality(Kept(t) \cup {entry}) = Cardinality(Kept(t)) + 1
          BY <4>2, <3>1, <2>2, FS_AddElement
        <5>2. t_numOpenFiles'[t] = t_numOpenFiles[t] + 1
          BY <4>2, <2>4, <1>1, <1>6 DEF InfoType
        <5>3. QED
          BY <4>2, <5>1, <5>2, <3>1, <2>1
      <4>3. QED
        BY <4>1, <4>2
    <3>3. QED
      BY <2>3, <2>4, <3>2, <1>1, <1>3 DEF Walks
  <2>5. CASE dir[t] # "fd"
    <3>1. IsInjective(result[t]) /\ ToSet(result[t]) = Kept(t) /\ result[t] \in Seq(Nat)
      BY <1>1, <2>5 DEF Walks, InfoType
    <3>2. IsInjective(result'[t]) /\ ToSet(result'[t]) = Kept(t)'
      <4>1. CASE entry = Dots
        BY <4>1, <3>1, <2>1, <1>6
      <4>2. CASE entry # Dots
        <5>1. result'[t] = Append(result[t], entry)
          BY <4>2, <2>5, <1>1, <1>6 DEF InfoType
        <5>2. QED
          BY <4>2, <5>1, <3>1, <2>1, <2>2, <1>5, AppendDifferent
      <4>3. QED
        BY <4>1, <4>2
    <3>3. QED
      BY <2>3, <2>5, <3>2, <1>1, <1>3 DEF Walks
  <2>6. QED
    BY <2>4, <2>5
<1>10. ~Answered(t)'
  BY <1>3 DEF Answered
<1>11. \A s \in Callers : Apart(s)'
  BY <1>3 DEF InfoInv, Apart
<1>12. QED
  BY <1>7, <1>8, <1>9, <1>10, <1>11 DEF InfoInv

\* A permutation of different elements is ascending without repetition, and
\* has the same elements.
LEMMA SortedDifferent ==
    ASSUME NEW s \in Seq(Nat), IsInjective(s),
           NEW order \in Bijection(DOMAIN s, DOMAIN s),
           NEW sorted, sorted = [k \in DOMAIN s |-> s[order[k]]],
           \A m, n \in DOMAIN sorted : m < n => sorted[m] <= sorted[n]
    PROVE  /\ sorted \in Seq(Nat)
           /\ \A m, n \in DOMAIN sorted : m < n => sorted[m] < sorted[n]
           /\ ToSet(sorted) = ToSet(s)
<1> DEFINE D == DOMAIN s
<1>1. /\ order \in [D -> D]
      /\ \A j, k \in D : order[j] = order[k] => j = k
      /\ \A k \in D : \E j \in D : order[j] = k
  BY DEF Bijection, Injection, Surjection, IsInjective
<1>2. D = 1 .. Len(s) /\ Len(s) \in Nat /\ \A k \in D : s[k] \in Nat
  OBVIOUS
<1>3. \A j, k \in D : s[j] = s[k] => j = k
  BY DEF IsInjective
<1>4. ToSet(s) = {s[k] : k \in D}
  BY DEF ToSet
<1> HIDE DEF D
<1>5. DOMAIN sorted = D /\ \A k \in D : sorted[k] = s[order[k]] /\ sorted[k] \in Nat
  BY <1>1, <1>2 DEF D
<1>6. sorted \in Seq(Nat)
  <2>1. sorted \in [1 .. Len(s) -> Nat]
    BY <1>2, <1>5 DEF D
  <2>2. QED
    BY <2>1, <1>2
<1>7. ASSUME NEW m \in D, NEW n \in D, m < n PROVE sorted[m] < sorted[n]
  <2>1. sorted[m] # sorted[n]
    <3>1. m # n
      BY <1>2, <1>7
    <3>2. order[m] # order[n]
      BY <3>1, <1>1
    <3>3. QED
      BY <3>2, <1>1, <1>3, <1>5
  <2>2. sorted[m] <= sorted[n] /\ sorted[m] \in Nat /\ sorted[n] \in Nat
    BY <1>5, <1>7
  <2>3. QED
    BY <2>1, <2>2
<1>8. ToSet(sorted) = {sorted[k] : k \in D}
  BY <1>5 DEF ToSet
<1>9. ToSet(sorted) = ToSet(s)
  <2>1. ASSUME NEW k \in D PROVE sorted[k] \in ToSet(s)
    <3>1. order[k] \in D
      BY <1>1
    <3>2. s[order[k]] \in ToSet(s)
      BY <3>1, <1>4
    <3>3. QED
      BY <3>2, <1>5
  <2>2. ASSUME NEW k \in D PROVE s[k] \in ToSet(sorted)
    <3>1. PICK j \in D : order[j] = k
      BY <1>1
    <3>2. QED
      BY <3>1, <1>5, <1>8
  <2>3. ASSUME NEW x \in ToSet(s) PROVE x \in ToSet(sorted)
    <3>1. PICK k \in D : x = s[k]
      BY <1>4
    <3>2. QED
      BY <3>1, <2>2
  <2>4. ASSUME NEW x \in ToSet(sorted) PROVE x \in ToSet(s)
    <3>1. PICK k \in D : x = sorted[k]
      BY <1>8
    <3>2. QED
      BY <3>1, <2>1
  <2>5. QED
    BY <2>3, <2>4
<1>10. QED
  BY <1>5, <1>6, <1>7, <1>9

\* A call returns.
LEMMA EndKeeps ==
    ASSUME InfoInv, NEW t \in Callers, ScanEnd(t)
    PROVE  InfoInv'
<1>1. InfoType /\ Walks(t)
  BY DEF InfoInv, ScanEnd
<1>2. /\ scanPc[t] = "scan" /\ always[t] \subseteq returned[t]
      /\ scanPc' = [scanPc EXCEPT ![t] = "idle"]
      /\ open' = open \ {dirfd[t]} /\ live' = live /\ dir' = dir /\ scans' = scans
      /\ dirfd' = dirfd /\ returned' = returned /\ t_numOpenFiles' = t_numOpenFiles /\ Watch
  BY DEF ScanEnd
<1>3. IF dir[t] = "task"
      THEN Answer(t) /\ t_pids' = [t_pids EXCEPT ![t] = 0]
      ELSE result' = result /\ t_pids' = t_pids
  BY DEF ScanEnd, TlsOf, Null
<1>4. result[t] \in Seq(Nat) /\ (dir[t] = "fd" \/ dir[t] = "task")
  BY <1>1 DEF InfoType
<1>5. dir[t] = "task" =>
        \E sorted \in Seq(Nat) :
            /\ result' = [result EXCEPT ![t] = sorted]
            /\ \A m, n \in DOMAIN sorted : m < n => sorted[m] < sorted[n]
            /\ ToSet(sorted) = ToSet(result[t])
  <2> SUFFICES ASSUME dir[t] = "task"
               PROVE  \E sorted \in Seq(Nat) :
                          /\ result' = [result EXCEPT ![t] = sorted]
                          /\ \A m, n \in DOMAIN sorted : m < n => sorted[m] < sorted[n]
                          /\ ToSet(sorted) = ToSet(result[t])
    OBVIOUS
  <2> DEFINE s == result[t]
  <2>1. PICK order \in Bijection(DOMAIN s, DOMAIN s) :
            LET sorted == [k \in DOMAIN s |-> s[order[k]]]
            IN  /\ \A a, b \in DOMAIN sorted : a < b => sorted[a] <= sorted[b]
                /\ result' = [result EXCEPT ![t] = sorted]
    BY <1>3 DEF Answer
  <2> DEFINE sorted == [k \in DOMAIN s |-> s[order[k]]]
  <2>2. IsInjective(s) /\ s \in Seq(Nat)
    BY <1>1, <1>4 DEF Walks
  <2>3. /\ \A a, b \in DOMAIN sorted : a < b => sorted[a] <= sorted[b]
        /\ result' = [result EXCEPT ![t] = sorted]
    BY <2>1
  <2>4. sorted = [k \in DOMAIN s |-> s[order[k]]]
    OBVIOUS
  <2> HIDE DEF sorted, s
  <2>5. /\ sorted \in Seq(Nat)
        /\ \A m, n \in DOMAIN sorted : m < n => sorted[m] < sorted[n]
        /\ ToSet(sorted) = ToSet(s)
    BY <2>2, <2>3, <2>4, SortedDifferent
  <2>6. QED
    BY <2>3, <2>5 DEF s
<1>6. InfoType'
  <2>1. open' \subseteq Files /\ scanPc' \in [Callers -> {"idle", "scan"}]
    BY <1>1, <1>2 DEF InfoType
  <2>2. result' \in [Callers -> Seq(Nat)] /\ t_pids' \in [Callers -> Nat]
    <3>1. result \in [Callers -> Seq(Nat)] /\ t_pids \in [Callers -> Nat]
      BY <1>1 DEF InfoType
    <3>2. CASE dir[t] = "task"
      <4>1. PICK sorted \in Seq(Nat) : result' = [result EXCEPT ![t] = sorted]
        BY <3>2, <1>5
      <4>2. t_pids' = [t_pids EXCEPT ![t] = 0]
        BY <3>2, <1>3
      <4>3. result' \in [Callers -> Seq(Nat)]
        BY <3>1, <4>1
      <4>4. t_pids' \in [Callers -> Nat]
        BY <3>1, <4>2
      <4>5. QED
        BY <4>3, <4>4
    <3>3. CASE dir[t] # "task"
      BY <3>1, <3>3, <1>3
    <3>4. QED
      BY <3>2, <3>3
  <2>3. QED
    BY <2>1, <2>2, <1>1, <1>2 DEF InfoType
<1>7. ASSUME NEW s \in Callers, s # t
      PROVE  /\ Untouched(s)
             /\ scanPc'[s] = "scan" => Walks(s)'
             /\ Answered(s)' => IsOwn(s)'
  <2>1. Untouched(s)
    BY <1>1, <1>2, <1>3, <1>4, <1>5, <1>7 DEF Untouched, InfoType
  <2>2. Watches(s)
    BY <1>2, WatchEach
  <2>3. scanPc[s] = "scan" => dirfd[s] \in open'
    <3> SUFFICES ASSUME scanPc[s] = "scan" PROVE dirfd[s] \in open'
      OBVIOUS
    <3>1. dirfd[s] \in open
      BY DEF InfoInv, Walks
    <3>2. dirfd[s] # dirfd[t]
      BY <1>2, <1>7 DEF InfoInv, Apart
    <3>3. QED
      BY <3>1, <3>2, <1>2
  <2>4. QED
    BY <2>1, <2>2, <2>3, <1>6, ElsewhereKeeps
<1>8. scanPc'[t] = "idle"
  BY <1>1, <1>2 DEF InfoType
<1>9. always'[t] = always[t] /\ ever'[t] = ever[t]
  BY <1>2, <1>8, WatchEach DEF Watches
<1>10. always[t] \subseteq Kept(t) /\ Kept(t) \subseteq ever[t]
  <2>1. Dots \notin always[t]
    BY <1>1, InfoConstants DEF Walks, Entries, InfoType
  <2>2. QED
    BY <2>1, <1>1, <1>2 DEF Walks, Kept
<1>11. IsOwn(t)'
  <2>1. dirfd'[t] = dirfd[t] /\ dirfd[t] # NoFd /\ dir'[t] = dir[t]
    BY <1>1, <1>2, InfoConstants DEF Walks, InfoType
  <2>2. CASE dir[t] = "fd"
    <3>1. /\ ever[t] \subseteq Files /\ dirfd[t] \in always[t]
          /\ IsFiniteSet(Kept(t)) /\ t_numOpenFiles[t] = Cardinality(Kept(t))
      BY <1>1, <2>2 DEF Walks
    <3>2. IsFiniteSet(ever[t]) /\ IsFiniteSet(always[t])
      BY <3>1, <1>10, InfoConstants, FS_Subset
    <3>3. /\ Cardinality(always[t]) <= Cardinality(Kept(t))
          /\ Cardinality(Kept(t)) <= Cardinality(ever[t])
      BY <3>1, <3>2, <1>10, FS_Subset
    <3>4. /\ Cardinality(always[t]) \in Nat /\ Cardinality(Kept(t)) \in Nat
          /\ Cardinality(ever[t]) \in Nat
      BY <3>1, <3>2, FS_CardinalityType
    <3>5. t_numOpenFiles'[t] \in Cardinality(always[t]) .. Cardinality(ever[t])
      BY <3>1, <3>3, <3>4, <1>2
    <3>6. QED
      BY <2>1, <2>2, <3>1, <3>5, <1>9 DEF IsOwn
  <2>3. CASE dir[t] # "fd"
    <3>1. PICK sorted \in Seq(Nat) :
            /\ result' = [result EXCEPT ![t] = sorted]
            /\ \A m, n \in DOMAIN sorted : m < n => sorted[m] < sorted[n]
            /\ ToSet(sorted) = ToSet(result[t])
      BY <2>3, <1>4, <1>5
    <3>2. result'[t] = sorted
      BY <3>1, <1>1 DEF InfoType
    <3>3. ToSet(result[t]) = Kept(t) /\ t \in always[t]
      BY <2>3, <1>1 DEF Walks
    <3>4. QED
      BY <2>1, <2>3, <3>1, <3>2, <3>3, <1>9, <1>10 DEF IsOwn
  <2>4. QED
    BY <2>2, <2>3
<1>12. \A s \in Callers : Apart(s)'
  <2> SUFFICES ASSUME NEW s \in Callers, NEW r \in Callers, r # s,
                      scanPc'[r] = "scan", scanPc'[s] = "scan"
               PROVE  dirfd'[r] # dirfd'[s]
    BY DEF Apart
  <2>1. r # t /\ s # t
    BY <1>8
  <2>2. scanPc[r] = "scan" /\ scanPc[s] = "scan"
    BY <2>1, <1>7 DEF Untouched
  <2>3. QED
    BY <2>2, <1>2 DEF InfoInv, Apart
<1>13. QED
  BY <1>6, <1>7, <1>8, <1>11, <1>12 DEF InfoInv

\* Something happens in another thread.
LEMMA EventKeeps == InfoInv /\ Event => InfoInv'
<1> SUFFICES ASSUME InfoInv, Event PROVE InfoInv'
  OBVIOUS
<1>1. InfoType
  BY DEF InfoInv
<1>2. /\ \A t \in Callers : Untouched(t)
      /\ scanPc' = scanPc /\ dir' = dir /\ scans' = scans /\ dirfd' = dirfd /\ returned' = returned
      /\ t_numOpenFiles' = t_numOpenFiles /\ t_pids' = t_pids /\ result' = result /\ Watch
  BY DEF Event, scanVars, Untouched
<1>3. /\ live' \subseteq Nat /\ Callers \subseteq live' /\ open' \subseteq Files
      /\ \A t \in Callers : scanPc[t] = "scan" => dirfd[t] \in open'
  <2>0. /\ live \subseteq Nat /\ Callers \subseteq live /\ open \subseteq Files
        /\ \A t \in Callers : scanPc[t] = "scan" => dirfd[t] \in open
    BY <1>1 DEF InfoType, InfoInv, Walks
  <2>1. CASE (\E t \in Others : live' = (live \ {t}) \cup ({t} \ live)) /\ open' = open
    <3>1. PICK t \in Others : live' = (live \ {t}) \cup ({t} \ live)
      BY <2>1
    <3>2. t \in Nat /\ t \notin Callers
      BY InfoConstants
    <3>3. QED
      BY <2>0, <2>1, <3>1, <3>2
  <2>2. CASE FreeFds # {} /\ open' = open \cup {Min(FreeFds)} /\ live' = live
    BY <2>0, <2>2, FreeFd
  <2>3. ASSUME NEW fd \in open \ {dirfd[t] : t \in {s \in Callers : scanPc[s] = "scan"}},
               open' = open \ {fd}, live' = live
        PROVE  /\ live' \subseteq Nat /\ Callers \subseteq live' /\ open' \subseteq Files
               /\ \A t \in Callers : scanPc[t] = "scan" => dirfd[t] \in open'
    BY <2>0, <2>3
  <2>4. QED
    BY <2>1, <2>2, <2>3 DEF Event
<1>4. InfoType'
  BY <1>1, <1>2, <1>3 DEF InfoType
<1>5. ASSUME NEW t \in Callers
      PROVE  /\ scanPc'[t] = "scan" => Walks(t)'
             /\ Answered(t)' => IsOwn(t)'
  <2>1. Watches(t)
    BY <1>2, WatchEach
  <2>2. QED
    BY <2>1, <1>2, <1>3, <1>4, ElsewhereKeeps
<1>6. \A t \in Callers : Apart(t)'
  BY <1>2 DEF InfoInv, Apart
<1>7. QED
  BY <1>4, <1>5, <1>6 DEF InfoInv

LEMMA InfoInvNext == InfoInv /\ [InfoNext]_infoVars => InfoInv'
<1> SUFFICES ASSUME InfoInv, [InfoNext]_infoVars PROVE InfoInv'
  OBVIOUS
<1>1. ASSUME NEW t \in Callers, ScanCall(t) PROVE InfoInv'
  BY <1>1, CallKeeps
<1>2. ASSUME NEW t \in Callers, ReadDir(t) PROVE InfoInv'
  BY <1>2, ReadDirKeeps
<1>3. ASSUME NEW t \in Callers, ScanEnd(t) PROVE InfoInv'
  BY <1>3, EndKeeps
<1>4. CASE Event
  BY <1>4, EventKeeps
<1>5. CASE UNCHANGED infoVars
  BY <1>5 DEF infoVars, processVars, scanVars, InfoInv, InfoType, Walks, Kept, Entries,
              Answered, IsOwn, Apart
<1>6. QED
  BY <1>1, <1>2, <1>3, <1>4, <1>5 DEF InfoNext, InfoTerminating

\* threads() and openedFiles() answer their own caller, for any number of
\* threads that scan, start, end, open and close at the same time.
THEOREM ScanStaysOwn == InfoSpec => []ScanIsOwn
<1>1. InfoInv => ScanIsOwn
  BY DEF InfoInv, ScanIsOwn, IsOwn, TlsOf
<1>2. QED
  BY <1>1, InfoInvInit, InfoInvNext, PTL DEF InfoSpec
=============================================================================
