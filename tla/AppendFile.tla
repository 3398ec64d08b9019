------------------------------- MODULE AppendFile -------------------------------
(***************************************************************************)
(* muduo::base::FileUtil::AppendFile (FileUtil.hpp, FileUtil.cpp) byte by    *)
(* byte: the loop that pushes a line through fwrite_unlocked, what it does   *)
(* when the stream takes only part of it, and the count it keeps.  LogFile   *)
(* uses one append() as one step; this module is what that rests on.         *)
(*                                                                          *)
(* The stdio stream is external.  fwrite takes any number of the bytes it is *)
(* given; when it takes fewer it has usually set the error indicator, which  *)
(* stays set.                                                               *)
(***************************************************************************)
EXTENDS Integers, Sequences, FiniteSets

CONSTANTS
    Lengths,    \* the lengths of the lines
    MaxCalls    \* bound: the number of append() calls

ASSUME AppendFileAssumption == Lengths \subseteq Nat /\ MaxCalls \in Nat

VARIABLES
    stream,         \* the bytes the stream has taken: <<line, index>>
    onDisk,         \* how many of them are in the file
    ferror,         \* the stream's error indicator
    m_fp,           \* is the stream open?
    m_writtenBytes,
    pc,             \* "idle", or "loop" inside append()
    len,            \* the length of each line given to append() so far
    written         \* the local variable of append()

vars == <<stream, onDisk, ferror, m_fp, m_writtenBytes, pc, len, written>>

-----------------------------------------------------------------------------
\* A byte of the message that append() puts into the stream on an error.
MessageByte == <<0, 0>>

Line == Len(len)

\* The bytes first .. last of the line being appended.
Bytes(first, last) == [i \in 1 .. last - first + 1 |-> <<Line, first + i - 1>>]

Init ==
    /\ stream = <<>> /\ onDisk = 0 /\ ferror = FALSE /\ m_fp = TRUE
    /\ m_writtenBytes = 0
    /\ pc = "idle" /\ len = <<>> /\ written = 0

\* append(logline, len) is called.
AppendCall ==
    /\ m_fp /\ pc = "idle" /\ Line < MaxCalls
    /\ \E n \in Lengths : len' = Append(len, n)
    /\ pc' = "loop"
    /\ written' = 0
    /\ UNCHANGED <<stream, onDisk, ferror, m_fp, m_writtenBytes>>

\* Mutated: every write starts at the beginning of the line.
WriteFromStart(n) == stream' = stream \o Bytes(1, n)

\* write(logline + written, remain): fwrite takes n bytes.
Write(n) == stream' = stream \o Bytes(written + 1, written + n)

\* The stream takes all that remains, or a part of it with no error.
WriteTaken ==
    /\ pc = "loop" /\ written # len[Line]
    /\ \E n \in 1 .. len[Line] - written :
        /\ n < len[Line] - written => ~ferror
        /\ Write(n)
        /\ written' = written + n
    /\ UNCHANGED <<onDisk, ferror, m_fp, m_writtenBytes, pc, len>>

\* The stream takes a part of it and reports an error, its own or one from
\* before: a message goes into the stream (as far as it will take it), and the
\* loop is left with the n bytes of this write not counted.
WriteFailed ==
    /\ pc = "loop" /\ written # len[Line]
    /\ \E n \in 0 .. len[Line] - written - 1, message \in {<<>>, <<MessageByte>>} :
        stream' = stream \o Bytes(written + 1, written + n) \o message
    /\ ferror' = TRUE
    /\ m_writtenBytes' = m_writtenBytes + written
    /\ pc' = "idle"
    /\ UNCHANGED <<onDisk, m_fp, len, written>>

\* Mutated: the count is advanced in the loop and after it.
ReturnCountsTwice ==
    /\ pc = "loop" /\ written = len[Line]
    /\ m_writtenBytes' = m_writtenBytes + written + written
    /\ pc' = "idle"
    /\ UNCHANGED <<stream, onDisk, ferror, m_fp, len, written>>

\* The loop ends and the count is advanced.
Return ==
    /\ pc = "loop" /\ written = len[Line]
    /\ m_writtenBytes' = m_writtenBytes + written
    /\ pc' = "idle"
    /\ UNCHANGED <<stream, onDisk, ferror, m_fp, len, written>>

\* flush(): everything reaches the file, or only a part does and the stream
\* has an error.
Flush ==
    /\ m_fp /\ pc = "idle"
    /\ \E n \in onDisk .. Len(stream) :
        /\ onDisk' = n
        /\ ferror' = (ferror \/ n < Len(stream))
    /\ UNCHANGED <<stream, m_fp, m_writtenBytes, pc, len, written>>

\* stdio writes its buffer out by itself.
BufferFull ==
    /\ m_fp /\ onDisk < Len(stream)
    /\ \E n \in onDisk + 1 .. Len(stream) : onDisk' = n
    /\ UNCHANGED <<stream, ferror, m_fp, m_writtenBytes, pc, len, written>>

\* ~AppendFile(): fclose.
Close ==
    /\ m_fp /\ pc = "idle"
    /\ m_fp' = FALSE
    /\ \E n \in onDisk .. Len(stream) : onDisk' = n /\ (~ferror => n = Len(stream))
    /\ UNCHANGED <<stream, ferror, m_writtenBytes, pc, len, written>>

Loop == WriteTaken \/ WriteFailed \/ Return

\* The file has been closed.
Terminating == ~m_fp /\ UNCHANGED vars

Next == AppendCall \/ Loop \/ Flush \/ BufferFull \/ Close \/ Terminating

Spec == Init /\ [][Next]_vars

-----------------------------------------------------------------------------
(* Properties.                                                               *)

\* Where in the stream the bytes of the lines are.
LineBytes == {i \in DOMAIN stream : stream[i] # MessageByte}

InStream(byte) == \E i \in DOMAIN stream : stream[i] = byte

\* Byte b comes before byte c if its line does, or its place in the same line.
Before(b, c) == b[1] < c[1] \/ (b[1] = c[1] /\ b[2] < c[2])

\* A line is in the stream from its first byte on, each byte once and in its
\* place, however many writes it took, and no byte more; lines do not mix; and
\* a line that is missing its end was cut off by an error.
LinesIntact ==
    /\ \A i, j \in LineBytes : i < j => Before(stream[i], stream[j])
    /\ \A i \in LineBytes :
        LET line == stream[i][1] place == stream[i][2]
        IN  /\ line \in 1 .. Line /\ place \in 1 .. len[line]
            /\ place > 1 => InStream(<<line, place - 1>>)
    /\ pc = "idle" /\ ~ferror =>
        \A line \in 1 .. Line : \A place \in 1 .. len[line] : InStream(<<line, place>>)

\* writtenBytes(), by which LogFile decides to roll, never runs ahead of what
\* the stream has taken.  It is exact until the stream's first error; after
\* one it may be behind for good, so a file can be longer than LogFile thinks.
CountNotAhead ==
    /\ m_writtenBytes <= Cardinality(LineBytes)
    /\ pc = "idle" /\ ~ferror => m_writtenBytes = Cardinality(LineBytes)
=============================================================================
