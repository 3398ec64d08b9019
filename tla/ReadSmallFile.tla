----------------------------- MODULE ReadSmallFile -----------------------------
(***************************************************************************)
(* muduo::base::FileUtil::ReadSmallFile and readFile (FileUtil.hpp,          *)
(* FileUtil.cpp): a file is read in chunks while somebody else makes it      *)
(* longer or shorter, reads return less than asked or fail, and the same     *)
(* object may be read from again.                                           *)
(***************************************************************************)
EXTENDS Integers, Sequences

CONSTANTS
    kBuffSize,      \* the size of m_buff
    MaxSizes,       \* the maxSize arguments, which are ints
    SizeMax,        \* one more than the largest size_t
    MaxLength,      \* bound: the length of the file
    MaxChanges,     \* bound: how often it changes
    MaxReads        \* bound: calls on the object

ASSUME ReadAssumption ==
    /\ kBuffSize \in Nat \ {0} /\ MaxSizes \subseteq Int
    /\ SizeMax \in Nat /\ SizeMax > MaxLength
    /\ MaxLength \in Nat /\ MaxChanges \in Nat /\ MaxReads \in Nat

VARIABLES
    kind,               \* "regular", "proc" (one of /proc), "directory" or "other" (a pipe)
    file, changes,      \* its bytes: the number of changes before each was written
    m_fd, m_err, m_buff,
    offset,             \* of the descriptor
    readPc, reads,
    maxSize, content, fileSize, err,    \* of readToString; readToBuff uses err
    from, seen, least,  \* history, of the call: see ReadIsHonest and NothingMissed
    text                \* history: what readToBuff put into m_buff

fileState == <<kind, file, changes>>
object    == <<m_fd, m_err, m_buff, offset>>
answer    == <<maxSize, content, fileSize, err>>
readHist  == <<from, seen, least, text>>

readVars == <<fileState, object, readPc, reads, answer, readHist>>

-----------------------------------------------------------------------------
NUL  == -1
Junk == -2      \* also: no text, where m_buff holds a chunk of readToString
NoSize == -1    \* *fileSize, where nothing was stored

Least(a, b) == IF a < b THEN a ELSE b

\* implicit_cast<size_t>(maxSize)
limit == maxSize % SizeMax

BytesAt == {<<i, file[i]>> : i \in DOMAIN file}

\* The first Len(bytes) of m_buff are overwritten.
Put(bytes) == [i \in DOMAIN m_buff |-> IF i < Len(bytes) THEN bytes[i + 1] ELSE m_buff[i]]

Steps(from_, to) == readPc \in from_ /\ readPc' = to

ReadInit ==
    /\ kind \in {"regular", "proc", "directory", "other"}
    /\ file \in {<<>>, <<0>>, <<0, 0>>} /\ changes = 0
    /\ m_fd = "none" /\ m_err = "ok" /\ offset = 0
    /\ m_buff = [i \in 0 .. kBuffSize - 1 |-> Junk]
    /\ readPc = "new" /\ reads = 0
    /\ maxSize = 0 /\ content = <<>> /\ fileSize = NoSize /\ err = "ok"
    /\ from = 0 /\ seen = {} /\ least = 0 /\ text = <<>>

\* The constructor.
Open ==
    /\ Steps({"new"}, "idle")
    /\ \/ m_fd' = "open" /\ UNCHANGED m_err
       \/ m_err' = "open" /\ UNCHANGED m_fd
    /\ m_buff' = [m_buff EXCEPT ![0] = NUL]
    /\ UNCHANGED <<fileState, offset, reads, answer, readHist>>

\* The destructor, after a call has returned or thrown.
CloseFd ==
    /\ Steps({"idle", "done", "thrown"}, "gone")
    /\ m_fd' = IF m_fd = "open" THEN "closed" ELSE m_fd
    /\ UNCHANGED <<fileState, m_err, m_buff, offset, reads, answer, readHist>>

Call ==
    /\ reads < MaxReads
    /\ reads' = reads + 1

-----------------------------------------------------------------------------
(* readToBuff(size)                                                          *)

\* Mutated: pread may fill the whole buffer.
preadSizeAll == kBuffSize

preadSize == kBuffSize - 1

\* pread, which leaves the descriptor's offset alone, and the NUL behind it.
Pread(n) ==
    /\ text' = SubSeq(file, 1, n)
    /\ m_buff' = [i \in DOMAIN m_buff |-> IF i = n THEN NUL ELSE Put(text')[i]]

readToBuff ==
    /\ Steps({"idle", "done"}, "idle")
    /\ Call
    /\ IF m_fd = "open"
       THEN \/ /\ kind # "directory"
               /\ \E n \in 0 .. Least(preadSize, Len(file)) : (n = 0 => file = <<>>) /\ Pread(n)
               /\ err' = m_err
            \/ err' = "read" /\ UNCHANGED <<m_buff, text>>
       ELSE err' = m_err /\ UNCHANGED <<m_buff, text>>
    /\ UNCHANGED <<fileState, m_fd, m_err, offset, maxSize, content, fileSize, from, seen, least>>

-----------------------------------------------------------------------------
(* readToString(maxSize, content, fileSize, ...), where content is the       *)
(* string of the last call.                                                  *)

readToString ==
    /\ Call
    /\ err' = m_err
    /\ maxSize' \in MaxSizes
    /\ fileSize' = NoSize
    /\ from' = offset /\ seen' = BytesAt /\ least' = Len(file)
    /\ \/ m_fd = "open" /\ content' = <<>>
          /\ \E next \in {"stat", "loop"} : Steps({"idle", "done"}, next)
       \/ m_fd # "open" /\ Steps({"idle", "done"}, "done") /\ UNCHANGED content
    /\ UNCHANGED <<fileState, object, text>>

\* S_ISREG, also of a file of /proc, whose st_size is 0 whatever can be read.
isRegular == kind \in {"regular", "proc"}

st_size == IF kind = "proc" THEN 0 ELSE Len(file)

\* if (fileSize): only a regular file has one, and content->reserve throws
\* when maxSize is negative.
Fstat ==
    /\ Steps({"stat"}, IF isRegular /\ maxSize < 0 THEN "thrown" ELSE "loop")
    /\ fileSize' = IF isRegular THEN st_size ELSE NoSize
    /\ err' = IF kind = "directory" THEN "isdir" ELSE err
    /\ least' = Len(file)
    /\ UNCHANGED <<fileState, object, reads, maxSize, content, from, seen, text>>

FstatFails ==
    /\ Steps({"stat"}, "loop")
    /\ err' = "stat"
    /\ UNCHANGED <<fileState, object, reads, maxSize, content, fileSize, readHist>>

\* Mutated: every read asks for a whole buffer.
toReadBuffer == kBuffSize

toRead == Least(limit - Len(content), kBuffSize)

\* read() returns n > 0, as many as asked or fewer.
ReadChunk ==
    /\ Steps({"loop"}, "loop") /\ Len(content) < limit
    /\ kind # "directory"
    /\ \E n \in 1 .. Least(toRead, Len(file) - offset) :
        LET bytes == SubSeq(file, offset + 1, offset + n)
        IN  content' = content \o bytes /\ m_buff' = Put(bytes) /\ offset' = offset + n
    /\ text' = <<Junk>>
    /\ UNCHANGED <<fileState, m_fd, m_err, reads, maxSize, fileSize, err, from, seen, least>>

\* Mutated: a read that returns less than asked ends the loop.
ReadEndShort ==
    /\ readPc = "loop" /\ Len(content) < limit
    /\ kind # "directory" /\ (offset >= Len(file) \/ content # <<>>)
    /\ readPc' = "done"
    /\ UNCHANGED <<fileState, object, reads, answer, readHist>>

\* read() returns 0 at the end of the file.
ReadEnd ==
    /\ Steps({"loop"}, "done") /\ Len(content) < limit
    /\ kind # "directory" /\ offset >= Len(file)
    /\ UNCHANGED <<fileState, object, reads, answer, readHist>>

\* read() fails: what has been read stays in content.
ReadError ==
    /\ Steps({"loop"}, "done") /\ Len(content) < limit
    /\ err' = "read"
    /\ UNCHANGED <<fileState, object, reads, maxSize, content, fileSize, readHist>>

ReadLimit ==
    /\ Steps({"loop"}, "done") /\ Len(content) >= limit
    /\ UNCHANGED <<fileState, object, reads, answer, readHist>>

Reader ==
    \/ Open \/ CloseFd \/ readToBuff \/ readToString
    \/ Fstat \/ FstatFails \/ ReadChunk \/ ReadEnd \/ ReadError \/ ReadLimit

-----------------------------------------------------------------------------
(* Whoever writes the file.                                                  *)

Change ==
    /\ kind # "directory" /\ changes < MaxChanges
    /\ changes' = changes + 1
    /\ \/ Len(file) < MaxLength /\ file' = Append(file, changes')
       \/ \E n \in 0 .. Len(file) - 1 : file' = SubSeq(file, 1, n)
    /\ seen' = seen \cup BytesAt'
    /\ least' = Least(least, Len(file'))
    /\ UNCHANGED <<kind, object, readPc, reads, answer, from, text>>

\* The object is gone.
ReadTerminating == readPc = "gone" /\ UNCHANGED readVars

ReadNext == Reader \/ Change \/ ReadTerminating

ReadSpec == ReadInit /\ [][ReadNext]_readVars

-----------------------------------------------------------------------------
(* Properties.                                                               *)

\* What readToString has put together is no longer than maxSize (a negative
\* one is no limit), and each of its bytes was in the file, at its place, at
\* some time of the call: none is read twice, left out in the middle or left
\* over from the call before, whatever becomes of the file between two reads.
\* (A second call on the same object goes on where the first one stopped.)
ReadIsHonest ==
    readPc \in {"loop", "done"} /\ m_fd = "open" =>
        /\ Len(content) <= limit
        /\ \A i \in DOMAIN content : <<from + i, content[i]>> \in seen

\* An answer of 0 is a promise: the file could be opened, is no directory, and
\* everything it still had when it was shortest, since the fstat of the call or
\* without one its beginning, is in content, up to maxSize and however small
\* the chunks were.  (So content is not shorter than *fileSize says unless the
\* file has become shorter.  It may well be longer: *fileSize is 0 for a file
\* of /proc, and is not what ends the loop.)
NothingMissed ==
    readPc = "done" /\ err = "ok" =>
        /\ m_fd = "open"
        /\ kind = "directory" => limit = 0 /\ content = <<>>
        /\ kind # "directory" => Len(content) >= Least(limit, least - from)

\* buffer() is a C string: the text that the constructor (none) or the last
\* readToBuff put there, ended by a NUL inside the array, until a readToString
\* uses the array for its chunks.
BufferIsText ==
    readPc # "new" /\ text # <<Junk>> =>
        \E n \in DOMAIN m_buff :
            m_buff[n] = NUL /\ n = Len(text) /\ \A i \in 1 .. n : m_buff[i - 1] = text[i]
=============================================================================
