-------------------------------- MODULE LogFile --------------------------------
(***************************************************************************)
(* muduo::base::LogFile (LogFile.hpp, LogFile.cpp): log lines go through a   *)
(* stdio buffer to a file that is exchanged for a new one when it is large   *)
(* or when a period is over.  Threads call append() and flush(); between two *)
(* of their statements the clock may move (forwards, or backwards when it is *)
(* set) and the process may die.                                             *)
(*                                                                          *)
(* The constructor opens no file, so a client first calls rollFile(), which  *)
(* takes no lock: Setup is that call, made before the threads start.         *)
(*                                                                          *)
(* Bytes are numbered in the order in which streams take them; a line, and   *)
(* the message of a failed append, is a range of numbers.  A write may stop  *)
(* after any byte, when stdio's buffer is full or when it fails.  Nothing in *)
(* the code looks at the result of fflush or fclose; the C library (glibc,   *)
(* musl) empties the buffer of a stream whose write has failed.             *)
(***************************************************************************)
EXTENDS MutexLock, SequencesExt

CONSTANTS
    Threads,
    threadSelf,         \* the constructor's argument: is there a mutex?
    m_rollSize, m_flushInterval, m_checkEveryN,
    kRollPerSeconds,
    Lengths,            \* the lengths of the lines, in bytes
    BufferSize,         \* the size of m_buffer, which stdio uses
    Names,              \* what file names getLogFileName can produce
    MaxLines,           \* bound: append() calls of a thread
    MaxFlushes,         \* bound: flush() calls of a thread
    MaxNow,             \* bound: the clock's last value
    MaxSetBacks,        \* bound: how often the clock is set back
    MessageSize,        \* the length of the message that a failed append leaves
    MaxErrors           \* bound: how often a write fails

ASSUME LogFileAssumption ==
    /\ m_rollSize \in Nat /\ m_flushInterval \in Nat
    /\ m_checkEveryN \in Nat \ {0} /\ kRollPerSeconds \in Nat \ {0}
    /\ Lengths \subseteq Nat /\ BufferSize \in Nat /\ MessageSize \in 0 .. BufferSize
    /\ MaxLines \in Nat /\ MaxFlushes \in Nat /\ MaxNow \in Nat
    /\ MaxSetBacks \in Nat /\ MaxErrors \in Nat
    /\ threadSelf \in BOOLEAN
    /\ NoThread \notin Threads
    /\ threadSelf \/ \A s, t \in Threads : s = t   \* else it is not shared
    /\ KernelTid \in [Threads -> Nat \ {0}]

VARIABLES
    now, setBacks,      \* time(nullptr), and how often it has been set back
    pc,                 \* the next statement of each thread
    appends, flushes,   \* how many calls each thread has begun
    before,             \* history: the last byte taken when its flush() began
    m_count, m_startOfPeriod, m_lastRoll, m_lastFlush,
    m_file,             \* is there an AppendFile?
    m_writtenBytes,     \* its member
    buffer,             \* the bytes in its stdio buffer
    retired,            \* the buffer of the AppendFile that m_file.reset destroys
    names, files,       \* the name and the content of every file opened so far
    errors,             \* failed writes so far
    alive,              \* FALSE once the process has died
    accepted,           \* history: how many bytes the streams have taken
    lost,               \* history: those of them that a failed write has dropped
    flushed,            \* history: the greatest of before whose flush() is over
    late                \* history: see StaleBound

clockVars == <<now, setBacks>>
callVars  == <<appends, flushes, before>>
timeVars  == <<m_count, m_startOfPeriod, m_lastRoll, m_lastFlush>>
fileVars  == <<m_file, m_writtenBytes, buffer, retired, names, files>>
byteVars  == <<errors, accepted, lost>>

vars == <<mutexVars, clockVars, pc, callVars, timeVars, fileVars, byteVars, flushed, alive,
          late>>

-----------------------------------------------------------------------------
\* now / kRollPerSeconds * kRollPerSeconds
Period(time) == (time \div kRollPerSeconds) * kRollPerSeconds

\* The file m_file writes to, and the one retired has to be written to.
Current == Len(files)

WriteOut(i, bytes) == files' = [files EXCEPT ![i] = @ \o bytes]

First(bytes, n) == SubSeq(bytes, 1, n)
Rest(bytes, n)  == SubSeq(bytes, n + 1, Len(bytes))

\* The next n bytes that a stream takes.
NextBytes(n) == [i \in 1 .. n |-> accepted + i]

\* A write of what is in a buffer reaches the file ...
Written(i, bytes) ==
    /\ WriteOut(i, bytes)
    /\ UNCHANGED <<errors, lost>>

\* ... or fails after the first n bytes, and drops the others.
Fails(i, bytes, n) ==
    /\ errors < MaxErrors
    /\ errors' = errors + 1
    /\ WriteOut(i, First(bytes, n))
    /\ lost' = lost \cup Range(Rest(bytes, n))

WriteBuffer(i, bytes) ==
    \/ Written(i, bytes)
    \/ \E n \in 0 .. Len(bytes) - 1 : Fails(i, bytes, n)

\* AppendFile::flush(): fflush of the stream m_file writes to.
FlushStream ==
    /\ WriteBuffer(Current, buffer)
    /\ buffer' = <<>>
    /\ UNCHANGED <<m_file, m_writtenBytes, retired, names, accepted>>

Goto(t, from, to) ==
    /\ pc[t] = from
    /\ pc' = [pc EXCEPT ![t] = to]

Init ==
    /\ MutexInit
    /\ now \in 1 .. MaxNow /\ setBacks = 0
    /\ pc = [t \in Threads |-> "idle"]
    /\ appends = [t \in Threads |-> 0]
    /\ flushes = [t \in Threads |-> 0]
    /\ before = [t \in Threads |-> 0]
    /\ m_count = 0 /\ m_startOfPeriod = 0 /\ m_lastRoll = 0 /\ m_lastFlush = 0
    /\ m_file = FALSE /\ m_writtenBytes = 0
    /\ buffer = <<>> /\ retired = <<>>
    /\ names = <<>> /\ files = <<>>
    /\ errors = 0 /\ alive = TRUE
    /\ accepted = 0 /\ lost = {} /\ flushed = 0 /\ late = 0

-----------------------------------------------------------------------------
(* The mutex, if there is one.                                               *)

Enter(t) == IF threadSelf THEN lock(t) ELSE UNCHANGED mutexVars
Leave(t) == IF threadSelf THEN unlock(t) ELSE UNCHANGED mutexVars

-----------------------------------------------------------------------------
(* The history variable late counts the appends in a row that found a flush  *)
(* or a roll due.  It starts again where the work is done, and where the     *)
(* clock is read and shows that nothing is due (any more).                   *)

IsDue ==
    \/ now - m_lastFlush > m_flushInterval
    \/ Period(now) # m_startOfPeriod /\ now > m_lastRoll

StillLate == IF IsDue THEN late ELSE 0

-----------------------------------------------------------------------------
(* rollFile()                                                                *)

\* getLogFileName parses an uninitialized buffer where it should have printed
\* the time into it, so the name does not depend on the clock: any name in
\* Names, one that was used before included.
getLogFileName(name) == name \in Names

\* Mutated: m_lastFlush is left alone.
RollKeepsFlushTime ==
    /\ m_lastRoll' = now
    /\ UNCHANGED m_lastFlush
    /\ m_startOfPeriod' = Period(now)

RollTimes ==
    /\ m_lastRoll' = now
    /\ m_lastFlush' = now
    /\ m_startOfPeriod' = Period(now)

\* The members' part of rollFile: the new AppendFile is open, the old one's
\* buffer is still to be written.
Roll ==
    /\ RollTimes
    /\ \E name \in Names : getLogFileName(name) /\ names' = Append(names, name)
    /\ files' = Append(files, <<>>)
    /\ m_file' = TRUE /\ m_writtenBytes' = 0 /\ buffer' = <<>>
    /\ retired' = buffer

\* The client's first call, on a LogFile that has no file yet.
Setup ==
    /\ alive
    /\ ~m_file
    /\ now > m_lastRoll
    /\ Roll
    /\ UNCHANGED <<mutexVars, clockVars, pc, callVars, m_count, byteVars, flushed, alive, late>>

\* m_file.reset(new AppendFile(filename)), up to the point where the old
\* AppendFile is destroyed.
RollOpen(t) ==
    /\ now > m_lastRoll
    /\ Goto(t, "roll", "close")
    /\ Roll
    /\ late' = 0
    /\ UNCHANGED <<mutexVars, clockVars, callVars, m_count, byteVars, flushed, alive>>

\* rollFile returns false: less than a second since the last roll, or the
\* clock has been set back.
RollRefused(t) ==
    /\ now <= m_lastRoll
    /\ Goto(t, "roll", "leave")
    /\ late' = StillLate
    /\ UNCHANGED <<mutexVars, clockVars, callVars, timeVars, fileVars, byteVars, flushed, alive>>

\* Mutated: the old AppendFile is never destroyed.
RollLeak(t) ==
    /\ Goto(t, "close", "leave")
    /\ retired' = <<>>
    /\ UNCHANGED <<mutexVars, clockVars, callVars, timeVars, m_file, m_writtenBytes, buffer,
                   names, files, byteVars, flushed, alive, late>>

\* ~AppendFile: fclose writes the buffer out, or fails to, which nobody notices.
RollClose(t) ==
    /\ Goto(t, "close", "leave")
    /\ WriteBuffer(Current - 1, retired)
    /\ retired' = <<>>
    /\ UNCHANGED <<mutexVars, clockVars, callVars, timeVars, m_file, m_writtenBytes, buffer,
                   names, accepted, flushed, alive, late>>

-----------------------------------------------------------------------------
(* append(logline)                                                           *)

AppendCall(t) ==
    /\ appends[t] < MaxLines
    /\ m_file
    /\ Goto(t, "idle", "append_enter")
    /\ appends' = [appends EXCEPT ![t] = @ + 1]
    /\ UNCHANGED <<mutexVars, clockVars, flushes, before, timeVars, fileVars, byteVars,
                   flushed, alive, late>>

AppendEnter(t) ==
    /\ Goto(t, "append_enter", "write")
    /\ Enter(t)
    /\ UNCHANGED <<clockVars, callVars, timeVars, fileVars, byteVars, flushed, alive, late>>

\* A line that finds no room in the buffer makes stdio write it out: the bytes
\* up to the n-th, which need not be the last of a line.
Spills(bytes, n) == n \in 0 .. Len(bytes) /\ (n > 0 <=> Len(bytes) > BufferSize)

\* m_file->append: AppendFile::append writes the line to the stream ...
AppendWrite(t) ==
    /\ Goto(t, "write", "size")
    /\ \E len \in Lengths :
        /\ m_writtenBytes' = m_writtenBytes + len
        /\ accepted' = accepted + len
        /\ \E n \in 0 .. Len(buffer) + len :
            /\ Spills(buffer \o NextBytes(len), n)
            /\ WriteOut(Current, First(buffer \o NextBytes(len), n))
            /\ buffer' = Rest(buffer \o NextBytes(len), n)
    /\ UNCHANGED <<mutexVars, clockVars, callVars, timeVars, m_file, retired, names, errors,
                   lost, flushed, alive, late>>

\* ... or stops when stdio fails to write its full buffer, with a message in
\* the stream and the bytes of the failed write not counted.  What is dropped
\* includes lines that were in the buffer before.
AppendError(t) ==
    /\ Goto(t, "write", "size")
    /\ \E len \in Lengths :
        /\ Len(buffer) + len > BufferSize
        /\ \E taken \in 0 .. len - 1 : \E n \in 0 .. Len(buffer) + taken :
            /\ Fails(Current, buffer \o NextBytes(taken), n)
            /\ buffer' = Rest(NextBytes(taken + MessageSize), taken)
            /\ accepted' = accepted + taken + MessageSize
    /\ UNCHANGED <<mutexVars, clockVars, callVars, timeVars, m_file, m_writtenBytes, retired,
                   names, flushed, alive, late>>

\* if (m_file->writtenBytes() > m_rollSize) rollFile();
AppendOversize(t) ==
    /\ m_writtenBytes > m_rollSize
    /\ Goto(t, "size", "roll")
    /\ UNCHANGED <<mutexVars, clockVars, callVars, timeVars, fileVars, byteVars, flushed, alive, late>>

\* Mutated: the counter has to exceed m_checkEveryN.
AppendCountTooFar(t) ==
    /\ m_writtenBytes <= m_rollSize
    /\ late' = IF IsDue THEN late + 1 ELSE 0
    /\ IF m_count + 1 > m_checkEveryN
       THEN m_count' = 0 /\ Goto(t, "size", "time")
       ELSE m_count' = m_count + 1 /\ Goto(t, "size", "leave")
    /\ UNCHANGED <<mutexVars, clockVars, callVars, m_startOfPeriod, m_lastRoll, m_lastFlush,
                   fileVars, byteVars, flushed, alive>>

\* else { ++m_count; if (m_count >= m_checkEveryN) { m_count = 0; ... } }
AppendCount(t) ==
    /\ m_writtenBytes <= m_rollSize
    /\ late' = IF IsDue THEN late + 1 ELSE 0
    /\ IF m_count + 1 >= m_checkEveryN
       THEN m_count' = 0 /\ Goto(t, "size", "time")
       ELSE m_count' = m_count + 1 /\ Goto(t, "size", "leave")
    /\ UNCHANGED <<mutexVars, clockVars, callVars, m_startOfPeriod, m_lastRoll, m_lastFlush,
                   fileVars, byteVars, flushed, alive>>

\* The clock is read.  A new period: rollFile(), which reads it again.
AppendNewPeriod(t) ==
    /\ Period(now) # m_startOfPeriod
    /\ Goto(t, "time", "roll")
    /\ UNCHANGED <<mutexVars, clockVars, callVars, timeVars, fileVars, byteVars, flushed, alive, late>>

\* The flush interval is over: the file is flushed, or ought to be.
AppendFlush(t) ==
    /\ Period(now) = m_startOfPeriod
    /\ now - m_lastFlush > m_flushInterval
    /\ Goto(t, "time", "leave")
    /\ m_lastFlush' = now
    /\ FlushStream
    /\ late' = 0
    /\ UNCHANGED <<mutexVars, clockVars, callVars, m_count, m_startOfPeriod, m_lastRoll, flushed,
                   alive>>

\* Neither.
AppendNothingDue(t) ==
    /\ Period(now) = m_startOfPeriod
    /\ now - m_lastFlush <= m_flushInterval
    /\ Goto(t, "time", "leave")
    /\ late' = StillLate
    /\ UNCHANGED <<mutexVars, clockVars, callVars, timeVars, fileVars, byteVars, flushed, alive>>

\* Mutated: a path that leaves the mutex locked.
ReturnLocked(t) ==
    /\ Goto(t, "leave", "idle")
    /\ UNCHANGED <<mutexVars, clockVars, callVars, timeVars, fileVars, byteVars, flushed, alive, late>>

\* The end of append() and of flush().
Return(t) ==
    /\ Goto(t, "leave", "idle")
    /\ Leave(t)
    /\ UNCHANGED <<clockVars, callVars, timeVars, fileVars, byteVars, flushed, alive, late>>

AppendBody(t) ==
    \/ AppendWrite(t) \/ AppendError(t)
    \/ AppendOversize(t) \/ AppendCount(t)
    \/ AppendNewPeriod(t) \/ AppendFlush(t) \/ AppendNothingDue(t)
    \/ RollOpen(t) \/ RollRefused(t) \/ RollClose(t)

AppendStep(t) == AppendCall(t) \/ AppendEnter(t) \/ AppendBody(t)

-----------------------------------------------------------------------------
(* flush()                                                                   *)

FlushCall(t) ==
    /\ flushes[t] < MaxFlushes
    /\ m_file
    /\ Goto(t, "idle", "flush_enter")
    /\ flushes' = [flushes EXCEPT ![t] = @ + 1]
    /\ before' = [before EXCEPT ![t] = accepted]
    /\ UNCHANGED <<mutexVars, clockVars, appends, timeVars, fileVars, byteVars, flushed, alive, late>>

FlushEnter(t) ==
    /\ Goto(t, "flush_enter", "flush")
    /\ Enter(t)
    /\ UNCHANGED <<clockVars, callVars, timeVars, fileVars, byteVars, flushed, alive, late>>

FlushEnds(t) ==
    /\ Goto(t, "flush", "leave")
    /\ flushed' = Max({flushed, before[t]})
    /\ before' = [before EXCEPT ![t] = 0]
    /\ UNCHANGED <<mutexVars, clockVars, appends, flushes, timeVars, alive, late>>

\* Mutated: the stream is not flushed.
FlushNothing(t) ==
    /\ FlushEnds(t)
    /\ UNCHANGED <<fileVars, byteVars>>

\* m_file->flush(), which returns in the same way when fflush fails.
Flush(t) ==
    /\ FlushEnds(t)
    /\ FlushStream

FlushStep(t) == FlushCall(t) \/ FlushEnter(t) \/ Flush(t)

-----------------------------------------------------------------------------
(* The world around it.                                                      *)

Tick ==
    /\ alive
    /\ now < MaxNow
    /\ now' = now + 1
    /\ UNCHANGED <<mutexVars, setBacks, pc, callVars, timeVars, fileVars, byteVars, flushed, alive, late>>

SetBack ==
    /\ alive
    /\ setBacks < MaxSetBacks
    /\ setBacks' = setBacks + 1
    /\ now' \in 1 .. now - 1
    /\ UNCHANGED <<mutexVars, pc, callVars, timeVars, fileVars, byteVars, flushed, alive, late>>

\* The process dies: nothing is left of it but the files.
Crash ==
    /\ alive /\ alive' = FALSE
    /\ owner' = NoThread
    /\ pc' = [t \in Threads |-> "idle"]
    /\ appends' = [t \in Threads |-> 0]
    /\ flushes' = [t \in Threads |-> 0]
    /\ before' = [t \in Threads |-> 0]
    /\ m_count' = 0 /\ m_startOfPeriod' = 0 /\ m_lastRoll' = 0 /\ m_lastFlush' = 0
    /\ m_file' = FALSE /\ m_writtenBytes' = 0
    /\ buffer' = <<>> /\ retired' = <<>>
    /\ late' = 0
    /\ UNCHANGED <<m_holder, clockVars, names, files, byteVars, flushed>>

\* fopen fails when rollFile() opens the new file, with its three times already
\* advanced and the old file still open: AppendFile's assert(m_fp), or without
\* assertions its setbuffer, takes the process down.
RollFails ==
    /\ now > m_lastRoll
    /\ m_file => \E t \in Threads : pc[t] = "roll"
    /\ Crash

Next ==
    \/ Setup
    \/ alive /\ \E t \in Threads : AppendStep(t) \/ FlushStep(t) \/ Return(t)
    \/ Tick \/ SetBack \/ Crash \/ RollFails

Safety == Init /\ [][Next]_vars

-----------------------------------------------------------------------------
(* Properties.                                                               *)

PCs == {"idle", "append_enter", "write", "size", "time", "roll", "close", "flush_enter",
        "flush", "leave"}

TypeOK ==
    /\ owner \in Threads \cup {NoThread}
    /\ m_holder = 0
    /\ now \in 1 .. MaxNow
    /\ pc \in [Threads -> PCs]
    /\ appends \in [Threads -> 0 .. MaxLines]
    /\ flushes \in [Threads -> 0 .. MaxFlushes]
    /\ m_count \in 0 .. m_checkEveryN - 1
    /\ m_startOfPeriod = Period(m_lastRoll)
    /\ m_lastRoll <= m_lastFlush
    /\ m_writtenBytes \in Nat
    /\ buffer \in Seq(Nat) /\ retired \in Seq(Nat)
    /\ files \in Seq(Seq(Nat)) /\ names \in Seq(Names)
    /\ m_file <=> alive /\ files # <<>>
    /\ retired # <<>> => \E t \in Threads : pc[t] = "close"

\* Everything the files hold, in the order the files were opened.
OnDisk == FlattenSeq(files)

\* All that has been put into a stream and is still there, in its order.
Content == OnDisk \o retired \o buffer

\* No byte is lost, duplicated or put out of order: read one after the other,
\* the files and then the buffers hold what was appended, in the order of the
\* appends.  A roll in the middle moves none of it.  Only a write that fails
\* drops bytes, and a crash those in the buffers.
InOrder ==
    /\ \A i, j \in DOMAIN Content : i < j => Content[i] < Content[j]
    /\ Range(Content) \subseteq (1 .. accepted) \ lost
    /\ alive => (1 .. accepted) \ lost \subseteq Range(Content)
    /\ errors = 0 => lost = {}

\* flush() is a promise about the past: when it has returned, nothing that was
\* appended before it was called is in a buffer any more; it is on disk, and a
\* crash does not lose it, unless a write has failed on it.  (flush() does not
\* say so if it was its own.)  Another thread may have rolled the file between
\* the call and the lock.
FlushDurable == (1 .. flushed) \ lost \subseteq Range(OnDisk)

\* Lines do not wait in the buffer for ever while there is traffic: the
\* m_checkEveryN-th append in a row that finds a flush or a roll due makes it,
\* before it leaves the mutex, unless by then the clock says it is not due.
\* (append() looks at the clock on one append in m_checkEveryN, and none of
\* its other paths may starve that look.)
StaleBound ==
    late >= m_checkEveryN =>
        /\ late = m_checkEveryN
        /\ \E t \in Threads : pc[t] \in {"time", "roll"}

\* LogFile implements Journal: a byte is accepted when a stream has taken it,
\* and durable when the stream has written it.
J == INSTANCE Journal WITH durable <- Range(OnDisk), failures <- errors, up <- alive

ImplementsJournal == J!JournalSpec

\* LogFile.cpp's strptime format, ".%Y%m%d-%H%M%S.", says that a file's name
\* carries the second of the roll; a roll takes place at most once a second,
\* so no two files should have the same name.
NamesAreFresh ==
    \A i, j \in DOMAIN names : names[i] = names[j] => i = j
=============================================================================
