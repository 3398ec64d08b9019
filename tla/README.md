# A verification project for Modern_muduo

The repository is the base layer of a muduo-style network library: a mutex, a
condition variable, a count-down latch, a log stream and the log front end, the
rolling log file, readers of small files and of /proc, string views, an atomic
integer, time stamps, dates and time zones. Its `net` part and its `Thread` class
are empty in this version. This directory holds TLA+ modules translated from that
code, TLC configurations that check them on small instances, and TLAPS proofs of
the properties that matter most.

In the modules, an operator or variable that stands for a member of the code has
the member's name, spelled as in the source (`notity`, `vaild`, `kMaxNumercSize`).
Operators whose comment begins with "Mutated" are never part of a specification:
each is a plausible bug of the operator after it, kept to show that a property
notices it (`PROJECT.json`, "mutants").

## 1. The system

| Component (src/muduo/base) | State | Operations | Used by |
|---|---|---|---|
| `MutexLock`, `MutexLockGuard` (Mutex.hpp) | the pthread mutex, `m_holder` | `lock`, `unlock`, `assertLocked`, `UnassignGuard` | Condition, CountDownLatch, LogFile |
| `Condition` (Condition.*) | threads asleep on it | `wait`, `waitForSeconds`, `notity`, `notifyAll` | CountDownLatch |
| `CountDownLatch` | `m_count` under the mutex | `wait`, `countDown`, `getCount` | clients |
| `AppendFile` (FileUtil.*) | a stdio stream, `m_writtenBytes` | `append`, `flush`, destructor | LogFile |
| `ReadSmallFile` (FileUtil.*) | a descriptor with its offset, a 64 KiB array, the error of `open` | `readToString`, `readToBuff`, `buffer` | ProcessInfo |
| `LogFile` | the AppendFile, three times, a counter, an optional mutex | `append`, `flush`, `rollFile` | clients, as the sink of Logger |
| `LogStream`, `FixedBuffer` | an array and `m_cur` | `operator<<`, `append`, `debugString`, `resetBuffer` | Logger |
| `Logger` (Logging.*) | a statement's `Impl`; globals `g_logLevel`, `g_output`, `g_flush`, `g_logTimeZone`; a `thread_local` cache of the formatted second | construct, destroy, the setters | clients |
| `Date` | a julian day number | conversions from and to year, month, day | TimeZone |
| `TimeZone` | tables of transitions and types, shared and constant once built | constructors, `loadZoneFile`, `toLocalTime`, `fromLocalTime`, `toUtcTime`, `fromUtcTime` | Logger |
| `Timestamp` | microseconds since 1970 | `now`, `swap`, texts, `timeDifference`, `addTime` | Logger |
| `AtomicIntegerT` (Atomic.hpp) | one integer, shared by threads | `get`, `getAndAdd`, `addAndGet`, `getAndSet` and their relatives | clients |
| `StringPiece` (StringPiech.hpp) | a pointer and a length into memory of somebody else | construction, `remove_prefix`, `remove_suffix`, comparisons | LogStream, FileUtil, ProcessInfo |
| `ProcessInfo` | two `thread_local` variables of its scandir filters | `threads`, `openedFiles`, `procname`, getters | clients |
| `CurrentThread`, `Types`, `Util`, `copyable`, `noncopyable` | thread-local ids, or none | `tid`, `stackTrace`, casts | everything |

How they meet: a log statement (Logger) builds its line in a LogStream of its own,
asks TimeZone for the time's text, and calls the function `g_output` with the
line; a client points `g_output` and `g_flush` at a LogFile's `append` and
`flush`; LogFile serialises its callers with a MutexLock, writes through an
AppendFile and exchanges that for a new one. ProcessInfo reads files of /proc with
ReadSmallFile and walks its directories with scandir. CountDownLatch is a monitor
built of a MutexLock and a Condition.

What makes each part correct, and what makes it hard:

* **Latch.** Nobody is released before the count is 0, nobody sleeps for ever
  after it, and whoever returns from `wait()` finds no `countDown()` inside. Hard:
  spurious wakeups, the race for the mutex after a broadcast, `countDown()`
  notifying only at exactly 0.
* **Timed wait.** A timeout is never reported early and always comes. Hard: the
  arithmetic of a `timespec`, and deadline, notification, spurious wakeup and the
  mutex racing.
* **Log file.** No byte doubled or out of order, and none lost but by a failed
  write or a crash; a flush that does not fail makes what came before it durable;
  overdue work is noticed. Hard: the old file is closed after the new one is
  opened, nothing looks at what `fflush` and `fclose` return, the process may die
  anywhere, the clock moves (also backwards) between two reads of it, most appends
  do not look at the clock.
* **A log statement on a log file.** A FATAL statement aborts with its line on
  disk, unless a failed write has dropped it, and every statement ends. Hard:
  `append` and `flush` take the mutex one after the other; in between other threads
  append, roll, fail to write or to open a file, or abort.
* **Reading small files.** What is read was in the file, at its place, and an
  answer of 0 means that nothing was missed. Hard: the file changes between two
  reads, reads fall short or fail, `maxSize` is an int, and the object can be used
  again.
* **ProcessInfo.** Each walk answers its own caller. Hard: a filter of scandir is
  a bare function, so its findings go through variables, while other threads scan,
  start, end, open and close.
* **Log stream.** Nothing is written behind the buffer. Hard: numbers are
  formatted in place with no bound, and `add()` throws, possibly from a
  destructor.
* **Logger.** A line shows its own time in a zone that was in force; FATAL saves
  its line and does not return. Hard: four globals with no lock, read more than
  once per statement, a cache per thread, and assertions that are live (no build
  file sets `NDEBUG`, and src/CMakeLists.txt has its Release build commented out),
  one of which always fails in UTC.
* **Date and time zones.** The two conversions are inverse to each other, at every
  boundary; a broken zone file leaves nothing half-loaded; a Timestamp's text and
  differences give it back. Hard: repeated and skipped local times, times before
  1970, a file that ends anywhere, the rounding of doubles.
* **StringPiece.** Cuts stay inside the memory; six comparisons of one memcmp each
  are one order. Hard: prefixes, empty pieces, NULs inside.
* **Atomic integer.** Every operation takes effect at one moment, and answers for
  that moment. Hard: `addAndGet` adds twice, once atomically and once not; the
  ends of the type.

`PROJECT.json` lists the hazards one by one, each at its line. The repository's
tests exercise Date, TimeZone, LogStream, Timestamp, FileUtil, ProcessInfo and
Logger's use from one thread; no test uses MutexLock, Condition, CountDownLatch or
LogFile.

## 2. The modules

| Module | Models | Composes |
|---|---|---|
| `MutexLock` | Mutex.hpp and `CurrentThread::tid()` | |
| `Condition` | Condition.hpp: the wait set, `wait` in its two halves, spurious wakeups | EXTENDS MutexLock |
| `Latch` | what a latch promises, in three actions | |
| `CountDownLatch` | wait, countDown, getCount statement by statement | EXTENDS Condition; implements `Latch` |
| `CountDownLatchProofs` | its theorems | |
| `CArith` | C++ integer division and remainder (towards zero) | |
| `TimedWait`, `TimedWaitProofs` | `waitForSeconds` against a clock; its theorems | EXTENDS Condition, CArith |
| `Journal` | what a log file promises: accept, persist, drop what could not be written, crash | |
| `LogFile` | append, flush, rollFile, with stdio's buffer and the disk | EXTENDS MutexLock; implements `Journal` |
| `LoggedFile` | `~Logger` in front of a LogFile: output, flush, abort, by several threads | EXTENDS LogFile |
| `LogFileProofs` | theorems about both | |
| `AppendFile` | the write loop, the stream's errors, the byte count | |
| `ReadSmallFile` | `readToString` and `readToBuff` on a file that changes | |
| `ProcessInfo` | `threads` and `openedFiles`: scandir with its filters, by several threads | |
| `FileUtilProofs` | theorems about these three | |
| `LogStream` | the buffer at the level of lengths | |
| `Convert` | the digit loops of `convert` and `convertHex`, on a stream | EXTENDS LogStream, CArith; implements `LogStream` |
| `StringPiece` | pieces of one memory, cut and compared; `procname` | |
| `TextProofs` | theorems about these three | |
| `Logger`, `LoggerProofs` | the life of a log statement, the cache, the setters; its theorems | |
| `Calendar` | the formulas of Date, `BreakTime`, `fromUtcTime` | EXTENDS CArith |
| `Timestamp` | the conversions, texts, differences and sums of time stamps | EXTENDS Calendar |
| `TimeZone` | the file reader and the local-time searches | |
| `TimeProofs` | theorems about these three | |
| `Counter` | what an atomic integer promises | |
| `Atomic`, `AtomicProofs` | the operations of the integer at the level of its builtins; its theorems | implements `Counter` |
| `MC*` | constants for TLC; `MCFileUtil`, `MCLogStream` and `MCTime` put modules that share no state into one run | |

### How state and actions correspond to the code

**MutexLock, Condition, CountDownLatch.** A thread has a `pc` naming its next
statement. `lock` is enabled when the mutex is free, `wait` releases the mutex and
joins the wait set in one step (as `pthread_cond_wait` does), and `waitReturn`
needs the thread to be out of the wait set and the mutex to be free. `m_holder`
changes exactly where the code writes it: only `UnassignGuard` around a wait does,
and it writes `CurrentThread::tid()`, which is 9 in every thread because
`t_cachedTid` is defined with that value and `cacheTid()` is never run. The
kernel's thread ids therefore do not matter to any result; `KernelTid` is kept as
a constant so that the model says so.

**TimedWait.** Time is in units of 1/K second, so `tv_nsec` ranges over `0 ..
K-1`, and a `timespec` out of that range is refused by the library (EINVAL).
`Deadline` is the code's computation, with both `+=`.

**LogFile.** The bytes that streams take are numbered, so a file, and each of the
two stdio buffers, is a sequence of numbers; a line is a range of them. `buffer`
is the buffer of the current AppendFile and `retired` that of the one which
`m_file.reset` is about to destroy; a crash loses both. A line that finds no room
in the buffer makes stdio write it out up to any byte (`Spills`), so that a crash
may leave half a line in a file. Every write to a file may fail after any byte
(`Fails`): the one of a full buffer, which AppendFile::append notices
(`AppendError`: the bytes are not counted and a message is put into the stream),
and those of `fflush` and of `fclose`, whose results AppendFile::flush and
~AppendFile ignore (`FlushStream`, `RollClose`), so that `m_lastFlush` moves and
`flush()` returns all the same. What a failed write had still to write is gone, and
with it lines that earlier appends had put into the buffer: glibc and musl empty
the buffer of a stream whose write has failed; a library that kept it would lose
less. One AppendFile::append is one step here; the module `AppendFile` is what that
rests on.

The clock may advance, or be set back, between any two statements; each read of
the clock in the code is a read of `now` of its own. `accepted` is a history of how
many bytes the streams have taken, `lost` of those that failed writes have dropped;
`late` counts the appends in a row that found work overdue.
`RollFails` is an `fopen` that fails during a roll, the first one included:
rollFile has advanced its three times, the assertion of AppendFile's constructor,
or its `setbuffer` on a null stream, takes the process down, and the buffer of the
file before is lost.

**LoggedFile.** `stage` is where a thread is in `~Logger`: in `g_output`, which is
`append` ("output"), between the two calls ("written"), in `g_flush`, which is
`flush` ("flush"), or before `abort()` ("abort"). A program's own call of
`flush()` is in "flush" with `fatal` false. Everything inside append and flush is
LogFile's own, statement by statement; `abort()` is its `Crash`. A statement that
reaches `~Logger` has passed the assertions of its constructor, so a valid time
zone was set (see `logger_utc` in section 3).

**AppendFile.** `fwrite` takes any number of bytes it is given, possibly with an
error. A write that takes nothing and reports no error is left out: stdio does not
do that, and the loop would not end.

**ReadSmallFile.** A byte is the number of changes that had been made to the file
when it was written, so that bytes of different times can be told apart. The file
may grow at its end or be cut between any two system calls. A read returns as many
bytes as it was asked for, or fewer, but none only at the end; `fstat`, `read` and
`pread` may fail; a directory can be opened and not read; a file of /proc is
regular and its `st_size` is 0, whatever can be read from it; a file that is
neither regular nor a directory has no size. `reserve` of a negative size throws,
and the destructor may follow. The model keeps the descriptor's offset and the array from
one call of an object to the next.

**ProcessInfo.** `t_numOpenFiles` and `t_pids` are indexed by the thread whose
copy is used (`TlsOf`). What readdir returns is external: an entry that is there
all the time once, another one once or not at all. `std::sort` is what it
promises, some order of the same numbers in which none is less than the one
before. `always` and `ever` are histories of what a walk could see. Descriptors
are the lowest free ones, up to a limit; scandir uses one itself.

**LogStream, Convert.** LogStream keeps `m_cur` and how far the array was ever
written, including the NUL that `convert` writes; a length is a member of a set
and an int becomes a `size_t` modulo `SizeMax`. Convert refines the one step in
which LogStream takes a number: it produces the digits one by one with C++'s
remainder, for every value of a small integer type, and then calls `add`. Its
assumption is what the static assertions of LogStream.cpp:134-140 say: no value of
the type has more than `MaxDigits` characters.

**StringPiece.** The memory is fixed and ends in a NUL; a null pointer is -1. Two
pieces are constructed, cut, cleared or taken from each other by `procname`, in
any order. A caller cuts off no more than there is, which the code does not check.

**Logger.** A step ends where a global, the clock or a sink is used, so that
setters and clock may come in between. A line is its second, its zone and its
length; `held` records which zones were in force in which second. A word-sized
global is read old or new. The zone is a `shared_ptr` in the code; the client is
taken to keep a copy of every zone it sets, so that no table is freed under a
reader. An assertion that fails is the end of the process: `FormatNull` that of
`toLocalTime`, `HeaderShort` that of the length of the microseconds, which fails
whenever `g_logTimeZone` is not valid when `formatTime` reads it for the last time.
`Header` is the other case; its condition compares the length of the text
(`UsLength`) with the asserted one (`Asserted`). So every line that is put out was
completed under a valid zone, though its text of the second may be an older one of
the cache, in UTC included. `failed` is a history of the sinks on which a write has
failed, which `defaultOutput` and `defaultFlush` do not look at.

**Calendar.** One step per day of the Gregorian calendar, which the module counts
by itself; the closed formulas are compared with it.

**TimeZone.** A file is what its reads return: the actions of `Load` follow
`readTimeZoneFile` and `readDataBlock`, `ReadFails` is a file that ends or is
refused at that point, `Throw` an allocation that fails. A version 2 block and an
older one are read alike and are not told apart. `MCTime`'s times are in hours.
Transitions are sorted and at least `Gap` apart, and an offset never changes by
more than that, as in a real file (`NearnessAssumption`), because
`std::upper_bound` over `localtime` needs sorted local times; everything else
about a file is arbitrary.

**Timestamp.** A second has few microseconds and a double a mantissa of few bits;
`Round` is the nearest double, ties to even, and the casts cut off. The mantissa
has a bit to spare, as 53 bits have for any difference of less than a century. The
numbers that the texts show are modelled, their padding is not.

**Atomic.** Each `__sync` builtin is one step. `addAndGet` is two: the builtin,
and then the addition of its operand to what it returned, in signed arithmetic,
where an overflow is `Undefined`, any value. Every other operation of the class is
one of these with a fixed operand. `Counter` is told the operand of a sum along
with the sum, so that an answer with the right value of another moment is not
taken for the right one.

## 3. The runs

All pass runs check without error; each property has at least one mutant of the
code that breaks it under the same configuration.

| Run | Shows | Instance and why it is enough |
|---|---|---|
| `latch` | no early release, no lost wakeup, a returned `wait()` is last out, readers see the count fall, every `wait()` returns; implements `Latch`, liveness included | count 3 with three countDowns, two waits, a polling reader; two waiters make the broadcast matter. More countDowns than the count are covered by the proofs |
| `timed_wait` | no early timeout, a deadline late by less than a second, every call returns | K = 4; durations negative, zero, a fraction, more than a second; a notifier |
| `log_file` | order and durability, but for what failed writes drop; a FATAL line is on disk before `abort()`; every statement ends; implements `Journal` | two threads that do two things each, of a log statement, a FATAL one and a flush; lines of two bytes and a buffer of three, so that a line is cut at any of its bytes and a failed write drops bytes of another line; a roll after the second line or for a new period; one failed write, of a full buffer, a flush or a close; a failing `fopen`, a crash |
| `log_file_stale` | overdue flushes and rolls are noticed within `m_checkEveryN` appends | seven lines, in a buffer that holds them all, of the single thread of a log file without a mutex, over three periods, with a clock that is set back once |
| `file_util` | lines intact, the count never ahead of the stream; reads are honest and complete, `buffer()` is a C string; each walk of /proc answers its own caller | three lines of up to three bytes, so a line can be cut twice; a file of up to four bytes, three changes, an array of two bytes, two calls on one object, a `maxSize` of 0, below the array's size, between it and the file's, and -1, which is no limit; files of /proc with a size of 0, directories and pipes; two threads with two walks each, a third that comes or goes, and a limit of three descriptors, which the two walks can use up |
| `log_stream` | nothing behind the buffer, nothing throws; every number reads back from its text, which is the usual one; implements `LogStream`; StringPieces stay in their memory and compare as their texts | 16 bytes, with the longest number exactly as long as is reserved; lengths on both sides of every limit, and -1; all values of an 8-bit signed and a 9-bit unsigned integer; all texts of four characters out of NUL and the two parentheses, with any two pieces of one |
| `logger` | a line shows its own second, in a zone in force; only full lines lose their newline; FATAL flushes its line and comes to `abort()`, unless a write fails | two threads with two statements, two seconds, two valid zones and the invalid one, one change of anything, two sinks; texts that leave room for all, some or none of the tail |
| `time` | a zone file is taken whole or not at all and local times convert back; Date numbers the days without a gap and inverts; seconds and DateTime are inverse to each other; a Timestamp's text reads back and `addTime` undoes `timeDifference` to a microsecond; every operation of an atomic integer takes effect and answers at one moment; implements `Counter` | every file of up to three transitions among three types, three being the first number with a middle one; all of 1600 to 2000, one whole cycle of the calendar; seconds on the two years before and after 1970, where the sign changes; 65 time stamps, every pair of them; two threads that add 1 and -1, or set any value, on a two-bit integer, so that every overflow happens |

In `file_util`, `log_stream` and `time` the modules share no state: the run's
next-state relation is the sum of theirs, and each moves while the others are as
they began, so that TLC sees every state of each and no product of them.

Deadlock is checked except where the system stops by itself: the bounded calls of
LogFile and Logger end, or their process dies (`log_file`, `log_file_stale`,
`log_file_names`, `logger`, `logger_zone_race`, `logger_utc`), and in `time` the
walk through the calendar ends. `logger` uses the symmetry of threads, sinks and
zones, under invariants only.

Four runs show a disagreement between the code and what it says of itself
("violation" runs, "findings" in `PROJECT.json`):

* `latch_destructor`: `~MutexLock` asserts `m_holder == 0`, which fails after any
  wait.
* `log_file_names`: `strptime` where `strftime` was meant; file names do not carry
  the time.
* `logger_zone_race`: a `setTimeZone` between `vaild()` and `toLocalTime` fails an
  assertion.
* `logger_utc`: `formatTime` asserts a length of 9 of a text of 8 characters
  (Logging.cpp:157-158) when the zone is not valid, and the zone is not valid until
  `setTimeZone` is called: in the default configuration the first log statement
  aborts the process, with nothing put out. Without assertions a NUL would follow
  the `Z` in the line.

Met while modelling, and worth a look, but without a run of their own:

* `assertLocked()` (Mutex.hpp:124) fails for the thread that holds the mutex, as
  `lock` does not set `m_holder`, and after a wait passes in every thread, as
  `t_cachedTid` is 9 in all of them.
* Condition.cpp:17 adds the current nanoseconds twice, with `+=`: the deadline is
  late by the fraction of a second the clock shows (`DeadlineLateByFraction`), or
  is no timespec, and then `waitForSeconds` returns at once without a timeout
  (`TimedWaitRefused`).
* Nothing looks at what `fflush` returns in AppendFile::flush (FileUtil.cpp:100) and
  in `defaultFlush`, or `fclose` in ~AppendFile (FileUtil.cpp:71): a log file's
  `flush()` and a roll are silent about lines they could not write. The properties
  of the runs `log_file` and `logger` except exactly those lines.
* At the first and the last transition of a table a repeated hour is always its
  second instant (`FromLocalInverts` says so), where TimeZone_untiltest.cpp:161
  expects the first of the last transition it has in mind.
* A zone file that announces no types yields a valid zone on which conversions
  assert (TimeZone.cpp:245 and 346).
* TimeZone.cpp:262 skips `leapcnt + (time_size * 4)` bytes where RFC 8536, which
  it cites, has `leapcnt * (time_size + 4)`; tzstring begins 32 bytes late.
* The isLeapYear of Date_unittest.cpp:19-22 takes 1900 for a leap year, so its
  first assertion, at line 70, fails in its first year.
* A second `readToString` on one object goes on where the first one stopped, as
  the descriptor keeps its offset, and overwrites the array that `buffer()` shows;
  a negative `maxSize` makes `reserve` throw (FileUtil.hpp:70) or, without a
  `fileSize`, is no limit at all.
* `threads()` and `openedFiles()` answer empty and 0 when no descriptor is free
  (ProcessInfo.cpp:45).
* ProcessInfo.cpp:130 has its test of gethostname the wrong way round;
  `threadStat()` (line 175) reads the file of thread 9; `procname` ends at the
  first `)` of a name that has one.
* `stackTrace` passes `max_frames` where `nptrs` was meant and appends a frame
  more than once (CurrentThread.cpp:46 and 81).
* `addTime(low, timeDifference(hig, low))` may miss `hig` by one microsecond,
  towards `low` (`AddTimeInverts`). Before 1970 the fraction a Timestamp prints is
  negative, and `toString` prints 1 s 5 us as `1.5`.

### Fairness

Safety is checked without fairness. Where liveness is, the assumption is that the
scheduler runs every thread that can run: weak fairness of each thread's own next
statement. Threads make a bounded number of calls, so a mutex comes free for good
and weak fairness of taking it suffices. `CountDownLatch` adds that spurious
wakeups and a reader's polling end, since a thread that takes the mutex without
end may keep another from it. `TimedWait` adds weak fairness of the clock, and
none for a notifier's first step, since nobody needs to notify. `LoggedFile` has
weak fairness of each thread that is in a statement or a flush, while the process
is alive: nobody has to log, and a crash is never required, except that a thread
that has come to `abort()` takes it.

## 4. The proofs

Every invariant and every safety property that a passing run checks is also a
theorem, for every value of the constants that the modules' assumptions allow;
what TLC shows on an instance, these show in general. The shape is the same
everywhere: an inductive invariant, which holds at the start, which every step
keeps (one case per action), and from which the property follows. What an
assumption says of the constants is evaluated by TLC in the runs.

**CountDownLatchProofs** (any count, any finite sets of calls). `IInv` has as
parts: the types; `Mutex` (who is inside holds the mutex); `Asleep` (who is in the
wait set is at the wait); `CountIsExact` (`m_count` is `Count` minus the
decrements made); released threads imply the count is 0 or less; and the
lost-wakeup and last-out invariants themselves. Mutex is needed everywhere,
because the test of `m_count` and the sleep are two statements; CountIsExact turns
the count into a cardinality, for which two lemmas about adding one counter are
cited. From it: `TypeCorrect`, `NoEarlyRelease`, `NoWakeupLost`, `WaiterLastOut`,
`CountFalls` (an action property) and `ImplementsLatchSafety` (each step is a step
of `Latch` or a stutter).

**TimedWaitProofs** (any unit of time, any durations, any callers and notifiers).
`DeadlineIs` computes the deadline from the code's divisions: what it comes to is
exactly the time asked for plus the fraction the clock showed. That it is still so
when the wait ends needs `Mutex`, since only the caller itself writes its
deadline, and that a timeout came no earlier (`TimeoutInv`) needs a clock that
does not run backwards. From it: `DeadlineError` and `NoEarlyTimeout`.

**LogFileProofs** (any number of threads, lines and files, any intervals and
sizes; crashes, stream errors and a failing `fopen` included). `IInv` has the
types, `FilesInv` (there is a file to write to where one is needed, and only who
is in rollFile has an old one to close), `TimesInv` (the last roll, the last flush
and the period agree), `Mutex` (at most one thread inside, also when there is no
mutex and one thread), and `LateInv` (between looks at the clock, `late` is at
most `m_count`). From it `TypeCorrect` and `LateIsBounded`.

The bytes themselves are one sequence: the files one after the other, the buffer
of a file being closed, the buffer of `m_file`. A second group of lemmas shows
what writing to the last file, to the last but one and opening a file do to the
files put together, and that each step does one of four things to that sequence or
nothing: what waits to be written moves into the files up to some byte (`Moves`),
or does and the rest of it is dropped (`Drops`, a write that fails), a buffer is
set aside (`Retires`), or both are gone (`Dies`). `OrderInv` (the parts are sorted,
lie one behind the other, and hold what was accepted and not lost) makes `OrderKept`
inductive; `FlushIsDurable` (with `FlushInv`: what a caller of flush() saw accepted
stays accepted) and `LogFileImplementsJournal`, step by step, rest on that.
`LoggedIsLogFile` carries all of it over to a LogFile behind `~Logger`
(`LoggedPromises`), and `FatalReachesDisk` adds `StageInv` (where a statement is in
append or flush) and `FatalInv` (the line of a FATAL statement was in the stream
before its flush was called).

**LoggerProofs** (any threads, zones, sinks, any sizes of buffer, texts and
names). `TypeInv` bounds the line; `TimeInv` says that the cache holds the text of
its second and that the statement keeps that second from the moment it looks;
`ZoneInv` that the zone in the cache was in force since then, which holds because
`held` only grows; `FlushedInv` that what a flush saved has been handed to the
sink, and that the line of a FATAL statement past its flush is saved if no write to
the sink has failed. Nothing is claimed of a statement that fails an assertion of
its constructor, which never has a line. From them: `TimeShownIsOwn`, `ZoneShownInForce`, `NewlineLostOnlyWhenFull`
and `FatalIsDurable`.

**FileUtilProofs.** AppendFile, for lines of any length and any number of writes:
`BytesInv` says which bytes are in the stream in the middle of the loop,
`CountInv` what is written and not counted yet; hence `LinesStayIntact` and
`CountStaysBehind`. ReadSmallFile, for any array, limit, file and number of calls:
`HonestInv` (the content is what lay between two offsets), `MissedInv` (what is
open and how long the file was at the least) and `TextInv` give `ReadStaysHonest`,
`ZeroMeansAll` and `BufferStaysText`. ProcessInfo, for any number of threads,
descriptors and walks: `Walks` relates a thread's own variables to what readdir
has returned to it, `Apart` keeps the descriptors of two walks apart, so that one
walk's end closes no other's directory; hence `ScanStaysOwn`.

**TextProofs.** LogStream, for any buffer and any lengths: `m_cur` stays below
`SIZE` because both paths ask for more room than they take; hence
`WritesInBounds`, with the byte that debugString writes, and `AddNeverThrows`.
Convert, for every type of integer whose texts fit: `LoopInv` says that the digits
taken off so far and the rest make up the value, and bounds their number by the
powers of the base, `SignInv` that the last digit taken is no zero; reversed, the
digits read as the value (`ReadsBackHolds`), and there are few enough of them that
the conversion is a step of LogStream (`ConvertImplements`, `ConversionInBounds`).
StringPiece, for every memory: `PieceInv` (pieces stay inside) makes memcmp's
answer that of the first place where two texts differ, or of neither having one,
and the six comparisons are one order of the texts (`PieceOrderHolds`).

**TimeProofs.** TimeZone, for every file: `LoadInv` says of each stage of the
loading how long the lists are that it works on, that each transition is made of
its time and its type, and that they are apart. Hence `AllOrNothingHolds`; and
since upper_bound then finds the only two periods in which a local time can be
shown, `FromLocalInvertsHolds` and `SkippedByFlagHolds`. The calendar, from any
first year on: lemmas about the code's formulas (the number of the day after a
month's last, after a year's last, and the way back through centuries, years and
months) make `WalkInv` inductive. `DatesInvertHolds`, `TimesInvertHolds` and
`TextReadsBackHolds` follow, under the hypothesis `StartsRight` that the walk's
first number is that of its first day; in the run's instance the first state of
`DatesInvert` is that check. Timestamp, for any mantissa with a bit to spare and
any number of microseconds in a second: the difference's rounding moves the
product by less than a half of a microsecond, the product's own rounding by a
quarter at most, so that cutting off gives the difference or one less
(`AddTimeInvertsHolds`).

**AtomicProofs** (any set of threads, any type that holds 0). `Linearizable`:
Atomic implements `Counter`, in full, as a PROPERTY of the run and as a theorem.
An `addAndGet` takes effect at its builtin, where the mapping already counts the
sum as its answer (`Answered`); its second addition is then a stutter, whatever
others do in between. `TypeInv` is needed because that sum is over what was
fetched, an integer.

Some definitions are made by recursion: FlattenSeq and FoldLeft of the community
modules, the powers in Convert and Timestamp. The proofs unfold them without an
induction rule: a set of numbers that is not empty has a least one (`LeastNumber`,
from the well-foundedness of finite subsets), and the least number for which a
fact fails, or for which there is no such function, has a predecessor for which it
holds.

Where several modules share one run, TLC checks the sum of their next-state
relations and the theorems are about each one's own specification (`ReadSpec`,
`InfoSpec`, `ConvertSpec`, `PieceSpec`, `CalendarSpec`, `StampSpec`). A step of
the sum is a step of one and leaves the others as they are, so a theorem about one
is a theorem about the sum.

Only model-checked: what must happen in the end (`EveryWaitReturns`,
`CallReturns`, `StatementsEnd`, and the fairness in `ImplementsLatch`), since
liveness needs ENABLED, which the prover does not treat. The four runs with a
violation refute a statement on an instance, which needs no proof.

## 5. Not modelled, and what is assumed

* `rollFile()` before the first `append()` is the client's duty (`m_file` is null
  until then); a `rollFile()` that races with appends is undefined and is not
  modelled.
* Torn reads of `std::function` globals and zone tables freed under a reader have
  no defined outcome; they are hazards with a note.
* The text of doubles is `snprintf`'s, base names of paths and the layout of lines
  are text; only lengths appear.
* Widths: dates and instants stay far from the ends of their types in the runs;
  `Convert` covers the ends of an integer type.
* Of ProcessInfo, the getters hand on what a system call or a file of /proc says,
  once, and keep nothing (two of them are named in section 3). Of CurrentThread,
  `stackTrace` prints and has no caller, and `cacheTid`, `isMainThread` and
  `sleepUsec` are declared and not defined.
* Of ReadSmallFile, the two times copied out of `fstat`; of Date, comparison, swap
  and text; `StringArg`, which passes a pointer on.
* `Types`, `Util`, `copyable` and `noncopyable` are casts, a memset and tag
  classes. `Thread` and `net` are empty files.

## 6. Plan

The order so far was: the monitor (mutex, condition, latch), because everything
concurrent rests on it; the log file, which is where data can be lost; the buffer;
the front end; the conversions; then the readers, the atomic integer, the small
values, and the front end on the log file. What is left of the system is named in
section 5. The safety that the runs check is proved. What could be proved beyond
it:

1. That no thread but the holder is ever inside LogFile (`Mutex` of LogFileProofs)
   as a property in its own right, and that LoggedFile, with `g_output` and
   `g_flush` in place of two calls, implements what Logger's model takes a sink to
   be.
2. Of `FileUtilProofs`, that AppendFile implements the one step in which LogFile
   appends a line, as an abstract specification of a stream of whole and torn
   lines.
3. Of `TimeZone`, which instants `fromLocalTime` gives when a file's transitions
   are closer than its offsets differ.
