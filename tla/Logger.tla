--------------------------------- MODULE Logger ---------------------------------
(***************************************************************************)
(* muduo::base::Logger (Logging.hpp, Logging.cpp): log statements of several *)
(* threads, each building a line in a LogStream of its own and handing it    *)
(* to g_output when the Logger is destroyed, while another thread changes    *)
(* the globals they all read.  A step ends where a global, the clock or the  *)
(* sink is used, so that the clock and the setters may come in between.      *)
(*                                                                          *)
(* A time zone is the pointer inside it.  Whoever calls setTimeZone keeps a  *)
(* copy of the zones it has set, so that no table is destroyed while a       *)
(* thread reads it; then a thread finds the old pointer or the new one.      *)
(*                                                                          *)
(* The assertions are live: no build file of the repository sets NDEBUG.     *)
(***************************************************************************)
EXTENDS Integers, Sequences

CONSTANTS
    Threads,
    Levels,             \* the levels of the log statements, of TRACE .. FATAL
    Zones, NoZone,      \* the valid time zones, and the default-constructed one
    Sinks,              \* what a pair of an OutputFunc and a FlushFunc writes to
    SIZE,               \* of the stream's buffer
    kMaxNumercSize,
    HeaderSize,         \* the length of time, microseconds and level
    TextSizes,          \* the lengths of what the statement itself adds
    TailSizes,          \* the lengths of " - ", the basename, ':' and m_line
    MaxLines,           \* bound: log statements of a thread
    MaxNow,             \* bound: the clock's last second
    MaxSets             \* bound: calls of setters

TRACE == 0
INFO  == 2
FATAL == 5

ASSUME LoggerAssumption ==
    /\ Levels \subseteq TRACE .. FATAL
    /\ NoZone \notin Zones
    /\ SIZE \in Nat /\ kMaxNumercSize \in Nat /\ HeaderSize \in 0 .. SIZE - 1
    /\ TextSizes \subseteq Nat
    /\ TailSizes \in [{"sep", "base", "colon", "line"} -> Nat]
    /\ TailSizes.line < kMaxNumercSize
    /\ MaxLines \in Nat /\ MaxNow \in Nat \ {0} /\ MaxSets \in Nat

VARIABLES
    now,                                            \* time, in seconds
    g_logLevel, g_output, g_flush, g_logTimeZone,
    sets,                                           \* setter calls so far
    t_lastSecond, t_time,                           \* the thread_local cache
    pc, lines,                                      \* of each thread
    m_level, m_time, stamp, m_cur,                  \* of its Logger
    newline, sink,                                  \* of its Logger
    out,                                            \* the lines each sink was given
    durable,                                        \* how many of them a flush has saved
    failed,                                         \* history: the sinks with a failed write
    held,                                           \* history: see ZonesSince
    alive

globals   == <<g_logLevel, g_output, g_flush, g_logTimeZone, sets, held>>
cache     == <<t_lastSecond, t_time>>
statement == <<m_level, m_time, stamp, m_cur, newline, sink>>
sinkVars  == <<out, durable, failed>>

vars == <<now, globals, cache, pc, lines, statement, sinkVars, alive>>

-----------------------------------------------------------------------------
AllZones == Zones \cup {NoZone}

vaild(zone) == zone # NoZone

\* The length of the microseconds: a point, six digits, and a blank after a
\* local time (".%06d ") or a Z after UTC (".%06dZ").
UsLength == 1 + 6 + 1

\* The length that formatTime asserts, and copies.
Asserted(zone) == IF vaild(zone) THEN 8 ELSE 9

\* A text of t_time: the second it shows and the zone it shows it in.
NoTime == <<0, NoZone>>

\* Mutated: the cache is global, not thread_local.
TlsShared(t) == CHOOSE s \in Threads : TRUE

\* The thread whose copy of a thread_local variable t uses.
Tls(t) == t

Goto(t, from, to) ==
    /\ pc[t] = from
    /\ pc' = [pc EXCEPT ![t] = to]

\* The globals have their initial values or what main() has set before it
\* started the threads; a sink's output and flush functions are set together.
Init ==
    /\ now = 1
    /\ g_logLevel \in {TRACE, INFO}
    /\ \E s \in Sinks : g_output = s /\ g_flush = s
    /\ g_logTimeZone \in AllZones
    /\ sets = 0
    /\ t_lastSecond = [t \in Threads |-> 0]
    /\ t_time = [t \in Threads |-> NoTime]
    /\ pc = [t \in Threads |-> "idle"]
    /\ lines = [t \in Threads |-> 0]
    /\ m_level = [t \in Threads |-> TRACE]
    /\ m_time = [t \in Threads |-> 0]
    /\ stamp = [t \in Threads |-> NoTime]
    /\ m_cur = [t \in Threads |-> 0]
    /\ newline = [t \in Threads |-> FALSE]
    /\ sink = [t \in Threads |-> g_output]
    /\ out = [s \in Sinks |-> <<>>]
    /\ durable = [s \in Sinks |-> 0]
    /\ failed = {}
    /\ held = [s \in 1 .. MaxNow |-> IF s = now THEN {g_logTimeZone} ELSE {}]
    /\ alive = TRUE

-----------------------------------------------------------------------------
(* A log statement.                                                          *)

\* The macros LOG_TRACE, LOG_DEBUG and LOG_INFO look at the level first; the
\* others do not.
Statement(t) ==
    /\ lines[t] < MaxLines
    /\ \E level \in Levels :
        /\ level <= INFO => g_logLevel <= level
        /\ m_level' = [m_level EXCEPT ![t] = level]
    /\ lines' = [lines EXCEPT ![t] = @ + 1]
    /\ Goto(t, "idle", "now")
    /\ UNCHANGED <<now, globals, cache, m_time, stamp, m_cur, newline, sink, sinkVars, alive>>

\* Impl's constructor: m_time(Timestamp::now()), an empty stream; and the test
\* of t_lastSecond in formatTime().
Construct(t) ==
    /\ m_time' = [m_time EXCEPT ![t] = now]
    /\ m_cur' = [m_cur EXCEPT ![t] = 0]
    /\ IF now # t_lastSecond[Tls(t)]
       THEN Goto(t, "now", "zone") /\ t_lastSecond' = [t_lastSecond EXCEPT ![Tls(t)] = now]
       ELSE Goto(t, "now", "header") /\ UNCHANGED t_lastSecond
    /\ UNCHANGED <<now, globals, t_time, lines, m_level, stamp, newline, sink, sinkVars, alive>>

\* if (g_logTimeZone.vaild()) ... else dt = TimeZone::toUtcTime(seconds)
FormatUtc(t) ==
    /\ ~vaild(g_logTimeZone)
    /\ Goto(t, "zone", "header")
    /\ t_time' = [t_time EXCEPT ![Tls(t)] = <<m_time[t], NoZone>>]
    /\ UNCHANGED <<now, globals, t_lastSecond, lines, statement, sinkVars, alive>>

FormatValid(t) ==
    /\ vaild(g_logTimeZone)
    /\ Goto(t, "zone", "local")
    /\ UNCHANGED <<now, globals, cache, lines, statement, sinkVars, alive>>

\* Mutated: a thread keeps the zone of its first text.
FormatLocalOnce(t) ==
    /\ vaild(g_logTimeZone)
    /\ Goto(t, "local", "header")
    /\ t_time' = [t_time EXCEPT ![Tls(t)] =
                      <<m_time[t], IF @ = NoTime THEN g_logTimeZone ELSE @[2]>>]
    /\ UNCHANGED <<now, globals, t_lastSecond, lines, statement, sinkVars, alive>>

\* dt = g_logTimeZone.toLocalTime(seconds), which reads the pointer again.
FormatLocal(t) ==
    /\ vaild(g_logTimeZone)
    /\ Goto(t, "local", "header")
    /\ t_time' = [t_time EXCEPT ![Tls(t)] = <<m_time[t], g_logTimeZone>>]
    /\ UNCHANGED <<now, globals, t_lastSecond, lines, statement, sinkVars, alive>>

\* Its assert(m_data != nullptr) fails: the process is aborted.
FormatNull(t) ==
    /\ ~vaild(g_logTimeZone)
    /\ Goto(t, "local", "assert")
    /\ alive' = FALSE
    /\ UNCHANGED <<now, globals, cache, lines, statement, sinkVars>>

\* The rest of formatTime() and of the constructor: g_logTimeZone is read once
\* more, and time, microseconds and level go into the stream.
Header(t) ==
    /\ Asserted(g_logTimeZone) = UsLength
    /\ Goto(t, "header", "text")
    /\ stamp' = [stamp EXCEPT ![t] = t_time[Tls(t)]]
    /\ m_cur' = [m_cur EXCEPT ![t] = HeaderSize]
    /\ UNCHANGED <<now, globals, cache, lines, m_level, m_time, newline, sink, sinkVars, alive>>

\* assert(us.length() == ...) fails: the process is aborted, with nothing put
\* out or flushed.
HeaderShort(t) ==
    /\ Asserted(g_logTimeZone) # UsLength
    /\ Goto(t, "header", "length")
    /\ alive' = FALSE
    /\ UNCHANGED <<now, globals, cache, lines, statement, sinkVars>>

\* FixedBuffer::append(buf, len), and formatInteger for m_line.
append(cur, size) == IF SIZE - cur > size THEN cur + size ELSE cur

formatInteger(cur, size) == IF SIZE - cur >= kMaxNumercSize THEN cur + size ELSE cur

\* Mutated: the newline is formatted as a number would be.
AddsNewlineLate(cur) == SIZE - cur >= kMaxNumercSize

\* Is there room for the newline?
AddsNewline(cur) == SIZE - cur > 1

\* finish(): " - ", the basename, ':', the line number, and then the newline.
tail(cur) ==
    LET named == append(append(append(cur, TailSizes.sep), TailSizes.base), TailSizes.colon)
    IN  formatInteger(named, TailSizes.line)

\* The statement's own text (the function's name and errno's included), and
\* finish() in the destructor, which then reads g_output.
Text(t) ==
    /\ Goto(t, "text", "output")
    /\ \E size \in TextSizes :
        LET cur == tail(append(m_cur[t], size))
        IN  /\ newline' = [newline EXCEPT ![t] = AddsNewline(cur)]
            /\ m_cur' = [m_cur EXCEPT ![t] = append(cur, 1)]
    /\ sink' = [sink EXCEPT ![t] = g_output]
    /\ UNCHANGED <<now, globals, cache, lines, m_level, m_time, stamp, sinkVars, alive>>

\* Mutated: abort() does not wait for g_flush().
OutputAbort(t) ==
    /\ Goto(t, "output", IF m_level[t] = FATAL THEN "abort" ELSE "idle")
    /\ out' = [out EXCEPT ![sink[t]] = Append(@, <<t, lines[t]>>)]
    /\ failed' \in {failed, failed \cup {sink[t]}}
    /\ UNCHANGED <<now, globals, cache, lines, statement, durable, alive>>

\* g_output(buff.data(), buff.length()); stdio locks its stream.  If fwrite
\* fails, defaultOutput does not say so, and some or all of what it was to
\* write and of what was in the stream is gone.
Output(t) ==
    /\ Goto(t, "output", IF m_level[t] = FATAL THEN "flush" ELSE "idle")
    /\ out' = [out EXCEPT ![sink[t]] = Append(@, <<t, lines[t]>>)]
    /\ failed' \in {failed, failed \cup {sink[t]}}
    /\ UNCHANGED <<now, globals, cache, lines, statement, durable, alive>>

\* g_flush is read ...
FlushRead(t) ==
    /\ Goto(t, "flush", "flushing")
    /\ sink' = [sink EXCEPT ![t] = g_flush]
    /\ UNCHANGED <<now, globals, cache, lines, m_level, m_time, stamp, m_cur, newline,
                   sinkVars, alive>>

\* ... and called.  defaultFlush does not look at what fflush returns.
Flush(t) ==
    /\ Goto(t, "flushing", "abort")
    /\ \/ /\ durable' = [durable EXCEPT ![sink[t]] = Len(out[sink[t]])]
          /\ UNCHANGED failed
       \/ /\ failed' = failed \cup {sink[t]}
          /\ UNCHANGED durable
    /\ UNCHANGED <<now, globals, cache, lines, statement, out, alive>>

\* abort(): what no flush has saved is lost.
Abort(t) ==
    /\ Goto(t, "abort", "aborted")
    /\ alive' = FALSE
    /\ UNCHANGED <<now, globals, cache, lines, statement, sinkVars>>

LogStep(t) ==
    \/ Statement(t) \/ Construct(t)
    \/ FormatUtc(t) \/ FormatValid(t) \/ FormatLocal(t) \/ FormatNull(t)
    \/ Header(t) \/ HeaderShort(t) \/ Text(t) \/ Output(t) \/ FlushRead(t) \/ Flush(t) \/ Abort(t)

-----------------------------------------------------------------------------
(* The setters, and the clock.                                               *)

setLogLevel ==
    /\ g_logLevel' \in {TRACE, INFO} \ {g_logLevel}
    /\ UNCHANGED <<g_output, g_flush, g_logTimeZone, held>>

setOutput ==
    /\ g_output' \in Sinks \ {g_output}
    /\ UNCHANGED <<g_logLevel, g_flush, g_logTimeZone, held>>

setFlush ==
    /\ g_flush' \in Sinks \ {g_flush}
    /\ UNCHANGED <<g_logLevel, g_output, g_logTimeZone, held>>

setTimeZone ==
    /\ g_logTimeZone' \in AllZones \ {g_logTimeZone}
    /\ held' = [held EXCEPT ![now] = @ \cup {g_logTimeZone'}]
    /\ UNCHANGED <<g_logLevel, g_output, g_flush>>

Set ==
    /\ sets < MaxSets
    /\ sets' = sets + 1
    /\ setLogLevel \/ setOutput \/ setFlush \/ setTimeZone
    /\ UNCHANGED <<now, cache, pc, lines, statement, sinkVars, alive>>

Tick ==
    /\ now < MaxNow
    /\ now' = now + 1
    /\ held' = [held EXCEPT ![now + 1] = {g_logTimeZone}]
    /\ UNCHANGED <<g_logLevel, g_output, g_flush, g_logTimeZone, sets, cache, pc, lines,
                   statement, sinkVars, alive>>

Next == alive /\ ((\E t \in Threads : LogStep(t)) \/ Set \/ Tick)

Spec == Init /\ [][Next]_vars

-----------------------------------------------------------------------------
(* Properties.                                                               *)

HasHeader(t) == pc[t] \in {"text", "output", "flush", "flushing", "abort", "aborted"}

HasTail(t) == HasHeader(t) /\ pc[t] # "text"

\* A line shows the second in which its statement was executed, although
\* t_time is formatted once a second only and other threads format theirs in
\* the meantime.
TimeIsOwn == \A t \in Threads : HasHeader(t) => stamp[t][1] = m_time[t]

\* The zones that g_logTimeZone has held in or after a second.
ZonesSince(second) == UNION {held[s] : s \in second .. now}

\* A line shows its time in a zone that was in force between the second of its
\* statement and its completion, however often the text in t_time is used and
\* setTimeZone called.  (Not always in the zone that is in force when it is
\* completed: setTimeZone does not empty the cache.  So a line can even show
\* UTC, with the blank of a local time, if a zone was set before its assertion.)
ZoneInForce ==
    \A t \in Threads : HasHeader(t) => stamp[t][2] \in ZonesSince(m_time[t])

\* finish() drops the pieces that do not fit one by one, but only a line that
\* fills the buffer to the last usable byte loses its newline.
UnterminatedIsFull ==
    \A t \in Threads : HasTail(t) => newline[t] \/ m_cur[t] = SIZE - 1

\* When a FATAL statement gets as far as abort(), its line, and every line that
\* reached the same sink before it, has been flushed, unless a write to that
\* sink has failed.  (If main() gives g_output and g_flush different sinks in
\* the meantime, it may not have been.  An assertion that fails in formatTime
\* aborts the statement before it has a line.)
FatalDurable ==
    \A t \in Threads : pc[t] = "aborted" /\ sink[t] \notin failed =>
        \A i \in 1 .. Len(out[sink[t]]) :
            out[sink[t]][i] = <<t, lines[t]>> => i <= durable[sink[t]]

\* The text of the microseconds is as long as formatTime asserts it to be, in
\* UTC and in a local time.
LengthAsserted == \A t \in Threads : pc[t] # "length"

\* TimeZone::toLocalTime asserts m_data != nullptr.  formatTime has tested
\* just that before it calls it.
ZoneNotNull == \A t \in Threads : pc[t] # "assert"
=============================================================================
