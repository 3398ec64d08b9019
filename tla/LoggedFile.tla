------------------------------- MODULE LoggedFile -------------------------------
(***************************************************************************)
(* Logger with a LogFile as its sink: main() has passed setOutput a function *)
(* that calls LogFile::append and setFlush one that calls LogFile::flush.    *)
(* ~Logger (Logging.cpp) hands its line to the first and, if its level is    *)
(* FATAL, calls the second and aborts, while other threads log, flush, roll  *)
(* the file or abort themselves.                                            *)
(***************************************************************************)
EXTENDS LogFile

CONSTANT MaxCalls   \* bound: log statements and flush() calls of a thread, together

ASSUME LoggedFileAssumption == MaxCalls \in Nat /\ MaxCalls <= MaxLines /\ MaxCalls < MaxFlushes

VARIABLES
    stage,      \* of each thread: where it is in ~Logger, or in a flush() of the program's
    fatal,      \* is m_level FATAL?
    lineEnd     \* history: the last byte of a FATAL line that has been appended

stageVars  == <<stage, fatal, lineEnd>>
loggedVars == <<vars, stageVars>>

-----------------------------------------------------------------------------
Stage(t, from, to) ==
    /\ stage[t] \in from
    /\ stage' = [stage EXCEPT ![t] = to]

LoggedInit ==
    /\ Init
    /\ stage = [t \in Threads |-> "idle"]
    /\ fatal = [t \in Threads |-> FALSE]
    /\ lineEnd = [t \in Threads |-> 0]

\* ~Logger: g_output is called with the line.
LogStatement(t) ==
    /\ Stage(t, {"idle"}, "output")
    /\ appends[t] + flushes[t] < MaxCalls
    /\ \E isFatal \in BOOLEAN : fatal' = [fatal EXCEPT ![t] = isFatal]
    /\ AppendCall(t)
    /\ UNCHANGED lineEnd

\* The program itself calls flush().
ClientFlush(t) ==
    /\ Stage(t, {"idle"}, "flush")
    /\ appends[t] + flushes[t] < MaxCalls
    /\ fatal' = [fatal EXCEPT ![t] = FALSE]
    /\ FlushCall(t)
    /\ UNCHANGED lineEnd

\* g_flush()
FatalFlush(t) ==
    /\ Stage(t, {"written"}, "flush")
    /\ FlushCall(t)
    /\ UNCHANGED <<fatal, lineEnd>>

\* Inside LogFile's functions.
Inner(t) ==
    /\ AppendEnter(t) \/ AppendBody(t) \/ FlushEnter(t) \/ Flush(t)
    /\ UNCHANGED stageVars

\* Mutated: the level is compared before the line is handed over, and a FATAL
\* one is followed by abort() alone.
AfterUnflushed(t) == IF fatal[t] THEN "abort" ELSE "idle"

\* Where ~Logger is when one of the functions has returned.
After(t) ==
    IF ~fatal[t] THEN "idle" ELSE IF stage[t] = "output" THEN "written" ELSE "abort"

LogFileReturns(t) ==
    /\ Stage(t, {"output", "flush"}, After(t))
    /\ Return(t)
    /\ lineEnd' = [lineEnd EXCEPT ![t] =
                       IF fatal[t] /\ stage[t] = "output" THEN accepted ELSE @]
    /\ UNCHANGED fatal

\* The process is dead.
Gone ==
    /\ stage' = [t \in Threads |-> "idle"]
    /\ fatal' = [t \in Threads |-> FALSE]
    /\ lineEnd' = [t \in Threads |-> 0]

\* abort()
Abort(t) ==
    /\ stage[t] = "abort"
    /\ Crash
    /\ Gone

LoggerStep(t) ==
    \/ LogStatement(t) \/ ClientFlush(t) \/ FatalFlush(t)
    \/ Inner(t) \/ LogFileReturns(t) \/ Abort(t)

World ==
    \/ (Setup \/ Tick \/ SetBack) /\ UNCHANGED stageVars
    \/ (Crash \/ RollFails) /\ Gone

LoggedNext == (alive /\ \E t \in Threads : LoggerStep(t)) \/ World

\* The scheduler runs every thread; no thread has to log or to flush.
LoggedFairness ==
    \A t \in Threads : WF_loggedVars(alive /\ stage[t] # "idle" /\ LoggerStep(t))

LoggedSpec == LoggedInit /\ [][LoggedNext]_loggedVars /\ LoggedFairness

-----------------------------------------------------------------------------
(* Properties.                                                               *)

\* When a FATAL statement comes to abort(), its line and every line appended
\* before it are in the files, whatever rolls, flushes and errors of other
\* threads came between its append and its flush, each of which takes the mutex
\* anew; but for what a failed write has dropped, of its own flush or another,
\* and for what a failed append has kept out of the stream.
FatalOnDisk ==
    \A t \in Threads : stage[t] = "abort" =>
        (1 .. lineEnd[t]) \ lost \subseteq Range(OnDisk)

\* Every log statement and every flush() ends: it returns, unless the process
\* dies first, and a FATAL one sees to that itself.
StatementsEnd ==
    \A t \in Threads : stage[t] # "idle" ~> ((stage[t] = "idle" /\ ~fatal[t]) \/ ~alive)
=============================================================================
