------------------------------ MODULE ProcessInfo ------------------------------
(***************************************************************************)
(* threads() and openedFiles() of muduo::base::ProcessInfo                   *)
(* (ProcessInfo.cpp): scandir walks through /proc/self/task or               *)
(* /proc/self/fd and calls a filter for each entry, which leaves what it     *)
(* found in a thread_local, while other threads do the same, start and end,  *)
(* and open and close files.                                                *)
(*                                                                          *)
(* A directory of /proc is external: a walk returns an entry that is there   *)
(* all the time once, and one that comes or goes once or not at all.         *)
(***************************************************************************)
EXTENDS Integers, FiniteSetsExt, SequencesExt

CONSTANTS
    Callers,        \* the ids of the threads that call
    Others,         \* the ids of those that may start and end
    MaxFiles,       \* RLIMIT_NOFILE
    MaxScans,       \* bound: calls of a thread
    MaxEvents       \* bound: threads starting or ending, files opened or closed

ASSUME ProcessInfoAssumption ==
    /\ Callers \subseteq Nat \ {0} /\ Others \subseteq Nat \ {0} /\ Callers \cap Others = {}
    /\ MaxFiles \in Nat \ {0} /\ MaxScans \in Nat /\ MaxEvents \in Nat

VARIABLES
    live, open, events,         \* the threads, the descriptors, what has happened to them
    scanPc, dir, scans,         \* "idle" or "scan"; "task" or "fd"; calls so far
    dirfd,                      \* the descriptor of scandir
    returned,                   \* the entries it has returned
    t_numOpenFiles, t_pids,
    result,                     \* of threads()
    always, ever                \* history: the entries there all the time of the
                                \* call, and at any time of it

processVars == <<live, open, events>>
scanVars    == <<scanPc, dir, scans, dirfd, returned, t_numOpenFiles, t_pids, result>>
infoVars    == <<processVars, scanVars, always, ever>>

-----------------------------------------------------------------------------
\* "." and "..", which the filters refuse.
Dots == -1
NoFd == -2
Null == 0       \* t_pids points to nobody's result

isdigit(entry) == entry >= 0

\* Mutated: the variables of the filters are global, not thread_local.
TlsOfAll(t) == Min(Callers)

\* The thread whose copy of t_numOpenFiles and t_pids thread t uses.
TlsOf(t) == t

FreeFds == 0 .. MaxFiles - 1 \ open

Entries(which, threads, files) == IF which = "task" THEN threads ELSE files

InfoInit ==
    /\ live = Callers /\ open = {0} /\ events = 0
    /\ scanPc = [t \in Callers |-> "idle"]
    /\ dir = [t \in Callers |-> "task"]
    /\ scans = [t \in Callers |-> 0]
    /\ dirfd = [t \in Callers |-> NoFd]
    /\ returned = [t \in Callers |-> {}]
    /\ t_numOpenFiles = [t \in Callers |-> 0]
    /\ t_pids = [t \in Callers |-> Null]
    /\ result = [t \in Callers |-> <<>>]
    /\ always = [t \in Callers |-> {}] /\ ever = [t \in Callers |-> {}]

\* What is there after a step joins what was there during each walk, or is
\* the first thing a walk that has just begun can see.
Watch ==
    LET Walking(t) == scanPc'[t] = "scan"
        Begins(t)  == scanPc[t] # "scan"
        Now(t)     == Entries(dir'[t], live', open')
    IN  /\ always' = [t \in Callers |-> IF ~Walking(t) THEN always[t]
                          ELSE IF Begins(t) THEN Now(t) ELSE always[t] \cap Now(t)]
        /\ ever' = [t \in Callers |-> IF ~Walking(t) THEN ever[t]
                        ELSE IF Begins(t) THEN Now(t) ELSE ever[t] \cup Now(t)]

\* threads() or openedFiles() is called: the thread_local is set, and scandir
\* opens the directory, unless the process has no descriptor left; then the
\* walk is over at once and the answer is that there is nothing.
ScanCall(t) ==
    /\ scanPc[t] = "idle" /\ scans[t] < MaxScans
    /\ scans' = [scans EXCEPT ![t] = @ + 1]
    /\ returned' = [returned EXCEPT ![t] = {}]
    /\ \E which \in {"task", "fd"} :
        /\ dir' = [dir EXCEPT ![t] = which]
        /\ IF which = "fd"
           THEN /\ t_numOpenFiles' = [t_numOpenFiles EXCEPT ![TlsOf(t)] = 0]
                /\ UNCHANGED <<t_pids, result>>
           ELSE /\ result' = [result EXCEPT ![t] = <<>>]
                /\ t_pids' = [t_pids EXCEPT ![TlsOf(t)] = IF FreeFds = {} THEN Null ELSE t]
                /\ UNCHANGED t_numOpenFiles
    /\ IF FreeFds = {}
       THEN dirfd' = [dirfd EXCEPT ![t] = NoFd] /\ UNCHANGED <<open, scanPc>>
       ELSE /\ dirfd' = [dirfd EXCEPT ![t] = Min(FreeFds)]
            /\ open' = open \cup {Min(FreeFds)}
            /\ scanPc' = [scanPc EXCEPT ![t] = "scan"]
    /\ UNCHANGED <<live, events>> /\ Watch

\* fdDirFilter and taskDirFilter
Filter(t, entry) ==
    LET own == TlsOf(t)
    IN  IF ~isdigit(entry) \/ (dir[t] = "task" /\ t_pids[own] = Null)
        THEN UNCHANGED <<t_numOpenFiles, result>>
        ELSE IF dir[t] = "fd"
        THEN t_numOpenFiles' = [t_numOpenFiles EXCEPT ![own] = @ + 1] /\ UNCHANGED result
        ELSE result' = [result EXCEPT ![t_pids[own]] = Append(@, entry)] /\ UNCHANGED t_numOpenFiles

\* readdir returns an entry.
ReadDir(t) ==
    /\ scanPc[t] = "scan"
    /\ \E entry \in (Entries(dir[t], live, open) \cup {Dots}) \ returned[t] :
        /\ returned' = [returned EXCEPT ![t] = @ \cup {entry}]
        /\ Filter(t, entry)
    /\ UNCHANGED <<processVars, scanPc, dir, scans, dirfd, t_pids, always, ever>>

\* std::sort, by what it promises: the elements in an ascending order.
Answer(t) ==
    \E order \in Bijection(DOMAIN result[t], DOMAIN result[t]) :
        LET sorted == [k \in DOMAIN result[t] |-> result[t][order[k]]]
        IN  /\ \A a, b \in DOMAIN sorted : a < b => sorted[a] <= sorted[b]
            /\ result' = [result EXCEPT ![t] = sorted]

\* readdir finds no more; the directory is closed and the call returns.
ScanEnd(t) ==
    /\ scanPc[t] = "scan" /\ always[t] \subseteq returned[t]
    /\ scanPc' = [scanPc EXCEPT ![t] = "idle"]
    /\ open' = open \ {dirfd[t]}
    /\ IF dir[t] = "task"
       THEN Answer(t) /\ t_pids' = [t_pids EXCEPT ![TlsOf(t)] = Null]
       ELSE UNCHANGED <<result, t_pids>>
    /\ UNCHANGED <<live, events, dir, scans, dirfd, returned, t_numOpenFiles>> /\ Watch

\* Other threads start and end, and open and close files.
Event ==
    /\ events < MaxEvents
    /\ events' = events + 1
    /\ \/ /\ \E t \in Others : live' = (live \ {t}) \cup ({t} \ live)
          /\ UNCHANGED open
       \/ /\ FreeFds # {}
          /\ open' = open \cup {Min(FreeFds)}
          /\ UNCHANGED live
       \/ /\ \E fd \in open \ {dirfd[t] : t \in {s \in Callers : scanPc[s] = "scan"}} : open' = open \ {fd}
          /\ UNCHANGED live
    /\ UNCHANGED scanVars /\ Watch

\* Every thread has made its calls.
InfoTerminating ==
    /\ \A t \in Callers : scanPc[t] = "idle" /\ scans[t] = MaxScans
    /\ UNCHANGED infoVars

InfoNext ==
    \/ \E t \in Callers : ScanCall(t) \/ ReadDir(t) \/ ScanEnd(t)
    \/ Event \/ InfoTerminating

InfoSpec == InfoInit /\ [][InfoNext]_infoVars

-----------------------------------------------------------------------------
(* Properties.                                                               *)

Answered(t) == scanPc[t] = "idle" /\ scans[t] > 0

\* threads() names, in ascending order and once each, every thread that lived
\* all through the call, its caller among them, and no thread that did not
\* live then; openedFiles() is a number that lies between the files that were
\* open all the time (scandir's own descriptor is one) and those that were open at
\* any time.  Other calls at the same time, in other threads, do not mix their
\* entries in.  Only without a free descriptor is the answer nothing at all.
ScanIsOwn ==
    \A t \in Callers : Answered(t) =>
        IF dirfd[t] = NoFd
        THEN IF dir[t] = "fd" THEN t_numOpenFiles[TlsOf(t)] = 0 ELSE result[t] = <<>>
        ELSE IF dir[t] = "fd"
        THEN /\ t_numOpenFiles[TlsOf(t)] \in Cardinality(always[t]) .. Cardinality(ever[t])
             /\ dirfd[t] \in always[t]
        ELSE /\ \A i, j \in DOMAIN result[t] : i < j => result[t][i] < result[t][j]
             /\ always[t] \subseteq ToSet(result[t]) /\ ToSet(result[t]) \subseteq ever[t]
             /\ t \in always[t]
=============================================================================
