------------------------------ MODULE LoggerProofs ------------------------------
(***************************************************************************)
(* Logger for any number of threads, zones and sinks and every length of the *)
(* buffer, the texts and the names: whose time and zone a line shows, which  *)
(* lines lose their newline, and that a FATAL statement comes to abort() with *)
(* its line flushed, unless a write has failed.                             *)
(***************************************************************************)
EXTENDS Logger, TLAPS

PCs == {"idle", "now", "zone", "local", "assert", "header", "length", "text", "output",
        "flush", "flushing", "abort", "aborted"}

GlobalsType ==
    /\ now \in 1 .. MaxNow
    /\ g_output \in Sinks /\ g_flush \in Sinks
    /\ g_logTimeZone \in AllZones
    /\ held \in [1 .. MaxNow -> SUBSET AllZones]

CacheType ==
    /\ t_lastSecond \in [Threads -> 0 .. MaxNow]
    /\ t_time \in [Threads -> Nat \X AllZones]

StatementType ==
    /\ pc \in [Threads -> PCs]
    /\ lines \in [Threads -> Nat]
    /\ m_time \in [Threads -> Nat]
    /\ stamp \in [Threads -> Nat \X AllZones]
    /\ m_cur \in [Threads -> 0 .. SIZE - 1]
    /\ newline \in [Threads -> BOOLEAN]
    /\ sink \in [Threads -> Sinks]

SinksType ==
    /\ out \in [Sinks -> Seq(Threads \X Nat)]
    /\ durable \in [Sinks -> Nat]

TypeInv == GlobalsType /\ CacheType /\ StatementType /\ SinksType

\* A thread that formats the time has noted the second but not yet its text.
Formats(t) == pc[t] \in {"zone", "local", "assert"}

\* The cache holds the text of its second, which is that of the statement from
\* the moment it is looked at; the line keeps it.
TimeInv ==
    \A t \in Threads :
        /\ t_lastSecond[t] <= now
        /\ ~Formats(t) => t_time[t][1] = t_lastSecond[t]
        /\ pc[t] \in {"zone", "local", "header"} => m_time[t] = t_lastSecond[t]
        /\ pc[t] \in {"zone", "local", "header"} \/ HasHeader(t) => m_time[t] \in 1 .. now
        /\ HasHeader(t) => stamp[t][1] = m_time[t]

\* The zone in the cache is one of those since the cache's second.
ZoneInv ==
    /\ g_logTimeZone \in held[now]
    /\ \A t \in Threads :
        /\ ~Formats(t) /\ t_lastSecond[t] >= 1 => t_time[t][2] \in ZonesSince(t_lastSecond[t])
        /\ HasHeader(t) => stamp[t][2] \in ZonesSince(m_time[t])

\* What a flush has saved has been handed to the sink, and the line of a FATAL
\* statement past its flush is saved, if no write to the sink has failed.
FlushedInv ==
    /\ \A s \in Sinks : durable[s] <= Len(out[s])
    /\ \A t \in Threads : pc[t] \in {"abort", "aborted"} /\ sink[t] \notin failed =>
           \A i \in 1 .. Len(out[sink[t]]) :
               out[sink[t]][i] = <<t, lines[t]>> => i <= durable[sink[t]]

-----------------------------------------------------------------------------
\* What the assumption says of the sizes.
LEMMA Sizes == SIZE \in Nat \ {0} /\ HeaderSize \in 0 .. SIZE - 1 /\ MaxNow \in Nat \ {0}
  BY LoggerAssumption

\* A piece that fits leaves a byte free.
LEMMA AppendInside ==
    ASSUME NEW cur \in 0 .. SIZE - 1, NEW size \in Nat
    PROVE  append(cur, size) \in 0 .. SIZE - 1
  BY LoggerAssumption DEF append

\* So does the line number.
LEMMA NumberInside ==
    ASSUME NEW cur \in 0 .. SIZE - 1
    PROVE  formatInteger(cur, TailSizes.line) \in 0 .. SIZE - 1
  BY LoggerAssumption DEF formatInteger

\* And the whole tail.
LEMMA TailInside ==
    ASSUME NEW cur \in 0 .. SIZE - 1
    PROVE  tail(cur) \in 0 .. SIZE - 1
<1>1. TailSizes.sep \in Nat /\ TailSizes.base \in Nat /\ TailSizes.colon \in Nat
  BY LoggerAssumption
<1> DEFINE a == append(cur, TailSizes.sep)
           b == append(a, TailSizes.base)
           c == append(b, TailSizes.colon)
<1>2. a \in 0 .. SIZE - 1
  BY <1>1, AppendInside
<1>3. b \in 0 .. SIZE - 1
  <2> HIDE DEF a
  <2> QED
    BY <1>1, <1>2, AppendInside
<1>4. c \in 0 .. SIZE - 1
  <2> HIDE DEF b
  <2> QED
    BY <1>1, <1>3, AppendInside
<1>5. tail(cur) = formatInteger(c, TailSizes.line)
  BY DEF tail
<1> HIDE DEF c
<1>6. QED
  BY <1>4, <1>5, NumberInside

-----------------------------------------------------------------------------
\* The type of the state when the threads start ...
LEMMA InitTypeInv == Init => TypeInv
  BY LoggerAssumption
     DEF Init, TypeInv, GlobalsType, CacheType, StatementType, SinksType, PCs, NoTime, AllZones

\* ... and after each step.
LEMMA NextTypeInv == TypeInv /\ [Next]_vars => TypeInv'
<1> SUFFICES ASSUME TypeInv, [Next]_vars PROVE TypeInv'
  OBVIOUS
<1> USE DEF TypeInv, Goto, Tls, globals, cache, statement, sinkVars
<1>1. ASSUME NEW t \in Threads, Statement(t) PROVE TypeInv'
  <2>1. /\ pc' = [pc EXCEPT ![t] = "now"] /\ lines' = [lines EXCEPT ![t] = lines[t] + 1]
        /\ UNCHANGED <<m_time, stamp, m_cur, newline, sink>>
    BY <1>1 DEF Statement
  <2>2. lines' \in [Threads -> Nat]
    BY <2>1 DEF StatementType
  <2>3. GlobalsType' /\ CacheType' /\ SinksType'
    BY <1>1 DEF Statement, GlobalsType, CacheType, SinksType
  <2>4. StatementType'
    BY <2>1, <2>2 DEF StatementType, PCs
  <2>5. QED
    BY <2>3, <2>4
<1>2. ASSUME NEW t \in Threads, Construct(t) PROVE TypeInv'
  <2>1. GlobalsType' /\ SinksType'
    BY <1>2 DEF Construct, GlobalsType, SinksType
  <2>2. CacheType'
    <3>1. now \in 0 .. MaxNow
      BY DEF GlobalsType
    <3>2. \/ t_lastSecond' = [t_lastSecond EXCEPT ![t] = now]
          \/ t_lastSecond' = t_lastSecond
      BY <1>2 DEF Construct
    <3>3. QED
      BY <1>2, <3>1, <3>2 DEF Construct, CacheType
  <2>3. StatementType'
    <3>1. now \in Nat /\ 0 \in 0 .. SIZE - 1
      BY Sizes DEF GlobalsType
    <3>2. \/ pc' = [pc EXCEPT ![t] = "zone"]
          \/ pc' = [pc EXCEPT ![t] = "header"]
      BY <1>2 DEF Construct
    <3>3. pc' \in [Threads -> PCs]
      BY <3>2 DEF StatementType, PCs
    <3>4. QED
      BY <1>2, <3>1, <3>3 DEF Construct, StatementType
  <2>4. QED
    BY <2>1, <2>2, <2>3
<1>3. ASSUME NEW t \in Threads, FormatUtc(t) PROVE TypeInv'
  <2> USE <1>3 DEF FormatUtc, AllZones
  <2>1. GlobalsType' /\ SinksType'
    BY DEF GlobalsType, StatementType, SinksType
  <2>2. CacheType'
    BY DEF GlobalsType, CacheType, StatementType
  <2>3. StatementType'
    BY Sizes DEF GlobalsType, StatementType, PCs
  <2>4. QED
    BY <2>1, <2>2, <2>3
<1>4. ASSUME NEW t \in Threads, FormatValid(t) PROVE TypeInv'
  <2> USE <1>4 DEF FormatValid
  <2>1. GlobalsType' /\ SinksType'
    BY DEF GlobalsType, StatementType, SinksType
  <2>2. CacheType'
    BY DEF GlobalsType, CacheType, StatementType
  <2>3. StatementType'
    BY Sizes DEF GlobalsType, StatementType, PCs
  <2>4. QED
    BY <2>1, <2>2, <2>3
<1>5. ASSUME NEW t \in Threads, FormatLocal(t) PROVE TypeInv'
  <2> USE <1>5 DEF FormatLocal
  <2>1. GlobalsType' /\ SinksType'
    BY DEF GlobalsType, StatementType, SinksType
  <2>2. CacheType'
    BY DEF GlobalsType, CacheType, StatementType
  <2>3. StatementType'
    BY Sizes DEF GlobalsType, StatementType, PCs
  <2>4. QED
    BY <2>1, <2>2, <2>3
<1>6. ASSUME NEW t \in Threads, FormatNull(t) \/ HeaderShort(t) PROVE TypeInv'
  <2> USE <1>6 DEF FormatNull, HeaderShort
  <2>1. GlobalsType' /\ SinksType'
    BY DEF GlobalsType, StatementType, SinksType
  <2>2. CacheType'
    BY DEF GlobalsType, CacheType, StatementType
  <2>3. StatementType'
    BY Sizes DEF GlobalsType, StatementType, PCs
  <2>4. QED
    BY <2>1, <2>2, <2>3
<1>7. ASSUME NEW t \in Threads, Header(t) PROVE TypeInv'
  <2> USE <1>7 DEF Header
  <2>1. GlobalsType' /\ SinksType'
    BY DEF GlobalsType, StatementType, SinksType
  <2>2. CacheType'
    BY DEF GlobalsType, CacheType, StatementType
  <2>3. StatementType'
    <3>1. m_cur' \in [Threads -> 0 .. SIZE - 1]
      BY Sizes DEF StatementType
    <3>2. t_time[t] \in Nat \X AllZones
      BY DEF CacheType
    <3>3. QED
      BY <3>1, <3>2 DEF StatementType, PCs
  <2>4. QED
    BY <2>1, <2>2, <2>3
<1>8. ASSUME NEW t \in Threads, Text(t) PROVE TypeInv'
  <2>1. PICK size \in TextSizes :
            LET cur == tail(append(m_cur[t], size))
            IN  /\ newline' = [newline EXCEPT ![t] = AddsNewline(cur)]
                /\ m_cur' = [m_cur EXCEPT ![t] = append(cur, 1)]
    BY <1>8 DEF Text
  <2> DEFINE cur == tail(append(m_cur[t], size))
  <2>2. cur \in 0 .. SIZE - 1
    <3>1. append(m_cur[t], size) \in 0 .. SIZE - 1
      BY AppendInside, LoggerAssumption DEF StatementType
    <3>2. QED
      BY <3>1, TailInside
  <2>3. newline' = [newline EXCEPT ![t] = AddsNewline(cur)] /\ m_cur' = [m_cur EXCEPT ![t] = append(cur, 1)]
    BY <2>1
  <2> HIDE DEF cur
  <2>4. append(cur, 1) \in 0 .. SIZE - 1
    BY <2>2, AppendInside
  <2>5. AddsNewline(cur) \in BOOLEAN
    BY <2>2, LoggerAssumption DEF AddsNewline
  <2>6. GlobalsType' /\ CacheType' /\ SinksType'
    BY <1>8 DEF Text, GlobalsType, CacheType, SinksType
  <2>7. StatementType'
    BY <1>8, <2>3, <2>4, <2>5 DEF Text, GlobalsType, StatementType, PCs
  <2>8. QED
    BY <2>6, <2>7
<1>9. ASSUME NEW t \in Threads, Output(t) PROVE TypeInv'
  <2>1. out' \in [Sinks -> Seq(Threads \X Nat)]
    <3>1. out[sink[t]] \in Seq(Threads \X Nat) /\ <<t, lines[t]>> \in Threads \X Nat
      BY DEF StatementType, SinksType
    <3>2. Append(out[sink[t]], <<t, lines[t]>>) \in Seq(Threads \X Nat)
      BY <3>1
    <3>3. QED
      BY <1>9, <3>2 DEF Output, SinksType
  <2>2. GlobalsType' /\ CacheType' /\ SinksType'
    BY <1>9, <2>1 DEF Output, GlobalsType, CacheType, SinksType
  <2>3. StatementType'
    BY <1>9 DEF Output, StatementType, PCs
  <2>4. QED
    BY <2>2, <2>3
<1>10. ASSUME NEW t \in Threads, FlushRead(t) PROVE TypeInv'
  <2> USE <1>10 DEF FlushRead
  <2>1. GlobalsType' /\ SinksType'
    BY DEF GlobalsType, StatementType, SinksType
  <2>2. CacheType'
    BY DEF GlobalsType, CacheType, StatementType
  <2>3. StatementType'
    BY Sizes DEF GlobalsType, StatementType, PCs
  <2>4. QED
    BY <2>1, <2>2, <2>3
<1>11. ASSUME NEW t \in Threads, Flush(t) PROVE TypeInv'
  <2> USE <1>11 DEF Flush
  <2>1. GlobalsType' /\ SinksType'
    <3>1. sink[t] \in Sinks /\ out \in [Sinks -> Seq(Threads \X Nat)]
      BY DEF StatementType, SinksType
    <3>2. out[sink[t]] \in Seq(Threads \X Nat)
      BY <3>1
    <3>3. Len(out[sink[t]]) \in Nat
      BY <3>2
    <3>4. QED
      BY <3>3 DEF GlobalsType, SinksType
  <2>2. CacheType'
    BY DEF GlobalsType, CacheType, StatementType
  <2>3. StatementType'
    BY Sizes DEF GlobalsType, StatementType, PCs
  <2>4. QED
    BY <2>1, <2>2, <2>3
<1>12. ASSUME NEW t \in Threads, Abort(t) PROVE TypeInv'
  <2> USE <1>12 DEF Abort
  <2>1. GlobalsType' /\ SinksType'
    BY DEF GlobalsType, StatementType, SinksType
  <2>2. CacheType'
    BY DEF GlobalsType, CacheType, StatementType
  <2>3. StatementType'
    BY Sizes DEF GlobalsType, StatementType, PCs
  <2>4. QED
    BY <2>1, <2>2, <2>3
<1>13. ASSUME Set PROVE TypeInv'
  <2>1. GlobalsType'
    BY <1>13 DEF Set, setLogLevel, setOutput, setFlush, setTimeZone, GlobalsType
  <2>2. CacheType' /\ StatementType' /\ SinksType'
    BY <1>13 DEF Set, setLogLevel, setOutput, setFlush, setTimeZone, CacheType, StatementType, SinksType
  <2>3. QED
    BY <2>1, <2>2
<1>14. ASSUME Tick PROVE TypeInv'
  <2>1. GlobalsType'
    <3>1. now + 1 \in 1 .. MaxNow
      BY <1>14, Sizes DEF Tick, GlobalsType
    <3>2. QED
      BY <1>14, <3>1 DEF Tick, GlobalsType
  <2>2. CacheType' /\ StatementType' /\ SinksType'
    BY <1>14 DEF Tick, CacheType, StatementType, SinksType
  <2>3. QED
    BY <2>1, <2>2
<1>15. CASE UNCHANGED vars
  BY <1>15 DEF vars, GlobalsType, CacheType, StatementType, SinksType
<1>16. QED
  BY <1>1, <1>2, <1>3, <1>4, <1>5, <1>6, <1>7, <1>8, <1>9, <1>10, <1>11, <1>12, <1>13, <1>14,
     <1>15 DEF Next, LogStep

\* The type of the state.
THEOREM TypeCorrect == Spec => []TypeInv
  BY InitTypeInv, NextTypeInv, PTL DEF Spec

-----------------------------------------------------------------------------
\* A statement's steps leave the other threads' data, the clock and the globals
\* alone.
LEMMA OwnOnly ==
    ASSUME TypeInv, NEW t \in Threads, LogStep(t)
    PROVE  /\ UNCHANGED <<now, globals>>
           /\ \A s \in Threads \ {t} :
                  /\ t_lastSecond'[s] = t_lastSecond[s] /\ t_time'[s] = t_time[s]
                  /\ pc'[s] = pc[s] /\ lines'[s] = lines[s]
                  /\ m_time'[s] = m_time[s] /\ stamp'[s] = stamp[s]
                  /\ m_cur'[s] = m_cur[s] /\ newline'[s] = newline[s] /\ sink'[s] = sink[s]
  BY DEF TypeInv, CacheType, StatementType, LogStep, Statement, Construct, FormatUtc, FormatValid,
         FormatLocal, FormatNull, Header, HeaderShort, Text, Output, FlushRead, Flush, Abort,
         Goto, Tls, cache, statement

\* Setters and clock leave all of them alone.
LEMMA WorldOnly ==
    Set \/ Tick => UNCHANGED <<cache, pc, lines, statement, sinkVars>>
  BY DEF Set, Tick

-----------------------------------------------------------------------------
(* Time.                                                                     *)

\* Nothing is cached yet.
LEMMA InitTimeInv == Init => TimeInv
<1> SUFFICES ASSUME Init PROVE TimeInv
  OBVIOUS
<1>1. ASSUME NEW t \in Threads
      PROVE  t_lastSecond[t] = 0 /\ now = 1 /\ pc[t] = "idle" /\ t_time[t] = <<0, NoZone>>
  BY DEF Init, NoTime
<1>2. ASSUME NEW t \in Threads
      PROVE  /\ t_lastSecond[t] <= now /\ t_time[t][1] = t_lastSecond[t]
             /\ pc[t] \notin {"zone", "local", "header"} /\ ~HasHeader(t)
  BY <1>1 DEF HasHeader
<1>3. QED
  BY <1>2 DEF TimeInv

\* A thread is the only one to use its cache.
LEMMA NextTimeInv == TypeInv /\ TimeInv /\ [Next]_vars => TimeInv'
<1> SUFFICES ASSUME TypeInv, TimeInv, [Next]_vars PROVE TimeInv'
  OBVIOUS
<1>1. ASSUME NEW t \in Threads, LogStep(t) PROVE TimeInv'
  <2> SUFFICES ASSUME NEW s \in Threads
               PROVE  /\ t_lastSecond'[s] <= now'
                      /\ ~Formats(s)' => t_time'[s][1] = t_lastSecond'[s]
                      /\ pc'[s] \in {"zone", "local", "header"} => m_time'[s] = t_lastSecond'[s]
                      /\ pc'[s] \in {"zone", "local", "header"} \/ HasHeader(s)'
                             => m_time'[s] \in 1 .. now'
                      /\ HasHeader(s)' => stamp'[s][1] = m_time'[s]
    BY DEF TimeInv
  <2>1. CASE s # t
    BY <1>1, <2>1, OwnOnly DEF TimeInv, Formats, HasHeader
  <2>2. CASE s = t
    <3> USE <2>2 DEF TypeInv, CacheType, StatementType, TimeInv, Formats, HasHeader, Goto, Tls
    <3>1. CASE Construct(t)
      <4>1. now \in 1 .. now /\ now \in Nat
        BY DEF GlobalsType
      <4>2. pc[t] = "now" /\ m_time'[t] = now /\ t_time' = t_time /\ now' = now
        BY <3>1 DEF Construct
      <4>3. CASE now # t_lastSecond[t]
        <5>1. pc'[t] = "zone" /\ t_lastSecond'[t] = now
          BY <3>1, <4>3 DEF Construct
        <5>2. QED
          BY <4>1, <4>2, <5>1
      <4>4. CASE now = t_lastSecond[t]
        <5>1. pc'[t] = "header" /\ t_lastSecond'[t] = now
          BY <3>1, <4>4 DEF Construct
        <5>2. QED
          BY <4>1, <4>2, <4>4, <5>1
      <4>5. QED
        BY <4>3, <4>4
    <3>2. CASE FormatUtc(t) \/ FormatLocal(t)
      BY <3>2 DEF FormatUtc, FormatLocal, statement
    <3>3. CASE Header(t)
      BY <3>3 DEF Header, cache
    <3>4. CASE Statement(t) \/ FormatValid(t) \/ FormatNull(t) \/ HeaderShort(t)
               \/ Text(t) \/ Output(t) \/ FlushRead(t) \/ Flush(t) \/ Abort(t)
      BY <3>4 DEF Statement, FormatValid, FormatNull, HeaderShort, Text, Output, FlushRead, Flush,
                  Abort, cache, statement
    <3>5. QED
      BY <1>1, <3>1, <3>2, <3>3, <3>4 DEF LogStep
  <2>3. QED
    BY <2>1, <2>2
<1>2. ASSUME Set \/ Tick PROVE TimeInv'
  <2>1. now' \in Nat /\ now' >= now /\ now \in Nat
    BY <1>2, Sizes DEF Set, Tick, TypeInv, GlobalsType
  <2>2. UNCHANGED <<cache, pc, lines, statement, sinkVars>>
    BY <1>2, WorldOnly
  <2>3. QED
    BY <2>1, <2>2 DEF TypeInv, CacheType, StatementType, TimeInv, Formats, HasHeader, cache, statement
<1>3. CASE UNCHANGED vars
  BY <1>3 DEF vars, TimeInv, Formats, HasHeader, cache, statement
<1>4. QED
  BY <1>1, <1>2, <1>3 DEF Next

-----------------------------------------------------------------------------
(* Zone.                                                                     *)

\* The zones since a second only grow in number.
LEMMA ZonesGrow ==
    ASSUME TypeInv, [Next]_vars, NEW second \in 1 .. now
    PROVE  second \in 1 .. now' /\ ZonesSince(second) \subseteq ZonesSince(second)'
<1>1. ASSUME UNCHANGED <<now, held>> PROVE ZonesSince(second)' = ZonesSince(second) /\ now' = now
  BY <1>1 DEF ZonesSince
<1>2. ASSUME NEW t \in Threads, LogStep(t) PROVE UNCHANGED <<now, held>>
  BY <1>2, OwnOnly DEF globals
<1>3. CASE Set
  <2>1. now' = now /\ \A s \in 1 .. MaxNow : held[s] \subseteq held'[s]
    BY <1>3 DEF Set, setLogLevel, setOutput, setFlush, setTimeZone, TypeInv, GlobalsType
  <2>2. QED
    BY <2>1, Sizes DEF ZonesSince, TypeInv, GlobalsType
<1>4. CASE Tick
  <2>1. now' = now + 1 /\ \A s \in 1 .. now : held'[s] = held[s]
    BY <1>4 DEF Tick, TypeInv, GlobalsType
  <2>2. QED
    BY <2>1, Sizes DEF ZonesSince, TypeInv, GlobalsType
<1>5. CASE UNCHANGED vars
  BY <1>1, <1>5 DEF vars, globals
<1>6. QED
  BY <1>1, <1>2, <1>3, <1>4, <1>5 DEF Next

\* The zone now is one of those since any second before.
LEMMA ZoneNow ==
    ASSUME TypeInv, g_logTimeZone \in held[now], NEW second \in 1 .. now
    PROVE  g_logTimeZone \in ZonesSince(second)
  BY DEF ZonesSince, TypeInv, GlobalsType

\* Nothing is cached yet, and the zone has been in force since the start.
LEMMA InitZoneInv == Init => ZoneInv
  BY LoggerAssumption DEF Init, ZoneInv, Formats, HasHeader

\* The zone in force is read in the second of the statement or later.
LEMMA NextZoneInv == TypeInv /\ TimeInv /\ ZoneInv /\ [Next]_vars => ZoneInv'
<1> SUFFICES ASSUME TypeInv, TimeInv, ZoneInv, [Next]_vars PROVE ZoneInv'
  OBVIOUS
\* What is said of a thread stays true while its data stay the same.
<1>1. ASSUME NEW s \in Threads,
             /\ t_lastSecond'[s] = t_lastSecond[s] /\ t_time'[s] = t_time[s]
             /\ ~Formats(s)' => ~Formats(s)
      PROVE  ~Formats(s)' /\ t_lastSecond'[s] >= 1
                 => t_time'[s][2] \in ZonesSince(t_lastSecond[s])'
  <2> SUFFICES ASSUME ~Formats(s), t_lastSecond[s] >= 1
               PROVE  t_time[s][2] \in ZonesSince(t_lastSecond[s])'
    BY <1>1
  <2>1. t_lastSecond[s] \in 1 .. now
    BY DEF TimeInv, TypeInv, CacheType, GlobalsType
  <2>2. t_time[s][2] \in ZonesSince(t_lastSecond[s])
    BY DEF ZoneInv
  <2>3. QED
    BY <1>1, <2>1, <2>2, ZonesGrow
<1>2. ASSUME NEW s \in Threads,
             /\ stamp'[s] = stamp[s] /\ m_time'[s] = m_time[s]
             /\ HasHeader(s)
      PROVE  stamp'[s][2] \in ZonesSince(m_time[s])'
  <2>1. m_time[s] \in 1 .. now
    BY <1>2 DEF TimeInv
  <2>2. stamp[s][2] \in ZonesSince(m_time[s])
    BY <1>2 DEF ZoneInv
  <2>3. m_time'[s] = m_time[s]
    BY <1>2
  <2>4. ZonesSince(m_time[s]) \subseteq ZonesSince(m_time[s])'
    BY <2>1, <2>3, ZonesGrow
  <2>5. QED
    BY <1>2, <2>2, <2>4
<1>3. ASSUME NEW t \in Threads, LogStep(t) PROVE ZoneInv'
  <2>1. /\ g_logTimeZone \in held[now] /\ UNCHANGED <<g_logTimeZone, held, now>>
    BY <1>3, OwnOnly DEF ZoneInv, globals
  <2>2. ASSUME NEW second \in 1 .. now
        PROVE  g_logTimeZone \in ZonesSince(second)' /\ ZonesSince(second)' = ZonesSince(second)
    BY <2>1, ZoneNow DEF ZonesSince
  <2> SUFFICES ASSUME NEW s \in Threads
               PROVE  /\ ~Formats(s)' /\ t_lastSecond'[s] >= 1
                             => t_time'[s][2] \in ZonesSince(t_lastSecond[s])'
                      /\ HasHeader(s)' => stamp'[s][2] \in ZonesSince(m_time[s])'
    BY <2>1 DEF ZoneInv
  <2>3. CASE s # t
    BY <1>1, <1>2, <1>3, <2>3, OwnOnly DEF Formats, HasHeader
  <2>4. CASE s = t
    <3> USE <2>4 DEF TypeInv, CacheType, StatementType, Formats, HasHeader, Goto, Tls
    <3>1. CASE Construct(t)
      <4>1. pc[t] = "now" /\ pc'[t] \in {"zone", "header"}
        BY <3>1 DEF Construct
      <4>2. pc'[t] = "header" => t_lastSecond' = t_lastSecond /\ t_time' = t_time
        BY <3>1 DEF Construct
      <4>3. QED
        BY <1>1, <4>1, <4>2
    <3>2. CASE FormatUtc(t) \/ FormatLocal(t)
      <4>1. /\ pc[t] \in {"zone", "local"} /\ pc'[t] = "header" /\ t_lastSecond' = t_lastSecond
            /\ t_time'[t][2] = g_logTimeZone
        BY <3>2 DEF FormatUtc, FormatLocal, vaild
      <4>2. t_lastSecond[t] \in 1 .. now
        BY <4>1 DEF TimeInv
      <4>3. QED
        BY <2>2, <4>1, <4>2
    <3>3. CASE Header(t)
      <4>1. /\ pc[t] = "header" /\ pc'[t] = "text" /\ UNCHANGED <<t_lastSecond, t_time, m_time>>
            /\ stamp'[t] = t_time[t]
        BY <3>3 DEF Header, cache
      <4>2. t_lastSecond[t] \in 1 .. now /\ m_time[t] = t_lastSecond[t]
        BY <4>1 DEF TimeInv
      <4>3. stamp'[t][2] \in ZonesSince(t_lastSecond[t])
        BY <4>1, <4>2 DEF ZoneInv
      <4>4. QED
        BY <1>1, <2>2, <4>1, <4>2, <4>3
    <3>4. CASE Statement(t) \/ FormatValid(t) \/ FormatNull(t) \/ HeaderShort(t)
      BY <1>1, <3>4 DEF Statement, FormatValid, FormatNull, HeaderShort, cache
    <3>5. CASE Text(t) \/ Output(t) \/ FlushRead(t) \/ Flush(t) \/ Abort(t)
      BY <1>1, <1>2, <3>5 DEF Text, Output, FlushRead, Flush, Abort, cache, statement
    <3>6. QED
      BY <1>3, <3>1, <3>2, <3>3, <3>4, <3>5 DEF LogStep
  <2>5. QED
    BY <2>3, <2>4
<1>4. ASSUME Set \/ Tick PROVE ZoneInv'
  <2>1. g_logTimeZone' \in held'[now']
    BY <1>4, Sizes
       DEF Set, setLogLevel, setOutput, setFlush, setTimeZone, Tick, ZoneInv, TypeInv, GlobalsType
  <2>2. UNCHANGED <<cache, pc, statement>>
    BY <1>4, WorldOnly
  <2>3. QED
    BY <1>1, <1>2, <2>1, <2>2 DEF ZoneInv, Formats, HasHeader, cache, statement
<1>5. CASE UNCHANGED vars
  BY <1>5 DEF vars, globals, cache, statement, ZoneInv, Formats, HasHeader, ZonesSince
<1>6. QED
  BY <1>3, <1>4, <1>5 DEF Next

-----------------------------------------------------------------------------
(* The newline.                                                              *)

\* No line has its tail yet.
LEMMA InitFullInv == Init => UnterminatedIsFull
  BY DEF Init, UnterminatedIsFull, HasTail, HasHeader

\* The newline is left out where it would take the last byte, which is where
\* append() leaves the rest of the buffer as it is.
LEMMA NextFullInv == TypeInv /\ UnterminatedIsFull /\ [Next]_vars => UnterminatedIsFull'
<1> SUFFICES ASSUME TypeInv, UnterminatedIsFull, [Next]_vars PROVE UnterminatedIsFull'
  OBVIOUS
<1> USE DEF HasTail, HasHeader
<1>1. ASSUME NEW t \in Threads, LogStep(t) PROVE UnterminatedIsFull'
  <2> SUFFICES ASSUME NEW s \in Threads, HasTail(s)'
               PROVE  newline'[s] \/ m_cur'[s] = SIZE - 1
    BY DEF UnterminatedIsFull
  <2>1. CASE s # t
    BY <1>1, <2>1, OwnOnly DEF UnterminatedIsFull
  <2>2. CASE s = t /\ Text(t)
    <3>1. PICK size \in TextSizes :
              LET cur == tail(append(m_cur[t], size))
              IN  /\ newline' = [newline EXCEPT ![t] = AddsNewline(cur)]
                  /\ m_cur' = [m_cur EXCEPT ![t] = append(cur, 1)]
      BY <2>2 DEF Text
    <3> DEFINE cur == tail(append(m_cur[t], size))
    <3>2. cur \in 0 .. SIZE - 1
      <4>1. append(m_cur[t], size) \in 0 .. SIZE - 1
        BY AppendInside, LoggerAssumption DEF TypeInv, StatementType
      <4>2. QED
        BY <4>1, TailInside
    <3>3. newline'[t] = AddsNewline(cur) /\ m_cur'[t] = append(cur, 1)
      BY <3>1 DEF TypeInv, StatementType
    <3> HIDE DEF cur
    <3>4. AddsNewline(cur) \/ append(cur, 1) = SIZE - 1
      BY <3>2, Sizes DEF AddsNewline, append
    <3>5. QED
      BY <2>2, <3>3, <3>4
  <2>3. CASE s = t /\ ~Text(t)
    <3>1. /\ pc[t] \in {"output", "flush", "flushing", "abort"}
          /\ UNCHANGED <<newline, m_cur>>
      BY <1>1, <2>3
         DEF LogStep, Statement, Construct, FormatUtc, FormatValid, FormatLocal, FormatNull, Header,
             HeaderShort, Output, FlushRead, Flush, Abort, Goto, TypeInv, StatementType, statement
    <3>2. QED
      BY <2>3, <3>1 DEF UnterminatedIsFull
  <2>4. QED
    BY <2>1, <2>2, <2>3
<1>2. ASSUME Set \/ Tick PROVE UnterminatedIsFull'
  BY <1>2, WorldOnly DEF UnterminatedIsFull, statement
<1>3. CASE UNCHANGED vars
  BY <1>3 DEF vars, UnterminatedIsFull, statement
<1>4. QED
  BY <1>1, <1>2, <1>3 DEF Next

-----------------------------------------------------------------------------
(* The flush of a FATAL statement.                                           *)

\* Nothing is written yet.
LEMMA InitFlushedInv == Init => FlushedInv
  BY DEF Init, FlushedInv

\* A sink only gets longer, by one line of the thread that writes.
LEMMA SinkGrows ==
    ASSUME TypeInv, NEW t \in Threads, Output(t), NEW s \in Sinks
    PROVE  /\ Len(out[s]) \in Nat /\ Len(out'[s]) \in Nat /\ Len(out[s]) <= Len(out'[s])
           /\ \A i \in 1 .. Len(out'[s]) :
                  \/ i \in 1 .. Len(out[s]) /\ out'[s][i] = out[s][i]
                  \/ out'[s][i] = <<t, lines[t]>>
<1>1. out[s] \in Seq(Threads \X Nat) /\ <<t, lines[t]>> \in Threads \X Nat
  BY DEF TypeInv, StatementType, SinksType
<1>2. out'[s] = out[s] \/ out'[s] = Append(out[s], <<t, lines[t]>>)
  BY DEF Output, TypeInv, SinksType
<1> DEFINE line == <<t, lines[t]>>
           o == out[s]
<1>3. o \in Seq(Threads \X Nat) /\ line \in Threads \X Nat
  BY <1>1
<1>4. out'[s] = o \/ out'[s] = Append(o, line)
  BY <1>2
<1> HIDE DEF line, o
<1>5. /\ Len(o) \in Nat /\ Len(Append(o, line)) = Len(o) + 1
      /\ \A i \in 1 .. Len(o) : Append(o, line)[i] = o[i]
      /\ Append(o, line)[Len(o) + 1] = line
  BY <1>3
<1>6. CASE out'[s] = o
  BY <1>5, <1>6 DEF o
<1>7. CASE out'[s] = Append(o, line)
  <2>1. ASSUME NEW i \in 1 .. Len(o) + 1
        PROVE  (i \in 1 .. Len(o) /\ Append(o, line)[i] = o[i]) \/ Append(o, line)[i] = line
    <3>1. i \in 1 .. Len(o) \/ i = Len(o) + 1
      BY <1>5
    <3>2. QED
      BY <1>5, <3>1
  <2>2. Len(o) <= Len(o) + 1 /\ Len(o) + 1 \in Nat
    BY <1>5
  <2>3. QED
    BY <1>5, <1>7, <2>1, <2>2 DEF o, line
<1>8. QED
  BY <1>4, <1>6, <1>7

\* A line of another thread comes behind what is saved, and a flush saves all.
LEMMA NextFlushedInv == TypeInv /\ FlushedInv /\ [Next]_vars => FlushedInv'
<1> SUFFICES ASSUME TypeInv, FlushedInv, [Next]_vars PROVE FlushedInv'
  OBVIOUS
<1>1. ASSUME UNCHANGED <<out, durable, failed>>,
             \A s \in Threads : pc'[s] \in {"abort", "aborted"} =>
                 /\ pc[s] \in {"abort", "aborted"}
                 /\ sink'[s] = sink[s] /\ lines'[s] = lines[s]
      PROVE  FlushedInv'
  BY <1>1 DEF FlushedInv
<1>2. ASSUME NEW t \in Threads, Output(t) PROVE FlushedInv'
  <2>1. /\ pc[t] = "output" /\ pc'[t] \in {"flush", "idle"}
        /\ \A s \in Threads \ {t} : pc'[s] = pc[s]
        /\ UNCHANGED <<sink, lines, durable>> /\ failed \subseteq failed'
    BY <1>2 DEF Output, Goto, TypeInv, StatementType, statement
  <2>2. ASSUME NEW s \in Sinks PROVE durable'[s] <= Len(out'[s])
    BY <1>2, <2>1, SinkGrows DEF FlushedInv, TypeInv, SinksType
  <2>3. ASSUME NEW s \in Threads, pc'[s] \in {"abort", "aborted"}, sink[s] \notin failed',
               NEW i \in 1 .. Len(out'[sink[s]]), out'[sink[s]][i] = <<s, lines[s]>>
        PROVE  i <= durable[sink[s]]
    <3>1. s # t /\ pc[s] \in {"abort", "aborted"} /\ sink[s] \in Sinks
      BY <2>1, <2>3 DEF TypeInv, StatementType
    <3>2. out'[sink[s]][i] # <<t, lines[t]>>
      BY <2>3, <3>1
    <3>3. i \in 1 .. Len(out[sink[s]]) /\ out'[sink[s]][i] = out[sink[s]][i]
      BY <1>2, <3>1, <3>2, SinkGrows
    <3>4. QED
      BY <2>1, <2>3, <3>1, <3>3 DEF FlushedInv
  <2>4. QED
    BY <2>1, <2>2, <2>3 DEF FlushedInv
<1>3. ASSUME NEW t \in Threads, Flush(t) PROVE FlushedInv'
  <2>1. /\ pc[t] = "flushing" /\ \A s \in Threads \ {t} : pc'[s] = pc[s]
        /\ UNCHANGED <<sink, lines, out>> /\ failed \subseteq failed'
    BY <1>3 DEF Flush, Goto, TypeInv, StatementType, statement
  <2>2. ASSUME NEW s \in Sinks
        PROVE  /\ \/ durable'[s] = IF s = sink[t] THEN Len(out[s]) ELSE durable[s]
                  \/ durable'[s] = durable[s] /\ sink[t] \in failed'
               /\ Len(out[s]) \in Nat
    <3>1. out[s] \in Seq(Threads \X Nat)
      BY DEF TypeInv, SinksType
    <3>2. Len(out[s]) \in Nat
      BY <3>1
    <3>3. QED
      BY <1>3, <3>2 DEF Flush, TypeInv, SinksType
  <2>3. ASSUME NEW s \in Sinks PROVE durable'[s] <= Len(out'[s]) /\ durable[s] <= durable'[s]
    <3>1. durable[s] \in Nat /\ durable[s] <= Len(out[s])
      BY DEF FlushedInv, TypeInv, SinksType
    <3>2. out' = out
      BY <2>1
    <3>3. QED
      BY <2>2, <3>1, <3>2
  <2>4. ASSUME NEW s \in Threads, pc'[s] \in {"abort", "aborted"}, sink[s] \notin failed',
               NEW i \in 1 .. Len(out[sink[s]]), out[sink[s]][i] = <<s, lines[s]>>
        PROVE  i <= durable'[sink[s]]
    <3>1. sink[s] \in Sinks
      BY DEF TypeInv, StatementType
    <3>2. CASE s = t
      BY <2>2, <2>4, <3>1, <3>2
    <3>3. CASE s # t
      <4>1. i <= durable[sink[s]]
        BY <2>1, <2>4, <3>3 DEF FlushedInv
      <4>2. durable[sink[s]] <= durable'[sink[s]]
        BY <2>3, <3>1
      <4>3. /\ durable[sink[s]] \in Nat /\ durable'[sink[s]] \in Nat
            /\ Len(out[sink[s]]) \in Nat
        BY <2>2, <3>1 DEF TypeInv, SinksType
      <4>4. QED
        BY ONLY <4>1, <4>2, <4>3, i \in 1 .. Len(out[sink[s]])
    <3>4. QED
      BY <3>2, <3>3
  <2>5. QED
    BY <2>1, <2>3, <2>4 DEF FlushedInv
<1>4. ASSUME NEW t \in Threads, LogStep(t), ~Output(t), ~Flush(t) PROVE FlushedInv'
  <2>1. /\ UNCHANGED <<out, durable, failed>>
        /\ pc'[t] \in {"abort", "aborted"} =>
               pc[t] = "abort" /\ sink'[t] = sink[t] /\ lines'[t] = lines[t]
    BY <1>4
       DEF LogStep, Statement, Construct, FormatUtc, FormatValid, FormatLocal, FormatNull, Header,
           HeaderShort, Text, FlushRead, Abort, Goto, TypeInv, StatementType, statement, sinkVars
  <2>2. QED
    BY <1>1, <1>4, <2>1, OwnOnly
<1>5. ASSUME Set \/ Tick PROVE FlushedInv'
  BY <1>1, <1>5, WorldOnly DEF sinkVars, statement
<1>6. CASE UNCHANGED vars
  BY <1>1, <1>6 DEF vars, sinkVars, statement
<1>7. QED
  BY <1>2, <1>3, <1>4, <1>5, <1>6 DEF Next

-----------------------------------------------------------------------------
\* Logging.cpp formats the time once a second and keeps the text in a
\* thread_local: nevertheless every line shows the second in which its own
\* statement was executed.
THEOREM TimeShownIsOwn == Spec => []TimeIsOwn
<1>1. TimeInv => TimeIsOwn
  BY DEF TimeInv, TimeIsOwn
<1>2. QED
  BY InitTypeInv, NextTypeInv, InitTimeInv, NextTimeInv, <1>1, PTL DEF Spec

\* Whenever setTimeZone is called between formatTime's three reads of
\* g_logTimeZone, and however old the text in the cache, the zone a line shows
\* was in force in the second of its statement or later.
THEOREM ZoneShownInForce == Spec => []ZoneInForce
<1>1. ZoneInv => ZoneInForce
  BY DEF ZoneInv, ZoneInForce
<1>2. QED
  BY InitTypeInv, NextTypeInv, InitTimeInv, NextTimeInv, InitZoneInv, NextZoneInv, <1>1, PTL DEF Spec

\* Whatever the sizes of the text and of the pieces finish() adds, a line
\* without a newline has filled its buffer to the last byte that append() uses.
THEOREM NewlineLostOnlyWhenFull == Spec => []UnterminatedIsFull
  BY InitTypeInv, NextTypeInv, InitFullInv, NextFullInv, PTL DEF Spec

\* A FATAL statement calls g_flush before abort(): when it has come to that and
\* the process is dead, its line and those before it in the sink that was
\* flushed are saved, even if setOutput and setFlush have exchanged the sinks
\* between the two calls, unless a write to that sink has failed.
THEOREM FatalIsDurable == Spec => []FatalDurable
<1>1. FlushedInv => FatalDurable
  BY DEF FlushedInv, FatalDurable
<1>2. QED
  BY InitTypeInv, NextTypeInv, InitFlushedInv, NextFlushedInv, <1>1, PTL DEF Spec
=============================================================================
