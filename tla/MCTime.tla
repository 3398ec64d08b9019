--------------------------------- MODULE MCTime ---------------------------------
(***************************************************************************)
(* An instance of TimeZone, Calendar, Timestamp and Atomic for TLC.  They    *)
(* share no state, so TLC looks at each while the others rest.              *)
(***************************************************************************)
EXTENDS TimeZone, Timestamp, Atomic

MCIndices == -1 .. 2

\* East and west of UTC.
MCOffsets == {-1, 0, 2}

MCTimes == {1, 2, 8, 9, 15, 16}

MCInstants == -5 .. 22

\* The least value of a two-bit integer, and what is added to it.
MCMin == -2

MCOperands == {-1, 1}

ZoneRests == pc = "head" /\ UNCHANGED vars
CalendarRests == julianDay = FirstJulianDay /\ UNCHANGED calendarVars
StampRests == hig = -MaxMicros /\ low = -MaxMicros /\ UNCHANGED stampVars
AtomicRests == AtomicInit /\ UNCHANGED atomicVars

TimeInit == Init /\ CalendarInit /\ StampInit /\ AtomicInit

TimeNext ==
    \/ Next /\ CalendarRests /\ StampRests /\ AtomicRests
    \/ CalendarNext /\ ZoneRests /\ StampRests /\ AtomicRests
    \/ StampNext /\ ZoneRests /\ CalendarRests /\ AtomicRests
    \/ AtomicNext /\ ZoneRests /\ CalendarRests /\ StampRests

TimeSpec == TimeInit /\ [][TimeNext]_<<vars, calendarVars, stampVars, atomicVars>>
=============================================================================
