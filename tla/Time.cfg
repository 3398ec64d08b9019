\* Files of up to three transitions among three types, six hours apart.  400
\* years of days, after which the calendar repeats itself; the seconds at which
\* a field wraps, on the days of two years before 1970 and two after it.
\* Timestamps up to 64 microseconds apart, where a second has 25.  Two threads
\* that add 1 and -1 to a two-bit integer.
CONSTANTS
    Times <- MCTimes
    Offsets <- MCOffsets
    Indices <- MCIndices
    MaxTimes = 3
    MaxTypes = 3
    Gap = 6
    Instants <- MCInstants
    FirstYear = 1600
    FirstJulianDay = 2305448
    LastYear = 2000
    Seconds = {0, 1, 59, 60, 3599, 3600, 43200, 86340, 86399}
    TimeDays = 731
    kMicroSecondsPerSecond = 25
    Mantissa = 8
    MaxMicros = 32
    Threads = {t1, t2}
    MinValue <- MCMin
    MaxValue = 1
    Operands <- MCOperands
    Undefined = Undefined
SPECIFICATION TimeSpec
INVARIANTS
    AllOrNothing FromLocalInverts SkippedByFlag
    DatesInvert TimesInvert
    TextReadsBack AddTimeInverts
PROPERTY ImplementsCounter
\* The walk through the calendar ends with LastYear.
CHECK_DEADLOCK FALSE
