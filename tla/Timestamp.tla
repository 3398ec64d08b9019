------------------------------- MODULE Timestamp -------------------------------
(***************************************************************************)
(* muduo::base::Timestamp (Timestamp.hpp, Timestamp.cpp): a number of        *)
(* microseconds since 1970.  gmtime_r, which is external, is BreakTime.  A   *)
(* second has few microseconds here, and a double a short mantissa, which    *)
(* still has a bit to spare for every difference, as 53 bits have.           *)
(***************************************************************************)
EXTENDS Calendar

CONSTANTS
    kMicroSecondsPerSecond,
    Mantissa,               \* the bits of a double's
    MaxMicros               \* bound: the timestamps whose difference is taken

\* Powers of two.
Two ==
    LET power[k \in 0 .. 2 * Mantissa] == IF k = 0 THEN 1 ELSE 2 * power[k - 1]
    IN  power

ASSUME TimestampAssumption ==
    /\ kMicroSecondsPerSecond \in Nat \ {0, 1}
    /\ Mantissa \in Nat /\ MaxMicros \in Nat
    /\ kMicroSecondsPerSecond <= Two[Mantissa] /\ 4 * MaxMicros < Two[Mantissa]

VARIABLES hig, low      \* two timestamps

stampVars == <<hig, low>>

-----------------------------------------------------------------------------
fromUnixTime(t, microseconds) == t * kMicroSecondsPerSecond + microseconds

secondsSinceEpoch(stamp) == CDiv(stamp, kMicroSecondsPerSecond)

\* Mutated: the microseconds are those of the second that has begun.
fractionFloor(stamp) == stamp % kMicroSecondsPerSecond

fraction(stamp) == CMod(stamp, kMicroSecondsPerSecond)

\* The numbers that toString() and toFormattedString() print.  toString() pads
\* none with zeros: its "1.5" is one second and five microseconds.
toString(stamp) == <<secondsSinceEpoch(stamp), fraction(stamp)>>

toFormattedString(stamp) == <<BreakTime(secondsSinceEpoch(stamp)), fraction(stamp)>>

-----------------------------------------------------------------------------
(* A double is a pair, numerator and denominator.                            *)

\* a / b to the nearest integer, and to an even one if there are two.
Nearest(a, b) ==
    LET q == a \div b r == 2 * (a % b)
    IN  IF r < b \/ (r = b /\ q % 2 = 0) THEN q ELSE q + 1

RoundPositive(a, b) ==
    LET Scaled(e) == IF e < 0 THEN <<a * Two[-e], b>> ELSE <<a, b * Two[e]>>
        exponent == CHOOSE e \in -2 * Mantissa .. Mantissa :
                        Scaled(e)[1] \div Scaled(e)[2] \in Two[Mantissa - 1] .. Two[Mantissa] - 1
        mantissa == Nearest(Scaled(exponent)[1], Scaled(exponent)[2])
    IN  IF exponent < 0 THEN <<mantissa, Two[-exponent]>> ELSE <<mantissa * Two[exponent], 1>>

\* The double nearest to a / b.
Round(a, b) ==
    IF a = 0 THEN <<0, 1>>
    ELSE IF a > 0 THEN RoundPositive(a, b)
    ELSE <<-RoundPositive(-a, b)[1], RoundPositive(-a, b)[2]>>

timeDifference(h, l) == Round(h - l, kMicroSecondsPerSecond)

\* Mutated: only whole seconds are added.
addTimeSeconds(stamp, seconds) == stamp + CDiv(seconds[1], seconds[2]) * kMicroSecondsPerSecond

\* The product is a double, and the cast cuts it off.
addTime(stamp, seconds) ==
    LET delta == Round(seconds[1] * kMicroSecondsPerSecond, seconds[2])
    IN  stamp + CDiv(delta[1], delta[2])

StampInit == hig = -MaxMicros /\ low = -MaxMicros

\* now(), and swap.
StampNext ==
    \/ hig < MaxMicros /\ hig' = hig + 1 /\ UNCHANGED low
    \/ hig' = low /\ low' = hig

StampSpec == StampInit /\ [][StampNext]_stampVars

-----------------------------------------------------------------------------
(* Properties.                                                               *)

\* The printed numbers, read back, are the timestamp, on any day and at any
\* time of it; from 1970 on they are the date, the time of day and a fraction that
\* is none too many, so that later timestamps have later texts.  (Before 1970 the
\* fraction is negative, and counts back from the second after it.)
TextReadsBack ==
    LET days == julianDay - kJulianDayOff_1970_01_01
    IN  days \in -TimeDays .. TimeDays =>
            \A second \in Seconds : \A micro \in 0 .. kMicroSecondsPerSecond - 1 :
                LET stamp == fromUnixTime(days * kSecondsPerDay + second, micro)
                    text  == toFormattedString(stamp)
                IN  /\ fromUnixTime(toString(stamp)[1], toString(stamp)[2]) = stamp
                    /\ fromUnixTime(fromUtcTime(text[1]), text[2]) = stamp
                    /\ days >= 0 => text = <<<<<<year, month, day>>, fileHMS(second)>>, micro>>

\* addTime(low, timeDifference(hig, low)) is hig, or lies one microsecond
\* nearer to low: the difference is rounded to a double, and their product with
\* kMicroSecondsPerSecond again before it is cut off.
AddTimeInverts ==
    LET again == addTime(low, timeDifference(hig, low))
    IN  again = hig \/ (again = hig - 1 /\ hig > low) \/ (again = hig + 1 /\ hig < low)
=============================================================================
