-------------------------------- MODULE TimeZone --------------------------------
(***************************************************************************)
(* muduo::base::TimeZone (TimeZone.hpp, TimeZone.cpp): a zone is built, by    *)
(* its constructor from one offset or by loadZoneFile from a TZif file that  *)
(* may end or go wrong anywhere, and then converts between UTC and local     *)
(* time.  Times are in any unit.  A file is what the reads of it return, so  *)
(* every content is a behavior.                                             *)
(***************************************************************************)
EXTENDS Integers, FiniteSetsExt, Sequences

CONSTANTS
    Times,          \* the times of the transitions in a file
    Offsets,        \* the offsets from UTC in a file
    Indices,        \* the type indices in a file, which are int8_t
    MaxTimes,       \* bound: the largest timecnt
    MaxTypes,       \* bound: the largest typecnt
    Gap,            \* the files looked at: transitions are at least so far apart
    Instants        \* the times that are converted

ASSUME TimeZoneAssumption ==
    /\ Times \subseteq Int /\ Offsets \subseteq Int /\ Indices \subseteq Int
    /\ MaxTimes \in Nat /\ MaxTypes \in Nat /\ Gap \in Nat \ {0}
    /\ Instants \subseteq Int

\* Two transitions are no closer than an offset can change, and what is
\* converted includes every instant that is close to a transition.
ASSUME NearnessAssumption ==
    \A a, b \in Offsets :
        /\ a - b <= Gap
        /\ \A u \in Times : u - (a - b) .. u + (a - b) \subseteq Instants

VARIABLES
    pc,             \* the next part of the file, or "zone" when there is a TimeZone
    timecnt, typecnt,
    trans, indices, \* the local variables trans and localtimes of readDataBlock
    localtimes,     \* the offsets of the types
    transitions,
    m_data          \* does the zone have its Data?

counts == <<timecnt, typecnt>>
local  == <<trans, indices>>
data   == <<localtimes, transitions>>

vars == <<pc, counts, local, data, m_data>>

-----------------------------------------------------------------------------
Last(s) == s[Len(s)]

\* The constructor TimeZone(eastOfUtc, tzname), the default constructor, and
\* the start of loadZoneFile.
Init ==
    /\ timecnt = 0 /\ trans = <<>> /\ indices = <<>>
    /\ transitions = <<>>
    /\ \/ /\ pc = "zone" /\ m_data = TRUE /\ typecnt = 1
          /\ \E eastOfUtc \in Offsets : localtimes = <<eastOfUtc>>
       \/ pc = "zone" /\ m_data = FALSE /\ typecnt = 0 /\ localtimes = <<>>
       \/ pc = "head" /\ m_data = TRUE /\ typecnt = 0 /\ localtimes = <<>>

-----------------------------------------------------------------------------
(* loadZoneFile                                                              *)

\* Mutated: loadZoneFile does not look at what readTimeZoneFile returns.
GiveUpKeeps ==
    /\ pc' = "zone"
    /\ UNCHANGED <<counts, local, data, m_data>>

\* The file cannot be opened, is too short for the next read, or does not
\* start with "TZif"; or localtimes.at throws; or the header does not suit:
\* data.reset(), and a TimeZone without data.
GiveUp ==
    /\ pc' = "zone"
    /\ m_data' = FALSE
    /\ localtimes' = <<>> /\ transitions' = <<>>
    /\ trans' = <<>> /\ indices' = <<>>
    /\ timecnt' = 0 /\ typecnt' = 0

ReadFails == pc \in {"head", "counts", "times", "indices", "types", "rest"} /\ GiveUp

\* No memory for the tables, or a negative number of designations: bad_alloc,
\* which is no logic_error, leaves loadZoneFile.
Throw ==
    /\ pc \in {"times", "indices", "types", "add", "rest"}
    /\ pc' = "thrown"
    /\ UNCHANGED <<counts, local, data, m_data>>

\* Version "2" has a second header and block, with 64-bit times; of every
\* other version the first block is read.  Both go on alike.
ReadHeader ==
    /\ pc = "head"
    /\ pc' = "counts"
    /\ UNCHANGED <<counts, local, data, m_data>>

\* The counts.  Leap seconds, and indicators that are not one for each type,
\* are refused.
ReadCounts ==
    /\ pc = "counts"
    /\ timecnt' \in 0 .. MaxTimes /\ typecnt' \in 0 .. MaxTypes
    /\ pc' = "times"
    /\ UNCHANGED <<local, data, m_data>>

ReadTime ==
    /\ pc = "times" /\ Len(trans) < timecnt
    /\ \E time \in Times :
        /\ trans # <<>> => time - Last(trans) >= Gap
        /\ trans' = Append(trans, time)
    /\ UNCHANGED <<pc, counts, indices, data, m_data>>

ReadTimesEnd ==
    /\ pc = "times" /\ Len(trans) = timecnt
    /\ pc' = "indices"
    /\ UNCHANGED <<counts, local, data, m_data>>

ReadIndex ==
    /\ pc = "indices" /\ Len(indices) < timecnt
    /\ \E idx \in Indices : indices' = Append(indices, idx)
    /\ UNCHANGED <<pc, counts, trans, data, m_data>>

ReadIndicesEnd ==
    /\ pc = "indices" /\ Len(indices) = timecnt
    /\ pc' = "types"
    /\ UNCHANGED <<counts, local, data, m_data>>

\* data->addLocalTime
addLocalTime ==
    /\ pc = "types" /\ Len(localtimes) < typecnt
    /\ \E offset \in Offsets : localtimes' = Append(localtimes, offset)
    /\ UNCHANGED <<pc, counts, local, transitions, m_data>>

AddLocalTimesEnd ==
    /\ pc = "types" /\ Len(localtimes) = typecnt
    /\ pc' = "add"
    /\ UNCHANGED <<counts, local, data, m_data>>

\* Does localtimes.at(idx) return?
at(idx) == idx \in 0 .. Len(localtimes) - 1

\* data->addTransition
addTransition ==
    /\ pc = "add" /\ Len(transitions) < timecnt
    /\ LET k == Len(transitions) + 1
       IN  IF at(indices[k])
           THEN /\ transitions' = Append(transitions,
                       [utctimel |-> trans[k], localtime |-> trans[k] + localtimes[indices[k] + 1],
                        localtimeIdx |-> indices[k]])
                /\ UNCHANGED <<pc, counts, local, localtimes, m_data>>
           ELSE GiveUp

AddTransitionsEnd ==
    /\ pc = "add" /\ Len(transitions) = timecnt
    /\ pc' = "rest"
    /\ UNCHANGED <<counts, local, data, m_data>>

\* The designations, the skip over leap seconds (there are none) and indicators,
\* and the footer of a 64-bit block, none of which a conversion uses.
ReadRest ==
    /\ pc = "rest"
    /\ pc' = "zone"
    /\ UNCHANGED <<counts, local, data, m_data>>

Load ==
    \/ ReadFails \/ Throw \/ ReadHeader \/ ReadCounts
    \/ ReadTime \/ ReadTimesEnd \/ ReadIndex \/ ReadIndicesEnd
    \/ addLocalTime \/ AddLocalTimesEnd \/ addTransition \/ AddTransitionsEnd
    \/ ReadRest

\* There is a zone, which never changes, or an exception.
Converting == pc \in {"zone", "thrown"} /\ UNCHANGED vars

Next == Load \/ Converting

Spec == Init /\ [][Next]_vars

-----------------------------------------------------------------------------
(* Conversions.                                                              *)

utctimel(k)  == transitions[k].utctimel
localtime(k) == transitions[k].localtime
offset(k)    == localtimes[transitions[k].localtimeIdx + 1]

\* std::upper_bound, by one of the two times: the first transition later than time.
upper_bound(key, time) ==
    Min({k \in 1 .. Len(transitions) : transitions[k][key] > time} \cup {Len(transitions) + 1})

\* Data::findLocalTime(utcTime), and toLocalTime
findLocalTime(utcTime) ==
    IF transitions = <<>> \/ utcTime < utctimel(1)
    THEN localtimes[1]
    ELSE offset(upper_bound("utctimel", utcTime) - 1)

toLocalTime(utcTime) == utcTime + findLocalTime(utcTime)

\* Mutated: the second of the transition itself.
firstSecond(k) == utctimel(k) + offset(k - 1)

\* The last local second before a transition that is not the first.
prior_second(k) == utctimel(k) - 1 + offset(k - 1)

\* Mutated: the flag the wrong way round.
chooseOther(postTransition, prior, post) == IF postTransition THEN prior ELSE post

choose(postTransition, prior, post) == IF postTransition THEN post ELSE prior

\* Data::findLocalTime(local, postTransition), and fromLocalTime
findOffset(time, postTransition) ==
    LET next == upper_bound("localtime", time)
        last == next - 1
    IN  IF transitions = <<>> \/ time < localtime(1)
        THEN localtimes[1]
        ELSE IF next > Len(transitions)
        THEN offset(last)
        ELSE IF prior_second(next) < time
        THEN choose(postTransition, offset(last), offset(next))
        ELSE IF last # 1 /\ time <= prior_second(last)
        THEN choose(postTransition, offset(last - 1), offset(last))
        ELSE offset(last)

fromLocalTime(time, postTransition) == time - findOffset(time, postTransition)

-----------------------------------------------------------------------------
(* Properties.                                                               *)

Usable == pc = "zone" /\ m_data /\ localtimes # <<>>

\* A file is taken as a whole or not at all: a zone that has data has every
\* transition and every type the file announced, and the types its transitions
\* refer to exist, so that findLocalTime, which does not check an index, stays
\* inside localtimes.  A read that fails half way leaves nothing behind.
AllOrNothing ==
    pc = "zone" /\ m_data =>
        /\ Len(transitions) = timecnt /\ Len(localtimes) = typecnt
        /\ \A k \in 1 .. timecnt : transitions[k].localtimeIdx \in 0 .. typecnt - 1

LocalTimes == {toLocalTime(t) : t \in Instants}

InstantsOf(time) == {t \in Instants : toLocalTime(t) = time}

OffsetBefore(k) == IF k = 1 THEN localtimes[1] ELSE offset(k - 1)

\* The hours that a clock put back shows twice, at transition k.
Repeated(k, time) == localtime(k) <= time /\ time < utctimel(k) + OffsetBefore(k)

\* fromLocalTime finds the instants that show a local time.  One that is shown
\* twice means the first instant or, with postTransition, the second.  At the
\* first and at the last transition of a table it means the second always.
FromLocalInverts ==
    Usable => \A time \in LocalTimes :
        LET AtEdge == \E k \in 1 .. Len(transitions) :
                          (k = 1 \/ k = Len(transitions)) /\ Repeated(k, time)
        IN  /\ fromLocalTime(time, TRUE) = Max(InstantsOf(time))
            /\ fromLocalTime(time, FALSE) =
                   IF AtEdge THEN Max(InstantsOf(time)) ELSE Min(InstantsOf(time))

\* A local time that a clock put forward skips is taken by the offset before
\* the transition or, with postTransition, by the one after it.  At the first
\* transition it is taken by the one before always.
SkippedByFlag ==
    Usable => \A k \in 1 .. Len(transitions) :
        \A time \in utctimel(k) + OffsetBefore(k) .. localtime(k) - 1 :
            /\ fromLocalTime(time, FALSE) = time - OffsetBefore(k)
            /\ fromLocalTime(time, TRUE) =
                   time - (IF k = 1 THEN OffsetBefore(k) ELSE offset(k))
=============================================================================
