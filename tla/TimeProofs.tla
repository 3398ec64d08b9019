------------------------------- MODULE TimeProofs -------------------------------
(***************************************************************************)
(* TimeZone for every file, however many transitions and types it announces, *)
(* and the calendar and the timestamps for every year.                      *)
(***************************************************************************)
EXTENDS TimeZone, Timestamp, FiniteSetTheorems, WellFoundedInduction, TLAPS

-----------------------------------------------------------------------------
(* Loading a zone.                                                           *)

Transitions == [utctimel : Times, localtime : Int, localtimeIdx : Int]

LoadType ==
    /\ timecnt \in Nat /\ typecnt \in Nat
    /\ trans \in Seq(Times) /\ indices \in Seq(Indices)
    /\ localtimes \in Seq(Offsets) /\ transitions \in Seq(Transitions)
    /\ m_data \in BOOLEAN

\* Every list is as long as the file announced once it has been read, and the
\* transitions are made when the types are complete.
Complete ==
    /\ pc \in {"head", "counts", "times", "indices", "types"} => transitions = <<>>
    /\ pc \in {"head", "counts", "times"} => indices = <<>>
    /\ pc \in {"head", "counts"} => trans = <<>>
    /\ pc \in {"indices", "types", "add", "rest"} => Len(trans) = timecnt
    /\ pc \in {"types", "add", "rest"} => Len(indices) = timecnt
    /\ pc \in {"add", "rest"} \/ (pc = "zone" /\ m_data) => Len(localtimes) = typecnt
    /\ pc = "rest" \/ (pc = "zone" /\ m_data) => Len(transitions) = timecnt

\* A transition is made from the time and the type the file has for it.
Made ==
    /\ Len(transitions) <= Len(trans)
    /\ \A k \in 1 .. Len(transitions) :
        /\ transitions[k].utctimel = trans[k]
        /\ transitions[k].localtimeIdx \in 0 .. Len(localtimes) - 1
        /\ transitions[k].localtime = trans[k] + localtimes[transitions[k].localtimeIdx + 1]

Apart == \A i \in 1 .. Len(trans) : \A j \in 1 .. Len(trans) :
             i < j => trans[j] - trans[i] >= Gap

LoadInv == LoadType /\ Complete /\ Made /\ Apart

\* Every way a zone begins.
LEMMA LoadInvInit == Init => LoadInv
<1> SUFFICES ASSUME Init PROVE LoadInv
  OBVIOUS
<1>1. /\ timecnt = 0 /\ trans = <<>> /\ indices = <<>> /\ transitions = <<>>
      /\ m_data \in BOOLEAN /\ typecnt \in Nat
  <2>1. m_data \in BOOLEAN /\ typecnt \in {0, 1}
    BY Zenon DEF Init
  <2>2. QED
    BY <2>1 DEF Init
<1>2. localtimes \in Seq(Offsets)
  <2>1. CASE localtimes = <<>>
    BY <2>1
  <2>2. CASE \E eastOfUtc \in Offsets : localtimes = <<eastOfUtc>>
    BY <2>2
  <2>3. QED
    BY <2>1, <2>2 DEF Init
<1>3. pc \in {"zone", "head"} /\ (pc = "zone" /\ m_data => Len(localtimes) = typecnt)
  BY DEF Init
<1>4. QED
  BY <1>1, <1>2, <1>3 DEF LoadInv, LoadType, Complete, Made, Apart

\* Every read, and every way to give up, keeps it.
LEMMA LoadInvNext == LoadInv /\ [Next]_vars => LoadInv'
<1> SUFFICES ASSUME LoadInv, [Next]_vars PROVE LoadInv'
  OBVIOUS
<1>0. LoadType /\ Complete /\ Made /\ Apart
  BY DEF LoadInv
<1>1. CASE UNCHANGED vars
  BY <1>0, <1>1 DEF LoadInv, LoadType, Complete, Made, Apart, vars, counts, local, data
<1>2. CASE GiveUp
  <2>1. /\ pc' = "zone" /\ m_data' = FALSE
        /\ localtimes' = <<>> /\ transitions' = <<>> /\ trans' = <<>> /\ indices' = <<>>
        /\ timecnt' = 0 /\ typecnt' = 0
    BY <1>2 DEF GiveUp
  <2>2. LoadType'
    <3>1. /\ trans' \in Seq(Times) /\ indices' \in Seq(Indices)
          /\ localtimes' \in Seq(Offsets) /\ transitions' \in Seq(Transitions)
      BY <2>1
    <3>2. QED
      BY <2>1, <3>1 DEF LoadType
  <2>3. Complete' /\ Made' /\ Apart'
    BY <2>1 DEF Complete, Made, Apart
  <2>4. QED
    BY <2>2, <2>3 DEF LoadInv
<1>3. CASE Throw
  BY <1>0, <1>3 DEF Throw, LoadInv, LoadType, Complete, Made, Apart, counts, local, data
<1>4. CASE ReadHeader \/ ReadTimesEnd \/ ReadIndicesEnd \/ AddLocalTimesEnd \/ AddTransitionsEnd \/ ReadRest
  <2>1. UNCHANGED <<timecnt, typecnt, trans, indices, localtimes, transitions, m_data>>
    BY <1>4 DEF ReadHeader, ReadTimesEnd, ReadIndicesEnd, AddLocalTimesEnd, AddTransitionsEnd,
        ReadRest, counts, local, data
  <2>2. LoadType' /\ Made' /\ Apart'
    BY <1>0, <2>1 DEF LoadType, Made, Apart
  <2>3. Complete'
    BY <1>0, <1>4, <2>1 DEF Complete, ReadHeader, ReadTimesEnd, ReadIndicesEnd,
        AddLocalTimesEnd, AddTransitionsEnd, ReadRest
  <2>4. QED
    BY <2>2, <2>3 DEF LoadInv
<1>5. CASE ReadCounts
  <2>1. UNCHANGED <<trans, indices, localtimes, transitions, m_data>> /\ pc = "counts" /\ pc' = "times"
    BY <1>5 DEF ReadCounts, local, data
  <2>2. timecnt' \in Nat /\ typecnt' \in Nat
    BY <1>5 DEF ReadCounts
  <2>3. QED
    BY <1>0, <2>1, <2>2 DEF LoadInv, LoadType, Complete, Made, Apart
<1>6. CASE ReadTime
  <2>1. /\ pc = "times" /\ pc' = "times"
        /\ UNCHANGED <<timecnt, typecnt, indices, localtimes, transitions, m_data>>
    BY <1>6 DEF ReadTime, counts, data
  <2>2. PICK time \in Times : /\ trans # <<>> => time - Last(trans) >= Gap
                              /\ trans' = Append(trans, time)
    BY <1>6 DEF ReadTime
  <2>3. trans \in Seq(Times) /\ transitions = <<>>
    BY <1>0, <2>1 DEF LoadType, Complete
  <2>4. /\ Len(trans') = Len(trans) + 1 /\ trans' \in Seq(Times) /\ trans'[Len(trans) + 1] = time
        /\ \A i \in 1 .. Len(trans) : trans'[i] = trans[i]
    BY <2>2, <2>3
  <2>5. Apart'
    <3> SUFFICES ASSUME NEW i \in 1 .. Len(trans'), NEW j \in 1 .. Len(trans'), i < j
                 PROVE  trans'[j] - trans'[i] >= Gap
      BY DEF Apart
    <3>1. CASE j <= Len(trans)
      BY <3>1, <2>3, <2>4, <1>0 DEF Apart
    <3>2. CASE j = Len(trans) + 1
      <4>1. /\ i \in 1 .. Len(trans) /\ Len(trans) \in 1 .. Len(trans)
            /\ trans[i] \in Int /\ trans[Len(trans)] \in Int /\ time \in Int
        <5>1. Len(trans) \in Nat /\ i \in 1 .. Len(trans) /\ Len(trans) \in 1 .. Len(trans)
          BY <3>2, <2>3, <2>4
        <5>2. trans[i] \in Times /\ trans[Len(trans)] \in Times
          BY <5>1, <2>3
        <5>3. QED
          BY <5>1, <5>2, TimeZoneAssumption
      <4>2. trans # <<>>
        BY <4>1
      <4>3. time - trans[Len(trans)] >= Gap
        BY <2>2, <4>2 DEF Last
      <4>4. i = Len(trans) \/ trans[Len(trans)] - trans[i] >= Gap
        BY <4>1, <1>0 DEF Apart
      <4>5. QED
        BY <4>1, <4>3, <4>4, <3>2, <2>4, TimeZoneAssumption
    <3>3. QED
      BY <3>1, <3>2, <2>3, <2>4
  <2>6. LoadType' /\ Complete'
    BY <1>0, <2>1, <2>4 DEF LoadType, Complete
  <2>7. Made'
    BY <2>1, <2>3, <2>4 DEF Made
  <2>8. QED
    BY <2>5, <2>6, <2>7 DEF LoadInv
<1>7. CASE ReadIndex
  <2>1. /\ pc = "indices" /\ pc' = "indices"
        /\ UNCHANGED <<timecnt, typecnt, trans, localtimes, transitions, m_data>>
    BY <1>7 DEF ReadIndex, counts, data
  <2>2. PICK idx \in Indices : indices' = Append(indices, idx)
    BY <1>7 DEF ReadIndex
  <2>3. indices' \in Seq(Indices)
    BY <2>2, <1>0 DEF LoadType
  <2>4. QED
    BY <1>0, <2>1, <2>3 DEF LoadInv, LoadType, Complete, Made, Apart
<1>8. CASE addLocalTime
  <2>1. /\ pc = "types" /\ pc' = "types"
        /\ UNCHANGED <<timecnt, typecnt, trans, indices, transitions, m_data>>
    BY <1>8 DEF addLocalTime, counts, local
  <2>2. PICK offset_ \in Offsets : localtimes' = Append(localtimes, offset_)
    BY <1>8 DEF addLocalTime
  <2>3. localtimes' \in Seq(Offsets)
    BY <2>2, <1>0 DEF LoadType
  <2>4. LoadType' /\ Complete' /\ Apart'
    BY <1>0, <2>1, <2>3 DEF LoadType, Complete, Apart
  <2>5. transitions = <<>> /\ trans \in Seq(Times)
    BY <1>0, <2>1 DEF Complete, LoadType
  <2>6. Made'
    BY <2>1, <2>5 DEF Made
  <2>7. QED
    BY <2>4, <2>6 DEF LoadInv
<1>9. CASE addTransition /\ ~GiveUp
  <2> DEFINE k == Len(transitions) + 1
             made == [utctimel |-> trans[k], localtime |-> trans[k] + localtimes[indices[k] + 1],
                      localtimeIdx |-> indices[k]]
  <2>1. /\ pc = "add" /\ Len(transitions) < timecnt /\ at(indices[k])
        /\ transitions' = Append(transitions, made)
        /\ UNCHANGED <<pc, timecnt, typecnt, trans, indices, localtimes, m_data>>
    BY <1>9 DEF addTransition, counts, local
  <2>2. /\ transitions \in Seq(Transitions) /\ trans \in Seq(Times) /\ indices \in Seq(Indices)
        /\ localtimes \in Seq(Offsets) /\ timecnt \in Nat
    BY <1>0 DEF LoadType
  <2>3. Len(trans) = timecnt /\ Len(indices) = timecnt
    BY <1>0, <2>1 DEF Complete
  <2>4. k \in 1 .. Len(trans) /\ k \in 1 .. Len(indices)
    BY <2>1, <2>2, <2>3
  <2>5. trans[k] \in Times /\ indices[k] \in Indices /\ indices[k] \in 0 .. Len(localtimes) - 1
    BY <2>1, <2>2, <2>4 DEF at
  <2>6. localtimes[indices[k] + 1] \in Offsets
    <3>1. indices[k] + 1 \in 1 .. Len(localtimes)
      BY <2>2, <2>5
    <3>2. QED
      BY <3>1, <2>2
  <2>7. made \in Transitions
    <3>1. trans[k] + localtimes[indices[k] + 1] \in Int /\ indices[k] \in Int
      <4> HIDE DEF k
      <4>1. trans[k] \in Int /\ localtimes[indices[k] + 1] \in Int
        BY <2>5, <2>6, TimeZoneAssumption
      <4>2. QED
        BY <4>1, <2>5
    <3>2. QED
      BY <3>1, <2>5 DEF Transitions
  <2>8. /\ transitions' \in Seq(Transitions) /\ Len(transitions') = k /\ transitions'[k] = made
        /\ \A i \in 1 .. Len(transitions) : transitions'[i] = transitions[i]
    <3> HIDE DEF made
    <3> QED
      BY <2>1, <2>2, <2>7
  <2>9. LoadType' /\ Complete' /\ Apart'
    <3> HIDE DEF made, k
    <3> QED
      BY <1>0, <2>1, <2>8 DEF LoadType, Complete, Apart
  <2>10. Made'
    <3> SUFFICES ASSUME NEW i \in 1 .. Len(transitions')
                 PROVE  /\ transitions'[i].utctimel = trans[i]
                        /\ transitions'[i].localtimeIdx \in 0 .. Len(localtimes) - 1
                        /\ transitions'[i].localtime =
                               trans[i] + localtimes[transitions'[i].localtimeIdx + 1]
      BY <2>1, <2>4, <2>8 DEF Made
    <3>1. CASE i = k
      <4>1. made.utctimel = trans[k] /\ made.localtimeIdx = indices[k]
            /\ made.localtime = trans[k] + localtimes[indices[k] + 1]
        OBVIOUS
      <4> HIDE DEF made, k
      <4>2. QED
        BY <4>1, <3>1, <2>8, <2>5
    <3>2. CASE i # k
      <4>1. i \in 1 .. Len(transitions)
        BY <3>2, <2>8, <2>2
      <4>2. QED
        BY <4>1, <2>8, <1>0 DEF Made
    <3>3. QED
      BY <3>1, <3>2
  <2>11. QED
    BY <2>9, <2>10 DEF LoadInv
<1>10. QED
  BY <1>1, <1>2, <1>3, <1>4, <1>5, <1>6, <1>7, <1>8, <1>9
    DEF Next, Load, ReadFails, Converting

\* So it holds all through the load, and of the zone.
LEMMA LoadInvHolds == Spec => []LoadInv
<1>1. QED
  BY LoadInvInit, LoadInvNext, PTL DEF Spec

\* Whatever a file announces and wherever it ends or goes wrong: a zone that has
\* data has all of it, and its transitions refer to types that exist.
THEOREM AllOrNothingHolds == Spec => []AllOrNothing
<1>1. LoadInv => AllOrNothing
  BY DEF LoadInv, LoadType, Complete, Made, AllOrNothing
<1>2. QED
  BY LoadInvHolds, <1>1, PTL

-----------------------------------------------------------------------------
(* Converting.                                                               *)

\* A set of numbers that is not empty has a least one.
LEMMA LeastNumber ==
    ASSUME NEW T \in SUBSET Nat, T # {}
    PROVE  \E n \in T : \A k \in T : n <= k
<1> DEFINE Below(m) == T \cap 0 .. m
           D == {Below(m) : m \in T}
<1>1. \A m \in T : Below(m) \in FiniteSubsetsOf(Nat)
  <2> TAKE m \in T
  <2>1. IsFiniteSet(0 .. m)
    BY FS_Interval
  <2>2. IsFiniteSet(Below(m))
    BY <2>1, FS_Intersection
  <2>3. QED
    BY <2>2 DEF FiniteSubsetsOf
<1>2. D \subseteq FiniteSubsetsOf(Nat) /\ D # {}
  BY <1>1
<1>3. IsWellFoundedOn(StrictSubsetOrdering(Nat), FiniteSubsetsOf(Nat))
  BY FS_StrictSubsetOrderingWellFounded
<1>4. PICK X \in D : \A Y \in D : ~(<<Y, X>> \in StrictSubsetOrdering(Nat))
  <2> HIDE DEF D
  <2> QED
    BY <1>2, <1>3, WFMin
<1>5. PICK n \in T : X = Below(n)
  OBVIOUS
<1>6. ASSUME NEW k \in T, k < n PROVE FALSE
  <2>1. Below(k) \subseteq Below(n) /\ n \in Below(n) /\ n \notin Below(k)
    BY <1>6
  <2>2. <<Below(k), Below(n)>> \in StrictSubsetOrdering(Nat)
    BY <2>1 DEF StrictSubsetOrdering
  <2>3. QED
    BY <2>2, <1>4, <1>5
<1>7. QED
  BY <1>6

\* What upper_bound returns.
LEMMA UpperBound ==
    ASSUME LoadType, NEW key \in {"utctimel", "localtime"}, NEW time \in Int
    PROVE  /\ upper_bound(key, time) \in 1 .. Len(transitions) + 1
           /\ upper_bound(key, time) <= Len(transitions) =>
                  transitions[upper_bound(key, time)][key] > time
           /\ \A k \in 1 .. upper_bound(key, time) - 1 : ~(transitions[k][key] > time)
<1> DEFINE n == Len(transitions)
           S == {k \in 1 .. n : transitions[k][key] > time} \cup {n + 1}
<1>1. n \in Nat
  BY DEF LoadType
<1>2. S \in SUBSET Nat /\ S # {} /\ S \subseteq 1 .. n + 1
  BY <1>1
<1>3. PICK b \in S : \A k \in S : b <= k
  <2> HIDE DEF S
  <2> QED
    BY <1>2, LeastNumber
<1>4. Min(S) = b
  <2> HIDE DEF S
  <2>1. \A x \in S : (\A y \in S : x <= y) => x = b
    BY <1>2, <1>3
  <2>2. QED
    BY <1>3, <2>1 DEF Min
<1>5. upper_bound(key, time) = b
  BY <1>4 DEF upper_bound
<1>6. \A k \in 1 .. b - 1 : ~(transitions[k][key] > time)
  <2> SUFFICES ASSUME NEW k \in 1 .. b - 1, transitions[k][key] > time PROVE FALSE
    OBVIOUS
  <2>1. b \in 1 .. n + 1
    BY <1>2, <1>3
  <2>2. k \in 1 .. n /\ k < b
    BY <2>1, <1>1
  <2>3. k \in S
    BY <2>2
  <2> HIDE DEF S
  <2>4. QED
    BY <2>1, <2>2, <2>3, <1>1, <1>3
<1>7. b <= n => transitions[b][key] > time
  BY <1>1, <1>3
<1>8. b \in 1 .. n + 1
  BY <1>2, <1>3
<1> HIDE DEF n, S
<1>9. QED
  BY <1>5, <1>6, <1>7, <1>8 DEF n

\* The table of a zone: each transition's offset and times.
LEMMA Table ==
    ASSUME LoadInv, NEW k \in 1 .. Len(transitions)
    PROVE  /\ utctimel(k) \in Times /\ utctimel(k) \in Int
           /\ offset(k) \in Offsets /\ offset(k) \in Int
           /\ localtime(k) = utctimel(k) + offset(k)
           /\ transitions[k]["localtime"] = localtime(k)
           /\ transitions[k]["utctimel"] = utctimel(k)
<1> DEFINE i == transitions[k].localtimeIdx
<1>1. /\ transitions \in Seq(Transitions) /\ localtimes \in Seq(Offsets)
  BY DEF LoadInv, LoadType
<1>2. transitions[k] \in Transitions
  BY <1>1
<1>3. i \in 0 .. Len(localtimes) - 1 /\ transitions[k].localtime = trans[k] + localtimes[i + 1]
      /\ transitions[k].utctimel = trans[k]
  BY DEF LoadInv, Made
<1>4. i + 1 \in 1 .. Len(localtimes)
  BY <1>1, <1>3
<1>5. localtimes[i + 1] \in Offsets
  BY <1>1, <1>4
<1>6. transitions[k].utctimel \in Times
  BY <1>2 DEF Transitions
<1>7. Times \subseteq Int /\ Offsets \subseteq Int
  BY TimeZoneAssumption
<1> HIDE DEF i
<1>8. offset(k) = localtimes[i + 1]
  BY DEF offset, i
<1>9. QED
  BY <1>3, <1>5, <1>6, <1>7, <1>8 DEF utctimel, localtime

\* Two transitions are apart.
LEMMA TableApart ==
    ASSUME LoadInv, NEW j \in 1 .. Len(transitions), NEW k \in 1 .. Len(transitions), j < k
    PROVE  utctimel(k) - utctimel(j) >= Gap
<1>1. Len(transitions) <= Len(trans) /\ Len(transitions) \in Nat /\ Len(trans) \in Nat
  BY DEF LoadInv, LoadType, Made
<1>2. j \in 1 .. Len(trans) /\ k \in 1 .. Len(trans)
  BY <1>1
<1>3. trans[k] - trans[j] >= Gap
  BY <1>2 DEF LoadInv, Apart
<1>4. utctimel(k) = trans[k] /\ utctimel(j) = trans[j]
  BY DEF LoadInv, Made, utctimel
<1>5. QED
  BY <1>3, <1>4

\* An offset that is in force before a transition is one of the file's.
LEMMA BeforeIsOffset ==
    ASSUME LoadInv, Usable, NEW k \in 1 .. Len(transitions) + 1
    PROVE  OffsetBefore(k) \in Offsets /\ OffsetBefore(k) \in Int
<1>1. Offsets \subseteq Int
  BY TimeZoneAssumption
<1>2. Len(transitions) \in Nat /\ localtimes \in Seq(Offsets) /\ localtimes # <<>>
  BY DEF LoadInv, LoadType, Usable
<1>3. CASE k = 1
  <2>1. localtimes[1] \in Offsets
    BY <1>2
  <2>2. QED
    BY <2>1, <1>1, <1>3 DEF OffsetBefore
<1>4. CASE k # 1
  <2>1. k - 1 \in 1 .. Len(transitions)
    BY <1>2, <1>4
  <2>2. QED
    BY <2>1, <1>4, Table DEF OffsetBefore
<1>5. QED
  BY <1>3, <1>4

\* Gaps between transitions are no shorter than a change of the offset.
LEMMA GapsSuffice == \A a, b \in Offsets : a - b <= Gap
  BY NearnessAssumption

\* For a local time that transition k skips, upper_bound finds k itself.
LEMMA SkippedHere ==
    ASSUME LoadInv, Usable,
           NEW k \in 1 .. Len(transitions), NEW time \in Int,
           utctimel(k) + OffsetBefore(k) <= time, time < localtime(k)
    PROVE  /\ findOffset(time, FALSE) = OffsetBefore(k)
           /\ findOffset(time, TRUE) = (IF k = 1 THEN OffsetBefore(k) ELSE offset(k))
<1> DEFINE b == upper_bound("localtime", time)
           n == Len(transitions)
<1>1. n \in Nat /\ LoadType
  BY DEF LoadInv, LoadType
<1>2. /\ b \in 1 .. n + 1
      /\ b <= n => localtime(b) > time
      /\ \A j \in 1 .. b - 1 : ~(localtime(j) > time)
  <2>1. \A j \in 1 .. n : transitions[j]["localtime"] = localtime(j)
    BY Table
  <2>2. /\ b \in 1 .. n + 1
        /\ b <= n => transitions[b]["localtime"] > time
        /\ \A j \in 1 .. b - 1 : ~(transitions[j]["localtime"] > time)
    BY UpperBound, <1>1
  <2> HIDE DEF b, n
  <2>3. QED
    BY <2>1, <2>2, <1>1
<1> HIDE DEF b
<1>3. /\ utctimel(k) \in Int /\ OffsetBefore(k) \in Offsets /\ OffsetBefore(k) \in Int
      /\ offset(k) \in Offsets /\ offset(k) \in Int /\ localtime(k) = utctimel(k) + offset(k)
  BY Table, BeforeIsOffset, <1>1
<1>4. \A j \in 1 .. k - 1 : localtime(j) <= time
  <2> SUFFICES ASSUME NEW j \in 1 .. k - 1 PROVE localtime(j) <= time
    OBVIOUS
  <2>1. j \in 1 .. n /\ j < k
    BY <1>1
  <2>2. /\ utctimel(j) \in Int /\ offset(j) \in Offsets /\ offset(j) \in Int
        /\ localtime(j) = utctimel(j) + offset(j)
    BY Table, <2>1
  <2>3. utctimel(k) - utctimel(j) >= Gap
    BY TableApart, <2>1
  <2>4. offset(j) - OffsetBefore(k) <= Gap
    BY <2>2, <1>3, GapsSuffice
  <2>5. Gap \in Nat
    BY TimeZoneAssumption
  <2>6. QED
    BY <1>3, <2>2, <2>3, <2>4, <2>5
<1>5. b = k
  <2>1. b <= k
    <3> SUFFICES ASSUME b > k PROVE FALSE
      BY <1>1, <1>2
    <3>1. k \in 1 .. b - 1
      BY <1>1, <1>2
    <3>2. QED
      BY <3>1, <1>2
  <2>2. b >= k
    <3> SUFFICES ASSUME b < k PROVE FALSE
      BY <1>1, <1>2
    <3>1. b \in 1 .. k - 1 /\ b \in 1 .. n
      BY <1>1, <1>2
    <3>2. localtime(b) \in Int
      BY Table, <3>1
    <3>3. QED
      BY <3>1, <3>2, <1>2, <1>4
  <2>3. QED
    BY <2>1, <2>2, <1>1, <1>2
<1>6. CASE k = 1
  BY <1>5, <1>6 DEF findOffset, OffsetBefore, b
<1>7. CASE k # 1
  <2>1. transitions # <<>> /\ ~(time < localtime(1))
    <3>1. 1 \in 1 .. k - 1 /\ 1 \in 1 .. n
      BY <1>1, <1>7
    <3>2. localtime(1) \in Int
      BY Table, <3>1
    <3>3. QED
      BY <3>1, <3>2, <1>4
  <2>2. ~(k > n) /\ OffsetBefore(k) = offset(k - 1)
    BY <1>1, <1>7 DEF OffsetBefore
  <2>3. prior_second(k) < time
    <3>1. prior_second(k) = utctimel(k) - 1 + OffsetBefore(k)
      BY <2>2 DEF prior_second
    <3>2. QED
      BY <3>1, <1>3
  <2>4. \A flag \in BOOLEAN : findOffset(time, flag) = choose(flag, offset(k - 1), offset(k))
    BY <2>1, <2>2, <2>3, <1>5 DEF findOffset, b
  <2>5. QED
    BY <2>2, <2>4, <1>7 DEF choose
<1>8. QED
  BY <1>6, <1>7

\* A local time that no instant shows is taken by the offset the flag asks for.
THEOREM SkippedByFlagHolds == Spec => []SkippedByFlag
<1>1. LoadInv => SkippedByFlag
  <2> SUFFICES ASSUME LoadInv, Usable, NEW k \in 1 .. Len(transitions),
                      NEW time \in utctimel(k) + OffsetBefore(k) .. localtime(k) - 1
               PROVE  /\ fromLocalTime(time, FALSE) = time - OffsetBefore(k)
                      /\ fromLocalTime(time, TRUE) =
                             time - (IF k = 1 THEN OffsetBefore(k) ELSE offset(k))
    BY DEF SkippedByFlag
  <2>1. Len(transitions) \in Nat
    BY DEF LoadInv, LoadType
  <2>2. /\ utctimel(k) \in Int /\ OffsetBefore(k) \in Int /\ offset(k) \in Int
        /\ localtime(k) = utctimel(k) + offset(k)
    BY Table, BeforeIsOffset, <2>1
  <2>3. time \in Int /\ utctimel(k) + OffsetBefore(k) <= time /\ time < localtime(k)
    BY <2>2
  <2>4. QED
    BY <2>3, SkippedHere DEF fromLocalTime
<1>2. QED
  BY LoadInvHolds, <1>1, PTL

\* A table divides time into periods, of which k ends with transition k and the
\* last one never ends.  Period k shows a local time at one instant, if at all.
Periods == 1 .. Len(transitions) + 1

InPeriod(k, t) ==
    /\ k > 1 => utctimel(k - 1) <= t
    /\ k <= Len(transitions) => t < utctimel(k)

Shows(k, time) == InPeriod(k, time - OffsetBefore(k))

\* findLocalTime answers with the offset of the period an instant lies in.
LEMMA PeriodOf ==
    ASSUME LoadInv, Usable, NEW t \in Int
    PROVE  \E k \in Periods : InPeriod(k, t) /\ toLocalTime(t) = t + OffsetBefore(k)
<1> DEFINE b == upper_bound("utctimel", t)
           n == Len(transitions)
<1>1. n \in Nat /\ LoadType /\ transitions \in Seq(Transitions)
  BY DEF LoadInv, LoadType
<1>2. /\ b \in 1 .. n + 1
      /\ b <= n => utctimel(b) > t
      /\ \A j \in 1 .. b - 1 : ~(utctimel(j) > t)
  <2>1. \A j \in 1 .. n : transitions[j]["utctimel"] = utctimel(j)
    BY Table
  <2>2. /\ b \in 1 .. n + 1
        /\ b <= n => transitions[b]["utctimel"] > t
        /\ \A j \in 1 .. b - 1 : ~(transitions[j]["utctimel"] > t)
    BY UpperBound, <1>1
  <2> HIDE DEF b, n
  <2>3. QED
    BY <2>1, <2>2, <1>1
<1>3. findLocalTime(t) = OffsetBefore(b)
  <2>1. CASE b = 1
    <3>1. transitions = <<>> \/ t < utctimel(1)
      <4>1. n = 0 => transitions = <<>>
        BY <1>1
      <4>2. n # 0 => b <= n /\ 1 \in 1 .. n
        BY <1>1, <2>1
      <4>3. n # 0 => utctimel(1) \in Int
        BY <4>2, Table
      <4>4. QED
        BY <4>1, <4>2, <4>3, <1>2, <2>1
    <3> HIDE DEF b
    <3>2. QED
      BY <3>1, <2>1 DEF findLocalTime, OffsetBefore
  <2>2. CASE b # 1
    <3> HIDE DEF b
    <3>1. 1 \in 1 .. b - 1 /\ 1 \in 1 .. n
      BY <2>2, <1>1, <1>2
    <3>2. ~(utctimel(1) > t) /\ utctimel(1) \in Int
      BY <3>1, <1>2, Table
    <3>3. transitions # <<>> /\ ~(t < utctimel(1))
      BY <3>1, <3>2
    <3>4. QED
      BY <3>3, <2>2 DEF findLocalTime, OffsetBefore, b
  <2>3. QED
    BY <2>1, <2>2
<1> HIDE DEF b
<1>4. b > 1 => utctimel(b - 1) <= t
  <2> SUFFICES ASSUME b > 1 PROVE utctimel(b - 1) <= t
    OBVIOUS
  <2>1. b - 1 \in 1 .. b - 1 /\ b - 1 \in 1 .. n
    BY <1>1, <1>2
  <2>2. utctimel(b - 1) \in Int
    BY <2>1, Table
  <2>3. QED
    BY <2>1, <2>2, <1>2
<1>5. b <= n => t < utctimel(b)
  <2> SUFFICES ASSUME b <= n PROVE t < utctimel(b)
    OBVIOUS
  <2>1. b \in 1 .. n
    BY <1>1, <1>2
  <2>2. utctimel(b) \in Int
    BY <2>1, Table
  <2>3. QED
    BY <2>2, <1>2
<1>6. InPeriod(b, t) /\ toLocalTime(t) = t + OffsetBefore(b)
  BY <1>3, <1>4, <1>5 DEF InPeriod, toLocalTime
<1>7. QED
  BY <1>2, <1>6 DEF Periods

\* Of two periods the later one begins no sooner than the other ends.
LEMMA TableOrder ==
    ASSUME LoadInv, NEW j \in 1 .. Len(transitions), NEW k \in 1 .. Len(transitions), j <= k
    PROVE  utctimel(j) <= utctimel(k)
<1>1. utctimel(j) \in Int /\ utctimel(k) \in Int /\ Len(transitions) \in Nat /\ Gap \in Nat
  BY Table, TimeZoneAssumption DEF LoadInv, LoadType
<1>2. CASE j = k
  BY <1>1, <1>2
<1>3. CASE j < k
  BY <1>1, <1>3, TableApart
<1>4. QED
  BY <1>2, <1>3, <1>1

\* An instant lies in one period only.
LEMMA OnePeriod ==
    ASSUME LoadInv, NEW t \in Int, NEW j \in Periods, NEW k \in Periods,
           InPeriod(j, t), InPeriod(k, t)
    PROVE  j = k
<1> DEFINE n == Len(transitions)
<1>1. n \in Nat /\ j \in 1 .. n + 1 /\ k \in 1 .. n + 1
  BY DEF LoadInv, LoadType, Periods
<1>2. ASSUME NEW x \in 1 .. n + 1, NEW y \in 1 .. n + 1, InPeriod(x, t), InPeriod(y, t), x < y
      PROVE  FALSE
  <2>1. x \in 1 .. n /\ y - 1 \in 1 .. n /\ x <= y - 1
    BY <1>1, <1>2
  <2>2. utctimel(x) <= utctimel(y - 1) /\ utctimel(x) \in Int /\ utctimel(y - 1) \in Int
    BY <2>1, TableOrder, Table
  <2>3. t < utctimel(x) /\ utctimel(y - 1) <= t
    BY <2>1, <1>1, <1>2 DEF InPeriod
  <2>4. QED
    BY <2>2, <2>3
<1>3. QED
  BY <1>1, <1>2

\* An instant shows the local time of its period.
LEMMA PeriodShows ==
    ASSUME LoadInv, Usable, NEW t \in Int, NEW time \in Int
    PROVE  /\ \A k \in Periods : Shows(k, time) =>
                  time - OffsetBefore(k) \in Int /\ toLocalTime(time - OffsetBefore(k)) = time
           /\ toLocalTime(t) = time => \E k \in Periods : Shows(k, time) /\ t = time - OffsetBefore(k)
<1>1. \A k \in Periods : OffsetBefore(k) \in Int
  BY BeforeIsOffset DEF Periods
<1>2. ASSUME NEW k \in Periods, Shows(k, time)
      PROVE  time - OffsetBefore(k) \in Int /\ toLocalTime(time - OffsetBefore(k)) = time
  <2> DEFINE s == time - OffsetBefore(k)
  <2>1. s \in Int /\ InPeriod(k, s)
    BY <1>1, <1>2 DEF Shows
  <2> HIDE DEF s
  <2>2. PICK j \in Periods : InPeriod(j, s) /\ toLocalTime(s) = s + OffsetBefore(j)
    BY <2>1, PeriodOf
  <2>3. j = k
    BY <2>1, <2>2, OnePeriod
  <2>4. QED
    BY <2>1, <2>2, <2>3, <1>1 DEF s
<1>3. ASSUME toLocalTime(t) = time
      PROVE  \E k \in Periods : Shows(k, time) /\ t = time - OffsetBefore(k)
  <2>1. PICK k \in Periods : InPeriod(k, t) /\ toLocalTime(t) = t + OffsetBefore(k)
    BY PeriodOf
  <2>2. t = time - OffsetBefore(k)
    BY <2>1, <1>1, <1>3
  <2>3. QED
    BY <2>1, <2>2 DEF Shows
<1>4. QED
  BY <1>2, <1>3

\* The periods that show a local time are the one upper_bound finds and,
\* perhaps, the one before it.
LEMMA TwoPeriods ==
    ASSUME LoadInv, Usable, NEW time \in Int
    PROVE  LET b == upper_bound("localtime", time)
           IN  /\ b \in Periods
               /\ b > 1 => localtime(b - 1) <= time
               /\ \A k \in Periods : Shows(k, time) =>
                      Shows(b, time) /\ (k = b \/ k = b - 1)
               /\ \A k \in 1 .. Len(transitions) :
                      Repeated(k, time) <=> (k = b - 1 /\ Shows(k, time))
<1> DEFINE b == upper_bound("localtime", time)
           n == Len(transitions)
<1>1. n \in Nat /\ LoadType /\ Periods = 1 .. n + 1 /\ Gap \in Nat
  BY TimeZoneAssumption DEF LoadInv, LoadType, Periods
<1>2. /\ b \in 1 .. n + 1
      /\ b <= n => localtime(b) > time
      /\ \A j \in 1 .. b - 1 : ~(localtime(j) > time)
  <2>1. \A j \in 1 .. n : transitions[j]["localtime"] = localtime(j)
    BY Table
  <2>2. /\ b \in 1 .. n + 1
        /\ b <= n => transitions[b]["localtime"] > time
        /\ \A j \in 1 .. b - 1 : ~(transitions[j]["localtime"] > time)
    BY UpperBound, <1>1
  <2> HIDE DEF b, n
  <2>3. QED
    BY <2>1, <2>2, <1>1
<1> HIDE DEF b
<1>3. \A k \in 1 .. n : /\ utctimel(k) \in Int /\ offset(k) \in Offsets /\ offset(k) \in Int
                        /\ localtime(k) = utctimel(k) + offset(k) /\ localtime(k) \in Int
                        /\ offset(k) = OffsetBefore(k + 1)
  <2> TAKE k \in 1 .. n
  <2>1. k + 1 # 1 /\ (k + 1) - 1 = k
    BY <1>1
  <2>2. offset(k) = OffsetBefore(k + 1)
    BY <2>1 DEF OffsetBefore
  <2>3. QED
    BY <2>2, Table
<1>4. \A k \in 1 .. n + 1 : OffsetBefore(k) \in Offsets /\ OffsetBefore(k) \in Int
  BY BeforeIsOffset
<1>5. \A j, k \in 1 .. n : j < k => utctimel(k) - utctimel(j) >= Gap
  BY TableApart
<1>6. \A x, y \in Offsets : x - y <= Gap
  BY GapsSuffice
<1>7. b > 1 => localtime(b - 1) <= time
  <2> SUFFICES ASSUME b > 1 PROVE localtime(b - 1) <= time
    OBVIOUS
  <2>1. b - 1 \in 1 .. b - 1 /\ b - 1 \in 1 .. n
    BY <1>1, <1>2
  <2>2. QED
    BY <2>1, <1>2, <1>3
\* A later transition comes later on the clock, too.
<1>8. \A k \in 1 .. n : b <= k => localtime(k) > time
  <2> SUFFICES ASSUME NEW k \in 1 .. n, b < k PROVE localtime(k) > time
    BY <1>1, <1>2
  <2>1. b \in 1 .. n
    BY <1>1, <1>2
  <2>2. utctimel(k) - utctimel(b) >= Gap
    BY <2>1, <1>5
  <2>3. offset(b) - offset(k) <= Gap
    BY <2>1, <1>3, <1>6
  <2>4. localtime(b) > time
    BY <2>1, <1>1, <1>2
  <2>5. /\ utctimel(k) \in Int /\ utctimel(b) \in Int /\ offset(k) \in Int /\ offset(b) \in Int
        /\ localtime(k) = utctimel(k) + offset(k) /\ localtime(b) = utctimel(b) + offset(b)
    BY <2>1, <1>3
  <2>6. QED
    BY <2>2, <2>3, <2>4, <2>5, <1>1
\* What ends two periods before is over.
<1>9. ASSUME NEW k \in 1 .. n, k < b - 1 PROVE utctimel(k) + OffsetBefore(k) <= time
  <2>1. b - 1 \in 1 .. n /\ k \in 1 .. n + 1 /\ b > 1
    BY <1>1, <1>2, <1>9
  <2> DEFINE c == b - 1
  <2>2. utctimel(c) - utctimel(k) >= Gap
    BY <2>1, <1>5, <1>9
  <2>3. OffsetBefore(k) - offset(c) <= Gap
    BY <2>1, <1>3, <1>4, <1>6
  <2>4. /\ utctimel(k) \in Int /\ utctimel(c) \in Int /\ OffsetBefore(k) \in Int /\ offset(c) \in Int
        /\ localtime(c) = utctimel(c) + offset(c)
    BY <2>1, <1>3, <1>4
  <2>5. localtime(c) <= time
    BY <1>7, <2>1
  <2> HIDE DEF c
  <2>6. QED
    BY <2>2, <2>3, <2>4, <2>5, <1>1
<1>10. \A k \in 1 .. n : (Shows(k, time) => time < utctimel(k) + OffsetBefore(k))
  <2> SUFFICES ASSUME NEW k \in 1 .. n, Shows(k, time) PROVE time < utctimel(k) + OffsetBefore(k)
    OBVIOUS
  <2>1. time - OffsetBefore(k) < utctimel(k)
    BY <1>1 DEF Shows, InPeriod
  <2>2. k \in 1 .. n + 1
    BY <1>1
  <2>3. QED
    BY <2>1, <2>2, <1>3, <1>4
<1>11. \A k \in 1 .. n + 1 : k > 1 =>
            /\ k - 1 \in 1 .. n
            /\ OffsetBefore(k) = offset(k - 1)
            /\ (utctimel(k - 1) <= time - OffsetBefore(k) <=> localtime(k - 1) <= time)
  <2> SUFFICES ASSUME NEW k \in 1 .. n + 1, k > 1
               PROVE  /\ k - 1 \in 1 .. n
                      /\ OffsetBefore(k) = offset(k - 1)
                      /\ (utctimel(k - 1) <= time - OffsetBefore(k) <=> localtime(k - 1) <= time)
    OBVIOUS
  <2>1. k - 1 \in 1 .. n /\ k # 1
    BY <1>1
  <2>2. OffsetBefore(k) = offset(k - 1)
    BY <2>1 DEF OffsetBefore
  <2>3. QED
    BY <2>1, <2>2, <1>3
<1>12. \A k \in 1 .. n + 1 : Shows(k, time) => k <= b
  <2> SUFFICES ASSUME NEW k \in 1 .. n + 1, Shows(k, time), k > b PROVE FALSE
    BY <1>1, <1>2
  <2>1. k > 1 /\ b <= k - 1
    BY <1>1, <1>2
  <2>2. localtime(k - 1) <= time /\ k - 1 \in 1 .. n
    BY <2>1, <1>11 DEF Shows, InPeriod
  <2>3. QED
    BY <2>1, <2>2, <1>3, <1>8
<1>13. \A k \in 1 .. n + 1 : Shows(k, time) => k >= b - 1
  <2> SUFFICES ASSUME NEW k \in 1 .. n + 1, Shows(k, time), k < b - 1 PROVE FALSE
    BY <1>1, <1>2
  <2>1. k \in 1 .. n
    BY <1>1, <1>2
  <2>2. QED
    BY <2>1, <1>3, <1>4, <1>9, <1>10
<1>14. ASSUME NEW k \in 1 .. n + 1, Shows(k, time) PROVE Shows(b, time)
  <2>1. CASE k = b
    BY <2>1, <1>14
  <2>2. CASE k = b - 1
    <3>1. k \in 1 .. n /\ b > 1 /\ k < b
      BY <2>2, <1>1, <1>2
    <3>2. time < utctimel(k) + OffsetBefore(k)
      BY <3>1, <1>10, <1>14
    <3>3. b > 1 => utctimel(b - 1) <= time - OffsetBefore(b)
      BY <1>2, <1>7, <1>11
    <3>4. b <= n => time - OffsetBefore(b) < utctimel(b)
      <4> SUFFICES ASSUME b <= n PROVE time - OffsetBefore(b) < utctimel(b)
        OBVIOUS
      <4>1. b \in 1 .. n
        BY <1>1, <1>2
      <4>2. utctimel(b) - utctimel(k) >= Gap
        BY <3>1, <4>1, <1>5
      <4>3. OffsetBefore(k) - OffsetBefore(b) <= Gap
        BY <1>2, <1>4, <1>6
      <4>4. /\ utctimel(b) \in Int /\ utctimel(k) \in Int
            /\ OffsetBefore(k) \in Int /\ OffsetBefore(b) \in Int
        BY <3>1, <4>1, <1>2, <1>3, <1>4
      <4>5. QED
        BY <3>2, <4>2, <4>3, <4>4, <1>1
    <3>5. QED
      BY <3>3, <3>4 DEF Shows, InPeriod
  <2>3. QED
    BY <2>1, <2>2, <1>1, <1>2, <1>12, <1>13, <1>14
<1>15. ASSUME NEW k \in 1 .. n
       PROVE  Repeated(k, time) <=> (k = b - 1 /\ Shows(k, time))
  <2>1. /\ utctimel(k) \in Int /\ OffsetBefore(k) \in Int /\ k \in 1 .. n + 1 /\ localtime(k) \in Int
    BY <1>1, <1>3, <1>4
  <2>2. ASSUME Repeated(k, time) PROVE k = b - 1 /\ Shows(k, time)
    <3>1. localtime(k) <= time /\ time < utctimel(k) + OffsetBefore(k)
      BY <2>2 DEF Repeated
    <3>2. ~(b <= k)
      BY <3>1, <2>1, <1>8
    <3>3. ~(k < b - 1)
      BY <3>1, <2>1, <1>9
    <3>4. k = b - 1
      BY <3>2, <3>3, <1>1, <1>2
    <3>5. k > 1 => utctimel(k - 1) <= time - OffsetBefore(k)
      <4> SUFFICES ASSUME k > 1 PROVE utctimel(k - 1) <= time - OffsetBefore(k)
        OBVIOUS
      <4>1. k - 1 \in 1 .. b - 1 /\ k - 1 \in 1 .. n
        BY <3>4, <1>1, <1>2
      <4>2. ~(localtime(k - 1) > time)
        BY <4>1, <1>2
      <4>3. localtime(k - 1) \in Int
        BY <4>1, <1>3
      <4>4. localtime(k - 1) <= time
        BY <4>2, <4>3
      <4>5. QED
        BY <4>4, <2>1, <1>11
    <3>6. time - OffsetBefore(k) < utctimel(k)
      BY <3>1, <2>1
    <3>7. QED
      BY <3>4, <3>5, <3>6 DEF Shows, InPeriod
  <2>3. ASSUME k = b - 1, Shows(k, time) PROVE Repeated(k, time)
    <3>1. b > 1
      BY <2>3, <1>1, <1>2
    <3>2. localtime(k) <= time
      BY <3>1, <2>3, <1>7
    <3>3. time < utctimel(k) + OffsetBefore(k)
      BY <2>3, <1>10
    <3>4. QED
      BY <3>2, <3>3 DEF Repeated
  <2>4. QED
    BY <2>2, <2>3
<1>16. \A k \in Periods : Shows(k, time) => Shows(b, time) /\ (k = b \/ k = b - 1)
  BY <1>1, <1>2, <1>12, <1>13, <1>14
<1>17. QED
  BY <1>1, <1>2, <1>7, <1>15, <1>16 DEF b

\* What findOffset answers for a local time that is shown: the offset of the
\* later period, or without the flag the one of the earlier, if there are two and
\* neither the first nor the last transition lies between them.
LEMMA OffsetFound ==
    ASSUME LoadInv, Usable, NEW time \in Int,
           NEW b, b = upper_bound("localtime", time), b \in Periods,
           b > 1 => localtime(b - 1) <= time, Shows(b, time)
    PROVE  /\ findOffset(time, TRUE) = OffsetBefore(b)
           /\ findOffset(time, FALSE) =
                  IF b > 2 /\ b <= Len(transitions) /\ Repeated(b - 1, time)
                  THEN OffsetBefore(b - 1) ELSE OffsetBefore(b)
<1> DEFINE n == Len(transitions)
<1>1. n \in Nat /\ b \in 1 .. n + 1
  BY DEF LoadInv, LoadType, Periods
<1>2. \A k \in 1 .. n : localtime(k) \in Int /\ utctimel(k) \in Int
  <2> TAKE k \in 1 .. n
  <2>1. QED
    BY Table
<1>3. b # 1 => OffsetBefore(b) = offset(b - 1)
  BY DEF OffsetBefore
<1>4. CASE b = 1
  <2>1. transitions = <<>> \/ time < localtime(1)
    <3>1. n = 0 => transitions = <<>>
      BY DEF LoadInv, LoadType
    <3>2. n # 0 => 1 \in 1 .. n /\ localtime(1) > time
      <4>1. n # 0 => 1 \in 1 .. n
        BY <1>1
      <4>2. n # 0 => transitions[b]["localtime"] > time
        <5>1. b <= n => transitions[b]["localtime"] > time
          BY UpperBound DEF LoadInv
        <5>2. n # 0 => b <= n
          BY <1>1, <1>4
        <5>3. QED
          BY <5>1, <5>2
      <4>3. n # 0 => transitions[1]["localtime"] = localtime(1)
        BY <4>1, Table
      <4>4. QED
        BY <4>1, <4>2, <4>3, <1>4
    <3>3. QED
      BY <3>1, <3>2, <1>2
  <2>2. \A flag \in BOOLEAN : findOffset(time, flag) = localtimes[1]
    BY <2>1 DEF findOffset
  <2>3. OffsetBefore(b) = localtimes[1] /\ ~(b > 2)
    BY <1>4 DEF OffsetBefore
  <2>4. QED
    BY <2>2, <2>3
<1>5. CASE b # 1
  <2>1. b - 1 \in 1 .. n /\ 1 \in 1 .. n /\ b > 1
    BY <1>1, <1>5
  <2>2. transitions # <<>> /\ ~(time < localtime(1))
    <3>1. 1 = b - 1 \/ 1 \in 1 .. b - 1
      BY <2>1, <1>1
    <3>2. ~(transitions[1]["localtime"] > time)
      BY UpperBound, <3>1, <2>1 DEF LoadInv
    <3>3. transitions[1]["localtime"] = localtime(1)
      BY <2>1, Table
    <3>4. QED
      BY <3>2, <3>3, <2>1, <1>2
  <2>3. CASE b = n + 1
    <3>1. b > n /\ ~(b <= n)
      BY <2>3, <1>1
    <3>2. \A flag \in BOOLEAN : findOffset(time, flag) = offset(b - 1)
      BY <2>2, <3>1 DEF findOffset
    <3>3. QED
      BY <3>1, <3>2, <1>3, <1>5
  <2>4. CASE b # n + 1
    <3>1. b \in 1 .. n /\ ~(b > n)
      BY <2>4, <1>1
    <3>2. OffsetBefore(b) \in Int
      BY BeforeIsOffset, <1>1
    <3>3. ~(prior_second(b) < time)
      <4>1. time - OffsetBefore(b) < utctimel(b)
        BY <3>1 DEF Shows, InPeriod
      <4>2. prior_second(b) = utctimel(b) - 1 + OffsetBefore(b)
        BY <1>3, <1>5 DEF prior_second
      <4>3. QED
        BY <4>1, <4>2, <3>1, <3>2, <1>2
    <3>4. b # 2 => OffsetBefore(b - 1) = offset(b - 2) /\ (b - 1) - 1 = b - 2 /\ b - 1 # 1
      BY <1>5, <1>1 DEF OffsetBefore
    <3>5. b # 2 => (time <= prior_second(b - 1) <=> Repeated(b - 1, time))
      <4> SUFFICES ASSUME b # 2 PROVE time <= prior_second(b - 1) <=> Repeated(b - 1, time)
        OBVIOUS
      <4>1. prior_second(b - 1) = utctimel(b - 1) - 1 + OffsetBefore(b - 1)
        BY <3>4 DEF prior_second
      <4>2. OffsetBefore(b - 1) \in Int /\ utctimel(b - 1) \in Int
        <5>1. b - 1 \in 1 .. n + 1
          BY <1>1, <1>5
        <5>2. QED
          BY <5>1, <2>1, <1>2, BeforeIsOffset
      <4>3. localtime(b - 1) <= time
        BY <2>1
      <4>4. QED
        BY <4>1, <4>2, <4>3 DEF Repeated
    <3>6. \A flag \in BOOLEAN :
              findOffset(time, flag) =
                  IF b - 1 # 1 /\ time <= prior_second(b - 1)
                  THEN choose(flag, offset(b - 2), offset(b - 1))
                  ELSE offset(b - 1)
      <4>1. (b - 1) - 1 = b - 2
        BY <1>1
      <4>2. QED
        BY <2>2, <3>1, <3>3, <4>1 DEF findOffset
    <3>7. b > 2 <=> b # 2
      BY <1>1, <1>5
    <3>8. b <= n /\ (b - 1 # 1 <=> b # 2)
      BY <3>1, <1>1
    <3>9. QED
      BY <3>4, <3>5, <3>6, <3>7, <3>8, <1>3, <1>5 DEF choose
  <2>5. QED
    BY <2>3, <2>4
<1>6. QED
  BY <1>4, <1>5

\* The largest of a set, and the smallest.
LEMMA MaxIs ==
    ASSUME NEW S \in SUBSET Int, NEW x \in S, \A y \in S : y <= x
    PROVE  Max(S) = x
<1>1. \A z \in S : (\A y \in S : z >= y) => z = x
  OBVIOUS
<1>2. \A y \in S : x >= y
  OBVIOUS
<1>3. QED
  BY <1>1, <1>2 DEF Max

LEMMA MinIs ==
    ASSUME NEW S \in SUBSET Int, NEW x \in S, \A y \in S : x <= y
    PROVE  Min(S) = x
<1>1. \A z \in S : (\A y \in S : z <= y) => z = x
  OBVIOUS
<1>2. QED
  BY <1>1 DEF Min

\* The instants that are looked at are all those near a transition, whatever
\* others there are.
LEMMA InstantsSuffice ==
    \A u \in Times : \A a, b \in Offsets : \A t \in Int :
        u - (a - b) <= t /\ t <= u + (a - b) => t \in Instants
<1> SUFFICES ASSUME NEW u \in Times, NEW a \in Offsets, NEW b \in Offsets, NEW t \in Int,
                    u - (a - b) <= t, t <= u + (a - b)
             PROVE  t \in Instants
  OBVIOUS
<1>1. u \in Int /\ a \in Int /\ b \in Int
  BY TimeZoneAssumption
<1>2. t \in u - (a - b) .. u + (a - b)
  BY <1>1
<1>3. QED
  BY <1>2, NearnessAssumption

\* fromLocalTime for the local time of one instant.
LEMMA InvertsHere ==
    ASSUME LoadInv, Usable,
           NEW t \in Instants, NEW time, time = toLocalTime(t)
    PROVE  LET AtEdge == \E k \in 1 .. Len(transitions) :
                             (k = 1 \/ k = Len(transitions)) /\ Repeated(k, time)
           IN  /\ fromLocalTime(time, TRUE) = Max(InstantsOf(time))
               /\ fromLocalTime(time, FALSE) =
                      IF AtEdge THEN Max(InstantsOf(time)) ELSE Min(InstantsOf(time))
<1> DEFINE n == Len(transitions)
           b == upper_bound("localtime", time)
           later == time - OffsetBefore(b)
           earlier == time - OffsetBefore(b - 1)
           AtEdge == \E k \in 1 .. n : (k = 1 \/ k = n) /\ Repeated(k, time)
<1>1. Instants \subseteq Int /\ t \in Int /\ n \in Nat /\ Periods = 1 .. n + 1
  BY TimeZoneAssumption DEF LoadInv, LoadType, Periods
<1>2. \A k \in Periods : OffsetBefore(k) \in Offsets /\ OffsetBefore(k) \in Int
  BY BeforeIsOffset DEF Periods
<1>3. time \in Int
  <2>1. PICK k \in Periods : toLocalTime(t) = t + OffsetBefore(k)
    BY PeriodOf, <1>1
  <2>2. QED
    BY <2>1, <1>1, <1>2
<1>4. /\ b \in Periods
      /\ b > 1 => localtime(b - 1) <= time
      /\ \A k \in Periods : Shows(k, time) => Shows(b, time) /\ (k = b \/ k = b - 1)
      /\ \A k \in 1 .. n : Repeated(k, time) <=> (k = b - 1 /\ Shows(k, time))
  BY TwoPeriods, <1>3
<1>5. PICK p \in Periods : Shows(p, time) /\ t = time - OffsetBefore(p)
  BY PeriodShows, <1>1, <1>3
<1>6. Shows(b, time) /\ (p = b \/ p = b - 1)
  BY <1>4, <1>5
<1>7. /\ findOffset(time, TRUE) = OffsetBefore(b)
      /\ findOffset(time, FALSE) =
             IF b > 2 /\ b <= n /\ Repeated(b - 1, time)
             THEN OffsetBefore(b - 1) ELSE OffsetBefore(b)
  BY OffsetFound, <1>3, <1>4, <1>6
<1>8. /\ later \in Int /\ toLocalTime(later) = time
  BY PeriodShows, <1>1, <1>3, <1>4, <1>6
<1>9. \A s \in InstantsOf(time) : s \in Int /\ s \in Instants /\ toLocalTime(s) = time
  BY <1>1 DEF InstantsOf
<1>10. InstantsOf(time) \in SUBSET Int
  BY <1>9
<1>11. CASE b = 1 \/ ~Shows(b - 1, time)
  <2>1. \A k \in Periods : Shows(k, time) => k = b
    BY <1>1, <1>4, <1>11
  <2>2. \A s \in InstantsOf(time) : s = later
    <3> TAKE s \in InstantsOf(time)
    <3>1. PICK k \in Periods : Shows(k, time) /\ s = time - OffsetBefore(k)
      BY PeriodShows, <1>3, <1>9
    <3>2. QED
      BY <3>1, <2>1
  <2>3. later \in InstantsOf(time)
    BY <1>5, <2>1, <1>8 DEF InstantsOf
  <2> HIDE DEF later
  <2>4. Max(InstantsOf(time)) = later /\ Min(InstantsOf(time)) = later
    BY <2>2, <2>3, <1>8, <1>10, MaxIs, MinIs
  <2>5. b > 2 => ~Repeated(b - 1, time)
    <3> SUFFICES ASSUME b > 2 PROVE ~Repeated(b - 1, time)
      OBVIOUS
    <3>1. b - 1 \in 1 .. n
      BY <1>1, <1>4
    <3>2. ~Shows(b - 1, time)
      BY <1>11
    <3>3. QED
      BY <3>1, <3>2, <1>4
  <2>6. fromLocalTime(time, TRUE) = later /\ fromLocalTime(time, FALSE) = later
    BY <1>7, <2>5 DEF fromLocalTime, later
  <2>7. QED
    BY <2>4, <2>6
<1>12. CASE b # 1 /\ Shows(b - 1, time)
  <2> DEFINE c == b - 1
  <2>1. c \in 1 .. n /\ c \in Periods /\ b > 1
    BY <1>1, <1>4, <1>12
  <2>2. earlier \in Int /\ toLocalTime(earlier) = time
    BY PeriodShows, <1>1, <1>3, <2>1, <1>12
  <2>3. earlier < utctimel(c) /\ utctimel(c) <= later /\ utctimel(c) \in Times /\ utctimel(c) \in Int
    <3>1. utctimel(c) \in Times /\ utctimel(c) \in Int
      BY Table, <2>1
    <3>2. c <= n
      BY <2>1, <1>1
    <3>3. earlier < utctimel(c)
      BY <3>2, <1>12 DEF Shows, InPeriod
    <3>4. utctimel(c) <= later
      BY <2>1, <1>6 DEF Shows, InPeriod
    <3>5. QED
      BY <3>1, <3>3, <3>4
  <2>4. earlier \in Instants /\ later \in Instants
    <3>1. /\ OffsetBefore(b) \in Offsets /\ OffsetBefore(b) \in Int
          /\ OffsetBefore(c) \in Offsets /\ OffsetBefore(c) \in Int
      BY <1>2, <1>4, <2>1
    <3> DEFINE reach == OffsetBefore(c) - OffsetBefore(b)
    <3>2. later = earlier + reach
      BY <3>1, <1>3
    <3> HIDE DEF later, earlier, c
    <3>3. /\ utctimel(c) - reach <= earlier /\ earlier <= utctimel(c) + reach
          /\ utctimel(c) - reach <= later /\ later <= utctimel(c) + reach
      <4>1. reach \in Int
        BY <3>1
      <4> HIDE DEF reach
      <4>2. QED
        BY <4>1, <3>2, <2>2, <2>3, <1>8
    <3>4. QED
      BY <3>1, <3>3, <2>2, <2>3, <1>8, InstantsSuffice
  <2>5. earlier \in InstantsOf(time) /\ later \in InstantsOf(time)
    BY <2>2, <2>4, <1>8 DEF InstantsOf
  <2>6. \A s \in InstantsOf(time) : s = later \/ s = earlier
    <3> TAKE s \in InstantsOf(time)
    <3>1. PICK k \in Periods : Shows(k, time) /\ s = time - OffsetBefore(k)
      BY PeriodShows, <1>3, <1>9
    <3>2. QED
      BY <3>1, <1>4
  <2>7. Repeated(c, time) /\ (AtEdge <=> (b - 1 = 1 \/ b - 1 = n))
    BY <2>1, <1>4, <1>12
  <2>8. (b > 2 /\ b <= n) <=> ~(b - 1 = 1 \/ b - 1 = n)
    BY <2>1, <1>1, <1>4
  <2>9. fromLocalTime(time, TRUE) = later
    BY <1>7 DEF fromLocalTime
  <2>10. fromLocalTime(time, FALSE) = IF AtEdge THEN later ELSE earlier
    BY <1>7, <2>7, <2>8 DEF fromLocalTime
  <2> HIDE DEF later, earlier, c
  <2>11. Max(InstantsOf(time)) = later
    BY <2>2, <2>3, <2>5, <2>6, <1>8, <1>10, MaxIs
  <2>12. Min(InstantsOf(time)) = earlier
    BY <2>2, <2>3, <2>5, <2>6, <1>8, <1>10, MinIs
  <2>13. QED
    BY <2>9, <2>10, <2>11, <2>12
<1>13. QED
  BY <1>11, <1>12

\* Every local time that is shown leads back to the instants that show it: to the
\* first or the second of two as the flag asks, but at the edges of the table.
THEOREM FromLocalInvertsHolds == Spec => []FromLocalInverts
<1>1. LoadInv => FromLocalInverts
  <2> SUFFICES ASSUME LoadInv, Usable, NEW t \in Instants, NEW time, time = toLocalTime(t)
               PROVE  LET AtEdge == \E k \in 1 .. Len(transitions) :
                                        (k = 1 \/ k = Len(transitions)) /\ Repeated(k, time)
                      IN  /\ fromLocalTime(time, TRUE) = Max(InstantsOf(time))
                          /\ fromLocalTime(time, FALSE) =
                                 IF AtEdge THEN Max(InstantsOf(time)) ELSE Min(InstantsOf(time))
    BY DEF FromLocalInverts, LocalTimes
  <2>1. QED
    BY InvertsHere
<1>2. QED
  BY LoadInvHolds, <1>1, PTL

-----------------------------------------------------------------------------
(* The calendar.                                                             *)

\* The days before a year that begins in March, and before a month of it.
DaysBeforeYear(Y) == 365 * Y + Y \div 4 - Y \div 100 + Y \div 400

DaysBeforeMonth == <<306, 337, 0, 31, 61, 92, 122, 153, 184, 214, 245, 275>>

MarchYear(y, m) == IF m < 3 THEN y + 4799 ELSE y + 4800

IsDate(y, m, d) == y \in Nat /\ m \in 1 .. 12 /\ d \in Nat /\ 1 <= d /\ d <= DaysOfMonth(y, m)

\* How long a month is.
LEMMA MonthLength ==
    ASSUME NEW y \in Nat, NEW m \in 1 .. 12
    PROVE  /\ DaysOfMonth(y, m) \in 28 .. 31
           /\ m \in {4, 6, 9, 11} => DaysOfMonth(y, m) = 30
           /\ m = 2 => DaysOfMonth(y, m) = IF IsLeapYear(y) THEN 29 ELSE 28
           /\ m \in {1, 3, 5, 7, 8, 10, 12} => DaysOfMonth(y, m) = 31
<1>1. CASE m \in {4, 6, 9, 11}
  BY <1>1 DEF DaysOfMonth
<1>2. CASE m = 2
  BY <1>2 DEF DaysOfMonth
<1>3. CASE m \in {1, 3, 5, 7, 8, 10, 12}
  BY <1>3 DEF DaysOfMonth
<1>4. QED
  BY <1>1, <1>2, <1>3

\* The number of a day, once the year is made to begin in March.
LEMMA JulianIs ==
    ASSUME NEW y \in Nat, NEW m \in 1 .. 12, NEW d \in Int
    PROVE  getJulianDayNumber(y, m, d) =
               d + DaysBeforeMonth[m] + DaysBeforeYear(MarchYear(y, m)) - 32045
<1> DEFINE a == CDiv(14 - m, 12)
           M == m + 12 * a - 3
           Y == y + 4800 - a
<1>1. a = IF m < 3 THEN 1 ELSE 0
  BY DEF CDiv
<1>2. M \in 0 .. 11 /\ Y \in Nat /\ Y = MarchYear(y, m)
  BY <1>1 DEF MarchYear
<1>3. CDiv(153 * M + 2, 5) = DaysBeforeMonth[m]
  <2>1. M = IF m < 3 THEN m + 9 ELSE m - 3
    BY <1>1
  <2> HIDE DEF M
  <2>2. CDiv(153 * M + 2, 5) = (153 * M + 2) \div 5
    BY <1>2 DEF CDiv
  <2>3. (153 * M + 2) \div 5 = DaysBeforeMonth[m]
    BY <2>1 DEF DaysBeforeMonth
  <2>4. QED
    BY <2>2, <2>3
<1>4. CDiv(Y, 4) = Y \div 4 /\ CDiv(Y, 100) = Y \div 100 /\ CDiv(Y, 400) = Y \div 400
  <2> HIDE DEF Y
  <2> QED
    BY <1>2 DEF CDiv
<1>5. getJulianDayNumber(y, m, d) =
          d + CDiv(153 * M + 2, 5) + Y * 365 + CDiv(Y, 4) - CDiv(Y, 100) + CDiv(Y, 400) - 32045
  BY DEF getJulianDayNumber
<1>6. DaysBeforeMonth[m] \in Int
  BY DEF DaysBeforeMonth
<1> HIDE DEF M, Y, a
<1>7. QED
  BY <1>2, <1>3, <1>4, <1>5, <1>6 DEF DaysBeforeYear

\* A year that ends with a leap day is a day longer.
LEMMA YearLength ==
    ASSUME NEW y \in Nat
    PROVE  /\ DaysBeforeYear(y + 4799) \in Nat /\ DaysBeforeYear(y + 4800) \in Nat
           /\ DaysBeforeYear(y + 4800) =
                  DaysBeforeYear(y + 4799) + (IF IsLeapYear(y) THEN 366 ELSE 365)
<1> DEFINE Y == y + 4800
<1>1. Y \in Nat /\ y + 4799 = Y - 1 /\ Y > 0
  OBVIOUS
<1>2. y % 4 = Y % 4 /\ y % 100 = Y % 100 /\ y % 400 = Y % 400
  OBVIOUS
<1> HIDE DEF Y
<1>3. Y \div 4 = (Y - 1) \div 4 + (IF Y % 4 = 0 THEN 1 ELSE 0)
  BY <1>1
<1>4. Y \div 100 = (Y - 1) \div 100 + (IF Y % 100 = 0 THEN 1 ELSE 0)
  BY <1>1
<1>5. Y \div 400 = (Y - 1) \div 400 + (IF Y % 400 = 0 THEN 1 ELSE 0)
  BY <1>1
<1>6. (Y % 400 = 0 => Y % 100 = 0) /\ (Y % 100 = 0 => Y % 4 = 0)
  BY <1>1
<1>7. \A Z \in Nat : DaysBeforeYear(Z) \in Nat
  BY DEF DaysBeforeYear
<1>8. DaysBeforeYear(Y) = DaysBeforeYear(Y - 1) + (IF IsLeapYear(y) THEN 366 ELSE 365)
  BY <1>1, <1>2, <1>3, <1>4, <1>5, <1>6 DEF DaysBeforeYear, IsLeapYear
<1>9. QED
  BY <1>1, <1>7, <1>8 DEF Y

\* The day after a date has the next number.
LEMMA NextJulian ==
    ASSUME NEW y, NEW m, NEW d, IsDate(y, m, d)
    PROVE  /\ getJulianDayNumber(y, m, d) \in Int
           /\ d < DaysOfMonth(y, m) =>
                  /\ IsDate(y, m, d + 1)
                  /\ getJulianDayNumber(y, m, d + 1) = getJulianDayNumber(y, m, d) + 1
           /\ d = DaysOfMonth(y, m) /\ m < 12 =>
                  /\ IsDate(y, m + 1, 1)
                  /\ getJulianDayNumber(y, m + 1, 1) = getJulianDayNumber(y, m, d) + 1
           /\ d = DaysOfMonth(y, m) /\ m = 12 =>
                  /\ IsDate(y + 1, 1, 1)
                  /\ getJulianDayNumber(y + 1, 1, 1) = getJulianDayNumber(y, m, d) + 1
<1>1. y \in Nat /\ m \in 1 .. 12 /\ d \in Nat /\ 1 <= d /\ d <= DaysOfMonth(y, m)
  BY DEF IsDate
<1> DEFINE before == DaysBeforeYear(y + 4799)
           after == DaysBeforeYear(y + 4800)
<1>2. /\ before \in Nat /\ after \in Nat
      /\ after = before + (IF IsLeapYear(y) THEN 366 ELSE 365)
  BY <1>1, YearLength
<1>3. \A n \in 1 .. 12 : \A x \in Int : getJulianDayNumber(y, n, x) =
          x + DaysBeforeMonth[n] + (IF n < 3 THEN before ELSE after) - 32045
  <2> TAKE n \in 1 .. 12
  <2> TAKE x \in Int
  <2>1. DaysBeforeYear(MarchYear(y, n)) = IF n < 3 THEN before ELSE after
    BY DEF MarchYear
  <2>2. QED
    BY <2>1, <1>1, JulianIs
<1>4. getJulianDayNumber(y + 1, 1, 1) = 1 + 306 + after - 32045
  <2>1. y + 1 \in Nat /\ MarchYear(y + 1, 1) = y + 4800 /\ DaysBeforeMonth[1] = 306
    BY <1>1 DEF MarchYear, DaysBeforeMonth
  <2>2. QED
    BY <2>1, JulianIs
<1> HIDE DEF before, after
<1>5. \A n \in 1 .. 12 : DaysBeforeMonth[n] \in Int
  BY DEF DaysBeforeMonth
<1> DEFINE base == [n \in 1 .. 12 |-> DaysBeforeMonth[n] + (IF n < 3 THEN before ELSE after) - 32045]
<1>12. \A n \in 1 .. 12 : base[n] \in Int
  BY <1>2, <1>5
<1>6. ASSUME NEW n \in 1 .. 12, NEW x \in Int
      PROVE  getJulianDayNumber(y, n, x) = x + base[n]
  <2>1. getJulianDayNumber(y, n, x) =
            x + DaysBeforeMonth[n] + (IF n < 3 THEN before ELSE after) - 32045
    BY <1>3
  <2>2. (IF n < 3 THEN before ELSE after) \in Int /\ DaysBeforeMonth[n] \in Int
    BY <1>2, <1>5
  <2>3. QED
    BY <2>1, <2>2
<1> HIDE DEF base
<1>7. ASSUME d < DaysOfMonth(y, m)
      PROVE  /\ IsDate(y, m, d + 1)
             /\ getJulianDayNumber(y, m, d + 1) = getJulianDayNumber(y, m, d) + 1
  <2>1. DaysOfMonth(y, m) \in Int
    BY <1>1, MonthLength
  <2>2. d \in Int /\ d + 1 \in Int
    BY <1>1
  <2>3. getJulianDayNumber(y, m, d + 1) = d + 1 + base[m] /\ getJulianDayNumber(y, m, d) = d + base[m]
    BY <2>2, <1>1, <1>6
  <2>4. IsDate(y, m, d + 1)
    BY <2>1, <1>1, <1>7 DEF IsDate
  <2>5. base[m] \in Int
    BY <1>1, <1>12
  <2>6. QED
    BY <2>2, <2>3, <2>4, <2>5
<1>8. ASSUME d = DaysOfMonth(y, m), m < 12
      PROVE  /\ IsDate(y, m + 1, 1)
             /\ getJulianDayNumber(y, m + 1, 1) = getJulianDayNumber(y, m, d) + 1
  <2>1. m + 1 \in 1 .. 12
    BY <1>1, <1>8
  <2>2. DaysOfMonth(y, m + 1) \in 28 .. 31
    BY <2>1, <1>1, MonthLength
  <2>3. IsDate(y, m + 1, 1)
    BY <2>1, <2>2, <1>1 DEF IsDate
  <2>4. /\ m \in {4, 6, 9, 11} => d = 30
        /\ m = 2 => d = IF IsLeapYear(y) THEN 29 ELSE 28
        /\ m \in {1, 3, 5, 7, 8, 10} => d = 31
    BY <1>1, <1>8, MonthLength
  <2>5. CASE m = 2
    <3>1. /\ getJulianDayNumber(y, 2, d) = d + 337 + before - 32045
          /\ getJulianDayNumber(y, 3, 1) = 1 + 0 + after - 32045
      BY <1>1, <1>3 DEF DaysBeforeMonth
    <3>2. m + 1 = 3
      BY <2>5
    <3>3. QED
      BY <3>1, <3>2, <2>3, <2>4, <2>5, <1>2
  <2>6. CASE m # 2
    <3>1. DaysBeforeMonth[m + 1] = DaysBeforeMonth[m] + d
      BY <2>4, <2>6, <1>1, <1>8 DEF DaysBeforeMonth
    <3>2. m < 3 <=> m + 1 < 3
      BY <2>6, <1>1
    <3>3. base[m + 1] = base[m] + d
      BY <3>1, <3>2, <2>1, <1>1, <1>2, <1>5 DEF base
    <3>4. d \in Int /\ base[m] \in Int
      BY <1>1, <1>12
    <3>5. /\ getJulianDayNumber(y, m + 1, 1) = 1 + base[m + 1]
          /\ getJulianDayNumber(y, m, d) = d + base[m]
      BY <3>4, <2>1, <1>1, <1>6
    <3>6. QED
      BY <3>3, <3>4, <3>5, <2>3
  <2>7. QED
    BY <2>5, <2>6
<1>9. ASSUME d = DaysOfMonth(y, m), m = 12
      PROVE  /\ IsDate(y + 1, 1, 1)
             /\ getJulianDayNumber(y + 1, 1, 1) = getJulianDayNumber(y, m, d) + 1
  <2>1. d = 31
    BY <1>1, <1>9, MonthLength
  <2>2. y + 1 \in Nat /\ DaysOfMonth(y + 1, 1) = 31
    BY <1>1, MonthLength
  <2>3. IsDate(y + 1, 1, 1)
    BY <2>2 DEF IsDate
  <2>4. getJulianDayNumber(y, 12, 31) = 31 + 275 + after - 32045
    BY <1>3 DEF DaysBeforeMonth
  <2>5. QED
    BY <2>1, <2>3, <2>4, <1>2, <1>4, <1>9
<1>10. getJulianDayNumber(y, m, d) \in Int
  <2>1. d \in Int /\ base[m] \in Int
    BY <1>1, <1>12
  <2>2. getJulianDayNumber(y, m, d) = d + base[m]
    BY <2>1, <1>1, <1>6
  <2>3. QED
    BY <2>1, <2>2
<1>11. QED
  BY <1>7, <1>8, <1>9, <1>10

\* A number and its quarter.
LEMMA Quarter ==
    ASSUME NEW n \in Nat
    PROVE  n \div 4 \in Nat /\ n % 4 \in 0 .. 3 /\ n = 4 * (n \div 4) + (n % 4)
<1>1. n \div 4 \in Nat
  OBVIOUS
<1>2. n % 4 \in 0 .. 3
  OBVIOUS
<1>3. n = 4 * (n \div 4) + (n % 4)
  OBVIOUS
<1>4. QED
  BY <1>1, <1>2, <1>3

\* The quotients of yearMonthDay(), each from a number of days: the century, the
\* year of the century, and the month, all beginning in March.
LEMMA CenturyFound ==
    ASSUME NEW h \in Nat, NEW c \in Nat, c <= 36523 + (IF h % 4 = 3 THEN 1 ELSE 0)
    PROVE  LET a == 36524 * h + h \div 4 + c
           IN  (4 * a + 3) \div 146097 = h /\ a - (h * 146097) \div 4 = c
<1> DEFINE a == 36524 * h + h \div 4 + c
<1>1. PICK q \in Nat, r \in 0 .. 3 : h = 4 * q + r
  <2>1. h \div 4 \in Nat /\ h % 4 \in 0 .. 3 /\ h = 4 * (h \div 4) + (h % 4)
    BY Quarter
  <2>2. QED
    BY <2>1
<1>2. h \div 4 = q /\ h % 4 = r
  BY <1>1
<1>3. 4 * a + 3 = 146097 * h + (4 * c + 3 - r)
  BY <1>1, <1>2
<1> DEFINE x == 4 * c + 3 - r
<1>4. x \in Int /\ 0 <= x /\ x <= 146096
  <2>1. r = 3 \/ r < 3
    BY <1>1
  <2>2. c <= 36523 + (IF r = 3 THEN 1 ELSE 0)
    BY <1>2
  <2>3. x <= 146096
    BY <2>1, <2>2, <1>1
  <2>4. x \in Int /\ 0 <= x
    BY <1>1
  <2> HIDE DEF x
  <2>5. QED
    BY <2>3, <2>4
<1>5. (4 * a + 3) \div 146097 = h
  <2> DEFINE n == 4 * a + 3
  <2>1. n = 146097 * h + x
    BY <1>3
  <2> HIDE DEF x, n
  <2>2. n \in Int /\ 146097 * h <= n /\ n < 146097 * h + 146097
    BY <2>1, <1>4
  <2>3. n \div 146097 = h
    BY <2>2
  <2>4. QED
    BY <2>3 DEF n
<1>6. (h * 146097) \div 4 = 36524 * h + q
  <2>1. h * 146097 = 4 * (36524 * h + q) + r
    BY <1>1
  <2>2. QED
    BY <2>1, <1>1
<1>7. QED
  BY <1>2, <1>5, <1>6

\* The year of the century, from the days since it began.
LEMMA YearFound ==
    ASSUME NEW k \in 0 .. 99, NEW e \in Nat, e <= 364 + (IF k % 4 = 3 THEN 1 ELSE 0)
    PROVE  LET c == 365 * k + k \div 4 + e
           IN  (4 * c + 3) \div 1461 = k /\ c - (1461 * k) \div 4 = e
<1> DEFINE c == 365 * k + k \div 4 + e
<1>1. PICK q \in Nat, r \in 0 .. 3 : k = 4 * q + r
  <2>1. k \div 4 \in Nat /\ k % 4 \in 0 .. 3 /\ k = 4 * (k \div 4) + (k % 4)
    BY Quarter
  <2>2. QED
    BY <2>1
<1>2. k \div 4 = q /\ k % 4 = r
  BY <1>1
<1>3. 4 * c + 3 = 1461 * k + (4 * e + 3 - r) /\ 4 * e + 3 - r \in 0 .. 1460
  BY <1>1, <1>2
<1>4. (4 * c + 3) \div 1461 = k
  <2> DEFINE x == 4 * e + 3 - r
  <2>1. 4 * c + 3 = 1461 * k + x /\ x \in 0 .. 1460
    BY <1>3
  <2> HIDE DEF x, c
  <2>2. QED
    BY <2>1
<1>5. (1461 * k) \div 4 = 365 * k + q
  <2>1. 1461 * k = 4 * (365 * k + q) + r
    BY <1>1
  <2>2. QED
    BY <2>1, <1>1
<1>6. QED
  BY <1>2, <1>4, <1>5

\* A month m is the M-th from March.
FromMarch(m) == IF m < 3 THEN m + 9 ELSE m - 3

\* The month, from the days since the first of March.
LEMMA MonthFound ==
    ASSUME NEW m \in 1 .. 12, NEW d \in 1 .. 31,
           m \in {4, 6, 9, 11} => d <= 30, m = 2 => d <= 29
    PROVE  LET e == DaysBeforeMonth[m] + d - 1
           IN  /\ (5 * e + 2) \div 153 = FromMarch(m)
               /\ (153 * FromMarch(m) + 2) \div 5 = DaysBeforeMonth[m]
               /\ FromMarch(m) \div 10 = IF m < 3 THEN 1 ELSE 0
<1> DEFINE e == DaysBeforeMonth[m] + d - 1
<1>1. (153 * FromMarch(m) + 2) \div 5 = DaysBeforeMonth[m]
  BY DEF FromMarch, DaysBeforeMonth
<1>2. FromMarch(m) \div 10 = IF m < 3 THEN 1 ELSE 0
  BY DEF FromMarch
<1>3. 153 * FromMarch(m) <= 5 * e + 2 /\ 5 * e + 2 < 153 * (FromMarch(m) + 1)
  BY DEF FromMarch, DaysBeforeMonth
<1>4. e \in Int /\ FromMarch(m) \in Int
  BY DEF FromMarch, DaysBeforeMonth
<1> HIDE DEF e
<1>5. (5 * e + 2) \div 153 = FromMarch(m)
  <2> DEFINE n == 5 * e + 2
             q == FromMarch(m)
  <2>1. n \in Int /\ q \in Int /\ 153 * q <= n /\ n < 153 * (q + 1)
    BY <1>3, <1>4
  <2> HIDE DEF n, q
  <2>2. n \div 153 = q
    BY <2>1
  <2>3. QED
    BY <2>2 DEF n, q
<1>6. QED
  BY <1>1, <1>2, <1>5 DEF e

\* A year is the k-th of century h.
IsYearOf(Y, h, k) ==
    /\ Y = 100 * h + k
    /\ DaysBeforeYear(Y) = 36524 * h + h \div 4 + 365 * k + k \div 4

\* Every year is one of a century.
LEMMA CenturyParts ==
    ASSUME NEW Y \in Nat
    PROVE  \E h \in Nat, k \in 0 .. 99 : IsYearOf(Y, h, k)
<1> DEFINE h == Y \div 100
           k == Y % 100
<1>1. h \in Nat /\ k \in 0 .. 99 /\ Y = 100 * h + k
  OBVIOUS
<1> HIDE DEF h, k
<1>2. PICK q \in Nat, r \in 0 .. 3 : h = 4 * q + r
  <2>1. h \div 4 \in Nat /\ h % 4 \in 0 .. 3 /\ h = 4 * (h \div 4) + (h % 4)
    BY Quarter, <1>1
  <2>2. QED
    BY <2>1
<1>3. PICK u \in Nat, v \in 0 .. 3 : k = 4 * u + v
  <2>1. k \div 4 \in Nat /\ k % 4 \in 0 .. 3 /\ k = 4 * (k \div 4) + (k % 4)
    BY Quarter, <1>1
  <2>2. QED
    BY <2>1
<1>4. h \div 4 = q /\ k \div 4 = u
  BY <1>2, <1>3
<1>5. Y \div 4 = 25 * h + u
  <2>1. Y = 4 * (25 * h + u) + v
    BY <1>1, <1>3
  <2>2. QED
    BY <2>1, <1>1, <1>3
<1>6. Y \div 400 = q
  <2>1. Y = 400 * q + (100 * r + k) /\ 100 * r + k <= 399 /\ 0 <= 100 * r + k
    BY <1>1, <1>2
  <2>2. QED
    BY <2>1, <1>1, <1>2
<1>7. Y \div 100 = h
  BY <1>1
<1>8. DaysBeforeYear(Y) = 36524 * h + h \div 4 + 365 * k + k \div 4
  BY <1>1, <1>2, <1>3, <1>4, <1>5, <1>6, <1>7 DEF DaysBeforeYear
<1>9. IsYearOf(Y, h, k)
  BY <1>1, <1>8 DEF IsYearOf
<1>10. QED
  BY <1>1, <1>9

\* A February with a leap day ends the fourth year of its century, or its last one
\* if the century is the fourth.
LEMMA LeapParts ==
    ASSUME NEW y \in Nat, NEW h \in Nat, NEW k \in 0 .. 99, y + 4799 = 100 * h + k, IsLeapYear(y)
    PROVE  k % 4 = 3 /\ (k = 99 => h % 4 = 3)
<1>1. y % 4 = 0 /\ (y % 100 = 0 => y % 400 = 0)
  BY DEF IsLeapYear
<1>2. y + 4800 = 100 * h + (k + 1)
  OBVIOUS
<1>3. k % 4 = 3
  BY <1>1, <1>2
<1>4. ASSUME k = 99 PROVE h % 4 = 3
  <2>1. y = 100 * (h - 47)
    BY <1>2, <1>4
  <2>2. y % 400 = 0
    BY <2>1, <1>1
  <2>3. QED
    BY <2>1, <2>2
<1>5. QED
  BY <1>3, <1>4

\* yearMonthDay() step by step.
LEMMA Unfolded ==
    ASSUME NEW n, NEW a, NEW b, NEW c, NEW k, NEW e, NEW M, NEW f, NEW z,
           a = n + 32044, b = CDiv(4 * a + 3, 146097), c = a - CDiv(b * 146097, 4),
           k = CDiv(4 * c + 3, 1461), e = c - CDiv(1461 * k, 4), M = CDiv(5 * e + 2, 153),
           f = CDiv(153 * M + 2, 5), z = CDiv(M, 10)
    PROVE  getYearMonthDay(n) = <<b * 100 + k - 4800 + z, M + 3 - 12 * z, e - f + 1>>
  BY DEF getYearMonthDay

\* yearMonthDay() gives back the date that a number was made from.
LEMMA DateFound ==
    ASSUME NEW y, NEW m, NEW d, IsDate(y, m, d)
    PROVE  getYearMonthDay(getJulianDayNumber(y, m, d)) = <<y, m, d>>
<1> DEFINE Y == MarchYear(y, m)
           e == DaysBeforeMonth[m] + d - 1
           J == getJulianDayNumber(y, m, d)
           a == J + 32044
<1>1. y \in Nat /\ m \in 1 .. 12 /\ d \in Nat /\ 1 <= d /\ d <= DaysOfMonth(y, m)
  BY DEF IsDate
<1>2. /\ d <= 31
      /\ m \in {4, 6, 9, 11} => d <= 30
      /\ m = 2 => d <= IF IsLeapYear(y) THEN 29 ELSE 28
  BY <1>1, MonthLength
<1>3. Y \in Nat /\ (m < 3 => Y = y + 4799) /\ (~(m < 3) => Y = y + 4800)
  BY <1>1 DEF MarchYear
<1>20. PICK h \in Nat, k \in 0 .. 99 : IsYearOf(Y, h, k)
  <2> HIDE DEF Y
  <2>1. Y \in Nat
    BY <1>3
  <2>2. QED
    BY <2>1, CenturyParts
<1>4. Y = 100 * h + k /\ DaysBeforeYear(Y) = 36524 * h + h \div 4 + 365 * k + k \div 4
  BY <1>20 DEF IsYearOf
<1>5. DaysBeforeMonth[m] \in 0 .. 337 /\ e \in Nat
  BY <1>1 DEF DaysBeforeMonth
<1>6. e <= 364 + (IF k % 4 = 3 /\ (k = 99 => h % 4 = 3) THEN 1 ELSE 0)
  <2>1. CASE m = 2
    <3>1. IsLeapYear(y) => k % 4 = 3 /\ (k = 99 => h % 4 = 3)
      BY <2>1, <1>1, <1>3, <1>4, LeapParts
    <3>2. e = 336 + d
      BY <2>1, <1>1 DEF DaysBeforeMonth
    <3>3. QED
      BY <2>1, <3>1, <3>2, <1>1, <1>2
  <2>2. CASE m # 2
    BY <2>2, <1>1, <1>2 DEF DaysBeforeMonth
  <2>3. QED
    BY <2>1, <2>2
<1> DEFINE c == 365 * k + k \div 4 + e
<1>7. c \in Nat /\ c <= 36523 + (IF h % 4 = 3 THEN 1 ELSE 0)
  <2> HIDE DEF e
  <2>1. /\ k \div 4 \in 0 .. 24
        /\ k <= 98 => 365 * k + k \div 4 <= 35794
        /\ k = 99 => 365 * k + k \div 4 = 36159
    OBVIOUS
  <2>2. CASE k = 99
    BY <2>1, <2>2, <1>5, <1>6
  <2>3. CASE k <= 98
    BY <2>1, <2>3, <1>5, <1>6
  <2>4. QED
    BY <2>2, <2>3
<1>8. a = 36524 * h + h \div 4 + c
  <2>1. J = d + DaysBeforeMonth[m] + DaysBeforeYear(Y) - 32045
    BY <1>1, JulianIs
  <2>2. h \div 4 \in Int /\ k \div 4 \in Int
    OBVIOUS
  <2> HIDE DEF Y, J
  <2>3. QED
    BY <2>1, <2>2, <1>1, <1>4, <1>5
<1>9. a \in Nat
  <2>1. h \div 4 \in Nat
    OBVIOUS
  <2> HIDE DEF a, c
  <2>2. QED
    BY <2>1, <1>7, <1>8
<1>10. (4 * a + 3) \div 146097 = h /\ a - (h * 146097) \div 4 = c
  <2> HIDE DEF c
  <2>1. LET n == 36524 * h + h \div 4 + c
        IN  (4 * n + 3) \div 146097 = h /\ n - (h * 146097) \div 4 = c
    BY <1>7, CenturyFound
  <2> HIDE DEF a
  <2>2. QED
    BY <2>1, <1>8
<1>11. (4 * c + 3) \div 1461 = k /\ c - (1461 * k) \div 4 = e
  <2> HIDE DEF e
  <2>1. e <= 364 + (IF k % 4 = 3 THEN 1 ELSE 0)
    BY <1>5, <1>6
  <2>2. LET n == 365 * k + k \div 4 + e
        IN  (4 * n + 3) \div 1461 = k /\ n - (1461 * k) \div 4 = e
    BY <1>5, <2>1, YearFound
  <2>3. QED
    BY <2>2
<1>12. /\ (5 * e + 2) \div 153 = FromMarch(m)
       /\ (153 * FromMarch(m) + 2) \div 5 = DaysBeforeMonth[m]
       /\ FromMarch(m) \div 10 = IF m < 3 THEN 1 ELSE 0
  <2>1. d \in 1 .. 31 /\ (m = 2 => d <= 29)
    BY <1>1, <1>2
  <2>2. QED
    BY <2>1, <1>1, <1>2, MonthFound
<1>13. FromMarch(m) \in Nat /\ FromMarch(m) = IF m < 3 THEN m + 9 ELSE m - 3
  BY <1>1 DEF FromMarch
<1> HIDE DEF c, e, a, Y
<1>14. /\ CDiv(4 * a + 3, 146097) = h /\ CDiv(h * 146097, 4) = (h * 146097) \div 4
       /\ CDiv(4 * c + 3, 1461) = k /\ CDiv(1461 * k, 4) = (1461 * k) \div 4
       /\ CDiv(5 * e + 2, 153) = FromMarch(m)
       /\ CDiv(FromMarch(m), 10) = FromMarch(m) \div 10
       /\ CDiv(153 * FromMarch(m) + 2, 5) = DaysBeforeMonth[m]
  <2>1. 4 * a + 3 >= 0 /\ h * 146097 >= 0 /\ 4 * c + 3 >= 0 /\ 1461 * k >= 0
    BY <1>7, <1>9
  <2>2. 5 * e + 2 >= 0 /\ FromMarch(m) >= 0 /\ 153 * FromMarch(m) + 2 >= 0
    BY <1>5, <1>13
  <2>3. QED
    BY <2>1, <2>2, <1>10, <1>11, <1>12 DEF CDiv
<1>15. getYearMonthDay(J) =
           <<h * 100 + k - 4800 + FromMarch(m) \div 10,
             FromMarch(m) + 3 - 12 * (FromMarch(m) \div 10),
             e - DaysBeforeMonth[m] + 1>>
  <2>1. J + 32044 = a
    BY DEF a
  <2> HIDE DEF J
  <2>2. c = a - CDiv(h * 146097, 4) /\ e = c - CDiv(1461 * k, 4)
    BY <1>10, <1>11, <1>14
  <2> DEFINE M == FromMarch(m)
             z == M \div 10
             f == DaysBeforeMonth[m]
  <2>3. /\ a = J + 32044 /\ h = CDiv(4 * a + 3, 146097) /\ k = CDiv(4 * c + 3, 1461)
        /\ M = CDiv(5 * e + 2, 153) /\ f = CDiv(153 * M + 2, 5) /\ z = CDiv(M, 10)
    BY <2>1, <1>14
  <2> HIDE DEF M, z, f
  <2>4. getYearMonthDay(J) = <<h * 100 + k - 4800 + z, M + 3 - 12 * z, e - f + 1>>
    BY <2>2, <2>3, Unfolded
  <2>5. QED
    BY <2>4 DEF M, z, f
<1>16. h * 100 + k - 4800 + FromMarch(m) \div 10 = y
  BY <1>1, <1>3, <1>4, <1>12
<1>17. FromMarch(m) + 3 - 12 * (FromMarch(m) \div 10) = m
  BY <1>1, <1>12, <1>13
<1>18. e - DaysBeforeMonth[m] + 1 = d
  BY <1>1, <1>5 DEF e
<1>19. QED
  BY <1>15, <1>16, <1>17, <1>18

\* A number's day of the week is the one Sakamoto's rule finds for the date.
WeekShift == <<0, 3, 2, 5, 0, 3, 5, 1, 4, 6, 2, 4>>

WeekYear(y, m) == IF m < 3 THEN y - 1 ELSE y

\* Whole weeks do not change the day of the week.
LEMMA SevenAgain ==
    ASSUME NEW n \in Int, NEW k \in Int
    PROVE  (n + 7 * k) % 7 = n % 7
  OBVIOUS

LEMMA WeekDayIs ==
    ASSUME NEW y, NEW m, NEW d, IsDate(y, m, d)
    PROVE  weekDay(getJulianDayNumber(y, m, d)) =
               (WeekYear(y, m) + WeekYear(y, m) \div 4 - WeekYear(y, m) \div 100
                   + WeekYear(y, m) \div 400 + WeekShift[m] + d) % 7
<1> DEFINE w == WeekYear(y, m)
           n == w + w \div 4 - w \div 100 + w \div 400 + WeekShift[m] + d
           Y == MarchYear(y, m)
           J == getJulianDayNumber(y, m, d)
<1>1. y \in Nat /\ m \in 1 .. 12 /\ d \in Nat
  BY DEF IsDate
<1>2. w \in Int /\ Y = w + 4800
  BY <1>1 DEF WeekYear, MarchYear
<1>3. PICK k \in -1 .. 60 : DaysBeforeMonth[m] + 2 = WeekShift[m] + 7 * k
  <2> DEFINE x == (DaysBeforeMonth[m] + 2 - WeekShift[m]) \div 7
  <2>1. x \in -1 .. 60 /\ DaysBeforeMonth[m] + 2 = WeekShift[m] + 7 * x
    BY <1>1 DEF DaysBeforeMonth, WeekShift
  <2>2. QED
    BY <2>1
<1>4. DaysBeforeMonth[m] \in Int /\ WeekShift[m] \in Int
  BY <1>1 DEF DaysBeforeMonth, WeekShift
<1>5. J = d + DaysBeforeMonth[m] + DaysBeforeYear(Y) - 32045
  BY <1>1, JulianIs
<1>6. DaysBeforeYear(Y) = 365 * w + w \div 4 - w \div 100 + w \div 400 + 1753164
  <2> HIDE DEF w, Y
  <2>1. Y \div 4 = w \div 4 + 1200 /\ Y \div 100 = w \div 100 + 48 /\ Y \div 400 = w \div 400 + 12
    BY <1>2
  <2>2. QED
    BY <1>2, <2>1 DEF DaysBeforeYear
<1>7. J + 1 = n + 7 * (52 * w + k + 245874)
  <2> HIDE DEF J, w, Y
  <2>1. w \div 4 \in Int /\ w \div 100 \in Int /\ w \div 400 \in Int
    BY <1>2
  <2>2. QED
    BY <2>1, <1>1, <1>2, <1>3, <1>4, <1>5, <1>6
<1>8. n \in Int /\ 52 * w + k + 245874 \in Int
  <2> HIDE DEF w
  <2>1. w \div 4 \in Int /\ w \div 100 \in Int /\ w \div 400 \in Int
    BY <1>2
  <2>2. QED
    BY <2>1, <1>1, <1>2, <1>3, <1>4
<1> HIDE DEF J, n, w
<1>9. (J + 1) % 7 = n % 7
  <2> DEFINE x == 52 * w + k + 245874
  <2>1. (n + 7 * x) % 7 = n % 7
    <3>1. x \in Int
      BY <1>8
    <3> HIDE DEF x
    <3>2. QED
      BY <3>1, <1>8, SevenAgain
  <2>2. QED
    BY <2>1, <1>7
<1>10. QED
  BY <1>9 DEF weekDay, J, n, w

-----------------------------------------------------------------------------
(* The walk through the calendar, from any first of January.                 *)

WalkInv == IsDate(year, month, day) /\ julianDay = getJulianDayNumber(year, month, day)

StartsRight == FirstJulianDay = getJulianDayNumber(FirstYear, 1, 1)

\* The first day of the walk.
LEMMA WalkInvInit ==
    ASSUME StartsRight
    PROVE  CalendarInit => WalkInv
<1>1. FirstYear \in Nat /\ DaysOfMonth(FirstYear, 1) = 31
  <2>1. FirstYear \in Nat
    BY CalendarAssumption
  <2>2. QED
    BY <2>1, MonthLength
<1>2. IsDate(FirstYear, 1, 1)
  BY <1>1 DEF IsDate
<1>3. QED
  BY <1>2 DEF CalendarInit, WalkInv, StartsRight

\* Each day that follows.
LEMMA WalkInvNext == WalkInv /\ [CalendarNext]_calendarVars => WalkInv'
<1> SUFFICES ASSUME WalkInv, [CalendarNext]_calendarVars PROVE WalkInv'
  OBVIOUS
<1>1. IsDate(year, month, day) /\ julianDay = getJulianDayNumber(year, month, day)
  BY DEF WalkInv
<1>2. CASE UNCHANGED calendarVars
  BY <1>1, <1>2 DEF WalkInv, calendarVars
<1>3. CASE NextDay /\ julianDay' = julianDay + 1
  <2>1. year' = year /\ month' = month /\ day' = day + 1 /\ day < DaysOfMonth(year, month)
    BY <1>3 DEF NextDay
  <2>2. /\ IsDate(year, month, day + 1)
        /\ getJulianDayNumber(year, month, day + 1) = julianDay + 1
    BY <2>1, <1>1, NextJulian
  <2>3. QED
    BY <2>1, <2>2, <1>3 DEF WalkInv
<1>4. CASE NextMonth /\ julianDay' = julianDay + 1
  <2>1. /\ year' = year /\ month' = month + 1 /\ day' = 1
        /\ day = DaysOfMonth(year, month) /\ month < 12
    BY <1>4 DEF NextMonth
  <2>2. /\ IsDate(year, month + 1, 1)
        /\ getJulianDayNumber(year, month + 1, 1) = julianDay + 1
    BY <2>1, <1>1, NextJulian
  <2>3. QED
    BY <2>1, <2>2, <1>4 DEF WalkInv
<1>5. CASE NextYear /\ julianDay' = julianDay + 1
  <2>1. /\ year' = year + 1 /\ month' = 1 /\ day' = 1
        /\ day = DaysOfMonth(year, month) /\ month = 12
    BY <1>5 DEF NextYear
  <2>2. /\ IsDate(year + 1, 1, 1)
        /\ getJulianDayNumber(year + 1, 1, 1) = julianDay + 1
    BY <2>1, <1>1, NextJulian
  <2>3. QED
    BY <2>1, <2>2, <1>5 DEF WalkInv
<1>6. QED
  BY <1>2, <1>3, <1>4, <1>5 DEF CalendarNext

\* So every day of the walk is a date and has the number of it.
LEMMA WalkInvHolds ==
    ASSUME StartsRight
    PROVE  CalendarSpec => []WalkInv
<1>1. CalendarInit => WalkInv
  BY WalkInvInit
<1>2. QED
  BY <1>1, WalkInvNext, PTL DEF CalendarSpec

\* From whatever year the walk begins and however far it goes, the code numbers
\* the days one after the other, and finds the date and the day of the week of
\* every number.
THEOREM DatesInvertHolds ==
    ASSUME StartsRight
    PROVE  CalendarSpec => []DatesInvert
<1>1. WalkInv => DatesInvert
  <2> SUFFICES ASSUME WalkInv PROVE DatesInvert
    OBVIOUS
  <2>1. IsDate(year, month, day) /\ julianDay = getJulianDayNumber(year, month, day)
    BY DEF WalkInv
  <2>2. getYearMonthDay(julianDay) = <<year, month, day>>
    BY <2>1, DateFound
  <2>3. weekDay(julianDay) = DayOfWeek
    BY <2>1, WeekDayIs DEF DayOfWeek, WeekYear, WeekShift
  <2>4. QED
    BY <2>1, <2>2, <2>3 DEF DatesInvert
<1>2. QED
  BY <1>1, WalkInvHolds, PTL

-----------------------------------------------------------------------------
(* Times of the day.                                                         *)

DayOff(y, m, d) == getJulianDayNumber(y, m, d) - kJulianDayOff_1970_01_01

\* The first of January 1970 has a number.
LEMMA OffIsNumber == kJulianDayOff_1970_01_01 \in Int
<1>1. DaysOfMonth(1970, 1) = 31
  BY MonthLength
<1>2. IsDate(1970, 1, 1)
  BY <1>1 DEF IsDate
<1>3. QED
  BY <1>2, NextJulian DEF kJulianDayOff_1970_01_01

\* Hours, minutes and seconds add up to the second of the day.
LEMMA HMSAdds ==
    ASSUME NEW second \in Nat
    PROVE  fileHMS(second)[1] * 3600 + fileHMS(second)[2] * 60 + fileHMS(second)[3] = second
<1> DEFINE n == second \div 60
<1>1. n \in Nat /\ second = 60 * n + (second % 60)
  OBVIOUS
<1>2. n = 60 * (n \div 60) + (n % 60)
  <2> HIDE DEF n
  <2> QED
    BY <1>1
<1>3. fileHMS(second) = <<n \div 60, n % 60, second % 60>>
  BY DEF fileHMS
<1>4. n \div 60 \in Int /\ n % 60 \in Int /\ second % 60 \in Int
  <2> HIDE DEF n
  <2> QED
    BY <1>1
<1> HIDE DEF n
<1>5. QED
  BY <1>1, <1>2, <1>3, <1>4

\* Products are as far apart as their factors, and more.
LEMMA Larger ==
    ASSUME NEW k \in Nat, NEW a \in Int, NEW b \in Int, a < b
    PROVE  a * k \in Int /\ b * k \in Int /\ a * k + k <= b * k
<1>1. b - a - 1 \in Nat
  OBVIOUS
<1>2. (b - a - 1) * k \in Nat
  BY <1>1
<1>3. (b - a - 1) * k = b * k - a * k - k
  OBVIOUS
<1>4. QED
  BY <1>2, <1>3

\* \div and % give back the parts a number is made of.
LEMMA Divided ==
    ASSUME NEW k \in Nat \ {0}, NEW q \in Int, NEW r \in Nat, r < k
    PROVE  (q * k + r) \div k = q /\ (q * k + r) % k = r
<1> DEFINE x == q * k + r
           p == x \div k
<1>1. x \in Int /\ q * k \in Int
  OBVIOUS
<1>2. p \in Int /\ p * k <= x /\ x < p * k + k /\ x % k = x - p * k
  <2> HIDE DEF x
  <2> QED
    BY <1>1
<1>3. x = q * k + r
  OBVIOUS
<1> HIDE DEF x, p
<1>4. ~(p < q)
  <2> SUFFICES ASSUME p < q PROVE FALSE
    OBVIOUS
  <2>1. p * k \in Int /\ p * k + k <= q * k
    BY <1>2, Larger
  <2>2. QED
    BY <2>1, <1>1, <1>2, <1>3
<1>5. ~(q < p)
  <2> SUFFICES ASSUME q < p PROVE FALSE
    OBVIOUS
  <2>1. p * k \in Int /\ q * k + k <= p * k
    BY <1>2, Larger
  <2>2. QED
    BY <2>1, <1>1, <1>2, <1>3
<1>6. p = q
  BY <1>2, <1>4, <1>5
<1>7. x % k = r
  BY <1>1, <1>2, <1>3, <1>6
<1>8. QED
  BY <1>6, <1>7 DEF x, p

\* Quotient and remainder as C++ takes them give back the parts a number is made
\* of, but below zero, where both count back from the next whole.
LEMMA CutOff ==
    ASSUME NEW k \in Nat \ {0}, NEW q \in Int, NEW r \in Nat, r < k
    PROVE  LET x == q * k + r
           IN  IF q < 0 /\ r > 0
               THEN CMod(x, k) = r - k /\ CDiv(x, k) = q + 1
               ELSE CMod(x, k) = r /\ CDiv(x, k) = q
<1> DEFINE x == q * k + r
<1>1. q * k \in Int /\ x \in Int
  OBVIOUS
<1>2. CASE q >= 0
  <2>1. q * k >= 0
    BY <1>2
  <2>2. x >= 0
    BY <2>1, <1>1
  <2>3. x \div k = q /\ x % k = r
    BY Divided
  <2> HIDE DEF x
  <2>4. CMod(x, k) = r /\ CDiv(x, k) = q
    BY <2>2, <2>3 DEF CMod, CDiv
  <2>5. QED
    BY <2>4, <1>2 DEF x
<1>3. CASE q < 0
  <2>1. q * k + k <= 0
    <3>1. q * k + k <= 0 * k /\ 0 * k = 0
      BY <1>3, Larger
    <3>2. QED
      BY <3>1
  <2>2. ~(x >= 0)
    BY <2>1, <1>1
  <2>3. CASE r = 0
    <3>1. -x = (-q) * k + 0
      BY <2>3
    <3>2. ((-q) * k + 0) \div k = -q /\ ((-q) * k + 0) % k = 0
      BY Divided
    <3>3. (-x) \div k = -q /\ (-x) % k = 0
      <4> HIDE DEF x
      <4> QED
        BY <3>1, <3>2
    <3> HIDE DEF x
    <3>4. CMod(x, k) = 0 /\ CDiv(x, k) = q
      BY <2>2, <3>3 DEF CMod, CDiv
    <3>5. QED
      BY <3>4, <2>3 DEF x
  <2>4. CASE r > 0
    <3> DEFINE p == -q - 1
               s == k - r
    <3>1. p \in Int /\ s \in Nat /\ s < k
      BY <2>4
    <3>2. -x = p * k + s
      OBVIOUS
    <3>3. (p * k + s) \div k = p /\ (p * k + s) % k = s
      <4> HIDE DEF p, s
      <4> QED
        BY <3>1, Divided
    <3>4. (-x) \div k = p /\ (-x) % k = s
      <4> HIDE DEF x, p, s
      <4> QED
        BY <3>2, <3>3
    <3> HIDE DEF x
    <3>5. CMod(x, k) = -s /\ CDiv(x, k) = -p
      BY <2>2, <3>4 DEF CMod, CDiv
    <3>6. QED
      BY <3>5, <1>3, <2>4 DEF x
  <2>5. QED
    BY <2>3, <2>4
<1>4. QED
  BY <1>2, <1>3

\* BreakTime on any date and at any second of the day.
LEMMA TimeFound ==
    ASSUME NEW y, NEW m, NEW d, IsDate(y, m, d), NEW second \in Nat, second < kSecondsPerDay
    PROVE  LET t == DayOff(y, m, d) * kSecondsPerDay + second
           IN  /\ t \in Int
               /\ BreakTime(t) = <<<<y, m, d>>, fileHMS(second)>>
               /\ fromUtcTime(BreakTime(t)) = t
<1> DEFINE off == kJulianDayOff_1970_01_01
           J == getJulianDayNumber(y, m, d)
           days == J - off
           t == days * kSecondsPerDay + second
<1>1. J \in Int /\ off \in Int
  BY NextJulian, OffIsNumber
<1>2. kSecondsPerDay = 86400
  BY DEF kSecondsPerDay
<1>3. DayOff(y, m, d) = days
  BY DEF DayOff
<1>4. getYearMonthDay(J) = <<y, m, d>>
  BY DateFound
<1>5. BreakTime(t) = <<<<y, m, d>>, fileHMS(second)>>
  <2> HIDE DEF J, off
  <2>1. days \in Int
    BY <1>1
  <2>2. IF days < 0 /\ second > 0
        THEN CMod(t, kSecondsPerDay) = second - kSecondsPerDay /\ CDiv(t, kSecondsPerDay) = days + 1
        ELSE CMod(t, kSecondsPerDay) = second /\ CDiv(t, kSecondsPerDay) = days
    <3>1. kSecondsPerDay \in Nat \ {0}
      BY <1>2
    <3> HIDE DEF days
    <3>2. QED
      BY <2>1, <3>1, CutOff
  <2>3. days + off = J /\ (days + 1) - 1 + off = J
    BY <1>1
  <2> HIDE DEF t, days
  <2>4. CASE days < 0 /\ second > 0
    <3>1. CMod(t, kSecondsPerDay) < 0 /\ CMod(t, kSecondsPerDay) + kSecondsPerDay = second
      BY <2>2, <2>4, <1>2
    <3>2. CDiv(t, kSecondsPerDay) - 1 + off = J
      BY <2>2, <2>3, <2>4
    <3>3. BreakTime(t) = <<getYearMonthDay(CDiv(t, kSecondsPerDay) - 1 + off),
                           fileHMS(CMod(t, kSecondsPerDay) + kSecondsPerDay)>>
      BY <3>1 DEF BreakTime, off
    <3>4. QED
      BY <3>1, <3>2, <3>3, <1>4
  <2>5. CASE ~(days < 0 /\ second > 0)
    <3>1. CMod(t, kSecondsPerDay) = second /\ ~(second < 0) /\ CDiv(t, kSecondsPerDay) + off = J
      BY <2>2, <2>3, <2>5
    <3>2. BreakTime(t) = <<getYearMonthDay(CDiv(t, kSecondsPerDay) + off),
                           fileHMS(CMod(t, kSecondsPerDay))>>
      BY <3>1 DEF BreakTime, off
    <3>3. QED
      BY <3>1, <3>2, <1>4
  <2>6. QED
    BY <2>4, <2>5
<1>6. fromUtcTime(<<<<y, m, d>>, fileHMS(second)>>) = t
  <2>1. fileHMS(second)[1] * 3600 + fileHMS(second)[2] * 60 + fileHMS(second)[3] = second
    BY HMSAdds
  <2> DEFINE date == <<y, m, d>>
             hms == fileHMS(second)
             both == <<date, hms>>
  <2>2. date[1] = y /\ date[2] = m /\ date[3] = d /\ both[1] = date /\ both[2] = hms
    OBVIOUS
  <2> HIDE DEF hms
  <2>3. fromUtcTime(both) = days * kSecondsPerDay + (hms[1] * 3600 + hms[2] * 60 + hms[3])
    BY <2>2 DEF fromUtcTime
  <2>4. QED
    BY <2>1, <2>3 DEF hms
<1>7. t \in Int
  <2> HIDE DEF J, off
  <2> QED
    BY <1>1, <1>2
<1>8. QED
  BY <1>3, <1>5, <1>6, <1>7

\* BreakTime and fromUtcTime are inverse to each other in every year the walk
\* comes to, at every time of day.
THEOREM TimesInvertHolds ==
    ASSUME StartsRight
    PROVE  CalendarSpec => []TimesInvert
<1>1. WalkInv => TimesInvert
  <2> SUFFICES ASSUME WalkInv, NEW second \in Seconds
               PROVE  LET t == (julianDay - kJulianDayOff_1970_01_01) * kSecondsPerDay + second
                      IN  /\ BreakTime(t) = <<<<year, month, day>>, fileHMS(second)>>
                          /\ fromUtcTime(BreakTime(t)) = t
    BY DEF TimesInvert
  <2>1. IsDate(year, month, day) /\ julianDay = getJulianDayNumber(year, month, day)
    BY DEF WalkInv
  <2>2. DayOff(year, month, day) = julianDay - kJulianDayOff_1970_01_01
    BY <2>1 DEF DayOff
  <2>3. second \in Nat /\ second < kSecondsPerDay
    BY CalendarAssumption DEF kSecondsPerDay
  <2>4. QED
    BY <2>1, <2>2, <2>3, TimeFound
<1>2. QED
  BY <1>1, WalkInvHolds, PTL

\* The day after a date is a date.
LEMMA NextDate ==
    ASSUME NEW y, NEW m, NEW d, IsDate(y, m, d)
    PROVE  \E y2, m2, d2 : IsDate(y2, m2, d2) /\ DayOff(y2, m2, d2) = DayOff(y, m, d) + 1
<1> DEFINE J == getJulianDayNumber(y, m, d)
<1>1. y \in Nat /\ m \in 1 .. 12 /\ d \in Nat /\ d <= DaysOfMonth(y, m)
  BY DEF IsDate
<1>2. DaysOfMonth(y, m) \in Int
  BY <1>1, MonthLength
<1>3. J \in Int /\ kJulianDayOff_1970_01_01 \in Int
  BY NextJulian, OffIsNumber
<1>4. ASSUME NEW y2, NEW m2, NEW d2, IsDate(y2, m2, d2), getJulianDayNumber(y2, m2, d2) = J + 1
      PROVE  \E y3, m3, d3 : IsDate(y3, m3, d3) /\ DayOff(y3, m3, d3) = DayOff(y, m, d) + 1
  <2>1. DayOff(y2, m2, d2) = (J + 1) - kJulianDayOff_1970_01_01
    BY <1>4 DEF DayOff
  <2>2. DayOff(y, m, d) = J - kJulianDayOff_1970_01_01
    BY DEF DayOff
  <2> HIDE DEF J
  <2>3. DayOff(y2, m2, d2) = DayOff(y, m, d) + 1
    BY <2>1, <2>2, <1>3
  <2>4. QED
    BY <2>3, <1>4
<1>5. CASE d < DaysOfMonth(y, m)
  BY <1>5, <1>4, NextJulian
<1>6. CASE d = DaysOfMonth(y, m) /\ m < 12
  BY <1>6, <1>4, NextJulian
<1>7. CASE d = DaysOfMonth(y, m) /\ m = 12
  BY <1>7, <1>4, NextJulian
<1>8. QED
  BY <1>1, <1>2, <1>5, <1>6, <1>7

\* An instant of the walk, or the second after it, is broken into a date and a
\* time of day that lead back to it.
LEMMA SecondsInvert ==
    ASSUME NEW y, NEW m, NEW d, IsDate(y, m, d), NEW second \in Nat, second < kSecondsPerDay,
           NEW t, t = DayOff(y, m, d) * kSecondsPerDay + second
    PROVE  t \in Int /\ fromUtcTime(BreakTime(t)) = t /\ fromUtcTime(BreakTime(t + 1)) = t + 1
<1>1. kSecondsPerDay = 86400
  BY DEF kSecondsPerDay
<1>2. DayOff(y, m, d) \in Int
  BY NextJulian, OffIsNumber DEF DayOff
<1>3. t \in Int /\ fromUtcTime(BreakTime(t)) = t
  BY TimeFound
<1>4. CASE second + 1 < kSecondsPerDay
  <2>1. t + 1 = DayOff(y, m, d) * kSecondsPerDay + (second + 1) /\ second + 1 \in Nat
    BY <1>1, <1>2
  <2>2. fromUtcTime(BreakTime(DayOff(y, m, d) * kSecondsPerDay + (second + 1))) =
            DayOff(y, m, d) * kSecondsPerDay + (second + 1)
    BY <2>1, <1>4, TimeFound
  <2>3. QED
    BY <2>1, <2>2, <1>3
<1>5. CASE second + 1 = kSecondsPerDay
  <2>1. PICK y2, m2, d2 : IsDate(y2, m2, d2) /\ DayOff(y2, m2, d2) = DayOff(y, m, d) + 1
    BY NextDate
  <2>2. t + 1 = DayOff(y2, m2, d2) * kSecondsPerDay + 0
    BY <2>1, <1>1, <1>2, <1>5
  <2>3. 0 \in Nat /\ 0 < kSecondsPerDay
    BY <1>1
  <2>4. fromUtcTime(BreakTime(DayOff(y2, m2, d2) * kSecondsPerDay + 0)) =
            DayOff(y2, m2, d2) * kSecondsPerDay + 0
    BY <2>1, <2>3, TimeFound
  <2>5. QED
    BY <2>2, <2>4, <1>3
<1>6. QED
  BY <1>1, <1>4, <1>5

\* The seconds and the microseconds that a timestamp prints.
LEMMA StampParts ==
    ASSUME NEW t \in Int, NEW micro \in Nat, micro < kMicroSecondsPerSecond, NEW stamp,
           stamp = fromUnixTime(t, micro)
    PROVE  /\ IF t < 0 /\ micro > 0
              THEN fraction(stamp) = micro - kMicroSecondsPerSecond /\ secondsSinceEpoch(stamp) = t + 1
              ELSE fraction(stamp) = micro /\ secondsSinceEpoch(stamp) = t
           /\ fromUnixTime(secondsSinceEpoch(stamp), fraction(stamp)) = stamp
<1> DEFINE k == kMicroSecondsPerSecond
<1>1. k \in Nat \ {0} /\ t * k \in Int /\ (t + 1) * k = t * k + k
  BY TimestampAssumption
<1>2. stamp = t * k + micro
  BY DEF fromUnixTime
<1>3. IF t < 0 /\ micro > 0
      THEN CMod(stamp, k) = micro - k /\ CDiv(stamp, k) = t + 1
      ELSE CMod(stamp, k) = micro /\ CDiv(stamp, k) = t
  <2> HIDE DEF k
  <2>1. micro < k
    BY DEF k
  <2>2. QED
    BY <2>1, <1>1, <1>2, CutOff
<1>4. CDiv(stamp, k) * k + CMod(stamp, k) = stamp
  <2> HIDE DEF k
  <2>1. CASE t < 0 /\ micro > 0
    <3>1. CDiv(stamp, k) * k = t * k + k /\ CMod(stamp, k) = micro - k
      BY <2>1, <1>1, <1>3
    <3>2. QED
      BY <3>1, <1>1, <1>2
  <2>2. CASE ~(t < 0 /\ micro > 0)
    <3>1. CDiv(stamp, k) * k = t * k /\ CMod(stamp, k) = micro
      BY <2>2, <1>3
    <3>2. QED
      BY <3>1, <1>2
  <2>3. QED
    BY <2>1, <2>2
<1>5. QED
  BY <1>3, <1>4 DEF fraction, secondsSinceEpoch, fromUnixTime

\* The numbers a timestamp prints are the timestamp, in every year the walk comes
\* to, with seconds of any number of microseconds.
THEOREM TextReadsBackHolds ==
    ASSUME StartsRight
    PROVE  CalendarSpec => []TextReadsBack
<1>1. WalkInv => TextReadsBack
  <2> DEFINE days == julianDay - kJulianDayOff_1970_01_01
  <2> SUFFICES ASSUME WalkInv, NEW second \in Seconds,
                      NEW micro \in 0 .. kMicroSecondsPerSecond - 1, NEW t, NEW stamp,
                      t = days * kSecondsPerDay + second, stamp = fromUnixTime(t, micro)
               PROVE  LET text == toFormattedString(stamp)
                      IN  /\ fromUnixTime(toString(stamp)[1], toString(stamp)[2]) = stamp
                          /\ fromUnixTime(fromUtcTime(text[1]), text[2]) = stamp
                          /\ days >= 0 => text = <<<<<<year, month, day>>, fileHMS(second)>>, micro>>
    BY DEF TextReadsBack
  <2>1. IsDate(year, month, day) /\ julianDay = getJulianDayNumber(year, month, day)
    BY DEF WalkInv
  <2>2. DayOff(year, month, day) = days
    BY <2>1 DEF DayOff
  <2>3. second \in Nat /\ second < kSecondsPerDay
    BY CalendarAssumption DEF kSecondsPerDay
  <2>4. t = DayOff(year, month, day) * kSecondsPerDay + second
    BY <2>2
  <2>5. t \in Int /\ fromUtcTime(BreakTime(t)) = t /\ fromUtcTime(BreakTime(t + 1)) = t + 1
    BY <2>1, <2>3, <2>4, SecondsInvert
  <2>6. BreakTime(t) = <<<<year, month, day>>, fileHMS(second)>>
    BY <2>1, <2>3, <2>4, TimeFound
  <2>7. micro \in Nat /\ micro < kMicroSecondsPerSecond
    BY TimestampAssumption
  <2> DEFINE s == secondsSinceEpoch(stamp)
             f == fraction(stamp)
  <2>8. /\ IF t < 0 /\ micro > 0 THEN s = t + 1 ELSE f = micro /\ s = t
        /\ fromUnixTime(s, f) = stamp
    BY <2>5, <2>7, StampParts
  <2>9. toString(stamp) = <<s, f>> /\ toFormattedString(stamp) = <<BreakTime(s), f>>
    BY DEF toString, toFormattedString
  <2>10. days >= 0 => t >= 0
    <3>1. days \in Int
      BY <2>1, NextJulian, OffIsNumber
    <3> HIDE DEF days
    <3>2. QED
      BY <3>1, <2>3 DEF kSecondsPerDay
  <2> HIDE DEF days, s, f
  <2>11. fromUtcTime(BreakTime(s)) = s
    BY <2>5, <2>8
  <2>12. days >= 0 => s = t /\ f = micro
    BY <2>5, <2>8, <2>10
  <2>13. QED
    BY <2>6, <2>8, <2>9, <2>11, <2>12
<1>2. QED
  BY <1>1, WalkInvHolds, PTL

-----------------------------------------------------------------------------
(* Differences and sums of timestamps, through doubles.                      *)

PowersTo(p, n) == p = [k \in 0 .. n |-> IF k = 0 THEN 1 ELSE 2 * p[k - 1]]

LEMMA PowersToEach ==
    ASSUME NEW p, NEW n \in Nat, PowersTo(p, n)
    PROVE  \A k \in 0 .. n : p[k] = IF k = 0 THEN 1 ELSE 2 * p[k - 1]
<1> DEFINE P == [k \in 0 .. n |-> IF k = 0 THEN 1 ELSE 2 * p[k - 1]]
<1>1. p = P
  BY DEF PowersTo
<1>2. \A k \in 0 .. n : P[k] = IF k = 0 THEN 1 ELSE 2 * p[k - 1]
  OBVIOUS
<1> HIDE DEF P
<1>3. \A k \in 0 .. n : p[k] = P[k]
  BY <1>1
<1>4. QED
  BY <1>2, <1>3

\* There is such a function: the first n without one would have one made of the
\* function for n - 1.
LEMMA PowersToExist ==
    ASSUME NEW n \in Nat
    PROVE  \E p : PowersTo(p, n)
<1> DEFINE N == {k \in Nat : ~ \E p : PowersTo(p, k)}
<1> SUFFICES ASSUME N # {} PROVE FALSE
  OBVIOUS
<1>1. PICK m \in N : \A j \in N : m <= j
  <2> HIDE DEF N
  <2>1. N \in SUBSET Nat
    BY DEF N
  <2> QED
    BY LeastNumber, <2>1
<1>2. m # 0
  <2> DEFINE P == [k \in 0 .. 0 |-> 1]
  <2>1. P = [k \in 0 .. 0 |-> IF k = 0 THEN 1 ELSE 2 * P[k - 1]]
    OBVIOUS
  <2> HIDE DEF P
  <2>2. PowersTo(P, 0)
    BY <2>1 DEF PowersTo
  <2>3. QED
    BY <2>2
<1>3. m - 1 \in Nat /\ m - 1 \notin N /\ m \in Nat \ {0}
  BY <1>1, <1>2
<1>4. PICK p : PowersTo(p, m - 1)
  BY <1>3
<1>5. \A k \in 0 .. m - 1 : p[k] = IF k = 0 THEN 1 ELSE 2 * p[k - 1]
  BY <1>3, <1>4, PowersToEach
<1> DEFINE h == [k \in 0 .. m |-> IF k = 0 THEN 1 ELSE 2 * p[k - 1]]
<1>6. h = [k \in 0 .. m |-> h[k]] /\ \A k \in 0 .. m : h[k] = IF k = 0 THEN 1 ELSE 2 * p[k - 1]
  OBVIOUS
<1> HIDE DEF h
<1>7. \A k \in 0 .. m - 1 : h[k] = p[k]
  BY <1>3, <1>5, <1>6
<1>8. \A k \in 0 .. m : h[k] = IF k = 0 THEN 1 ELSE 2 * h[k - 1]
  <2> TAKE k \in 0 .. m
  <2>1. k # 0 => k - 1 \in 0 .. m - 1
    BY <1>3
  <2>2. QED
    BY <2>1, <1>6, <1>7
<1>9. PowersTo(h, m)
  BY <1>6, <1>8 DEF PowersTo
<1>10. QED
  BY <1>9

\* What Two holds.
LEMMA PowersOfTwo ==
    /\ \A k \in 0 .. 2 * Mantissa : Two[k] \in Nat \ {0}
    /\ Two[0] = 1
    /\ \A k \in 1 .. 2 * Mantissa : Two[k] = 2 * Two[k - 1]
<1> DEFINE M == 2 * Mantissa
           p == Two
<1>1. M \in Nat
  BY TimestampAssumption
<1>2. p = CHOOSE f : PowersTo(f, M)
  BY DEF Two, PowersTo
<1>3. PowersTo(p, M)
  BY <1>1, <1>2, PowersToExist
<1> HIDE DEF p, M
<1>4. \A k \in 0 .. M : p[k] = IF k = 0 THEN 1 ELSE 2 * p[k - 1]
  BY <1>1, <1>3, PowersToEach
<1> DEFINE N == {k \in 0 .. M : p[k] \notin Nat \ {0}}
<1>5. N = {}
  <2> SUFFICES ASSUME N # {} PROVE FALSE
    OBVIOUS
  <2>1. PICK k \in N : \A j \in N : k <= j
    <3> HIDE DEF N
    <3>1. N \in SUBSET Nat
      BY DEF N
    <3> QED
      BY LeastNumber, <3>1
  <2>2. k \in 0 .. M /\ p[k] \notin Nat \ {0}
    OBVIOUS
  <2>3. k # 0
    BY <1>1, <1>4, <2>2
  <2>4. k - 1 \in 0 .. M /\ k - 1 \notin N
    BY <1>1, <2>1, <2>2, <2>3
  <2>5. p[k - 1] \in Nat \ {0}
    BY <2>4
  <2>6. QED
    BY <1>4, <2>2, <2>3, <2>5
<1>6. QED
  BY <1>1, <1>4, <1>5 DEF p, M

\* The square of the one power is the other.
LEMMA PowersMultiply == Two[2 * Mantissa] = Two[Mantissa] * Two[Mantissa]
<1> DEFINE P == Mantissa
           N == {k \in 0 .. P : Two[k + P] # Two[k] * Two[P]}
<1>1. P \in Nat
  BY TimestampAssumption
<1> HIDE DEF P
<1>2. /\ \A k \in 0 .. 2 * P : Two[k] \in Nat \ {0}
      /\ Two[0] = 1
      /\ \A k \in 1 .. 2 * P : Two[k] = 2 * Two[k - 1]
  BY PowersOfTwo DEF P
<1>3. N = {}
  <2> SUFFICES ASSUME N # {} PROVE FALSE
    OBVIOUS
  <2>1. PICK k \in N : \A j \in N : k <= j
    <3> HIDE DEF N
    <3>1. N \in SUBSET Nat
      BY DEF N
    <3> QED
      BY LeastNumber, <3>1
  <2>2. k \in 0 .. P /\ Two[k + P] # Two[k] * Two[P]
    OBVIOUS
  <2>3. k # 0
    <3>1. P \in 0 .. 2 * P /\ 0 + P = P
      BY <1>1
    <3>2. Two[0 + P] = Two[0] * Two[P]
      BY <3>1, <1>2
    <3>3. QED
      BY <3>2, <2>2
  <2>4. k - 1 \in 0 .. P /\ k - 1 \notin N
    BY <1>1, <2>1, <2>2, <2>3
  <2>5. Two[(k - 1) + P] = Two[k - 1] * Two[P]
    BY <2>4
  <2>6. k + P \in 1 .. 2 * P /\ (k + P) - 1 = (k - 1) + P /\ k \in 1 .. 2 * P
        /\ k - 1 \in 0 .. 2 * P /\ P \in 0 .. 2 * P
    BY <1>1, <2>2, <2>3
  <2>7. Two[k + P] = 2 * Two[(k - 1) + P] /\ Two[k] = 2 * Two[k - 1]
        /\ Two[k - 1] \in Nat /\ Two[P] \in Nat
    BY <2>6, <1>2
  <2>8. 2 * (Two[k - 1] * Two[P]) = (2 * Two[k - 1]) * Two[P]
    BY <2>7
  <2>9. QED
    BY <2>2, <2>5, <2>7, <2>8
<1>4. P \in 0 .. P /\ P + P = 2 * P
  BY <1>1
<1>5. QED
  BY <1>3, <1>4 DEF P

\* A number is its quotient and its remainder put together.
LEMMA QuotientIs ==
    ASSUME NEW a \in Nat, NEW b \in Nat \ {0}
    PROVE  a \div b \in Nat /\ a % b \in Nat /\ a % b < b /\ a = b * (a \div b) + (a % b)
  OBVIOUS

\* What is rounded to an integer is no further from it than a half.
LEMMA NearestIs ==
    ASSUME NEW a \in Nat, NEW b \in Nat \ {0}
    PROVE  /\ Nearest(a, b) \in Nat
           /\ 2 * (b * Nearest(a, b)) <= 2 * a + b
           /\ 2 * a <= 2 * (b * Nearest(a, b)) + b
<1> DEFINE q == a \div b
           s == a % b
<1>1. q \in Nat /\ s \in Nat /\ s < b /\ a = b * q + s
  BY QuotientIs
<1> HIDE DEF q, s
<1>2. Nearest(a, b) = IF 2 * s < b \/ (2 * s = b /\ q % 2 = 0) THEN q ELSE q + 1
  BY DEF Nearest, q, s
<1>3. b * (q + 1) = b * q + b /\ b * q \in Nat
  BY <1>1
<1>4. CASE Nearest(a, b) = q /\ 2 * s <= b
  BY <1>1, <1>3, <1>4
<1>5. CASE Nearest(a, b) = q + 1 /\ 2 * s >= b
  <2>1. b * Nearest(a, b) = b * q + b
    BY <1>3, <1>5
  <2>2. QED
    BY <2>1, <1>1, <1>3, <1>5
<1>6. QED
  BY <1>1, <1>2, <1>4, <1>5

\* The powers that are needed, by names of their own.
LEMMA SomePowers ==
    /\ Mantissa \in Nat \ {0}
    /\ Two[Mantissa - 1] \in Nat \ {0} /\ Two[Mantissa] = 2 * Two[Mantissa - 1]
    /\ Two[2 * Mantissa] = Two[Mantissa] * Two[Mantissa]
    /\ Two[2 * Mantissa] \in Nat \ {0}
<1>1. Mantissa \in Nat /\ Mantissa # 0
  BY TimestampAssumption, PowersOfTwo
<1>2. Mantissa - 1 \in 0 .. 2 * Mantissa /\ Mantissa \in 1 .. 2 * Mantissa
      /\ 2 * Mantissa \in 0 .. 2 * Mantissa
  BY <1>1
<1>3. QED
  BY <1>1, <1>2, PowersOfTwo, PowersMultiply

\* A fraction that is less than the mantissa's highest bit, and not too small, is
\* rounded to a fraction of a power of two, with an error of half a unit at most.
LEMMA RoundIs ==
    ASSUME NEW a \in Nat \ {0}, NEW b \in Nat \ {0},
           a < b * Two[Mantissa - 1], b * Two[Mantissa - 1] <= a * Two[2 * Mantissa]
    PROVE  \E k \in 1 .. 2 * Mantissa : \E m \in Nat :
               /\ RoundPositive(a, b) = <<m, Two[k]>>
               /\ b * Two[Mantissa - 1] <= a * Two[k]
               /\ 2 * (b * m) <= 2 * (a * Two[k]) + b
               /\ 2 * (a * Two[k]) <= 2 * (b * m) + b
<1> DEFINE P == Mantissa
           H == Two[P - 1]
           F == Two[P]
           N == {k \in 0 .. 2 * P : b * H <= a * Two[k]}
           Scaled(e) == IF e < 0 THEN <<a * Two[-e], b>> ELSE <<a, b * Two[e]>>
           Fits(e) == Scaled(e)[1] \div Scaled(e)[2] \in H .. F - 1
           exponent == CHOOSE e \in -2 * P .. P : Fits(e)
           mantissa == Nearest(Scaled(exponent)[1], Scaled(exponent)[2])
<1>1. P \in Nat \ {0} /\ H \in Nat \ {0} /\ F = 2 * H
  BY SomePowers
<1>2. /\ \A k \in 0 .. 2 * P : Two[k] \in Nat \ {0}
      /\ Two[0] = 1
      /\ \A k \in 1 .. 2 * P : Two[k] = 2 * Two[k - 1]
  BY PowersOfTwo
<1>3. RoundPositive(a, b) = IF exponent < 0 THEN <<mantissa, Two[-exponent]>>
                            ELSE <<mantissa * Two[exponent], 1>>
  BY DEF RoundPositive
<1> HIDE DEF P, H, F
<1>4. a < b * H /\ b * H <= a * Two[2 * P]
  BY DEF P, H
<1>5. 2 * P \in N
  BY <1>1, <1>4
<1>6. PICK k \in N : \A j \in N : k <= j
  <2> HIDE DEF N
  <2>1. N \in SUBSET Nat
    BY DEF N
  <2> QED
    BY LeastNumber, <1>5, <2>1
<1>7. k \in 1 .. 2 * P /\ b * H <= a * Two[k] /\ a * Two[k - 1] < b * H
  <2>1. k \in 0 .. 2 * P /\ b * H <= a * Two[k]
    OBVIOUS
  <2>2. k # 0
    <3> SUFFICES ASSUME k = 0 PROVE FALSE
      OBVIOUS
    <3>1. a * Two[k] = a
      BY <1>2
    <3>2. b * H \in Nat
      BY <1>1
    <3>3. QED
      BY <3>1, <3>2, <2>1, <1>4
  <2>3. k - 1 \in 0 .. 2 * P /\ k - 1 \notin N
    BY <1>1, <1>6, <2>1, <2>2
  <2>4. a * Two[k - 1] \in Nat /\ b * H \in Nat
    BY <1>1, <1>2, <2>3
  <2>5. QED
    BY <1>1, <2>1, <2>2, <2>3, <2>4
<1>8. -k \in -2 * P .. P /\ Fits(-k)
  <2>1. -k < 0 /\ -(-k) = k /\ -k \in -2 * P .. P
    BY <1>1, <1>7
  <2>2. Scaled(-k) = <<a * Two[k], b>>
    BY <2>1
  <2> DEFINE c == a * Two[k]
             q == c \div b
  <2>3. c \in Nat /\ c < b * F /\ b * H <= c
    <3>1. Two[k] = 2 * Two[k - 1] /\ Two[k - 1] \in Nat
      BY <1>1, <1>2, <1>7
    <3>2. c = 2 * (a * Two[k - 1]) /\ b * F = 2 * (b * H)
      BY <3>1, <1>1
    <3>3. a * Two[k - 1] \in Nat /\ b * H \in Nat
      BY <3>1, <1>1
    <3>4. QED
      BY <3>2, <3>3, <1>7
  <2> HIDE DEF c
  <2>4. q \in Nat /\ c % b \in Nat /\ c % b < b /\ c = b * q + (c % b)
    BY <2>3, QuotientIs
  <2> HIDE DEF q
  <2>5. q < F
    <3> SUFFICES ASSUME F <= q PROVE FALSE
      BY <1>1, <2>4
    <3>1. b * F <= b * q
      BY <1>1, <2>4
    <3>2. b * q \in Nat /\ b * F \in Nat
      BY <1>1, <2>4
    <3>3. QED
      BY <3>1, <3>2, <2>3, <2>4
  <2>6. H <= q
    <3> SUFFICES ASSUME q + 1 <= H PROVE FALSE
      BY <1>1, <2>4
    <3>1. b * (q + 1) <= b * H /\ b * (q + 1) = b * q + b
      BY <1>1, <2>4
    <3>2. b * q \in Nat /\ b * H \in Nat
      BY <1>1, <2>4
    <3>3. QED
      BY <3>1, <3>2, <2>3, <2>4
  <2>7. q \in H .. F - 1
    BY <1>1, <2>4, <2>5, <2>6
  <2>8. Scaled(-k)[1] \div Scaled(-k)[2] = q
    BY <2>2 DEF q, c
  <2>9. QED
    BY <2>1, <2>7, <2>8
<1> HIDE DEF Fits
<1>9. exponent \in -2 * P .. P /\ Fits(exponent)
  BY <1>8
<1> HIDE DEF exponent
<1>10. exponent < 0
  <2> SUFFICES ASSUME exponent >= 0 PROVE FALSE
    BY <1>9
  <2> DEFINE B == b * Two[exponent]
  <2>1. exponent \in 0 .. 2 * P
    BY <1>1, <1>9
  <2>2. Two[exponent] \in Nat \ {0} /\ B \in Nat \ {0} /\ b <= B
    BY <2>1, <1>2
  <2>3. Scaled(exponent) = <<a, B>>
    BY <2>1
  <2> HIDE DEF B
  <2> DEFINE q == a \div B
  <2>4. H <= q
    BY <2>3, <1>9 DEF Fits
  <2>5. q \in Nat /\ a % B \in Nat /\ a = B * q + (a % B)
    BY <2>2, QuotientIs
  <2> HIDE DEF q
  <2>6. b * H <= B * H /\ B * H <= B * q
    BY <1>1, <2>2, <2>4, <2>5
  <2>7. b * H \in Nat /\ B * H \in Nat /\ B * q \in Nat
    BY <1>1, <2>2, <2>5
  <2>8. QED
    BY <2>5, <2>6, <2>7, <1>4
<1> DEFINE j == -exponent
           c == a * Two[j]
<1>11. j \in 1 .. 2 * P /\ Two[j] \in Nat /\ c \in Nat
  <2>1. j \in 1 .. 2 * P
    BY <1>1, <1>9, <1>10
  <2>2. QED
    BY <2>1, <1>2
<1>12. Scaled(exponent) = <<c, b>>
  BY <1>10
<1> DEFINE m == Nearest(c, b)
<1>13. RoundPositive(a, b) = <<m, Two[j]>>
  BY <1>3, <1>10, <1>12
<1>14. b * H <= c
  <2> HIDE DEF c
  <2> DEFINE q == c \div b
  <2>1. q \in Nat /\ c % b \in Nat /\ c = b * q + (c % b)
    BY <1>11, QuotientIs
  <2>2. H <= q
    BY <1>9, <1>12 DEF Fits
  <2> HIDE DEF q
  <2>3. b * H <= b * q /\ b * q \in Nat /\ b * H \in Nat
    BY <1>1, <2>1, <2>2
  <2>4. QED
    BY <2>1, <2>3, <1>11
<1>15. /\ m \in Nat
       /\ 2 * (b * m) <= 2 * c + b
       /\ 2 * c <= 2 * (b * m) + b
  BY <1>11, NearestIs
<1> HIDE DEF m, j, exponent
<1>16. QED
  BY <1>11, <1>13, <1>14, <1>15 DEF P, H

\* The seconds between two timestamps, and those times the microseconds of one.
LEMMA RoundTrip ==
    ASSUME NEW x \in Nat \ {0}, x <= 2 * MaxMicros
    PROVE  LET d == RoundPositive(x, kMicroSecondsPerSecond)
               product == RoundPositive(d[1] * kMicroSecondsPerSecond, d[2])
           IN  /\ d[1] \in Nat /\ d[1] * kMicroSecondsPerSecond \in Nat \ {0}
               /\ product[1] \in Nat /\ product[2] \in Nat \ {0}
               /\ product[1] \div product[2] \in {x - 1, x}
<1> DEFINE K == kMicroSecondsPerSecond
           P == Mantissa
           H == Two[P - 1]
           G == Two[2 * P]
           d == RoundPositive(x, K)
           product == RoundPositive(d[1] * K, d[2])
<1>1. P \in Nat \ {0} /\ H \in Nat \ {0} /\ G = (2 * H) * (2 * H) /\ G \in Nat \ {0}
  BY SomePowers
<1>2. K \in Nat \ {0} /\ K >= 2 /\ K <= 2 * H /\ x < H
  BY TimestampAssumption, SomePowers
<1>3. \A k \in 1 .. 2 * P : /\ Two[k] \in Nat \ {0}
                            /\ Two[k] = 2 * Two[k - 1]
                            /\ Two[k - 1] \in Nat \ {0}
  <2> TAKE k \in 1 .. 2 * P
  <2>1. k \in 0 .. 2 * P /\ k - 1 \in 0 .. 2 * P
    BY <1>1
  <2>2. QED
    BY <2>1, PowersOfTwo
<1> HIDE DEF K, P, H, G, d, product
<1>4. x < K * H
  <2>1. H <= K * H /\ K * H \in Nat
    BY <1>1, <1>2
  <2>2. QED
    BY <2>1, <1>1, <1>2
<1>5. K * H <= x * G
  <2>1. K * H <= (2 * H) * H
    BY <1>1, <1>2
  <2>2. (2 * H) * H <= (2 * H) * (2 * H)
    BY <1>1
  <2>3. G <= x * G /\ x * G \in Nat
    BY <1>1
  <2>4. (2 * H) * H \in Nat /\ K * H \in Nat
    BY <1>1, <1>2
  <2>5. QED
    BY <2>1, <2>2, <2>3, <2>4, <1>1
\* The difference is m / B.
<1>6. PICK k \in 1 .. 2 * P : \E m \in Nat :
        /\ d = <<m, Two[k]>>
        /\ K * H <= x * Two[k]
        /\ 2 * (K * m) <= 2 * (x * Two[k]) + K
        /\ 2 * (x * Two[k]) <= 2 * (K * m) + K
  BY <1>1, <1>2, <1>4, <1>5, RoundIs DEF P, H, G, d
<1> DEFINE B == Two[k]
<1>7. PICK m \in Nat : /\ d = <<m, B>>
                       /\ K * H <= x * B
                       /\ 2 * (K * m) <= 2 * (x * B) + K
                       /\ 2 * (x * B) <= 2 * (K * m) + K
  BY <1>6
<1>8. B \in Nat \ {0}
  BY <1>3
<1> HIDE DEF B
<1> DEFINE a == m * K
<1>9. K < B
  <2> SUFFICES ASSUME B <= K PROVE FALSE
    BY <1>2, <1>8
  <2>1. x * B <= (H - 1) * B /\ (H - 1) * B < H * B /\ H * B <= H * K
    BY <1>1, <1>2, <1>8
  <2>2. K * H = H * K /\ H * K \in Nat /\ x * B \in Nat /\ (H - 1) * B \in Nat /\ H * B \in Nat
    BY <1>1, <1>2, <1>8
  <2>3. QED
    BY <2>1, <2>2, <1>7
<1>10. a \in Nat /\ a = K * m /\ x * B \in Nat
  BY <1>2, <1>7, <1>8
<1>11. 2 * a < 2 * (x * B) + B /\ 2 * (x * B) < 2 * a + B
  BY <1>2, <1>7, <1>8, <1>9, <1>10
<1> HIDE DEF a
<1>12. B <= x * B
  BY <1>8
<1>13. a # 0 /\ B < 2 * a
  BY <1>8, <1>10, <1>11, <1>12
<1>14. a < B * H
  <2>1. (x + 1) * B <= H * B
    BY <1>1, <1>2, <1>8
  <2>2. (x + 1) * B = x * B + B /\ H * B = B * H /\ B * H \in Nat
    BY <1>1, <1>8
  <2>3. QED
    BY <2>1, <2>2, <1>8, <1>10, <1>11
<1>15. B * H <= a * G
  <2>1. B * H <= (2 * a) * H
    BY <1>1, <1>8, <1>10, <1>13
  <2>2. (2 * a) * H = a * (2 * H)
    BY <1>1, <1>10
  <2>3. 2 * H <= G
    BY <1>1
  <2>4. a * (2 * H) <= a * G
    BY <2>3, <1>1, <1>10
  <2>5. B * H \in Nat /\ a * (2 * H) \in Nat /\ a * G \in Nat
    BY <1>1, <1>8, <1>10
  <2>6. QED
    BY <2>1, <2>2, <2>4, <2>5
\* Their product is n / C.
<1>16. PICK l \in 1 .. 2 * P : \E n \in Nat :
        /\ RoundPositive(a, B) = <<n, Two[l]>>
        /\ 2 * (B * n) <= 2 * (a * Two[l]) + B
        /\ 2 * (a * Two[l]) <= 2 * (B * n) + B
  BY <1>1, <1>8, <1>10, <1>13, <1>14, <1>15, RoundIs DEF P, H, G
<1> DEFINE C == Two[l]
<1>17. PICK n \in Nat : /\ RoundPositive(a, B) = <<n, C>>
                        /\ 2 * (B * n) <= 2 * (a * C) + B
                        /\ 2 * (a * C) <= 2 * (B * n) + B
  BY <1>16
<1>18. C \in Nat \ {0} /\ C >= 2
  BY <1>3
<1> HIDE DEF C
<1>19. product = <<n, C>> /\ d[1] \in Nat /\ d[1] * K = a
  BY <1>7, <1>17 DEF product, a
<1> DEFINE y == x * C
<1>20. 2 * n < 2 * y + C + 1
  <2>1. (2 * a) * C < (2 * (x * B) + B) * C
    BY <1>8, <1>10, <1>11, <1>18
  <2>2. (2 * a) * C = 2 * (a * C) /\ (2 * (x * B) + B) * C = B * (2 * y + C)
    BY <1>8, <1>10, <1>18
  <2>3. 2 * (B * n) = B * (2 * n) /\ B * (2 * y + C) + B = B * (2 * y + C + 1)
    BY <1>8, <1>17, <1>18
  <2>4. a * C \in Nat /\ B * (2 * n) \in Nat /\ B * (2 * y + C) \in Nat
    BY <1>8, <1>10, <1>17, <1>18
  <2>5. B * (2 * n) < B * (2 * y + C + 1)
    BY <2>1, <2>2, <2>3, <2>4, <1>8, <1>17
  <2>6. y \in Nat
    BY <1>18
  <2> HIDE DEF y
  <2>7. QED
    BY <2>5, <2>6, <1>8, <1>17, <1>18
<1>21. 2 * y < 2 * n + C + 1
  <2>1. (2 * (x * B)) * C < (2 * a + B) * C
    BY <1>8, <1>10, <1>11, <1>18
  <2>2. (2 * (x * B)) * C = B * (2 * y) /\ (2 * a + B) * C = 2 * (a * C) + B * C
    BY <1>8, <1>10, <1>18
  <2>3. 2 * (B * n) = B * (2 * n) /\ B * (2 * n) + B + B * C = B * (2 * n + C + 1)
    BY <1>8, <1>17, <1>18
  <2>4. a * C \in Nat /\ B * (2 * n) \in Nat /\ B * (2 * y) \in Nat /\ B * C \in Nat
    BY <1>8, <1>10, <1>17, <1>18
  <2>5. B * (2 * y) < B * (2 * n + C + 1)
    BY <2>1, <2>2, <2>3, <2>4, <1>8, <1>17
  <2>6. y \in Nat
    BY <1>18
  <2> HIDE DEF y
  <2>7. QED
    BY <2>5, <2>6, <1>8, <1>17, <1>18
<1>22. n \div C \in {x - 1, x}
  <2> DEFINE q == n \div C
  <2>1. q \in Nat /\ n % C \in Nat /\ n % C < C /\ n = C * q + (n % C)
    BY <1>18, QuotientIs
  <2> HIDE DEF q
  <2>2. y \in Nat /\ (x + 1) * C = y + C /\ (x - 1) * C = y - C
    BY <1>18
  <2> HIDE DEF y
  <2>3. n < y + C /\ y - C <= n
    BY <2>2, <1>17, <1>18, <1>20, <1>21
  <2>4. C * q \in Nat /\ C * q = q * C
    BY <2>1, <1>18
  <2>5. q < x + 1
    <3> SUFFICES ASSUME x + 1 <= q PROVE FALSE
      BY <2>1
    <3>1. (x + 1) * C <= q * C
      BY <2>1, <1>18
    <3>2. QED
      BY <3>1, <2>1, <2>2, <2>3, <2>4, <1>18
  <2>6. x - 1 <= q
    <3> SUFFICES ASSUME q + 1 <= x - 1 PROVE FALSE
      BY <2>1
    <3>1. (q + 1) * C <= (x - 1) * C /\ (q + 1) * C = q * C + C
      BY <2>1, <1>18
    <3>2. QED
      BY <3>1, <2>1, <2>2, <2>3, <2>4, <1>18
  <2>7. q \in {x - 1, x}
    BY <2>1, <2>5, <2>6
  <2>8. QED
    BY <2>7 DEF q
<1>23. QED
  BY <1>10, <1>13, <1>17, <1>18, <1>19, <1>22 DEF d, product, K

\* The cast of a double cuts off towards zero, on either side of it.
LEMMA CutsOff ==
    ASSUME NEW n \in Nat, NEW c \in Nat \ {0}
    PROVE  CDiv(n, c) = n \div c /\ CDiv(-n, c) = -(n \div c)
<1> DEFINE q == n \div c
<1>1. CASE n <= 0
  <2>1. q \in Nat /\ n % c \in Nat /\ n = c * q + (n % c)
    BY QuotientIs
  <2> HIDE DEF q
  <2>2. c * q \in Nat /\ (q > 0 => c * q >= c)
    BY <2>1
  <2>3. q <= 0
    BY <2>1, <2>2, <1>1
  <2>4. n = -n /\ n >= 0 /\ q = -q
    BY <2>1, <2>3, <1>1
  <2>5. QED
    BY <2>4 DEF CDiv, q
<1>2. CASE n > 0
  <2>1. ~(-n >= 0) /\ n >= 0 /\ -(-n) = n
    BY <1>2
  <2>2. QED
    BY <2>1 DEF CDiv
<1>3. QED
  BY <1>1, <1>2

\* timeDifference and addTime, for a later, an earlier and the same timestamp.
LEMMA SumOfDifference ==
    ASSUME NEW h \in -MaxMicros .. MaxMicros, NEW l \in -MaxMicros .. MaxMicros
    PROVE  LET again == addTime(l, timeDifference(h, l))
           IN  again = h \/ (again = h - 1 /\ h > l) \/ (again = h + 1 /\ h < l)
<1> DEFINE K == kMicroSecondsPerSecond
           again == addTime(l, timeDifference(h, l))
<1> SUFFICES again = h \/ (again = h - 1 /\ h > l) \/ (again = h + 1 /\ h < l)
  OBVIOUS
<1>1. K \in Nat \ {0} /\ MaxMicros \in Nat /\ h \in Int /\ l \in Int
  BY TimestampAssumption
<1>2. CASE h = l
  <2>1. h - l = 0 /\ 0 * K = 0
    BY <1>1, <1>2
  <2>2. timeDifference(h, l) = <<0, 1>>
    BY <2>1 DEF timeDifference, Round
  <2>3. again = l + CDiv(0, 1)
    BY <2>1, <2>2 DEF addTime, Round
  <2>4. CDiv(0, 1) = 0
    BY DEF CDiv
  <2>5. QED
    BY <2>3, <2>4, <1>1, <1>2
<1>3. CASE h > l
  <2> DEFINE x == h - l
             d == RoundPositive(x, K)
             a == d[1] * K
             product == RoundPositive(a, d[2])
  <2>1. x \in Nat \ {0} /\ x <= 2 * MaxMicros /\ x > 0
    BY <1>1, <1>3
  <2>2. timeDifference(h, l) = d
    BY <2>1 DEF timeDifference, Round
  <2> HIDE DEF x
  <2>3. /\ a \in Nat \ {0}
        /\ product[1] \in Nat /\ product[2] \in Nat \ {0}
        /\ product[1] \div product[2] \in {x - 1, x}
    BY <2>1, RoundTrip
  <2> HIDE DEF d
  <2>4. Round(a, d[2]) = product
    BY <2>3 DEF Round
  <2>5. again = l + CDiv(product[1], product[2])
    BY <2>2, <2>4 DEF addTime
  <2> HIDE DEF a, product
  <2>6. again = l + (product[1] \div product[2])
    BY <2>3, <2>5, CutsOff
  <2>7. again = l + x \/ again = l + (x - 1)
    BY <2>3, <2>6
  <2> HIDE DEF again
  <2>8. QED
    BY <2>7, <1>1, <1>3 DEF x
<1>4. CASE h < l
  <2> DEFINE x == l - h
             d == RoundPositive(x, K)
             a == d[1] * K
             product == RoundPositive(a, d[2])
  <2>1. x \in Nat \ {0} /\ x <= 2 * MaxMicros
        /\ h - l # 0 /\ ~(h - l > 0) /\ -(h - l) = x
    BY <1>1, <1>4
  <2>2. timeDifference(h, l) = <<-d[1], d[2]>>
    BY <2>1 DEF timeDifference, Round
  <2> HIDE DEF x
  <2>3. /\ a \in Nat \ {0}
        /\ product[1] \in Nat /\ product[2] \in Nat \ {0}
        /\ product[1] \div product[2] \in {x - 1, x}
    BY <2>1, RoundTrip
  <2> HIDE DEF d
  <2>4. d[1] \in Nat
    BY <2>1, RoundTrip DEF d
  <2>5. (-d[1]) * K = -a
    BY <2>4, <1>1
  <2> HIDE DEF a
  <2>6. -a # 0 /\ ~(-a > 0) /\ -(-a) = a
    BY <2>3
  <2>7. Round(-a, d[2]) = <<-product[1], product[2]>>
    BY <2>6 DEF Round
  <2>8. again = l + CDiv(-product[1], product[2])
    BY <2>2, <2>5, <2>7 DEF addTime
  <2> HIDE DEF product
  <2>9. again = l + (-(product[1] \div product[2]))
    BY <2>3, <2>8, CutsOff
  <2>10. again = l + (-x) \/ again = l + (-(x - 1))
    BY <2>3, <2>9
  <2> HIDE DEF again
  <2>11. QED
    BY <2>10, <1>1, <1>4 DEF x
<1>5. QED
  BY <1>1, <1>2, <1>3, <1>4

StampInv == hig \in -MaxMicros .. MaxMicros /\ low \in -MaxMicros .. MaxMicros

\* addTime undoes timeDifference to a microsecond, towards the earlier timestamp,
\* for any mantissa with a bit to spare.
THEOREM AddTimeInvertsHolds == StampSpec => []AddTimeInverts
<1>1. StampInit => StampInv
  BY TimestampAssumption DEF StampInit, StampInv
<1>2. StampInv /\ [StampNext]_stampVars => StampInv'
  BY TimestampAssumption DEF StampInv, StampNext, stampVars
<1>3. StampInv => AddTimeInverts
  <2> SUFFICES ASSUME StampInv PROVE AddTimeInverts
    OBVIOUS
  <2>1. hig \in -MaxMicros .. MaxMicros /\ low \in -MaxMicros .. MaxMicros
    BY DEF StampInv
  <2>2. QED
    BY <2>1, SumOfDifference DEF AddTimeInverts
<1>4. QED
  BY <1>1, <1>2, <1>3, PTL DEF StampSpec
=============================================================================
