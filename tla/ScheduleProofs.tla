--------------------------- MODULE ScheduleProofs ---------------------------
(***************************************************************************)
(* Proofs about Schedules and ScheduleEdits for any number of slots,       *)
(* stations, programs and days. The rules for changes refuse whatever      *)
(* would leave the program ill-formed, sorting keeps every start time that *)
(* was meant, and merging a change twice is merging it once.               *)
(***************************************************************************)
EXTENDS ScheduleEdits, FiniteSetTheorems, SequenceTheorems, TLAPS

USE SchedulesAssumption, ScheduleEditsAssumption
-----------------------------------------------------------------------------
(* Sorting *)

Rank(S, m) == Cardinality({n \in S : n <= m})

\* The element of S with rank i.
At(S, i) == CHOOSE m \in S : Rank(S, m) = i

\* A larger element has a higher rank.
LEMMA RankOrder ==
    ASSUME NEW S \in SUBSET Nat, IsFiniteSet(S)
    PROVE  /\ \A m \in S : Rank(S, m) \in 1..Cardinality(S)
           /\ \A m, n \in S : m < n => Rank(S, m) < Rank(S, n)
<1> DEFINE upTo(m) == {n \in S : n <= m}
<1>1. ASSUME NEW m \in S
      PROVE  /\ IsFiniteSet(upTo(m)) /\ Cardinality(upTo(m)) \in Nat
             /\ Cardinality(upTo(m)) \in 1..Cardinality(S)
  <2>1. /\ IsFiniteSet(upTo(m))
        /\ Cardinality(upTo(m)) <= Cardinality(S)
    <3>1. upTo(m) \in SUBSET S
      OBVIOUS
    <3> HIDE DEF upTo
    <3> QED BY <3>1, FS_Subset
  <2>2. m \in upTo(m)
    OBVIOUS
  <2>3. Cardinality(upTo(m)) \in Nat /\ Cardinality(upTo(m)) # 0
    <3> HIDE DEF upTo
    <3> QED BY <2>1, <2>2, FS_CardinalityType, FS_EmptySet
  <2>4. Cardinality(S) \in Nat
    BY FS_CardinalityType
  <2> HIDE DEF upTo
  <2> QED BY <2>1, <2>3, <2>4
<1>2. ASSUME NEW m \in S, NEW n \in S, m < n
      PROVE  Cardinality(upTo(m)) < Cardinality(upTo(n))
  <2>1. upTo(m) \in SUBSET upTo(n) /\ upTo(m) # upTo(n)
    <3>1. n \in upTo(n) /\ n \notin upTo(m)
      BY <1>2
    <3>2. \A k \in upTo(m) : k \in upTo(n)
      BY <1>2
    <3> QED BY <3>1, <3>2
  <2>2. /\ IsFiniteSet(upTo(n))
        /\ Cardinality(upTo(m)) \in Nat /\ Cardinality(upTo(n)) \in Nat
    BY <1>1
  <2> HIDE DEF upTo
  <2>3. /\ Cardinality(upTo(m)) <= Cardinality(upTo(n))
        /\ Cardinality(upTo(m)) # Cardinality(upTo(n))
    BY <2>1, <2>2, FS_Subset
  <2> QED BY <2>2, <2>3
<1> QED BY <1>1, <1>2 DEF Rank

\* Each rank up to the cardinality is some element's: otherwise two would share one.
LEMMA RankExists ==
    ASSUME NEW S \in SUBSET Nat, IsFiniteSet(S), NEW i \in 1..Cardinality(S)
    PROVE  \E m \in S : Rank(S, m) = i
<1> SUFFICES ASSUME \A m \in S : Rank(S, m) # i PROVE FALSE
  OBVIOUS
<1> DEFINE n == Cardinality(S)
           others == (1..n) \ {i}
           f == [m \in S |-> Rank(S, m)]
<1>1. n \in Nat
  BY FS_CardinalityType
<1>2. IsFiniteSet(others) /\ Cardinality(others) = n - 1
  <2> HIDE DEF n
  <2>1. IsFiniteSet(1..n) /\ Cardinality(1..n) = n
    BY <1>1, FS_Interval
  <2>2. i \in 1..n
    BY DEF n
  <2>3. /\ IsFiniteSet(others)
        /\ Cardinality(others) = IF i \in 1..n THEN Cardinality(1..n) - 1 ELSE Cardinality(1..n)
    BY <2>1, FS_RemoveElement, Zenon
  <2> QED BY <2>1, <2>2, <2>3
<1>3. f \in [S -> others]
  BY RankOrder
<1>4. Cardinality(others) < Cardinality(S)
  BY <1>1, <1>2
<1>5. PICK x, y \in S : x # y /\ f[x] = f[y]
  <2>1. IsFiniteSet(S) /\ IsFiniteSet(others)
    BY <1>2
  <2> HIDE DEF f, others, n
  <2> QED BY ONLY <1>3, <1>4, <2>1, FS_PigeonHole
<1>6. Rank(S, x) = Rank(S, y) /\ x \in Nat /\ y \in Nat
  BY <1>5
<1>7. x < y \/ y < x
  BY <1>5, <1>6
<1>8. Rank(S, x) \in Nat /\ Rank(S, y) \in Nat
  BY RankOrder
<1> QED BY <1>6, <1>7, <1>8, RankOrder

\* The sorted list has just the given times, in order, and then unused slots.
LEMMA SortedLemma ==
    ASSUME NEW times \in SUBSET Time, Cardinality(times) <= Slots
    PROVE  /\ Sorted(times) \in [1..Slots -> Start]
           /\ \A m \in Time : m \in times <=> \E i \in 1..Slots : Sorted(times)[i] = m
           /\ \A i, j \in 1..Slots :
                 i < j => Sorted(times)[i] < Sorted(times)[j] \/ Sorted(times)[j] = Disabled
<1> DEFINE n == Cardinality(times)
           sorted == Sorted(times)
<1>1. times \in SUBSET Nat /\ IsFiniteSet(times) /\ n \in Nat
  <2>1. IsFiniteSet(Time)
    BY FS_Interval DEF Time
  <2>2. IsFiniteSet(times)
    BY <2>1, FS_Subset
  <2> QED BY <2>2, FS_CardinalityType DEF Time
<1>2. \A i \in 1..n : At(times, i) \in times /\ Rank(times, At(times, i)) = i
  BY <1>1, RankExists DEF At
<1>3. /\ sorted = [i \in 1..Slots |-> IF i > n THEN Disabled ELSE At(times, i)]
      /\ DOMAIN sorted = 1..Slots
  BY DEF Sorted, Rank, At
<1>4. \A i \in 1..Slots : sorted[i] = IF i > n THEN Disabled ELSE At(times, i)
  BY <1>3
<1>5. \A i \in 1..Slots : i <= n => i \in 1..n
  BY <1>1
<1> HIDE DEF n, sorted
<1>6. sorted \in [1..Slots -> Start]
  <2>1. ASSUME NEW i \in 1..Slots PROVE sorted[i] \in Start
    <3>1. CASE i > n
      BY <1>4, <3>1 DEF Start
    <3>2. CASE ~(i > n)
      <4>1. At(times, i) \in times
        BY <1>1, <1>2, <1>5, <3>2
      <4> QED BY <1>4, <3>2, <4>1 DEF Start
    <3> QED BY <3>1, <3>2
  <2> QED BY <1>3, <2>1
<1>7. ASSUME NEW m \in Time
      PROVE  m \in times <=> \E i \in 1..Slots : sorted[i] = m
  <2>1. ASSUME m \in times PROVE \E i \in 1..Slots : sorted[i] = m
    <3>1. Rank(times, m) \in 1..n
      BY <1>1, <2>1, RankOrder DEF n
    <3> DEFINE i == Rank(times, m)
    <3>2. At(times, i) = m
      <4>1. At(times, i) \in times /\ Rank(times, At(times, i)) = Rank(times, m)
        BY <1>2, <3>1
      <4>2. At(times, i) \in Nat /\ m \in Nat /\ Rank(times, m) \in Nat
        <5>1. Rank(times, m) \in Nat
          BY <1>1, <3>1
        <5>2. At(times, i) \in times /\ m \in times
          BY <2>1, <4>1
        <5> HIDE DEF i
        <5> QED BY <1>1, <5>1, <5>2
      <4>3. ~(At(times, i) < m) /\ ~(m < At(times, i))
        <5> HIDE DEF i
        <5> QED BY <1>1, <2>1, <4>1, <4>2, RankOrder
      <4> QED BY <4>2, <4>3
    <3>3. i \in 1..Slots /\ sorted[i] = At(times, i)
      BY <1>1, <1>4, <3>1 DEF n
    <3> QED BY <3>2, <3>3
  <2>2. ASSUME NEW i \in 1..Slots, sorted[i] = m PROVE m \in times
    <3>1. ~(i > n)
      BY <1>4, <2>2 DEF Time
    <3> QED BY <1>1, <1>2, <1>4, <2>2, <3>1
  <2> QED BY <2>1, <2>2
<1>8. ASSUME NEW i \in 1..Slots, NEW j \in 1..Slots, i < j, sorted[j] # Disabled
      PROVE  sorted[i] < sorted[j]
  <2>1. i \in 1..n /\ j \in 1..n
    BY <1>1, <1>4, <1>8
  <2>2. sorted[i] = At(times, i) /\ sorted[j] = At(times, j)
    BY <1>1, <1>4, <2>1
  <2>3. At(times, i) \in Nat /\ At(times, j) \in Nat /\ At(times, i) \in times /\ At(times, j) \in times
    BY <1>1, <1>2, <2>1
  <2>4. ~(At(times, j) < At(times, i)) /\ At(times, j) # At(times, i)
    BY <1>1, <1>2, <1>8, <2>1, <2>3, RankOrder
  <2> QED BY <2>2, <2>3, <2>4
<1> QED BY <1>6, <1>7, <1>8 DEF sorted
-----------------------------------------------------------------------------
(* Mappings and flags *)

\* What is named gets its value, and the rest keeps its own.
LEMMA OverwriteLemma ==
    ASSUME NEW array, NEW m, \A j, k \in DOMAIN m : Index(j) = Index(k) => j = k
    PROVE  /\ DOMAIN Overwrite(array, m) = DOMAIN array
           /\ \A k \in DOMAIN m :
                 Index(k) \in DOMAIN array => Overwrite(array, m)[Index(k)] = m[k]
           /\ \A i \in DOMAIN array :
                 (\A k \in DOMAIN m : Index(k) # i) => Overwrite(array, m)[i] = array[i]
<1> DEFINE named(i) == \E k \in DOMAIN m : Index(k) = i
           key(i) == CHOOSE k \in DOMAIN m : Index(k) = i
<1>1. /\ DOMAIN Overwrite(array, m) = DOMAIN array
      /\ \A i \in DOMAIN array :
            Overwrite(array, m)[i] = IF named(i) THEN m[key(i)] ELSE array[i]
  BY DEF Overwrite
<1>2. ASSUME NEW k \in DOMAIN m PROVE named(Index(k)) /\ key(Index(k)) = k
  <2>1. key(Index(k)) \in DOMAIN m /\ Index(key(Index(k))) = Index(k)
    OBVIOUS
  <2> QED BY <2>1
<1> QED BY <1>1, <1>2

LEMMA OverwriteTwice ==
    ASSUME NEW array, NEW m, \A j, k \in DOMAIN m : Index(j) = Index(k) => j = k
    PROVE  Overwrite(Overwrite(array, m), m) = Overwrite(array, m)
<1> DEFINE once == Overwrite(array, m)
           twice == Overwrite(once, m)
<1>1. DOMAIN once = DOMAIN array /\ DOMAIN twice = DOMAIN array
  BY OverwriteLemma
<1>2. ASSUME NEW i \in DOMAIN array PROVE twice[i] = once[i]
  <2>1. CASE \E k \in DOMAIN m : Index(k) = i
    <3>1. PICK k \in DOMAIN m : Index(k) = i
      BY <2>1
    <3>2. once[i] = m[k] /\ twice[i] = m[k]
      <4> HIDE DEF once, twice
      <4>1. once[i] = m[k]
        BY <3>1, OverwriteLemma DEF once
      <4>2. twice[i] = m[k]
        BY <1>1, <3>1, OverwriteLemma DEF twice
      <4> QED BY <4>1, <4>2
    <3> QED BY <3>2
  <2>2. CASE \A k \in DOMAIN m : Index(k) # i
    <3> HIDE DEF once, twice
    <3> QED BY <1>1, <2>2, OverwriteLemma DEF twice
  <2> QED BY <2>1, <2>2
<1>3. /\ twice = [i \in DOMAIN once |-> twice[i]]
      /\ once = [i \in DOMAIN array |-> once[i]]
  BY DEF Overwrite
<1> HIDE DEF once, twice
<1>4. twice = once
  BY <1>1, <1>2, <1>3
<1> QED BY <1>4 DEF once, twice

LEMMA FlaggedLemma ==
    ASSUME NEW days, NEW flags
    PROVE  /\ \A b : b \notin DOMAIN flags => (b \in Flagged(days, flags) <=> b \in days)
           /\ Flagged(days, flags) \subseteq days \cup DOMAIN flags
           /\ Flagged(Flagged(days, flags), flags) = Flagged(days, flags)
BY DEF Flagged
-----------------------------------------------------------------------------
(* Start times *)

\* A list of at most Slots starts has at most Slots different times.
LEMMA EnabledLemma ==
    ASSUME NEW n \in 0..Slots, NEW starts \in [1..n -> Start]
    PROVE  Enabled(starts) \in SUBSET Time /\ Cardinality(Enabled(starts)) <= Slots
<1>1. Enabled(starts) \in SUBSET Time
  BY DEF Enabled, Start
<1>2. IsFiniteSet(Enabled(starts)) /\ Cardinality(Enabled(starts)) \in Nat
  <2>1. IsFiniteSet(Time)
    BY FS_Interval DEF Time
  <2>2. IsFiniteSet(Enabled(starts))
    BY <1>1, <2>1, FS_Subset
  <2> QED BY <2>2, FS_CardinalityType
<1>3. IsFiniteSet(1..n) /\ Cardinality(1..n) = n
  BY FS_Interval
<1>4. SUFFICES ASSUME Cardinality(1..n) < Cardinality(Enabled(starts)) PROVE FALSE
  BY <1>1, <1>2, <1>3
<1> DEFINE f == [m \in Enabled(starts) |-> CHOOSE i \in 1..n : starts[i] = m]
<1>5. \A m \in Enabled(starts) : f[m] \in 1..n /\ starts[f[m]] = m
  BY DEF Enabled
<1>6. f \in [Enabled(starts) -> 1..n]
  BY <1>5
<1>7. \E x, y \in Enabled(starts) : x # y /\ f[x] = f[y]
  <2> HIDE DEF f
  <2> QED BY ONLY <1>2, <1>3, <1>4, <1>6, FS_PigeonHole
<1> HIDE DEF f
<1> QED BY <1>5, <1>7

\* The schema of the action asks for a list of start times.
WellFormed(changes) ==
    "start_times" \in DOMAIN changes => changes.start_times \in Seq(Int)

Accepted(raw, changes) ==
    raw \in Program /\ WellFormed(changes) /\ ~Refused(raw, Count, changes)

\* A mapping that was not refused names each slot once.
LEMMA SlotsLemma ==
    ASSUME NEW raw, NEW changes, Accepted(raw, changes),
           "start_time_slots" \in DOMAIN changes
    PROVE  /\ \A k \in DOMAIN changes.start_time_slots :
                 /\ Index(k) \in 1..Slots
                 /\ changes.start_time_slots[k] \in Start
           /\ \A j, k \in DOMAIN changes.start_time_slots : Index(j) = Index(k) => j = k
           /\ "start_times" \notin DOMAIN changes
BY DEF Accepted, Refused, IsMapping

LEMMA MeantLemma ==
    ASSUME NEW raw, NEW changes, Accepted(raw, changes), NamesStarts(changes)
    PROVE  \E n \in 0..Slots : MeantStarts(raw, changes) \in [1..n -> Start]
<1>1. CASE "start_times" \in DOMAIN changes
  <2>1. changes.start_times \in Seq(Int) /\ Len(changes.start_times) <= Slots
    BY <1>1 DEF Accepted, WellFormed, Refused
  <2>2. /\ Len(changes.start_times) \in 0..Slots
        /\ changes.start_times \in [1..Len(changes.start_times) -> Int]
    BY <2>1, LenProperties
  <2>3. \A i \in DOMAIN changes.start_times : changes.start_times[i] \in Start
    BY <1>1 DEF Accepted, Refused
  <2>4. changes.start_times \in [1..Len(changes.start_times) -> Start]
    BY <2>2, <2>3
  <2> QED BY <1>1, <2>2, <2>4 DEF MeantStarts
<1>2. CASE "start_times" \notin DOMAIN changes
  <2> DEFINE slots == changes.start_time_slots
             meant == Overwrite(raw.StartTimes, slots)
  <2>1. raw.StartTimes \in [1..Slots -> Start]
    BY DEF Accepted, Program
  <2>2. /\ \A k \in DOMAIN slots : Index(k) \in 1..Slots /\ slots[k] \in Start
        /\ \A j, k \in DOMAIN slots : Index(j) = Index(k) => j = k
    BY <1>2, SlotsLemma DEF NamesStarts
  <2>3. meant = [i \in 1..Slots |-> meant[i]]
    BY <2>1 DEF Overwrite
  <2>4. ASSUME NEW i \in 1..Slots PROVE meant[i] \in Start
    <3> HIDE DEF slots
    <3>1. CASE \E k \in DOMAIN slots : Index(k) = i
      BY <2>1, <2>2, <3>1, OverwriteLemma
    <3>2. CASE \A k \in DOMAIN slots : Index(k) # i
      BY <2>1, <2>2, <3>2, OverwriteLemma
    <3> QED BY <3>1, <3>2
  <2>5. meant \in [1..Slots -> Start]
    <3> HIDE DEF meant
    <3> QED BY <2>3, <2>4
  <2>6. Slots \in 0..Slots
    OBVIOUS
  <2> QED BY <1>2, <2>5, <2>6 DEF MeantStarts
<1> QED BY <1>1, <1>2

\* The start times of an accepted edit.
LEMMA StartsLemma ==
    ASSUME NEW raw, NEW changes, Accepted(raw, changes), NamesStarts(changes)
    PROVE  LET meant == MeantStarts(raw, changes)
               new == Sorted(Enabled(meant))
           IN  /\ new \in [1..Slots -> Start]
               /\ \A m \in Time : (\E i \in DOMAIN meant : meant[i] = m)
                                  <=> \E i \in 1..Slots : new[i] = m
               /\ \A i, j \in 1..Slots : i < j => new[i] < new[j] \/ new[j] = Disabled
<1> DEFINE meant == MeantStarts(raw, changes)
           new == Sorted(Enabled(meant))
<1>1. Enabled(meant) \in SUBSET Time /\ Cardinality(Enabled(meant)) <= Slots
  BY MeantLemma, EnabledLemma
<1>2. /\ new \in [1..Slots -> Start]
      /\ \A m \in Time : m \in Enabled(meant) <=> \E i \in 1..Slots : new[i] = m
      /\ \A i, j \in 1..Slots : i < j => new[i] < new[j] \/ new[j] = Disabled
  <2> HIDE DEF meant
  <2> QED BY <1>1, SortedLemma
<1>3. \A m \in Time : m \in Enabled(meant) <=> \E i \in DOMAIN meant : meant[i] = m
  <2> HIDE DEF meant
  <2> QED BY DEF Enabled, Time
<1> HIDE DEF new
<1>4. \A m \in Time : (\E i \in DOMAIN meant : meant[i] = m) <=> \E i \in 1..Slots : new[i] = m
  BY <1>2, <1>3
<1> QED BY <1>2, <1>4 DEF new
-----------------------------------------------------------------------------
(* Edits *)

Fields(p) ==
    [Name |-> p.Name, StartTimes |-> p.StartTimes, RunTime |-> p.RunTime,
     ScheduleType |-> p.ScheduleType, ScheduleDays |-> p.ScheduleDays,
     IntervalDayCount |-> p.IntervalDayCount, IntervalDayNext |-> p.IntervalDayNext]

\* The program new is raw after the changes, field by field.
Merged(new, raw, changes) ==
    /\ new = Fields(new)
    /\ new.Name = IF "name" \in DOMAIN changes THEN changes.name ELSE raw.Name
    /\ new.RunTime = IF "station_runtimes" \in DOMAIN changes
                     THEN Overwrite(raw.RunTime, changes.station_runtimes)
                     ELSE raw.RunTime
    /\ new.StartTimes = IF NamesStarts(changes)
                        THEN Sorted(Enabled(MeantStarts(raw, changes)))
                        ELSE raw.StartTimes
    /\ IF "weekdays" \in DOMAIN changes
       THEN /\ new.ScheduleType = 0 /\ new.ScheduleDays = changes.weekdays
            /\ new.IntervalDayCount = 0 /\ new.IntervalDayNext = 0
       ELSE /\ new.ScheduleType = raw.ScheduleType
            /\ new.ScheduleDays = IF "weekday_flags" \in DOMAIN changes
                                  THEN Flagged(raw.ScheduleDays, changes.weekday_flags)
                                  ELSE raw.ScheduleDays
            /\ new.IntervalDayCount = raw.IntervalDayCount
            /\ new.IntervalDayNext = raw.IntervalDayNext

LEMMA EditedFields ==
    ASSUME NEW raw \in Program, NEW changes
    PROVE  Merged(Edited(raw, changes), raw, changes)
<1> DEFINE new == Edited(raw, changes)
<1>1. DOMAIN raw = {"Name", "StartTimes", "RunTime", "ScheduleType", "ScheduleDays",
                    "IntervalDayCount", "IntervalDayNext"}
  BY DEF Program
<1>2. new = Fields(new)
  <2>1. /\ DOMAIN new = DOMAIN raw
        /\ new = [key \in DOMAIN raw |-> new[key]]
    BY DEF Edited
  <2> HIDE DEF new
  <2> QED BY <1>1, <2>1 DEF Fields
<1>3. /\ new.Name = IF "name" \in DOMAIN changes THEN changes.name ELSE raw.Name
      /\ new.RunTime = IF "station_runtimes" \in DOMAIN changes
                       THEN Overwrite(raw.RunTime, changes.station_runtimes)
                       ELSE raw.RunTime
      /\ new.StartTimes = IF NamesStarts(changes)
                          THEN Sorted(Enabled(MeantStarts(raw, changes)))
                          ELSE raw.StartTimes
  BY <1>1 DEF Edited
<1>4. IF "weekdays" \in DOMAIN changes
      THEN /\ new.ScheduleType = 0 /\ new.ScheduleDays = changes.weekdays
           /\ new.IntervalDayCount = 0 /\ new.IntervalDayNext = 0
      ELSE /\ new.ScheduleType = raw.ScheduleType
           /\ new.ScheduleDays = IF "weekday_flags" \in DOMAIN changes
                                 THEN Flagged(raw.ScheduleDays, changes.weekday_flags)
                                 ELSE raw.ScheduleDays
           /\ new.IntervalDayCount = raw.IntervalDayCount
           /\ new.IntervalDayNext = raw.IntervalDayNext
  BY <1>1 DEF Edited
<1> HIDE DEF new
<1> QED BY <1>2, <1>3, <1>4 DEF Merged, new

LEMMA RunTimesLemma ==
    ASSUME NEW raw, NEW changes, Accepted(raw, changes),
           "station_runtimes" \in DOMAIN changes
    PROVE  LET runtimes == changes.station_runtimes
           IN  /\ \A k \in DOMAIN runtimes : /\ Index(k) \in 1..Count
                                             /\ runtimes[k] \in 0..MaxRunTime
               /\ \A j, k \in DOMAIN runtimes : Index(j) = Index(k) => j = k
               /\ Overwrite(raw.RunTime, runtimes) \in Seq(Nat)
               /\ Len(Overwrite(raw.RunTime, runtimes)) = Len(raw.RunTime)
<1> DEFINE runtimes == changes.station_runtimes
           new == Overwrite(raw.RunTime, runtimes)
           n == Len(raw.RunTime)
<1>1. /\ \A k \in DOMAIN runtimes : Index(k) \in 1..Count /\ runtimes[k] \in 0..MaxRunTime
      /\ \A j, k \in DOMAIN runtimes : Index(j) = Index(k) => j = k
  BY DEF Accepted, Refused, IsMapping
<1>2. n \in Nat /\ raw.RunTime \in [1..n -> Nat]
  <2>1. raw.RunTime \in Seq(Nat)
    BY DEF Accepted, Program
  <2> QED BY <2>1, LenProperties
<1>3. new = [i \in 1..n |-> new[i]]
  BY <1>2 DEF Overwrite
<1>4. ASSUME NEW i \in 1..n PROVE new[i] \in Nat
  <2> HIDE DEF runtimes
  <2>1. CASE \E k \in DOMAIN runtimes : Index(k) = i
    BY <1>1, <1>2, <2>1, OverwriteLemma
  <2>2. CASE \A k \in DOMAIN runtimes : Index(k) # i
    BY <1>1, <1>2, <2>2, OverwriteLemma
  <2> QED BY <2>1, <2>2
<1>5. new \in Seq(Nat) /\ Len(new) = n
  <2> HIDE DEF new, n
  <2>1. new \in [1..n -> Nat]
    BY <1>3, <1>4
  <2>2. new \in Seq(Nat)
    BY <1>2, <2>1
  <2> QED BY <1>2, <2>1, <2>2, LenProperties
<1> QED BY <1>1, <1>5

\* An accepted edit leaves a program such as the controller keeps.
LEMMA EditedType ==
    ASSUME NEW raw, NEW changes, Accepted(raw, changes)
    PROVE  Edited(raw, changes) \in Program
<1> DEFINE new == Edited(raw, changes)
<1>1. raw \in Program /\ Merged(new, raw, changes)
  BY EditedFields DEF Accepted
<1>2. SUFFICES new \in Program
  OBVIOUS
<1> HIDE DEF new
<1>3. new.StartTimes \in [1..Slots -> Start]
  BY <1>1, StartsLemma DEF Merged, Program
<1>4. new.RunTime \in Seq(Nat)
  BY <1>1, RunTimesLemma DEF Merged, Program
<1>5. new.Name \in Name
  BY <1>1 DEF Merged, Program, Accepted, Refused
<1>6. new.ScheduleDays \in SUBSET (0..15)
  <2>1. CASE "weekdays" \in DOMAIN changes
    BY <1>1, <2>1 DEF Merged, Accepted, Refused
  <2>2. CASE "weekdays" \notin DOMAIN changes /\ "weekday_flags" \in DOMAIN changes
    <3>1. DOMAIN changes.weekday_flags \subseteq Day
      BY <2>2 DEF Accepted, Refused
    <3>2. new.ScheduleDays = Flagged(raw.ScheduleDays, changes.weekday_flags)
      BY <1>1, <2>2 DEF Merged
    <3>3. raw.ScheduleDays \in SUBSET (0..15)
      BY <1>1 DEF Program
    <3>4. Flagged(raw.ScheduleDays, changes.weekday_flags) \subseteq
             raw.ScheduleDays \cup DOMAIN changes.weekday_flags
      BY FlaggedLemma
    <3> QED BY <3>1, <3>2, <3>3, <3>4
  <2>3. CASE "weekdays" \notin DOMAIN changes /\ "weekday_flags" \notin DOMAIN changes
    BY <1>1, <2>3 DEF Merged, Program
  <2> QED BY <2>1, <2>2, <2>3
<1>7. /\ new.ScheduleType \in 0..255
      /\ new.IntervalDayCount \in Nat /\ new.IntervalDayNext \in Nat
  <2>1. /\ raw.ScheduleType \in 0..255
        /\ raw.IntervalDayCount \in Nat /\ raw.IntervalDayNext \in Nat
    BY <1>1 DEF Program
  <2>2. CASE "weekdays" \in DOMAIN changes
    <3>1. /\ new.ScheduleType = 0
          /\ new.IntervalDayCount = 0 /\ new.IntervalDayNext = 0
      BY <1>1, <2>2 DEF Merged
    <3> QED BY <3>1
  <2>3. CASE "weekdays" \notin DOMAIN changes
    <3>1. /\ new.ScheduleType = raw.ScheduleType
          /\ new.IntervalDayCount = raw.IntervalDayCount
          /\ new.IntervalDayNext = raw.IntervalDayNext
      BY <1>1, <2>3 DEF Merged
    <3> QED BY <2>1, <3>1, Zenon
  <2> QED BY <2>2, <2>3
<1>8. Fields(new) \in Program
  BY <1>3, <1>4, <1>5, <1>6, <1>7 DEF Fields, Program
<1> QED BY <1>1, <1>8 DEF Merged

\* Merging the same change again changes nothing, and would not be refused.
LEMMA EditedTwice ==
    ASSUME NEW raw, NEW changes, Accepted(raw, changes),
           "start_time_slots" \notin DOMAIN changes
    PROVE  /\ ~Refused(Edited(raw, changes), Count, changes)
           /\ Edited(Edited(raw, changes), changes) = Edited(raw, changes)
<1> DEFINE new == Edited(raw, changes)
           again == Edited(new, changes)
<1>1. Merged(new, raw, changes) /\ Merged(again, new, changes)
  BY EditedFields, EditedType DEF Accepted
<1> SUFFICES ~Refused(new, Count, changes) /\ again = new
  OBVIOUS
<1> HIDE DEF new, again
<1>2. MeantStarts(new, changes) = MeantStarts(raw, changes) \/ ~NamesStarts(changes)
  BY DEF MeantStarts, NamesStarts
<1>3. ~Refused(new, Count, changes)
  <2>1. "weekday_flags" \in DOMAIN changes => new.ScheduleType = raw.ScheduleType
    BY <1>1 DEF Merged, Accepted, Refused
  <2> QED BY <1>2, <2>1 DEF Accepted, Refused
<1>4. again.RunTime = new.RunTime
  <2>1. CASE "station_runtimes" \in DOMAIN changes
    <3> DEFINE runtimes == changes.station_runtimes
    <3>1. \A j, k \in DOMAIN runtimes : Index(j) = Index(k) => j = k
      BY <2>1, RunTimesLemma
    <3>2. /\ new.RunTime = Overwrite(raw.RunTime, runtimes)
          /\ again.RunTime = Overwrite(new.RunTime, runtimes)
      BY <1>1, <2>1 DEF Merged
    <3> HIDE DEF runtimes
    <3> QED BY <3>1, <3>2, OverwriteTwice
  <2>2. CASE "station_runtimes" \notin DOMAIN changes
    BY <1>1, <2>2 DEF Merged
  <2> QED BY <2>1, <2>2
<1>5. again.StartTimes = new.StartTimes
  BY <1>1, <1>2 DEF Merged
<1>6. again.ScheduleDays = new.ScheduleDays
  <2>1. CASE "weekdays" \notin DOMAIN changes /\ "weekday_flags" \in DOMAIN changes
    <3>1. /\ new.ScheduleDays = Flagged(raw.ScheduleDays, changes.weekday_flags)
          /\ again.ScheduleDays = Flagged(new.ScheduleDays, changes.weekday_flags)
      BY <1>1, <2>1 DEF Merged
    <3> QED BY <3>1, FlaggedLemma
  <2>2. CASE ~("weekdays" \notin DOMAIN changes /\ "weekday_flags" \in DOMAIN changes)
    BY <1>1, <2>2 DEF Merged
  <2> QED BY <2>1, <2>2
<1>7. /\ again.Name = new.Name /\ again.ScheduleType = new.ScheduleType
      /\ again.IntervalDayCount = new.IntervalDayCount
      /\ again.IntervalDayNext = new.IntervalDayNext
  BY <1>1 DEF Merged
<1>8. Fields(again) = Fields(new)
  BY <1>4, <1>5, <1>6, <1>7 DEF Fields
<1> QED BY <1>1, <1>3, <1>8 DEF Merged
-----------------------------------------------------------------------------
(* Steps *)

\* Every edit is of a letter, to a well-formed change.
LEMMA EditSteps ==
    ASSUME TypeOK, [Next]_vars
    PROVE  \/ \E l \in Letter, daily \in BOOLEAN :
                 \E changes : WellFormed(changes) /\ Edit(l, changes, daily)
           \/ edit' = None /\ programs' \in [Letter -> Program] /\ plain' \in BOOLEAN
              /\ view' \in {view, programs}
           \/ UNCHANGED vars
<1>1. ASSUME NEW l \in Letter, NEW changes, NEW daily \in BOOLEAN,
             WellFormed(changes), Edit(l, changes, daily)
      PROVE  \E k \in Letter, d \in BOOLEAN : \E c : WellFormed(c) /\ Edit(k, c, d)
  BY <1>1
<1>2. ASSUME NEW l \in Letter,
             \/ \E s \in 1..Slots, m \in Start : SetStart(l, s, m)
             \/ \E s \in 1..Count, d \in Durations : SetRuntime(l, s, d)
             \/ \E d \in Day, on \in BOOLEAN : SwitchDay(l, d, on)
             \/ \E n \in Name : SetName(l, n)
             \/ \E c \in ActionChanges, daily \in BOOLEAN : SetProgram(l, c, daily)
      PROVE  \E k \in Letter, d \in BOOLEAN : \E c : WellFormed(c) /\ Edit(k, c, d)
  <2>1. ASSUME NEW s \in 1..Slots, NEW m \in Start, SetStart(l, s, m)
        PROVE  \E k \in Letter, d \in BOOLEAN : \E c : WellFormed(c) /\ Edit(k, c, d)
    <3>1. WellFormed([start_time_slots |-> Only(<<"int", s>>, m)])
      BY DEF WellFormed
    <3> QED BY <1>1, <2>1, <3>1 DEF SetStart
  <2>2. ASSUME NEW s \in 1..Count, NEW d \in Durations, SetRuntime(l, s, d)
        PROVE  \E k \in Letter, e \in BOOLEAN : \E c : WellFormed(c) /\ Edit(k, c, e)
    <3>1. WellFormed([station_runtimes |-> Only(<<"int", s>>, d)])
      BY DEF WellFormed
    <3> QED BY <1>1, <2>2, <3>1 DEF SetRuntime
  <2>3. ASSUME NEW d \in Day, NEW on \in BOOLEAN, SwitchDay(l, d, on)
        PROVE  \E k \in Letter, e \in BOOLEAN : \E c : WellFormed(c) /\ Edit(k, c, e)
    <3>1. WellFormed([weekday_flags |-> Only(d, on)])
      BY DEF WellFormed
    <3> QED BY <1>1, <2>3, <3>1 DEF SwitchDay
  <2>4. ASSUME NEW n \in Name, SetName(l, n)
        PROVE  \E k \in Letter, d \in BOOLEAN : \E c : WellFormed(c) /\ Edit(k, c, d)
    <3>1. WellFormed([name |-> n])
      BY DEF WellFormed
    <3> QED BY <1>1, <2>4, <3>1 DEF SetName
  <2>5. ASSUME NEW c \in ActionChanges, NEW daily \in BOOLEAN, SetProgram(l, c, daily)
        PROVE  \E k \in Letter, d \in BOOLEAN : \E e : WellFormed(e) /\ Edit(k, e, d)
    <3>1. WellFormed(c)
      BY DEF WellFormed
    <3> QED BY <1>1, <2>5, <3>1 DEF SetProgram
  <2> QED BY <1>2, <2>1, <2>2, <2>3, <2>4, <2>5
<1>3. ASSUME Poll \/ AppEdit
      PROVE  /\ edit' = None /\ programs' \in [Letter -> Program] /\ plain' \in BOOLEAN
             /\ view' \in {view, programs}
  BY <1>3 DEF Poll, AppEdit, TypeOK
<1> QED BY <1>2, <1>3 DEF Next

\* What an edit did: programs had the program it was accepted for.
LEMMA EditStep ==
    ASSUME TypeOK, NEW l \in Letter, NEW changes, NEW daily,
           WellFormed(changes), Edit(l, changes, daily)
    PROVE  /\ Accepted(programs[l], changes)
           /\ programs[l] \in Program
           /\ Merged(programs'[l], programs[l], changes)
           /\ programs'[l] = Edited(programs[l], changes)
           /\ programs' \in [Letter -> Program]
           /\ \A k \in Letter \ {l} : programs'[k] = programs[k]
           /\ edit'.letter = l /\ edit'.changes = changes /\ edit'.daily = daily
<1>1. programs[l] \in Program /\ Accepted(programs[l], changes)
  BY DEF Edit, TypeOK, Accepted, Base
<1>2. Edited(programs[l], changes) \in Program
  BY <1>1, EditedType
<1>3. Merged(Edited(programs[l], changes), programs[l], changes)
  BY <1>1, EditedFields
<1>4. programs' = [programs EXCEPT ![l] = Edited(programs[l], changes)]
  BY DEF Edit, Base
<1>5. /\ programs'[l] = Edited(programs[l], changes)
      /\ programs' \in [Letter -> Program]
      /\ \A k \in Letter \ {l} : programs'[k] = programs[k]
  BY <1>2, <1>4 DEF TypeOK
<1>6. edit'.letter = l /\ edit'.changes = changes /\ edit'.daily = daily
  BY DEF Edit
<1> QED BY <1>1, <1>3, <1>5, <1>6

\* An edit leaves its program readable: the start times fill the slots, and there are as
\* many run times as before.
LEMMA ReadableAfter ==
    ASSUME TypeOK, NEW l \in Letter, NEW changes, NEW daily,
           WellFormed(changes), Edit(l, changes, daily)
    PROVE  Readable(programs[l], Count) /\ Readable(programs'[l], Count)
<1> DEFINE old == programs[l]
           new == programs'[l]
<1>1. /\ Accepted(old, changes) /\ Merged(new, old, changes)
      /\ Readable(old, Count) /\ new \in Program
  BY EditStep DEF Edit
<1> HIDE DEF old, new
<1>2. new.StartTimes \in [1..Slots -> Start]
  BY <1>1 DEF Program
<1>3. Len(new.StartTimes) = Slots
  <2>1. new.StartTimes \in Seq(Start) /\ DOMAIN new.StartTimes = 1..Slots
    BY <1>2
  <2> QED BY <2>1, LenProperties
<1>4. Len(new.RunTime) = Len(old.RunTime)
  BY <1>1, RunTimesLemma DEF Merged
<1> QED BY <1>1, <1>2, <1>3, <1>4 DEF Readable, old, new

LEMMA TypeInit == Init => TypeOK
BY DEF Init, TypeOK

LEMMA TypeStep == TypeOK /\ [Next]_vars => TypeOK'
<1> SUFFICES ASSUME TypeOK, [Next]_vars PROVE TypeOK'
  OBVIOUS
<1>1. ASSUME NEW l \in Letter, NEW daily, NEW changes,
             WellFormed(changes), Edit(l, changes, daily)
      PROVE  TypeOK'
  <2>1. programs' \in [Letter -> Program] /\ edit'.letter = l
    BY <1>1, EditStep
  <2>2. view' \in [Letter -> Program] \cup {None} /\ plain' \in BOOLEAN
    BY <1>1, <2>1 DEF Edit, TypeOK
  <2> QED BY <2>1, <2>2 DEF TypeOK
<1>2. CASE edit' = None /\ programs' \in [Letter -> Program] /\ plain' \in BOOLEAN
           /\ view' \in {view, programs}
  BY <1>2 DEF TypeOK
<1>3. CASE UNCHANGED vars
  BY <1>3 DEF TypeOK, vars
<1> QED BY <1>1, <1>2, <1>3, EditSteps
-----------------------------------------------------------------------------
(* Theorems *)

\* Whatever changes are asked for, the controller's programs keep their form
\* (build_program_patch).
THEOREM TypeCorrect == Spec => []TypeOK
BY TypeInit, TypeStep, PTL DEF Spec

\* What an edit does not name stays as it was (build_program_patch).
THEOREM OnlyNamedChanges == Spec => OnlyNamedChange
<1> DEFINE kept(l, old, new) ==
             /\ \A other \in Letter \ {l} : programs'[other] = programs[other]
             /\ ~Names("name") => new.Name = old.Name
             /\ ~Names("start_times") /\ ~Names("start_time_slots") =>
                   new.StartTimes = old.StartTimes
             /\ DOMAIN new.RunTime = DOMAIN old.RunTime
             /\ \A s \in DOMAIN old.RunTime :
                   \/ new.RunTime[s] = old.RunTime[s]
                   \/ Names("station_runtimes") /\ s \in Named(edit'.changes.station_runtimes)
             /\ ~Names("weekdays") =>
                   /\ new.ScheduleType = old.ScheduleType
                   /\ new.IntervalDayCount = old.IntervalDayCount
                   /\ new.IntervalDayNext = old.IntervalDayNext
                   /\ \A b \in 0..15 :
                         \/ b \in new.ScheduleDays <=> b \in old.ScheduleDays
                         \/ Names("weekday_flags") /\ b \in DOMAIN edit'.changes.weekday_flags
           A == edit' # None =>
                   kept(edit'.letter, programs[edit'.letter], programs'[edit'.letter])
<1>1. ASSUME TypeOK, NEW l \in Letter, NEW daily, NEW changes,
             WellFormed(changes), Edit(l, changes, daily)
      PROVE  kept(l, programs[l], programs'[l])
  <2> DEFINE old == programs[l]
             new == programs'[l]
  <2>1. /\ Accepted(old, changes) /\ Merged(new, old, changes)
        /\ \A k \in Letter \ {l} : programs'[k] = programs[k]
        /\ edit'.changes = changes
    BY <1>1, EditStep
  <2> HIDE DEF old, new
  <2>2. ~Names("name") => new.Name = old.Name
    BY <2>1 DEF Merged, Names
  <2>3. ~Names("start_times") /\ ~Names("start_time_slots") => new.StartTimes = old.StartTimes
    BY <2>1 DEF Merged, Names, NamesStarts
  <2>4. /\ DOMAIN new.RunTime = DOMAIN old.RunTime
        /\ \A s \in DOMAIN old.RunTime :
              \/ new.RunTime[s] = old.RunTime[s]
              \/ Names("station_runtimes") /\ s \in Named(changes.station_runtimes)
    <3>1. CASE Names("station_runtimes")
      <4>1. \A j, k \in DOMAIN changes.station_runtimes : Index(j) = Index(k) => j = k
        BY <2>1, <3>1, RunTimesLemma DEF Names
      <4>2. new.RunTime = Overwrite(old.RunTime, changes.station_runtimes)
        BY <2>1, <3>1 DEF Merged, Names
      <4>3. \A s \in DOMAIN old.RunTime :
               s \notin Named(changes.station_runtimes)
               => \A k \in DOMAIN changes.station_runtimes : Index(k) # s
        BY DEF Named, Index
      <4> QED BY <3>1, <4>1, <4>2, <4>3, OverwriteLemma
    <3>2. CASE ~Names("station_runtimes")
      BY <2>1, <3>2 DEF Merged, Names
    <3> QED BY <3>1, <3>2
  <2>5. ASSUME ~Names("weekdays")
        PROVE  /\ new.ScheduleType = old.ScheduleType
               /\ new.IntervalDayCount = old.IntervalDayCount
               /\ new.IntervalDayNext = old.IntervalDayNext
               /\ \A b \in 0..15 :
                     \/ b \in new.ScheduleDays <=> b \in old.ScheduleDays
                     \/ Names("weekday_flags") /\ b \in DOMAIN changes.weekday_flags
    <3>1. /\ new.ScheduleType = old.ScheduleType
          /\ new.IntervalDayCount = old.IntervalDayCount
          /\ new.IntervalDayNext = old.IntervalDayNext
          /\ new.ScheduleDays = IF Names("weekday_flags")
                                THEN Flagged(old.ScheduleDays, changes.weekday_flags)
                                ELSE old.ScheduleDays
      BY <2>1, <2>5 DEF Merged, Names
    <3>2. \A b : b \notin DOMAIN changes.weekday_flags =>
             (b \in Flagged(old.ScheduleDays, changes.weekday_flags)
              <=> b \in old.ScheduleDays)
      BY FlaggedLemma
    <3>3. CASE Names("weekday_flags")
      BY <3>1, <3>2, <3>3
    <3>4. CASE ~Names("weekday_flags")
      BY <3>1, <3>4
    <3> QED BY <3>3, <3>4
  <2> QED BY <2>1, <2>2, <2>3, <2>4, <2>5 DEF old, new
<1>2. TypeOK /\ [Next]_vars => [A]_vars
  <2> SUFFICES ASSUME TypeOK, [Next]_vars, ~UNCHANGED vars, edit' # None
               PROVE  kept(edit'.letter, programs[edit'.letter], programs'[edit'.letter])
    OBVIOUS
  <2>1. PICK l \in Letter, daily \in BOOLEAN :
           \E changes : WellFormed(changes) /\ Edit(l, changes, daily)
    BY EditSteps
  <2>2. edit'.letter = l
    BY <2>1, EditStep
  <2> QED BY <1>1, <2>1, <2>2
<1>3. [][A]_vars <=> OnlyNamedChange
  BY DEF OnlyNamedChange
<1> QED BY <1>2, <1>3, TypeCorrect, PTL DEF Spec

\* The start times of an edit are kept, each once and in order (_sorted_starts).
THEOREM StartsAreAsAsked == Spec => StartsAsAsked
<1> DEFINE asked(old) ==
             IF Names("start_times")
             THEN {edit'.changes.start_times[i] : i \in DOMAIN edit'.changes.start_times}
             ELSE {edit'.changes.start_time_slots[k] :
                      k \in DOMAIN edit'.changes.start_time_slots}
                  \cup {old[i] : i \in 1..Slots \ Named(edit'.changes.start_time_slots)}
           ordered(old, new) ==
             /\ \A m \in Time : m \in asked(old) <=> \E i \in 1..Slots : new[i] = m
             /\ \A i, j \in 1..Slots : i < j => new[i] < new[j] \/ new[j] = Disabled
           A == edit' # None /\ (Names("start_times") \/ Names("start_time_slots")) =>
                   ordered(programs[edit'.letter].StartTimes, programs'[edit'.letter].StartTimes)
<1>1. ASSUME TypeOK, NEW l \in Letter, NEW daily, NEW changes,
             WellFormed(changes), Edit(l, changes, daily), NamesStarts(changes)
      PROVE  ordered(programs[l].StartTimes, programs'[l].StartTimes)
  <2> DEFINE old == programs[l].StartTimes
             new == programs'[l].StartTimes
             meant == MeantStarts(programs[l], changes)
             slots == changes.start_time_slots
  <2>1. /\ Accepted(programs[l], changes) /\ programs[l] \in Program
        /\ Merged(programs'[l], programs[l], changes) /\ edit'.changes = changes
    BY <1>1, EditStep
  <2>2. new = Sorted(Enabled(meant))
    BY <1>1, <2>1 DEF Merged
  <2>3. /\ \A m \in Time : (\E i \in DOMAIN meant : meant[i] = m)
                           <=> \E i \in 1..Slots : new[i] = m
        /\ \A i, j \in 1..Slots : i < j => new[i] < new[j] \/ new[j] = Disabled
    BY <1>1, <2>1, <2>2, StartsLemma
  <2>4. \A m : m \in asked(old) <=> \E i \in DOMAIN meant : meant[i] = m
    <3>1. CASE "start_times" \in DOMAIN changes
      <4>1. meant = changes.start_times /\ Names("start_times")
        BY <2>1, <3>1 DEF MeantStarts, Names
      <4> HIDE DEF meant
      <4> QED BY <2>1, <4>1
    <3>2. CASE "start_times" \notin DOMAIN changes
      <4>1. /\ "start_time_slots" \in DOMAIN changes /\ ~Names("start_times")
            /\ meant = Overwrite(old, slots)
        BY <1>1, <2>1, <3>2 DEF MeantStarts, Names, NamesStarts
      <4>2. /\ \A k \in DOMAIN slots : Index(k) \in 1..Slots
            /\ \A j, k \in DOMAIN slots : Index(j) = Index(k) => j = k
        BY <2>1, <4>1, SlotsLemma
      <4>3. DOMAIN old = 1..Slots
        BY <2>1 DEF Program
      <4> HIDE DEF old, slots, meant
      <4>4. /\ DOMAIN meant = 1..Slots
            /\ \A k \in DOMAIN slots : meant[Index(k)] = slots[k]
            /\ \A i \in 1..Slots :
                  (\A k \in DOMAIN slots : Index(k) # i) => meant[i] = old[i]
        BY <4>1, <4>2, <4>3, OverwriteLemma
      <4>5. \A i \in 1..Slots :
               i \in Named(slots) <=> \E k \in DOMAIN slots : Index(k) = i
        BY DEF Named, Index
      <4>6. asked(old) = {slots[k] : k \in DOMAIN slots}
                         \cup {old[i] : i \in 1..Slots \ Named(slots)}
        BY <2>1, <4>1 DEF slots
      <4>7. ASSUME NEW m, m \in asked(old) PROVE \E i \in DOMAIN meant : meant[i] = m
        <5>1. CASE \E k \in DOMAIN slots : slots[k] = m
          BY <4>2, <4>4, <5>1
        <5>2. CASE \E i \in 1..Slots \ Named(slots) : old[i] = m
          BY <4>4, <4>5, <5>2
        <5> QED BY <4>6, <4>7, <5>1, <5>2
      <4>8. ASSUME NEW i \in DOMAIN meant PROVE meant[i] \in asked(old)
        <5>1. CASE \E k \in DOMAIN slots : Index(k) = i
          BY <4>4, <4>6, <5>1
        <5>2. CASE \A k \in DOMAIN slots : Index(k) # i
          BY <4>4, <4>5, <4>6, <5>2
        <5> QED BY <5>1, <5>2
      <4> QED BY <4>7, <4>8
    <3> QED BY <3>1, <3>2
  <2> HIDE DEF asked, meant, new, old
  <2>5. ordered(old, new)
    BY <2>3, <2>4
  <2> QED BY <2>5 DEF new, old
<1>2. TypeOK /\ [Next]_vars => [A]_vars
  <2> SUFFICES ASSUME TypeOK, [Next]_vars, ~UNCHANGED vars, edit' # None,
                      Names("start_times") \/ Names("start_time_slots")
               PROVE  ordered(programs[edit'.letter].StartTimes,
                              programs'[edit'.letter].StartTimes)
    OBVIOUS
  <2>1. PICK l \in Letter, daily \in BOOLEAN :
           \E changes : WellFormed(changes) /\ Edit(l, changes, daily)
    BY EditSteps
  <2>2. PICK changes : WellFormed(changes) /\ Edit(l, changes, daily)
    BY <2>1
  <2>3. edit'.letter = l /\ edit'.changes = changes
    BY <2>2, EditStep
  <2>4. NamesStarts(changes)
    BY <2>3 DEF Names, NamesStarts
  <2> HIDE DEF ordered
  <2> QED BY <1>1, <2>2, <2>3, <2>4
<1>3. [][A]_vars <=> StartsAsAsked
  BY DEF StartsAsAsked
<1> QED BY <1>2, <1>3, TypeCorrect, PTL DEF Spec

\* An edit is verified just if what its session read first was readable as a whole: no
\* edit leaves what cannot be read back (build_program_patch).
THEOREM VerifiedAsWasRead == Spec => VerifiedAsRead
<1>1. ASSUME TypeOK, NEW l \in Letter, NEW daily, NEW changes,
             WellFormed(changes), Edit(l, changes, daily)
      PROVE  edit'.reported = "verified" <=> AllReadable(programs)
  <2>1. /\ Readable(programs[l], Count) /\ Readable(programs'[l], Count)
        /\ \A k \in Letter \ {l} : programs'[k] = programs[k]
    BY <1>1, EditStep, ReadableAfter
  <2>2. AllReadable(programs') <=> AllReadable(programs)
    BY <2>1 DEF AllReadable
  <2>3. edit'.reported = Reported
    BY <1>1 DEF Edit
  <2> QED BY <2>2, <2>3 DEF Reported
<1>2. TypeOK /\ [Next]_vars =>
        [edit' # None => (edit'.reported = "verified" <=> AllReadable(programs))]_vars
  BY <1>1, EditSteps
<1> QED BY <1>2, TypeCorrect, PTL DEF Spec, VerifiedAsRead

\* Both state what the last edit left, which only another step of the controller undoes.
LEMMA AfterEdit ==
    ASSUME TypeOK, NEW l \in Letter, NEW daily, NEW changes,
           WellFormed(changes), Edit(l, changes, daily)
    PROVE  RepeatIsNoOp' /\ DailyTotalIsSet'
<1> DEFINE old == programs[l]
           new == programs'[l]
<1>1. /\ Accepted(old, changes) /\ old \in Program /\ Merged(new, old, changes)
      /\ new = Edited(old, changes)
      /\ programs' \in [Letter -> Program]
      /\ \A k \in Letter \ {l} : programs'[k] = programs[k]
      /\ edit'.letter = l /\ edit'.changes = changes /\ edit'.daily = daily
  BY EditStep
<1>2. /\ Readable(old, Count) /\ plain' = plain
      /\ daily => ~DailyRefused(programs, plain, Count, l, changes)
  BY DEF Edit
<1>3. programs \in [Letter -> Program]
  BY DEF TypeOK
<1> HIDE DEF old, new
<1>4. ASSUME daily
      PROVE  /\ DOMAIN changes = {"station_runtimes"}
             /\ new.StartTimes = old.StartTimes /\ new.ScheduleType = old.ScheduleType
             /\ new.ScheduleDays = old.ScheduleDays
             /\ new.RunTime = Overwrite(old.RunTime, changes.station_runtimes)
  <2>1. DOMAIN changes = {"station_runtimes"}
    BY <1>2, <1>4 DEF DailyRefused
  <2> QED BY <1>1, <2>1 DEF Merged, NamesStarts
<1>5. ASSUME daily
      PROVE  ~DailyRefused(programs', plain', Count, l, changes)
  <2>1. /\ plain /\ old.ScheduleType = 0 /\ old.ScheduleDays = Day
        /\ OneStart(old.StartTimes)
        /\ \A k \in Letter : Readable(programs[k], Count)
        /\ \A k \in Letter \ {l} : MayRun(programs[k]) =>
              \A s \in DOMAIN changes.station_runtimes :
                 programs[k].RunTime[Index(s)] = 0
    BY <1>2, <1>3, <1>5 DEF DailyRefused, old
  <2>2. Readable(new, Count)
    <3>1. Len(new.RunTime) = Len(old.RunTime)
      BY <1>1, <1>4, <1>5, RunTimesLemma
    <3> QED BY <1>2, <1>4, <1>5, <3>1 DEF Readable
  <2>3. \A k \in Letter : Readable(programs'[k], Count)
    BY <1>1, <2>1, <2>2 DEF new
  <2>4. DOMAIN programs' = Letter
    BY <1>1
  <2>5. /\ programs'[l].ScheduleType = 0 /\ programs'[l].ScheduleDays = Day
        /\ OneStart(programs'[l].StartTimes)
    BY <1>4, <1>5, <2>1 DEF new
  <2> QED BY <1>1, <1>2, <1>4, <1>5, <2>1, <2>3, <2>4, <2>5 DEF DailyRefused
<1>6. RepeatIsNoOp'
  <2> SUFFICES ASSUME "start_time_slots" \notin DOMAIN changes
               PROVE  /\ ~Refused(new, Count, changes)
                      /\ Edited(new, changes) = new
                      /\ daily => ~DailyRefused(programs', plain', Count, l, changes)
    BY <1>1 DEF RepeatIsNoOp, new
  <2> QED BY <1>1, <1>5, EditedTwice
<1>7. DailyTotalIsSet'
  <2> DEFINE runtimes == changes.station_runtimes
  <2> SUFFICES ASSUME daily
               PROVE  /\ plain'
                      /\ \A k \in DOMAIN runtimes, d \in Day :
                            /\ Waters(programs'[l], d, k[2]) = runtimes[k]
                            /\ \A o \in Letter \ {l} : Waters(programs'[o], d, k[2]) = 0
    BY <1>1 DEF DailyTotalIsSet
  <2>1. /\ plain /\ old.ScheduleType = 0 /\ old.ScheduleDays = Day
        /\ OneStart(old.StartTimes)
        /\ \A k \in Letter : Readable(programs[k], Count)
        /\ \A k \in Letter \ {l} : MayRun(programs[k]) =>
              \A s \in DOMAIN runtimes : programs[k].RunTime[Index(s)] = 0
    BY <1>2, <1>3 DEF DailyRefused, old
  <2>2. ASSUME NEW k \in DOMAIN runtimes, NEW d \in Day
        PROVE  Waters(programs'[l], d, k[2]) = runtimes[k]
    <3>1. /\ \A j \in DOMAIN runtimes : Index(j) \in 1..Count /\ runtimes[j] \in 0..MaxRunTime
          /\ \A i, j \in DOMAIN runtimes : Index(i) = Index(j) => i = j
      BY <1>1, <1>4, RunTimesLemma
    <3>2. Index(k) \in DOMAIN old.RunTime
      <4>1. old.RunTime \in Seq(Nat)
        BY <1>1 DEF Program
      <4>2. Len(old.RunTime) \in Count..MaxStations
        BY <1>2 DEF Readable
      <4> QED BY <3>1, <4>1, <4>2, LenProperties
    <3>3. new.RunTime[k[2]] = runtimes[k]
      <4> HIDE DEF runtimes
      <4>1. new.RunTime = Overwrite(old.RunTime, runtimes)
        BY <1>4 DEF runtimes
      <4> QED BY <3>1, <3>2, <4>1, OverwriteLemma DEF Index
    <3>4. Cardinality({i \in 1..Slots : new.StartTimes[i] # Disabled}) = 1
      <4>1. DOMAIN new.StartTimes = 1..Slots
        BY <1>1, <1>4 DEF Program
      <4> QED BY <1>4, <2>1, <4>1 DEF OneStart
    <3>5. Waters(new, d, k[2]) = runtimes[k] * 1
      BY <1>4, <2>1, <3>3, <3>4 DEF Waters
    <3>6. runtimes[k] \in Nat
      BY <3>1
    <3> HIDE DEF runtimes
    <3> QED BY <3>5, <3>6 DEF new
  <2>3. ASSUME NEW k \in DOMAIN runtimes, NEW d \in Day, NEW o \in Letter \ {l}
        PROVE  Waters(programs'[o], d, k[2]) = 0
    <3> DEFINE p == programs[o]
               starts == {i \in 1..Slots : p.StartTimes[i] # Disabled}
    <3>1. p \in Program /\ programs'[o] = p
      BY <1>1, <1>3
    <3>2. p.StartTimes \in [1..Slots -> Start] /\ p.RunTime \in Seq(Nat)
      BY <3>1 DEF Program
    <3>3. p.RunTime[k[2]] \in Nat
      <4>1. Index(k) \in 1..Count
        BY <1>1, <1>4, RunTimesLemma
      <4>2. Len(p.RunTime) \in Count..MaxStations
        BY <2>1 DEF Readable
      <4> HIDE DEF p
      <4> QED BY <3>2, <4>1, <4>2, LenProperties DEF Index
    <3>4. Cardinality(starts) \in Nat
      <4>1. IsFiniteSet(1..Slots) /\ starts \in SUBSET (1..Slots)
        BY FS_Interval
      <4> HIDE DEF starts
      <4> QED BY <4>1, FS_Subset, FS_CardinalityType
    <3>5. Waters(p, d, k[2]) = IF p.ScheduleType = 0 /\ d \notin p.ScheduleDays THEN 0
                               ELSE p.RunTime[k[2]] * Cardinality(starts)
      BY DEF Waters
    <3>6. CASE MayRun(p)
      <4>1. p.RunTime[k[2]] = 0
        BY <2>1, <3>6 DEF Index
      <4> HIDE DEF starts, p
      <4> QED BY <3>1, <3>4, <3>5, <4>1
    <3>7. CASE Enabled(p.StartTimes) = {}
      <4>1. starts = {}
        <5>1. DOMAIN p.StartTimes = 1..Slots
          BY <3>2
        <5>2. \A i \in 1..Slots : p.StartTimes[i] = Disabled
          <6> HIDE DEF p
          <6> QED BY <3>7, <5>1 DEF Enabled
        <5> QED BY <5>2
      <4>2. Cardinality(starts) = 0
        BY <4>1, FS_EmptySet
      <4> HIDE DEF starts, p
      <4> QED BY <3>1, <3>3, <3>5, <4>2
    <3>8. CASE p.ScheduleType = 0 /\ p.ScheduleDays \cap Day = {}
      BY <3>1, <3>5, <3>8
    <3> QED BY <3>6, <3>7, <3>8 DEF MayRun
  <2> QED BY <1>2, <2>1, <2>2, <2>3
<1> QED BY <1>6, <1>7

LEMMA LastEditInit == Init => RepeatIsNoOp /\ DailyTotalIsSet
BY DEF Init, RepeatIsNoOp, DailyTotalIsSet

LEMMA LastEditStep ==
    TypeOK /\ RepeatIsNoOp /\ DailyTotalIsSet /\ [Next]_vars => RepeatIsNoOp' /\ DailyTotalIsSet'
<1> SUFFICES ASSUME TypeOK, RepeatIsNoOp, DailyTotalIsSet, [Next]_vars
             PROVE  RepeatIsNoOp' /\ DailyTotalIsSet'
  OBVIOUS
<1>1. CASE edit' = None
  BY <1>1 DEF RepeatIsNoOp, DailyTotalIsSet
<1>2. CASE UNCHANGED vars
  BY <1>2 DEF RepeatIsNoOp, DailyTotalIsSet, vars
<1> QED BY <1>1, <1>2, EditSteps, AfterEdit

\* An edit that ended unverified can be sent again (build_program_patch).
THEOREM RepeatsAreNoOps == Spec => []RepeatIsNoOp
BY LastEditInit, LastEditStep, TypeCorrect, PTL DEF Spec

\* After an upload under the daily guard each station gets just what it asks for
\* (validate_daily_runtime_sync).
THEOREM DailyTotalsAreSet == Spec => []DailyTotalIsSet
BY LastEditInit, LastEditStep, TypeCorrect, PTL DEF Spec
=============================================================================
