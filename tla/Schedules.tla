----------------------------- MODULE Schedules -----------------------------
(***************************************************************************)
(* The rules for editing a program (schedules.py): which changes are       *)
(* refused, and what a program is after the changes that are not.          *)
(*                                                                         *)
(* A program is the record the controller sends. ScheduleDays is the set   *)
(* of the bits of that integer. Changes are a record with the fields the   *)
(* caller names. The keys of a mapping are 1 or "1", here <<"int", 1>> or  *)
(* <<"str", 1>>. A time is its minute of the day, Disabled for null.       *)
(***************************************************************************)
EXTENDS Integers, Sequences, FiniteSets

CONSTANTS Slots,      \* start slots of a program: 8
          MaxTime,    \* the last minute of a day: 1439
          Disabled,   \* an unused slot: 65535
          MaxRunTime, \* the longest run time an edit may ask for: 3600
          MaxStations, \* 4
          Day,        \* the bits of ScheduleDays that are weekdays: 0..6
          Name        \* names of 1 to 14 bytes without control characters

ASSUME SchedulesAssumption ==
    /\ Slots \in Nat \ {0}
    /\ MaxTime \in Nat
    /\ Disabled \in Nat
    /\ Disabled > MaxTime
    /\ MaxRunTime \in Nat
    /\ MaxStations \in Nat \ {0}
    /\ Day \subseteq 0..15 \* ScheduleDays has 16 bits

Time == 0..MaxTime
Start == Time \cup {Disabled}
Field == {"name", "station_runtimes", "start_times", "start_time_slots",
          "weekdays", "weekday_flags"}

\* HunterNodeProgram.from_raw: what the integration can read.
Readable(raw, count) ==
    /\ Len(raw.StartTimes) = Slots
    /\ \A i \in DOMAIN raw.StartTimes : raw.StartTimes[i] \in Start
    /\ Len(raw.RunTime) \in count..MaxStations
-----------------------------------------------------------------------------
(* Mappings from slots or stations *)

\* Mutant: numbers count from 0.
IndexFromZero(key) == key[2] + 1
Index(key) == key[2]

IsMapping(m, max) ==
    /\ DOMAIN m # {}
    /\ \A k \in DOMAIN m : Index(k) \in 1..max
    /\ \A j, k \in DOMAIN m : Index(j) = Index(k) => j = k

Overwrite(array, m) ==
    [i \in DOMAIN array |->
        IF \E k \in DOMAIN m : Index(k) = i
        THEN m[CHOOSE k \in DOMAIN m : Index(k) = i] ELSE array[i]]
-----------------------------------------------------------------------------
(* Start times *)

Enabled(starts) == {starts[i] : i \in DOMAIN starts} \ {Disabled}

HasDuplicates(starts) ==
    \E i, j \in DOMAIN starts : i # j /\ starts[i] = starts[j] /\ starts[i] # Disabled

\* Mutant: the list is not padded.
SortedUnpadded(times) ==
    [i \in 1..Cardinality(times) |->
        CHOOSE m \in times : Cardinality({n \in times : n <= m}) = i]

\* Enabled times in order, then unused slots, as the firmware keeps them.
Sorted(times) ==
    [i \in 1..Slots |->
        IF i > Cardinality(times) THEN Disabled
        ELSE CHOOSE m \in times : Cardinality({n \in times : n <= m}) = i]

NamesStarts(changes) == DOMAIN changes \cap {"start_times", "start_time_slots"} # {}

\* The list the caller means, before it is sorted.
MeantStarts(raw, changes) ==
    IF "start_times" \in DOMAIN changes THEN changes.start_times
    ELSE Overwrite(raw.StartTimes, changes.start_time_slots)
-----------------------------------------------------------------------------
(* Weekdays *)

\* Mutant: a switch toggles its day.
FlagsToggled(days, flags) ==
    (days \cup DOMAIN flags) \ (days \cap DOMAIN flags)

Flagged(days, flags) ==
    (days \cup {d \in DOMAIN flags : flags[d]}) \ {d \in DOMAIN flags : ~flags[d]}
-----------------------------------------------------------------------------
(* build_program_patch *)

Refused(raw, count, changes) ==
    LET named == DOMAIN changes
    IN  \/ named = {}
        \/ ~(named \subseteq Field)
        \/ "name" \in named /\ changes.name \notin Name
        \/ /\ "station_runtimes" \in named
           /\ \/ ~IsMapping(changes.station_runtimes, count)
              \/ \E k \in DOMAIN changes.station_runtimes :
                    changes.station_runtimes[k] \notin 0..MaxRunTime
        \/ {"start_times", "start_time_slots"} \subseteq named
        \/ /\ "start_times" \in named
           /\ \/ Len(changes.start_times) > Slots
              \/ \E i \in DOMAIN changes.start_times : changes.start_times[i] \notin Start
        \/ /\ "start_time_slots" \in named
           /\ \/ ~IsMapping(changes.start_time_slots, Slots)
              \/ \E k \in DOMAIN changes.start_time_slots :
                    changes.start_time_slots[k] \notin Start
        \/ NamesStarts(changes) /\ HasDuplicates(MeantStarts(raw, changes))
        \/ NamesStarts(changes) /\ "station_runtimes" \in named
        \/ {"weekdays", "weekday_flags"} \subseteq named
        \/ "weekdays" \in named /\ ~(changes.weekdays \subseteq Day)
        \/ /\ "weekday_flags" \in named
           /\ \/ raw.ScheduleType # 0
              \/ DOMAIN changes.weekday_flags = {}
              \/ ~(DOMAIN changes.weekday_flags \subseteq Day)

\* The program with the patch merged in; the patch holds the fields that differ.
Edited(raw, changes) ==
    LET named == DOMAIN changes
        picksDays == "weekdays" \in named
    IN  [raw EXCEPT
          !.Name = IF "name" \in named THEN changes.name ELSE @,
          !.RunTime = IF "station_runtimes" \in named
                      THEN Overwrite(@, changes.station_runtimes) ELSE @,
          !.StartTimes = IF NamesStarts(changes)
                         THEN Sorted(Enabled(MeantStarts(raw, changes))) ELSE @,
          !.ScheduleType = IF picksDays THEN 0 ELSE @,
          !.ScheduleDays = IF picksDays THEN changes.weekdays
                           ELSE IF "weekday_flags" \in named
                           THEN Flagged(@, changes.weekday_flags) ELSE @,
          !.IntervalDayCount = IF picksDays THEN 0 ELSE @,
          !.IntervalDayNext = IF picksDays THEN 0 ELSE @]
-----------------------------------------------------------------------------
(* validate_daily_runtime_sync *)

OneStart(starts) ==
    /\ Cardinality({i \in DOMAIN starts : starts[i] # Disabled}) = 1

\* Mutant: programs for odd, even or every few days are overlooked.
MayRunOnWeekdays(raw) == raw.ScheduleType = 0 /\ raw.ScheduleDays \cap Day # {}

\* A program that may run on some day.
MayRun(raw) ==
    /\ Enabled(raw.StartTimes) # {}
    /\ raw.ScheduleType = 0 => raw.ScheduleDays \cap Day # {}

\* plain: seasonal adjustment is at 100% and the monthly one is off.
DailyRefused(programs, plain, count, letter, changes) ==
    \/ DOMAIN changes # {"station_runtimes"}
    \/ ~plain
    \/ \E l \in DOMAIN programs : ~Readable(programs[l], count)
    \/ programs[letter].ScheduleType # 0
    \/ programs[letter].ScheduleDays # Day
    \/ ~OneStart(programs[letter].StartTimes)
    \/ \E l \in DOMAIN programs \ {letter} :
          /\ MayRun(programs[l])
          /\ \E k \in DOMAIN changes.station_runtimes :
                programs[l].RunTime[Index(k)] # 0
=============================================================================
