--------------------------- MODULE ScheduleEdits ---------------------------
(***************************************************************************)
(* Edits of the controller's programs over time: by the entities, which    *)
(* show the last published configuration, by the set_program action, and   *)
(* by the phone app, which publishes nothing. An edit is applied to what   *)
(* its own session read (module Coordinator), never to what is shown.      *)
(* Entities may be called here even while the coordinator is unavailable.  *)
(***************************************************************************)
EXTENDS Schedules

CONSTANTS Letter,
          Count,         \* stations of the controller
          Programs,      \* bound: the configurations the app may leave
          ActionChanges, \* bound: the changes the action is called with
          Durations,     \* bound: run times asked for, also too long ones
          None

VARIABLES programs, \* of the controller
          plain,    \* the controller: no seasonal adjustment
          view,     \* the programs the entities show, None before the first read
          edit      \* history: the edit just accepted, and how it was reported

vars == <<programs, plain, view, edit>>

Program == [Name : Name, StartTimes : [1..Slots -> Start],
            RunTime : Seq(Nat), ScheduleType : 0..255, ScheduleDays : SUBSET (0..15),
            IntervalDayCount : Nat, IntervalDayNext : Nat]

ASSUME ScheduleEditsAssumption ==
    /\ Count \in 1..MaxStations
    /\ Programs \subseteq [Letter -> Program]
    \* the schema of the action asks for a list
    /\ \A c \in ActionChanges : "start_times" \in DOMAIN c => c.start_times \in Seq(Int)

TypeOK ==
    /\ programs \in [Letter -> Program]
    /\ plain \in BOOLEAN
    /\ view \in [Letter -> Program] \cup {None}
    /\ edit = None \/ edit.letter \in Letter

Init ==
    /\ programs \in Programs
    /\ plain \in BOOLEAN
    /\ view = None
    /\ edit = None

AllReadable(configuration) == \A l \in Letter : Readable(configuration[l], Count)

\* Mutant: an edit starts from what is shown.
BaseShown(letter) == view[letter]

\* An edit starts from the program its own session read.
Base(letter) == programs[letter]

\* Every edit ends by publishing what its session read last, which must be readable as
\* a whole. If it is not, an edit that was written is unverified, any other one failed.
Reported ==
    IF AllReadable(programs') THEN "verified"
    ELSE IF programs' # programs THEN "unverified" ELSE "failed"

\* Accepted by build_program_patch and, when asked for, the daily guard.
Edit(letter, changes, daily) ==
    /\ Readable(programs[letter], Count)
    /\ ~Refused(Base(letter), Count, changes)
    /\ daily => ~DailyRefused(programs, plain, Count, letter, changes)
    /\ programs' = [programs EXCEPT ![letter] = Edited(Base(letter), changes)]
    /\ view' = IF Reported = "verified" THEN programs' ELSE view
    /\ edit' = [letter |-> letter, changes |-> changes, daily |-> daily,
                reported |-> Reported]
    /\ UNCHANGED plain

Only(key, value) == [k \in {key} |-> value]

\* The time entity of a slot is set, or cleared.
SetStart(letter, slot, time) ==
    /\ view # None
    /\ Edit(letter, [start_time_slots |-> Only(<<"int", slot>>, time)], FALSE)

SetRuntime(letter, station, duration) ==
    /\ view # None
    /\ Edit(letter, [station_runtimes |-> Only(<<"int", station>>, duration)], FALSE)

\* The switch of a weekday is unavailable unless the program is shown in that mode.
SwitchDay(letter, day, on) ==
    /\ view # None
    /\ view[letter].ScheduleType = 0
    /\ Edit(letter, [weekday_flags |-> Only(day, on)], FALSE)

SetName(letter, name) ==
    /\ view # None
    /\ Edit(letter, [name |-> name], FALSE)

\* The action; the blueprint calls it with daily.
SetProgram(letter, changes, daily) ==
    /\ view # None
    /\ Edit(letter, changes, daily)

Poll ==
    /\ AllReadable(programs)
    /\ view' = programs
    /\ edit' = None
    /\ UNCHANGED <<programs, plain>>

AppEdit ==
    /\ programs' \in Programs
    /\ plain' \in BOOLEAN
    /\ edit' = None
    /\ UNCHANGED view

Next ==
    \/ \E l \in Letter :
          \/ \E s \in 1..Slots, m \in Start : SetStart(l, s, m)
          \/ \E s \in 1..Count, d \in Durations : SetRuntime(l, s, d)
          \/ \E d \in Day, on \in BOOLEAN : SwitchDay(l, d, on)
          \/ \E n \in Name : SetName(l, n)
          \/ \E c \in ActionChanges, daily \in BOOLEAN : SetProgram(l, c, daily)
    \/ Poll
    \/ AppEdit

Spec == Init /\ [][Next]_vars
-----------------------------------------------------------------------------
(* Properties *)

Names(field) == field \in DOMAIN edit'.changes

Named(m) == {k[2] : k \in DOMAIN m}

\* Whatever an edit does not name stays as the controller has it, also what the app
\* changed since the configuration was shown: other programs, hidden stations, other
\* weekdays and bits, other fields (SCHEDULES.md:24, "preserve other weekdays").
OnlyNamedChange ==
    [][edit' # None =>
        LET l == edit'.letter
            old == programs[l]
            new == programs'[l]
        IN  /\ \A other \in Letter \ {l} : programs'[other] = programs[other]
            /\ ~Names("name") => new.Name = old.Name
            /\ ~Names("start_times") /\ ~Names("start_time_slots") =>
                  new.StartTimes = old.StartTimes
            /\ DOMAIN new.RunTime = DOMAIN old.RunTime
            /\ \A s \in DOMAIN old.RunTime :
                  \/ new.RunTime[s] = old.RunTime[s]
                  \/ Names("station_runtimes") /\ s \in Named(edit'.changes.station_runtimes)
            /\ ~Names("weekdays") =>
                  /\ new.ScheduleType = old.ScheduleType
                  /\ new.IntervalDayCount = old.IntervalDayCount
                  /\ new.IntervalDayNext = old.IntervalDayNext
                  /\ \A b \in 0..15 :
                        \/ b \in new.ScheduleDays <=> b \in old.ScheduleDays
                        \/ Names("weekday_flags") /\ b \in DOMAIN edit'.changes.weekday_flags]_vars

\* An edit never leaves what the integration cannot read back: whether it is verified
\* was settled before its write, by what the app left in the other programs
\* (build_program_patch, HunterNodeData.from_responses).
VerifiedAsRead ==
    [][edit' # None => (edit'.reported = "verified" <=> AllReadable(programs))]_vars

\* After an edit of start times the controller has each time that was asked for and,
\* of an edit of slots, each time of another slot, once, in order and with the unused
\* slots at the end, so that it reads back as it was written.
StartsAsAsked ==
    [][edit' # None /\ (Names("start_times") \/ Names("start_time_slots")) =>
        LET old == programs[edit'.letter].StartTimes
            new == programs'[edit'.letter].StartTimes
            changes == edit'.changes
            asked == IF Names("start_times") THEN {changes.start_times[i] :
                                                     i \in DOMAIN changes.start_times}
                     ELSE {changes.start_time_slots[k] : k \in DOMAIN changes.start_time_slots}
                          \cup {old[i] : i \in 1..Slots \ Named(changes.start_time_slots)}
        IN  /\ \A m \in Time : m \in asked <=> \E i \in 1..Slots : new[i] = m
            /\ \A i, j \in 1..Slots : i < j => new[i] < new[j] \/ new[j] = Disabled]_vars

\* The same edit again would be accepted and change nothing, unless it names start
\* slots, whose numbers move: an edit that ended unverified can be repeated.
RepeatIsNoOp ==
    edit # None /\ "start_time_slots" \notin DOMAIN edit.changes =>
        /\ ~Refused(programs[edit.letter], Count, edit.changes)
        /\ Edited(programs[edit.letter], edit.changes) = programs[edit.letter]
        /\ edit.daily => ~DailyRefused(programs, plain, Count, edit.letter, edit.changes)

\* What program p waters station s on weekday d, unless its calendar says otherwise.
Waters(p, d, s) ==
    IF p.ScheduleType = 0 /\ d \notin p.ScheduleDays THEN 0
    ELSE p.RunTime[s] * Cardinality({i \in 1..Slots : p.StartTimes[i] # Disabled})

\* After an upload that asked for the daily guard each station it names is watered
\* on every day for just that long, by all programs together and unadjusted.
DailyTotalIsSet ==
    edit # None /\ edit.daily =>
        /\ plain
        /\ \A k \in DOMAIN edit.changes.station_runtimes, d \in Day :
              /\ Waters(programs[edit.letter], d, k[2]) = edit.changes.station_runtimes[k]
              /\ \A l \in Letter \ {edit.letter} : Waters(programs[l], d, k[2]) = 0
=============================================================================
