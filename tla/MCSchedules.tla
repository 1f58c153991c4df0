---------------------------- MODULE MCSchedules ----------------------------
(* Instances of ScheduleEdits for TLC: two weekdays, three start slots, one  *)
(* visible and one hidden station.                                           *)
EXTENDS ScheduleEdits

P(name, starts, times, type, days, next) ==
    [Name |-> name, StartTimes |-> starts, RunTime |-> times, ScheduleType |-> type,
     ScheduleDays |-> days, IntervalDayCount |-> next, IntervalDayNext |-> next]

D == Disabled

\* Unsorted, duplicate and long settings of the app, every mode, and a program the
\* integration cannot read.
AppPrograms ==
    {P("n1", <<0, 2, D>>, <<1, 2>>, 0, {0, 8}, 0),
     P("n1", <<1, 1, D>>, <<3, 0>>, 0, {0, 1}, 0),
     P("n2", <<2, D, 0>>, <<0, 1>>, 1, {8}, 0),
     P("n2", <<D, D, D>>, <<1, 1>>, 2, {}, 1),
     P("n1", <<0, 1, 2>>, <<>>, 0, {1}, 0)}

OneProgram == {[l \in Letter |-> p] : p \in AppPrograms}

Runs(form, station, duration) == [station_runtimes |-> Only(<<form, station>>, duration)]

Changes ==
    {[start_times |-> s] : s \in {<<>>, <<2, 0>>, <<1, 1>>, <<0, 1, 2, D>>}} \cup
    {[start_time_slots |-> [k \in {<<"int", 1>>, <<"str", 3>>} |->
                              IF k[2] = 1 THEN D ELSE 1]],
     [start_time_slots |-> [k \in {<<"int", 2>>, <<"str", 2>>} |-> D]],
     [weekdays |-> {0}, name |-> "n2"],
     [weekdays |-> {1}, start_times |-> <<2, 1>>],
     [start_times |-> <<0>>, start_time_slots |-> Only(<<"int", 1>>, 1)],
     [start_times |-> <<0>>, station_runtimes |-> Only(<<"str", 1>>, 1)],
     [station_runtimes |-> [k \in {<<"int", 1>>, <<"str", 1>>} |-> 1]]}

\* A as the daily guard wants it or with another mode, day or start; B idle, active,
\* active every few days, or unreadable.
DailyPrograms ==
    {[l \in Letter |-> IF l = "A" THEN a ELSE b] :
        a \in {P("n1", <<0, D>>, <<1>>, 0, {0}, 0), P("n1", <<0, 0>>, <<1>>, 0, {0}, 0),
               P("n1", <<0, D>>, <<1>>, 1, {8}, 0), P("n1", <<0, D>>, <<1>>, 0, {0, 8}, 0)},
        b \in {P("n1", <<0, D>>, <<0>>, 0, {0}, 0), P("n1", <<0, D>>, <<1>>, 2, {}, 1),
               P("n1", <<0, D>>, <<1>>, 0, {}, 0), P("n1", <<0, D>>, <<>>, 0, {}, 0)}}

DailyChanges == {Runs(form, 1, d) : form \in {"int", "str"}, d \in Durations}
=============================================================================
