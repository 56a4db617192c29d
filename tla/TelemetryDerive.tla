---------------------------- MODULE TelemetryDerive ----------------------------
(***************************************************************************)
(* What a trip that lacks its timing, odometers, efficiency or temperature *)
(* can be given from the vehicle's status rows (telemetry_derive.py): the  *)
(* lookups in the timeline, and the columns they fill, in their order.     *)
(***************************************************************************)
EXTENDS Trips, FiniteSetsExt

Minute == 2                   \* the unit of time is half a minute
Hour == 60 * Minute

Latest(statuses) == CHOOSE s \in statuses : \A r \in statuses : r.at <= s.at

TimeOf(statuses) == IF statuses = {} THEN Null ELSE Latest(statuses).at

Between(from, to) == {s \in Status : from <= s.at /\ s.at <= to}

Before(from, time) == {s \in Status : from <= s.at /\ s.at < time}

WithOdometer(statuses) == {s \in statuses : s.odometer # Null}

\* _odometer_at_end
OdometerAtEnd(end) ==
    LET near == WithOdometer(Between(end - 30 * Minute, end + 5 * Minute))
    IN  IF near = {} THEN Null ELSE Latest(near).odometer

\* _start_from_odometer: neither past the start's reading nor an older journey's.
StartFromOdometer(end, odoStart) ==
    TimeOf({s \in WithOdometer(Before(end - 48 * Hour, end)) :
              odoStart - 100 <= s.odometer /\ s.odometer <= odoStart + 50})

\* _odometer_near
OdometerNear(time) ==
    LET near == WithOdometer(Between(time - 5 * Minute, time + 5 * Minute))
    IN  IF near = {} THEN Null
        ELSE (CHOOSE s \in near : \A r \in near : Gap(s.at, time) <= Gap(r.at, time)).odometer

\* The statuses at which the ignition goes from OFF to ON; others do not count.
KeyOns(end) ==
    LET told == {s \in Before(end - 12 * Hour, end) : s.ignition \in {"ON", "OFF"}}
        Previous(s) == {r \in told : r.at < s.at}
    IN  {s \in told : /\ s.ignition = "ON" /\ Previous(s) # {}
                      /\ Latest(Previous(s)).ignition = "OFF"}

\* _start_from_ignition: the latest key-on at the trip's first reading.  Where
\* nothing can be compared only the very latest is trusted.
StartFromIgnition(end, odoStart) ==
    LET keyOns     == KeyOns(end)
        Reading(s) == Fill(s.odometer, OdometerNear(s.at))
        blind      == {s \in keyOns : Null \in {odoStart, Reading(s)}}
        matching   == {s \in keyOns \ blind : Gap(Reading(s), odoStart) <= 100}
        stop       == Latest(blind \cup matching)
    IN  IF blind \cup matching = {} THEN Null
        ELSE IF stop \in matching \/ stop = Latest(keyOns) THEN stop.at ELSE Null

\* _plausible: from a minute to a day, from 2 to 180 km/h.
Plausible(distance, time) ==
    /\ Minute <= time /\ time <= 24 * Hour
    /\ distance # Null /\ distance > 0
    /\ 20 * time <= 12 * distance /\ 12 * distance <= 1800 * time

\* _mean_temps
MeanTemperature(from, to) ==
    LET told == {s \in Between(from, to) : s.temp # Null}
    IN  IF told = {} THEN Null
        ELSE MapThenSumSet(LAMBDA s : s.temp, told) \div Cardinality(told)

\* Start and duration: from the stored duration; else where the odometer was at
\* its first reading; else from the ignition.
Timing(row, odoStart, odoEnd) ==
    LET pinned    == IF row.start = Null /\ row.duration # Null
                     THEN row.end - row.duration ELSE row.start
        measured  == IF pinned # Null \/ odoEnd = Null \/ odoStart = Null THEN Null
                     ELSE StartFromOdometer(row.end, odoStart)
        candidate == Fill(pinned, measured)
        timed     == /\ odoEnd # Null /\ candidate # Null
                     /\ Plausible(row.distance, row.end - candidate)
        keyOn     == StartFromIgnition(row.end, odoStart)
    IN  IF timed THEN [start |-> candidate, duration |-> Fill(row.duration, row.end - candidate)]
        ELSE IF pinned = Null /\ keyOn # Null /\ Plausible(row.distance, row.end - keyOn)
        THEN [start |-> keyOn, duration |-> Fill(row.duration, row.end - keyOn)]
        ELSE [start |-> pinned, duration |-> row.duration]

\* The columns but the temperature.
WithTiming(row, odoStart, odoEnd, timing) ==
    [row EXCEPT !.odoEnd = odoEnd, !.odoStart = Fill(@, odoStart),
                !.start = timing.start, !.duration = timing.duration,
                !.eff = IF row.distance = 0 THEN @ ELSE Fill(@, Ratio(row))]

WithTemperature(row, start) ==
    [row EXCEPT !.temp = IF start = Null THEN @ ELSE Fill(@, MeanTemperature(start, row.end))]

\* Faulty variant: the temperature needs the start that was stored.
CompletedLate(row, odoStart, odoEnd, timing) ==
    WithTemperature(WithTiming(row, odoStart, odoEnd, timing), row.start)

Completed(row, odoStart, odoEnd, timing) ==
    WithTemperature(WithTiming(row, odoStart, odoEnd, timing), timing.start)

\* _changes, on a row of the operation.
Derived(row) ==
    LET odoEnd   == Fill(row.odoEnd, OdometerAtEnd(row.end))
        odoStart == IF odoEnd = Null THEN Null
                    ELSE IF row.distance \in {Null, 0} THEN row.odoStart
                    ELSE Fill(row.odoStart, odoEnd - row.distance)
    IN  Completed(row, odoStart, odoEnd, Timing(row, odoStart, odoEnd))
=============================================================================
