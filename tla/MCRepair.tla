------------------------------- MODULE MCRepair -------------------------------
(***************************************************************************)
(* An instance of Repair for TLC.  Three tables of the past: a trip, its   *)
(* twin in miles and the next drive, which looks like a twin but for its   *)
(* start; a trip recorded three times; a trip converted twice and a later  *)
(* one the user entered.                                                   *)
(***************************************************************************)
EXTENDS Repair

CONSTANTS d1, d2, d3

Report(stamped, end, duration, distance, energy, regen, temp) ==
    [stamped |-> stamped, end |-> end, duration |-> duration, distance |-> distance,
     energy |-> energy, eff |-> Null, regen |-> regen, temp |-> temp]

\* What is in Home Assistant's history: d1's events, d2's elveh report, and
\* what the metrics entity said after it.
SomeEvents == [d \in Drive |-> IF d = d1 THEN Report(TRUE, 1005, 5, 500, 90, Null, 20) ELSE Null]
SomeElveh == [d \in Drive |-> IF d = d2 THEN Report(FALSE, 1015, 4, 311, 80, 7, Null) ELSE Null]
SomeMetrics == [d \in Drive |-> IF d = d2 THEN [at |-> 1018, regen |-> 7] ELSE Null]
SomeFolds == [d \in Drive |->
    IF d = d1 THEN [start |-> 1000, end |-> 1004, odoStart |-> 80000, distance |-> 500,
                    energy |-> 100, regen |-> Null, temp |-> 22] ELSE Null]
SomeStatus == {[at |-> 994, odometer |-> 80000, ignition |-> "OFF", temp |-> Null],
               [at |-> 1000, odometer |-> 80000, ignition |-> "ON", temp |-> 23],
               [at |-> 1005, odometer |-> 80500, ignition |-> "OFF", temp |-> 25]}
OneTyped == {[drive |-> d2, end |-> 1020, duration |-> Null, distance |-> 311, energy |-> 80]}

History == <<[kind |-> "events", drive |-> d1], [kind |-> "elveh", drive |-> d2],
             [kind |-> "metrics", drive |-> d2]>>
Archive == <<d1>>

Trip(start, end, duration, distance, energy, drive) ==
    [key |-> <<"ha", end>>, start |-> start, end |-> end, duration |-> duration,
     distance |-> distance, energy |-> energy, eff |-> Null, regen |-> Null, temp |-> Null,
     odoStart |-> Null, odoEnd |-> Null, src |-> "ha", drive |-> drive, by |-> {"ha"}]

Table(list) == [i \in Id |-> IF i \in DOMAIN list THEN list[i] ELSE NoRow]

Twinned == Table(<<Trip(1000, 1005, 5, 500, 90, d1),
                   Trip(1005, 1009, 4, 311, 80, d3),
                   Trip(Null, 1004, Null, 805, Null, d1)>>)
Tripled == Table(<<Trip(1000, 1005, 5, 805, 90, d1),
                   Trip(1000, 1004, Null, 500, Null, d1),
                   Trip(Null, 1006, Null, 500, 92, d1)>>)
Converted == Table(<<[Trip(Null, 1005, Null, 805, 90, d1) EXCEPT !.odoStart = 80000,
                                                                 !.odoEnd = 80500],
                     ManualTrip([CHOOSE t \in OneTyped : TRUE EXCEPT !.end = 1016])>>)

PastTables == {Twinned, Tripled, Converted}
=============================================================================
