------------------------------- MODULE MCTrips -------------------------------
(***************************************************************************)
(* An instance of Trips and its pages for TLC: two drives, the second of   *)
(* which begins as the first ends and is its twin in miles.  The elveh     *)
(* entity does not say when the first ended; Home Assistant has its        *)
(* distance wrong.                                                         *)
(***************************************************************************)
EXTENDS TripPages

CONSTANTS d1, d2

Report(stamped, end, duration, distance, energy, eff, regen, temp) ==
    [stamped |-> stamped, end |-> end, duration |-> duration, distance |-> distance,
     energy |-> energy, eff |-> eff, regen |-> regen, temp |-> temp]

TwoEvents == [d \in Drive |-> IF d = d1 THEN Report(TRUE, 1005, 5, 805, 90, Null, Null, 20)
                                        ELSE Report(TRUE, 1009, 4, 311, 80, Null, Null, Null)]
TwoElveh == [d \in Drive |-> IF d = d1 THEN Report(FALSE, 1005, 5, 805, 90, <<80, 9>>, 7, 21)
                                       ELSE Null]
TwoMetrics == [d \in Drive |-> IF d = d1 THEN [at |-> 1006, regen |-> 7] ELSE Null]
TwoFolds == [d \in Drive |->
    IF d = d1 THEN [start |-> 999, end |-> 1004, odoStart |-> 80000, distance |-> 500,
                    energy |-> 100, regen |-> Null, temp |-> 22]
              ELSE [start |-> 1006, end |-> 1010, odoStart |-> 80500, distance |-> 300,
                    energy |-> 70, regen |-> 1, temp |-> Null]]
OneStatus == {[at |-> 1002, odometer |-> 80480, ignition |-> "ON", temp |-> Null]}
TwoTyped == {[drive |-> d2, end |-> 500, duration |-> Null, distance |-> 311, energy |-> 80],
             [drive |-> d1, end |-> 2880, duration |-> 6, distance |-> 900, energy |-> Null]}

\* Nothing hidden; trips under two minutes and 3.5 km, and those that stood, hidden.
TwoRules == {[short |-> FALSE, minDuration |-> 0, minDistance |-> 0, stationary |-> FALSE],
             [short |-> TRUE, minDuration |-> 6, minDistance |-> 350, stationary |-> TRUE]}

Span(from, to) == [from |-> from, to |-> to]
SinceFirst == Span(1000, Null)
ThreeWindows == {Span(Null, Null), SinceFirst, Span(1003, 1008)}

\* The premises of the properties.
ASSUME InstanceIsRecognisable == Recognisable /\ ReportsAgree
=============================================================================
