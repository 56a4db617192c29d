------------------------------- MODULE MCCsvImport ------------------------------
(***************************************************************************)
(* An instance of CsvImport for TLC: three names, three spots in a row, and*)
(* a file of two rows of which one was heard, too.  A behaviour starts     *)
(* with an empty database or with one the operations have made.            *)
(***************************************************************************)
EXTENDS CsvImport

CONSTANTS x, y, z, c1, c2, u, addr

TwoPredefined == [n \in Name |-> [rate |-> IF n = y THEN 40 ELSE Null, free |-> FALSE]]
OneTemplate == [n \in Name |-> IF n = y THEN <<1>> ELSE <<>>]

ReportOf(src, network, name, at, address, energy, home) ==
    [src |-> src, network |-> network, name |-> name, at |-> at, address |-> address,
     day |-> 1, energy |-> energy, home |-> home]

TwoCharges == [key \in {c1, c2} |->
    IF key = c1 THEN ReportOf("ha_fordpass", x, y, 0, Null, 20, FALSE)
                ELSE ReportOf("fcon", Null, z, 2, addr, Null, TRUE)]

LineOf(sid, start, name, energy, network, at, address) ==
    [sid |-> sid, start |-> start, name |-> name, energy |-> energy, network |-> network,
     at |-> at, address |-> address, cost |-> 7]

\* Both rows may resemble the same session; one has no network.
TwoRows == <<LineOf(c2, 1, y, 20, Null, 1, Null), LineOf(Null, 1, y, 20, x, Null, addr)>>
OneEdition == {LineOf(Null, Null, y, Null, x, Null, Null)}

Keys == {c1, c2, u} \cup {KeyOf(TwoRows[i]) : i \in DOMAIN TwoRows}

Blank == [nets |-> [i \in NetId |-> NoRow], aliases |-> [n \in Name |-> Null],
          places |-> [i \in PlaceId |-> NoRow], gps |-> [i \in GpsId |-> NoRow],
          stalls |-> [i \in StallId |-> NoRow], periods |-> {},
          sessions |-> [i \in SessionId |-> NoRow]]

\* Two networks, the second with a rate and a membership on day 1, one charge heard.
Used ==
    LET heard == AfterCharge(Blank, c1)
        priced == [heard EXCEPT !.nets = Put(@, Network(y, TRUE, Null, 40, FALSE)), !.nets[1].rate = 50]
        period(n, rate) == Period(n, n, [from |-> n, to |-> n + 1], rate, Fee)
    IN  [priced EXCEPT !.periods = {period(1, 30), period(2, 20)}]

\* One network merged into another, one location into another.
Merged == AfterPlaceMerge(AfterCharge(AfterMerge(Used, 1, 2), c2), 1, 2)

OneSpan == {[from |-> 2, to |-> 2], [from |-> 3, to |-> Null]}

\* The second month has no average; the odometer of one run falls, that of the other is unknown.
TwoPrices == {[month |-> 0, station |-> 2, average |-> 4], [month |-> 1, station |-> 5, average |-> Null]}
Reading(day, km) == [day |-> day, km |-> km]
TwoReadings == {<<Reading(1, 100), Reading(2, 40), Reading(31, 90)>>, <<>>}
TwoTrips == {Reading(1, 12), Reading(3, 12)}

FromBlank == {Blank}
Starts3 == {Blank, Used, Merged}
=============================================================================
