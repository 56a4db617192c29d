------------------------------- MODULE TripPages -------------------------------
(***************************************************************************)
(* What the pages say about the trips: the list and its export             *)
(* (queries/trips.py, routes/trips.py), the performance page               *)
(* (queries/driving_performance.py) and the regeneration it shows          *)
(* (queries/energy.py).  Each is a query over the rows of Trips, with the  *)
(* window of the filter bar and the user's rule for hiding short trips.    *)
(* The conditions are SQL's: one about a NULL is NULL, and selects no row. *)
(***************************************************************************)
EXTENDS Trips, FiniteSetsExt

CONSTANTS
    Hide,       \* the rules: [short, minDuration, minDistance, stationary]
    Window_,    \* the windows: [from, to], Null where open
    Preset      \* the window of the last 30 days

\* The limits are settings with a default, and never missing.
ASSUME PagesAssumption ==
    /\ Null \notin BOOLEAN
    /\ \A hide \in Hide : {hide.short, hide.stationary} \subseteq BOOLEAN
                         /\ {hide.minDuration, hide.minDistance} \subseteq Int
    /\ \A w \in Window_ : {w.from, w.to} \subseteq Int \cup {Null}

Holds(x) == x = TRUE

Conjoined(S) == IF FALSE \in S THEN FALSE ELSE IF Null \in S THEN Null ELSE TRUE
Disjoined(S) == IF TRUE \in S THEN TRUE ELSE IF Null \in S THEN Null ELSE FALSE
Negated(x)   == IF x = Null THEN Null ELSE ~x

Less(a, b) == IF Null \in {a, b} THEN Null ELSE a < b

\* window_clause
Within(time, w) ==
    Conjoined({IF w.from = Null THEN TRUE ELSE Negated(Less(time, w.from)),
               IF w.to = Null THEN TRUE ELSE Less(time, w.to)})

\* Faulty variant: what is not recorded is not compared.
UnderIfKnown(x, limit) == Less(x, limit)

\* NULL counts as under.
Under(x, limit) == Disjoined({x = Null, Less(x, limit)})

\* is_stationary: under STATIONARY_MAX_KM.
Stationary(row) == Conjoined({row.distance # Null, Less(row.distance, 5)})

\* build_short_trip_filter(hidden=True)
IsHidden(row, hide) ==
    Disjoined((IF hide.short
               THEN {Conjoined({Under(row.duration, hide.minDuration), Under(row.distance, hide.minDistance)})}
               ELSE {})
              \cup (IF hide.stationary THEN {Stationary(row)} ELSE {}))

Visible(hide) == {i \in Stored(rows) : Holds(Negated(IsHidden(rows[i], hide)))}

-----------------------------------------------------------------------------
\* query_trips, query_hidden_trip_count
Listed(w, hide) == {i \in Visible(hide) : Holds(Within(rows[i].end, w))}

HiddenFrom(w, hide) ==
    {i \in Stored(rows) : Holds(IsHidden(rows[i], hide)) /\ Holds(Within(rows[i].end, w))}

Value(x) == IF x = Null THEN 0 ELSE x

Total(column, ids) == FoldSet(LAMBDA i, sum : Value(rows[i][column]) + sum, 0, ids)

\* The filter bar sends no range, an empty one, or a preset; a custom window counts when
\* the range is empty.
Filtered(range, custom) ==
    IF range = "preset" \/ (custom.from = Null /\ custom.to = Null) THEN Preset ELSE custom

\* For the list, no range is the preset (routes/trips.py); for the export it is empty.
ListWindow(range, custom) == Filtered(IF range = "none" THEN "preset" ELSE range, custom)
ExportWindow(range, custom) == Filtered(range, custom)

-----------------------------------------------------------------------------
\* query_regen_summary goes by the start of a trip; the rest by its end.
Regenerated(w, hide) ==
    {i \in Visible(hide) : rows[i].regen # Null /\ Holds(Within(rows[i].start, w))}

\* query_efficiency_trend
Trend(w, hide) == {i \in Listed(w, hide) : rows[i].eff # Null}

\* query_temperature_correlation
Correlated(w, hide) ==
    {i \in Listed(w, hide) : /\ Null \notin {rows[i].temp, rows[i].distance, rows[i].energy}
                             /\ rows[i].energy > 0}

\* query_regen_per_trip
Recovered(w, hide) ==
    {i \in Listed(w, hide) : /\ Null \notin {rows[i].regen, rows[i].distance, rows[i].energy}
                             /\ rows[i].distance > 0 /\ rows[i].energy > 0}

\* query_driving_performance_summary: the number of trips is that of the regeneration,
\* unless there is none.
Performance(w, hide) ==
    [distance |-> Total("distance", Listed(w, hide)), energy |-> Total("energy", Listed(w, hide)),
     regen |-> Total("regen", Regenerated(w, hide)),
     count |-> IF Regenerated(w, hide) # {} THEN Cardinality(Regenerated(w, hide))
               ELSE Cardinality(Listed(w, hide))]

-----------------------------------------------------------------------------
\* Every trip of a window is either listed or counted as hidden, whatever is not known of
\* it.  What the performance page shows of a window without an end is about listed trips,
\* never more of them than there are; in a window with one, regeneration differs only by
\* trips it cuts or that have no known start.  A trip both sources know that is in one
\* of the charts is in the trend, too.  The export has the trips of the list,
\* unless a custom window comes without a range (build_short_trip_filter and the queries
\* that take it).
PagesAgree ==
    \A hide \in Hide : \A w \in Window_ :
        LET inWindow == {i \in Stored(rows) : Holds(Within(rows[i].end, w))}
            regen == Regenerated(w, hide)
            listed == Listed(w, hide)
        IN  /\ listed \cap HiddenFrom(w, hide) = {} /\ listed \cup HiddenFrom(w, hide) = inWindow
            /\ w.to = Null => /\ regen \subseteq listed
                              /\ Performance(w, hide).count <= Cardinality(listed)
                              /\ Performance(w, hide).regen <= Total("regen", listed)
            /\ \A i \in (regen \ listed) \cup (Recovered(w, hide) \ regen) :
                rows[i].start = Null \/ \E edge \in {w.from, w.to} \ {Null} :
                    rows[i].start < edge /\ edge <= rows[i].end
            /\ \A i \in (Correlated(w, hide) \cup Recovered(w, hide)) \ Trend(w, hide) :
                rows[i].by # {"ha", "fcon"}
            /\ \A range \in {"none", "empty", "preset"} : range # "none" \/ w = Preset =>
                Listed(ListWindow(range, w), hide) = Listed(ExportWindow(range, w), hide)
=============================================================================
