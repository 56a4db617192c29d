--------------------------------- MODULE Trips ---------------------------------
(***************************************************************************)
(* The trip table and everyone who writes it while LightningROD runs.      *)
(* Home Assistant reports a drive up to three times: the events entity at  *)
(* key-off, the elveh entity's trip attributes, and the metrics entity,    *)
(* which only says how much was regenerated (adapter.py, handlers.py).     *)
(* FordConnect derives the drive from its samples (fcon/trips.py).  Each   *)
(* is heard again after a reconnection or a re-parse, in any order; each   *)
(* looks for the drive's row and merges into it (trip_merge.py).  A user   *)
(* enters and deletes trips.                                               *)
(*                                                                         *)
(* A handler reads and writes in one transaction.  On SQLite one that      *)
(* another commit has overtaken is rolled back, so those that commit are   *)
(* as if one after another: here a handler is a step, from a table to a    *)
(* table, which may also fail.  (Charges interleaves the statements of the *)
(* same kind of handler.)                                                  *)
(*                                                                         *)
(* Times are in half minutes, distances and energies in hundredths of a km *)
(* or kWh; an efficiency is the pair of the distance and the energy it is  *)
(* the ratio of.  Temperatures, scores and locations are one column each   *)
(* kind: temp (the events entity's) and regen (elveh's).                   *)
(***************************************************************************)
EXTENDS Integers, FiniteSets

CONSTANTS
    Drive,      \* the drives that happen
    Id,         \* primary keys, 1 .. n (a bound)
    Events,     \* what each entity reports of a drive, or Null
    Elveh,
    Metrics,
    Fold,       \* what FordConnect's samples of a drive fold to, or Null
    Status,     \* ev_vehicle_status: [at, odometer, ignition, temp]
    Typed,      \* the trips a user enters
    Null, NoRow, NoId

Column == {"key", "start", "end", "duration", "distance", "energy", "eff",
           "regen", "temp", "odoStart", "odoEnd", "src"}

Number == Nat \cup {Null}

Row == [key : {Null} \cup ({"ha", "fcon"} \X Nat) \cup ({"manual"} \X Nat \X Nat),
        start : Int \cup {Null}, end : Nat, duration : Number, distance : Number,
        energy : Number, eff : {Null} \cup Nat \X Nat, regen : Number, temp : Int \cup {Null},
        odoStart : Int \cup {Null}, odoEnd : Number, src : {"ha", "fcon", "manual"},
        drive : Drive, by : SUBSET {"ha", "fcon"}]

\* What Home Assistant reports of a trip, and what FordConnect's samples fold to.
Told == [stamped : BOOLEAN, end : Nat, duration : Number, distance : Number,
           energy : Number, eff : {Null} \cup Nat \X Nat, regen : Number, temp : Int \cup {Null}]

Folded == [start : Nat, end : Nat, odoStart : Nat, distance : Nat,
           energy : Number, regen : Number, temp : Int \cup {Null}]

ASSUME TripsAssumption ==
    /\ IsFiniteSet(Id) /\ Id = 1 .. Cardinality(Id)
    /\ Null \notin Int \cup (Nat \X Nat) \cup ({"ha", "fcon"} \X Nat) \cup {"ha", "fcon", "manual"}
    /\ NoId \notin Id /\ NoRow \notin Row
    /\ IsFiniteSet(Status)
    /\ \A s \in Status : s.at \in Nat /\ s.odometer \in Number /\ s.temp \in Int \cup {Null}
    /\ \A d \in Drive :
          /\ {Events[d], Elveh[d]} \subseteq Told \cup {Null}
          /\ Metrics[d] # Null => Metrics[d].at \in Nat /\ Metrics[d].regen \in Number
          /\ Fold[d] # Null => Fold[d] \in Folded /\ Fold[d].start <= Fold[d].end
    /\ \A trip \in Typed :
          /\ trip.drive \in Drive /\ trip.end \in Nat
          /\ {trip.duration, trip.distance, trip.energy} \subseteq Number

VARIABLES
    rows,       \* ev_trip_metrics
    latch,      \* handlers._last_trip_values: the elveh report last seen, or Null
    reported,   \* history: drives a handler has committed a report of
    gone        \* history: drives whose row the user has deleted

vars == <<rows, latch, reported, gone>>

Stored(table) == {i \in Id : table[i] # NoRow}

\* Faulty variant: a merge may write any row.
AllMergeable(row) == TRUE

\* is_mergeable
Mergeable(row) == row.src \in {"ha", "fcon"}

Least(S) == CHOOSE i \in S : \A j \in S : i <= j

\* SQLite's next primary key.
NextId(table) == 1 + Cardinality({i \in Id : \E j \in Stored(table) : i <= j})

Room(table) == NextId(table) \in Id

Added(table, row) == [table EXCEPT ![NextId(table)] = row]

-----------------------------------------------------------------------------
(***************************************************************************)
(* Matching.                                                               *)
(***************************************************************************)
Gap(a, b) == IF a > b THEN a - b ELSE b - a

Window == 4             \* END_TIME_WINDOW_SECONDS, START_TIME_WINDOW_SECONDS

\* _measurements_agree: within a quarter of the larger, or not recorded.
Agree(a, b) == \/ Null \in {a, b}
               \/ 4 * Gap(a, b) <= a \/ 4 * Gap(a, b) <= b

StartsAgree(a, b) == Null \in {a.start, b.start} \/ Gap(a.start, b.start) <= Window

\* One is the other converted from miles by mistake (RATIO_BAND).
Twins(a, b) ==
    \E small \in {a, b} : \E large \in {a, b} :
        0 < small /\ 155 * small <= 100 * large /\ 100 * large <= 167 * small

IsUnitTwin(a, b) ==
    StartsAgree(a, b) /\ Agree(a.duration, b.duration) /\ Agree(a.energy, b.energy)

EndsAgree(a, b) == Gap(a.end, b.end) <= Window

IsSameDrive(a, b) ==
    /\ EndsAgree(a, b) /\ IsUnitTwin(a, b)
    /\ Agree(a.distance, b.distance) \/ Twins(a.distance, b.distance)

First(ids) == IF ids = {} THEN NoId ELSE Least(ids)

\* Faulty variants: the end alone is compared; no window around it.
SameEnd(table, obs) == First({i \in Stored(table) : EndsAgree(table[i], obs)})

SameMinute(table, obs) ==
    First({i \in Stored(table) : IsSameDrive(table[i], obs) /\ table[i].end = obs.end})

\* find_same_drive: the first of them.
SameDrive(table, obs) == First({i \in Stored(table) : IsSameDrive(table[i], obs)})

\* The predicate of old: the very same figures, within a day of its end.
Day == 24 * 120

LooksAlike(row, obs) ==
    /\ Null \notin {row.distance, row.energy}
    /\ Gap(row.distance, obs.distance) <= 1 /\ Gap(row.energy, obs.energy) <= 1
    /\ Gap(row.end, obs.end) <= Day

Newest(table, ids) == CHOOSE i \in ids : \A j \in ids : table[j].end <= table[i].end

\* _find_matching_trip
MatchingTrip(table, obs) ==
    LET alike == {i \in Stored(table) : LooksAlike(table[i], obs)}
    IN  IF Null \in {obs.distance, obs.energy} THEN NoId
        ELSE IF alike # {} THEN Newest(table, alike)
        ELSE SameDrive(table, obs)

\* compute_trip_id; a report without the key-off time gets a random id.
HaKey(obs) == IF obs.stamped THEN <<"ha", obs.end>> ELSE Null

WithKey(table, key) ==
    IF key = Null \/ \A i \in Stored(table) : table[i].key # key THEN NoId
    ELSE CHOOSE i \in Stored(table) : table[i].key = key

-----------------------------------------------------------------------------
(***************************************************************************)
(* Merging.                                                                *)
(***************************************************************************)
\* PRECEDENCE
Winner == [key |-> "ha", start |-> "fcon", end |-> "fcon", duration |-> "ha",
           distance |-> "ha", odoStart |-> "fcon", odoEnd |-> "fcon", energy |-> "ha", regen |-> "ha",
           temp |-> "ha", src |-> "ha"]

Tolerance == 100        \* DISTANCE_TOLERANCE_KM

\* checked_distance: Home Assistant's, if FordConnect's odometer confirms it.
CheckedDistance(old, new, source) ==
    LET ha        == IF source = "ha" THEN new ELSE old
        fcon      == IF source = "ha" THEN old ELSE new
        reference == IF Null \in {fcon.odoStart, fcon.odoEnd} THEN fcon.distance
                     ELSE fcon.odoEnd - fcon.odoStart
    IN  IF Gap(ha.distance, reference) <= Tolerance THEN ha.distance ELSE fcon.distance

\* merge_values
MergedValue(old, new, source, col) ==
    IF new[col] = Null THEN old[col]
    ELSE IF old[col] = Null THEN new[col]
    ELSE IF col = "distance" THEN CheckedDistance(old, new, source)
    ELSE IF Winner[col] = source THEN new[col] ELSE old[col]

MergedColumns(old, new, source) ==
    [col \in DOMAIN old |->
        IF col \in DOMAIN Winner THEN MergedValue(old, new, source, col)
        ELSE IF col = "by" THEN old.by \cup {source} ELSE old[col]]

Ratio(row) ==
    IF row.distance = Null \/ row.energy \in {Null, 0} THEN row.eff
    ELSE <<row.distance, row.energy>>

\* Faulty variant: the efficiency stays that of the figures before.
DerivesStart(row) ==
    [row EXCEPT !.start = IF row.duration = Null THEN @ ELSE row.end - row.duration]

\* What follows from the merged figures (merge_changes).
Derives(row) ==
    [row EXCEPT !.start = IF row.duration = Null THEN @ ELSE row.end - row.duration,
                !.eff = Ratio(row)]

\* apply_merge
Merged(old, new, source) == Derives(MergedColumns(old, new, source))

-----------------------------------------------------------------------------
(***************************************************************************)
(* What the handlers make of the table.                                    *)
(***************************************************************************)
\* A trip as Home Assistant's handlers record it.
HaTrip(d, obs) ==
    [key |-> HaKey(obs), start |-> IF obs.duration \in {Null, 0} THEN Null ELSE obs.end - obs.duration,
     end |-> obs.end, duration |-> obs.duration, distance |-> obs.distance,
     energy |-> obs.energy, eff |-> obs.eff, regen |-> obs.regen, temp |-> obs.temp,
     odoStart |-> Null, odoEnd |-> Null, src |-> "ha", drive |-> d, by |-> {"ha"}]

Fill(old, new) == IF old = Null THEN new ELSE old

\* _closest_odometer: of the status rows within two hours.
ClosestOdometer(time) ==
    LET near == {s \in Status : s.odometer # Null /\ Gap(s.at, time) <= Day \div 12}
    IN  IF near = {} THEN Null
        ELSE (CHOOSE s \in near : \A r \in near : Gap(s.at, time) <= Gap(r.at, time)).odometer

FillsOdometer(row) ==
    [row EXCEPT !.odoEnd = Fill(@, ClosestOdometer(row.end)),
                !.odoStart = IF row.start = Null THEN @ ELSE Fill(@, ClosestOdometer(row.start))]

\* _fill_trip_duration
FillsDuration(row, obs) ==
    IF obs.duration = Null \/ row.duration # Null THEN row
    ELSE [row EXCEPT !.duration = obs.duration,
                     !.start = Fill(@, row.end - obs.duration)]

\* FordConnect's row becomes Home Assistant's.
Enriched(row, trip) == IF row.src = "ha" THEN row ELSE Merged(row, trip, "ha")

SetsTemperature(row, obs) == [row EXCEPT !.temp = IF obs.temp = Null THEN @ ELSE obs.temp]

\* The tail of _handle_events_entity, from the lookup by id.
AfterEvents(table, d, obs) ==
    LET trip  == HaTrip(d, obs)
        known == WithKey(table, trip.key)
        found == MatchingTrip(table, trip)
    IN  IF known # NoId
        THEN [table EXCEPT ![known] =
                 FillsOdometer(FillsDuration(SetsTemperature(@, obs), obs))]
        ELSE IF found = NoId THEN Added(table, FillsOdometer(trip))
        ELSE IF ~Mergeable(table[found]) THEN table
        ELSE [table EXCEPT ![found] =
                 FillsDuration(SetsTemperature(Enriched(@, trip), obs), obs)]

\* Regeneration and scores are the elveh entity's; the rest only fills.
SetsScores(row, trip) ==
    [row EXCEPT !.regen = IF trip.regen = Null THEN @ ELSE trip.regen,
                !.eff = Fill(@, trip.eff), !.duration = Fill(@, trip.duration),
                !.start = Fill(@, trip.start)]

\* handle_battery_status, from the lookup by id.
AfterElveh(table, d, obs) ==
    LET trip  == HaTrip(d, obs)
        known == WithKey(table, trip.key)
        found == IF known # NoId THEN known ELSE MatchingTrip(table, trip)
    IN  IF found = NoId THEN Added(table, FillsOdometer(trip))
        ELSE IF ~Mergeable(table[found]) THEN table
        ELSE [table EXCEPT ![found] = FillsOdometer(SetsScores(Enriched(@, trip), trip))]

\* _backfill_trip_regen: the newest trip, whoever recorded it.
AfterMetrics(table, obs) ==
    LET recent == {i \in Stored(table) : table[i].end >= obs.at - Day}
    IN  IF recent = {} \/ obs.regen \in {Null, 0} THEN table
        ELSE [table EXCEPT ![Newest(table, recent)].regen = Fill(@, obs.regen)]

\* derive_trip's columns.
FconTrip(d, obs) ==
    [key |-> <<"fcon", obs.start>>, start |-> obs.start, end |-> obs.end,
     duration |-> obs.end - obs.start, distance |-> obs.distance, energy |-> obs.energy,
     eff |-> IF obs.energy \in {Null, 0} THEN Null ELSE <<obs.distance, obs.energy>>,
     regen |-> obs.regen, temp |-> obs.temp,
     odoStart |-> obs.odoStart, odoEnd |-> obs.odoStart + obs.distance,
     src |-> "fcon", drive |-> d, by |-> {"fcon"}]

\* record_trip_if_ended: its own row is refreshed whole, another's merged into.
AfterFcon(table, d, obs) ==
    LET trip  == FconTrip(d, obs)
        known == WithKey(table, trip.key)
        found == IF known # NoId THEN known ELSE SameDrive(table, trip)
    IN  IF found = NoId THEN Added(table, trip)
        ELSE IF known # NoId /\ table[known].src = "fcon"
        THEN [table EXCEPT ![known] = [trip EXCEPT !.key = table[known].key]]
        ELSE IF ~Mergeable(table[found]) THEN table
        ELSE [table EXCEPT ![found] = Merged(@, trip, "fcon")]

-----------------------------------------------------------------------------
Init ==
    /\ rows = [i \in Id |-> NoRow] /\ latch = Null
    /\ reported = {} /\ gone = {}

Reports(d) == reported' = reported \cup {d} /\ gone' = gone \ {d}

HearsEvents(d) ==
    /\ Events[d] # Null /\ Room(rows)
    /\ rows' = AfterEvents(rows, d, Events[d]) /\ Reports(d)
    /\ UNCHANGED latch

\* The elveh entity repeats its last trip with every update: one whose three figures
\* have not changed is skipped.  What was seen is noted before it is written.
IsNew(obs) == latch # Null => \E f \in {"distance", "duration", "eff"} : latch[f] # obs[f]

HearsElveh(d) ==
    /\ Elveh[d] # Null /\ IsNew(Elveh[d]) /\ Room(rows)
    /\ latch' = Elveh[d]
    /\ \/ rows' = AfterElveh(rows, d, Elveh[d]) /\ Reports(d)
       \/ UNCHANGED <<rows, reported, gone>>        \* rolled back

HearsMetrics(d) ==
    /\ Metrics[d] # Null
    /\ rows' = AfterMetrics(rows, Metrics[d])
    /\ UNCHANGED <<latch, reported, gone>>

DerivesTrip(d) ==
    /\ Fold[d] # Null /\ Room(rows)
    /\ rows' = AfterFcon(rows, d, Fold[d]) /\ Reports(d)
    /\ UNCHANGED latch

\* create_trip.  The trip is of a day, and so is its id.
ManualTrip(trip) ==
    [key |-> <<"manual", trip.end, Fill(trip.distance, 0)>>, start |-> trip.end, end |-> trip.end,
     duration |-> trip.duration, distance |-> trip.distance, energy |-> trip.energy,
     eff |-> IF trip.distance = Null \/ trip.energy \in {Null, 0} THEN Null
             ELSE <<trip.distance, trip.energy>>,
     regen |-> Null, temp |-> Null, odoStart |-> Null, odoEnd |-> Null,
     src |-> "manual", drive |-> trip.drive, by |-> {}]

\* The same trip a second time is refused by the database.
Enters(trip) ==
    /\ WithKey(rows, ManualTrip(trip).key) = NoId /\ Room(rows)
    /\ rows' = Added(rows, ManualTrip(trip))
    /\ UNCHANGED <<latch, reported, gone>>

\* delete_trip
Deletes(i) ==
    /\ i \in Stored(rows)
    /\ rows' = [rows EXCEPT ![i] = NoRow]
    /\ gone' = gone \cup {rows[i].drive}
    /\ UNCHANGED <<latch, reported>>

Restarts == latch' = Null /\ UNCHANGED <<rows, reported, gone>>

Hears(d) == HearsEvents(d) \/ HearsElveh(d) \/ HearsMetrics(d) \/ DerivesTrip(d)

Edits == (\E trip \in Typed : Enters(trip)) \/ (\E i \in Id : Deletes(i))

Next == (\E d \in Drive : Hears(d)) \/ Edits \/ Restarts

Spec == Init /\ [][Next]_vars

-----------------------------------------------------------------------------
(***************************************************************************)
(* Properties.                                                             *)
(***************************************************************************)
Ingested == {i \in Stored(rows) : rows[i].src # "manual"}

\* What the handlers are told of a drive, and what a row that has been merged
\* from it may have: each figure is one of its records'; the start may follow.
RecordsOf(d) == {HaTrip(d, obs) : obs \in {Events[d], Elveh[d]} \ {Null}}
              \cup {FconTrip(d, obs) : obs \in {Fold[d]} \ {Null}}

Figure(d, col) == {record[col] : record \in RecordsOf(d)}

Likenesses(d) ==
    [start : Figure(d, "start")
             \cup {end - duration : end \in Figure(d, "end"),
                                    duration \in Figure(d, "duration") \ {Null}},
     end : Figure(d, "end"), duration : Figure(d, "duration"),
     distance : Figure(d, "distance"), energy : Figure(d, "energy")]

\* Two rows have the same figures, as far as the matchers look.
IsLike(row, other) ==
    row.drive = other.drive /\ \A col \in {"start", "end", "duration", "distance", "energy"} :
                                  row[col] = other[col]

\* A row of a drive matches every record of the drive and no other drive's,
\* whatever it has been merged from; so does what a user may have entered.  Home
\* Assistant's records have a distance and an energy to match by.
Recognisable ==
    \A d, e \in Drive : \A record \in RecordsOf(e) :
        /\ \A row \in Likenesses(d) : IsSameDrive(row, record) <=> d = e
        /\ record.key \in Figure(d, "key") \ {Null} => d = e
        /\ record.src = "ha" =>
              /\ Null \notin {record.distance, record.energy}
              /\ \A row \in Likenesses(d) : LooksAlike(row, record) => d = e
        /\ \A trip \in Typed : LET row == ManualTrip(trip) IN
              \/ trip.drive = e
              \/ ~IsSameDrive(row, record) /\ (record.src = "ha" => ~LooksAlike(row, record))

\* The reports of Home Assistant's two entities are of the same figures, and of
\* some energy.
ReportsAgree ==
    \A d \in Drive : \A obs, other \in {Events[d], Elveh[d]} \ {Null} :
        IsLike(HaTrip(d, obs), HaTrip(d, other)) /\ obs.energy # 0

\* However a drive is recorded, in whatever order, again and again, and by
\* whatever trip_id, there is one row of it ("One trip row per drive when Home
\* Assistant and FordConnect both record it", trip_merge.py).
OneRowPerDrive ==
    \A i, j \in Ingested : rows[i].drive = rows[j].drive => i = j

\* A drive whose report a handler has committed has a row, of its own or the
\* user's, until the user deletes it: none is taken for another drive (the
\* matchers), none is dropped because a row of it was there once (the latch).
\* After a rollback the latch may hide a drive that has none.
ReportedHasRow ==
    \A d \in reported \ gone : \E i \in Stored(rows) : rows[i].drive = d

\* Once both sources have recorded a drive its figures are the same whichever
\* came first and whatever came again: the end FordConnect's, the duration and
\* the energy Home Assistant's, the start and the efficiency what follows.
MergedIsCanonical ==
    \A i \in Ingested : rows[i].by = {"ha", "fcon"} =>
        LET row  == rows[i]
            ha   == HaTrip(row.drive, Fill(Events[row.drive], Elveh[row.drive]))
            best == Merged(ha, FconTrip(row.drive, Fold[row.drive]), "fcon")
        IN  \A col \in {"start", "end", "duration", "distance", "energy", "eff",
                        "odoStart", "odoEnd", "src"} :
                row[col] = best[col]

\* No report changes a trip the user has entered ("manual and imported rows
\* never", source_merge.py), except that the metrics entity fills its missing
\* regeneration when it is the newest.
ManualStays ==
    [][(\E d \in Drive : Hears(d)) =>
          \A i \in Stored(rows) : rows[i].src = "manual" =>
              /\ rows'[i] # NoRow /\ rows[i].regen \in {Null, rows'[i].regen}
              /\ rows[i] = [rows'[i] EXCEPT !.regen = rows[i].regen]]_rows
=============================================================================
