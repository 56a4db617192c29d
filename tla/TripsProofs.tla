----------------------------- MODULE TripsProofs -----------------------------
(***************************************************************************)
(* The trip table for every number of drives, reports and rows.  Handled   *)
(* says what a handler can make of the table: it leaves it, because a row  *)
(* of the drive is there; it adds a row, because none is; or it updates a  *)
(* row of the drive that a source has written.  Sound is what is then true *)
(* of every row, Canonical of every row two sources have written, and      *)
(* OrderlyRow what the pages rely on.  The repairs begin with any table;   *)
(* of those a handler is a StepOf: it writes one row at most, and a row of *)
(* the user stays one.                                                     *)
(***************************************************************************)
EXTENDS Repair, TripPages, FiniteProofs

-----------------------------------------------------------------------------
(***************************************************************************)
(* Primary keys, and the rows that are chosen among several.               *)
(***************************************************************************)
\* An id is free: the next one is greater than every stored one.
LEMMA NextIdIsFree ==
    ASSUME NEW table, Room(table)
    PROVE  NextId(table) \in Id \ Stored(table)
<1> DEFINE Below == {i \in Id : \E j \in Stored(table) : i <= j}
           n == Cardinality(Below)
<1>1. Below \subseteq Id /\ IsFiniteSet(Id) /\ Id = 1 .. Cardinality(Id) /\ Cardinality(Id) \in Nat
  BY TripsAssumption, FS_CardinalityType
<1>2. IsFiniteSet(Below) /\ n \in Nat
  BY <1>1, FS_Subset, FS_CardinalityType
<1>3. NextId(table) = 1 + n /\ 1 + n \in Id
  BY DEF NextId, Room
<1> HIDE DEF n
<1>4. ASSUME 1 + n \in Stored(table)
      PROVE  FALSE
  <2>1. 1 .. 1 + n \subseteq Below
    BY <1>1, <1>2, <1>3, <1>4
  <2>2. Cardinality(1 .. 1 + n) = 1 + n
    BY <1>2, FS_Interval
  <2>3. Cardinality(1 .. 1 + n) <= n
    <3> HIDE DEF Below
    <3> QED BY <2>1, <1>2, FS_Subset DEF n
  <2> QED BY <2>2, <2>3, <1>2
<1> QED BY <1>3, <1>4

LEMMA FirstIsOne ==
    ASSUME NEW ids \in SUBSET Id
    PROVE  /\ ids = {} => First(ids) = NoId
           /\ ids # {} => First(ids) \in ids
<1> DEFINE f == [i \in ids |-> 0 - i]
<1>1. ids \subseteq Int /\ IsFiniteSet(ids)
  BY TripsAssumption, FS_Subset, FS_CardinalityType
<1>2. ASSUME ids # {}
      PROVE  \E i \in ids : \A j \in ids : i <= j
  <2>1. \A x \in ids : f[x] \in Int
    BY <1>1
  <2>2. \E x \in ids : \A y \in ids : f[y] <= f[x]
    <3> HIDE DEF f
    <3> QED BY <1>1, <1>2, <2>1, FiniteHasGreatest
  <2> QED BY <2>2, <1>1
<1> QED BY <1>2 DEF First, Least

LEMMA NewestIsOne ==
    ASSUME NEW table \in [Id -> Row \cup {NoRow}],
           NEW ids \in SUBSET Stored(table), ids # {}
    PROVE  Newest(table, ids) \in ids
<1> DEFINE f == [i \in ids |-> table[i].end]
<1>1. ids \subseteq Id /\ IsFiniteSet(ids)
  BY TripsAssumption, FS_Subset DEF Stored
<1>2. \A i \in ids : f[i] \in Int
  BY DEF Stored, Row
<1>3. \E i \in ids : \A j \in ids : f[j] <= f[i]
  <2> HIDE DEF f
  <2> QED BY <1>1, <1>2, FiniteHasGreatest
<1> QED BY <1>3 DEF Newest

LEMMA WithKeyFinds ==
    ASSUME NEW table, NEW key, NoId \notin Id
    PROVE  LET i == WithKey(table, key) IN
           \/ i = NoId /\ (key = Null \/ \A j \in Stored(table) : table[j].key # key)
           \/ i # NoId /\ i \in Stored(table) /\ table[i].key = key /\ key # Null
BY DEF WithKey, Stored

-----------------------------------------------------------------------------
(***************************************************************************)
(* Rows, and what the parts of a handler do to one.                        *)
(***************************************************************************)
Columns == Column \cup {"drive", "by"}

LEMMA RowShape ==
    ASSUME NEW row \in Row
    PROVE  /\ DOMAIN row = Columns
           /\ \A f : /\ f = [col \in Columns |-> f[col]]
                     /\ f.key \in {Null} \cup ({"ha", "fcon"} \X Nat)
                                  \cup ({"manual"} \X Nat \X Nat)
                     /\ f.start \in Int \cup {Null} /\ f.end \in Nat
                     /\ f.duration \in Number /\ f.distance \in Number /\ f.energy \in Number
                     /\ f.eff \in {Null} \cup Nat \X Nat
                     /\ f.regen \in Number /\ f.temp \in Int \cup {Null}
                     /\ f.odoStart \in Int \cup {Null} /\ f.odoEnd \in Number
                     /\ f.src \in {"ha", "fcon", "manual"} /\ f.drive \in Drive
                     /\ f.by \in SUBSET {"ha", "fcon"}
                     => f \in Row
<1>1. DOMAIN row = Columns
  BY DEF Row, Columns, Column
<1>2. ASSUME NEW f, f = [col \in Columns |-> f[col]]
      PROVE  f = [key |-> f.key, start |-> f.start, end |-> f.end, duration |-> f.duration,
                  distance |-> f.distance, energy |-> f.energy, eff |-> f.eff,
                  regen |-> f.regen, temp |-> f.temp, odoStart |-> f.odoStart,
                  odoEnd |-> f.odoEnd, src |-> f.src, drive |-> f.drive, by |-> f.by]
  BY <1>1, <1>2 DEF Columns, Column
<1> QED BY <1>1, <1>2 DEF Row

\* Nothing but the odometer, the temperature, the regeneration and the
\* efficiency tell the rows apart.
Alike(row, other) ==
    /\ row \in Row /\ IsLike(row, other)
    /\ row.key = other.key /\ row.src = other.src /\ row.by = other.by

Reporting(d) == {Events[d], Elveh[d]} \ {Null}

LEMMA HaTripIsRow ==
    ASSUME NEW d \in Drive, NEW obs \in Reporting(d)
    PROVE  /\ obs \in Told /\ HaTrip(d, obs) \in Row /\ HaTrip(d, obs) \in RecordsOf(d)
<1>1. obs \in Told
  BY TripsAssumption DEF Reporting
<1>2. HaTrip(d, obs) \in Row
  BY <1>1 DEF Told, Row, Number, HaTrip, HaKey
<1> QED BY <1>1, <1>2 DEF Reporting, RecordsOf

LEMMA FconTripIsRow ==
    ASSUME NEW d \in Drive, Fold[d] # Null
    PROVE  /\ Fold[d] \in Folded /\ FconTrip(d, Fold[d]) \in Row
           /\ FconTrip(d, Fold[d]) \in RecordsOf(d)
<1>1. Fold[d] \in Folded /\ Fold[d].start <= Fold[d].end
  BY TripsAssumption
<1>2. FconTrip(d, Fold[d]) \in Row
  BY <1>1 DEF Folded, Row, Number, FconTrip
<1> QED BY <1>1, <1>2 DEF RecordsOf

LEMMA ManualTripIsRow ==
    ASSUME NEW trip \in Typed
    PROVE  ManualTrip(trip) \in Row
BY TripsAssumption DEF ManualTrip, Row, Number, Fill

LEMMA OdometerType ==
    ASSUME NEW time \in Int
    PROVE  ClosestOdometer(time) \in Number
<1> DEFINE near == {s \in Status : s.odometer # Null /\ Gap(s.at, time) <= Day \div 12}
           f == [s \in near |-> 0 - Gap(s.at, time)]
<1>1. IsFiniteSet(near) /\ near \subseteq Status
  BY TripsAssumption, FS_Subset
<1>2. \A s \in near : f[s] = 0 - Gap(s.at, time) /\ Gap(s.at, time) \in Int
  BY TripsAssumption DEF Gap
<1>3. ASSUME near # {}
      PROVE  \E s \in near : \A r \in near : Gap(s.at, time) <= Gap(r.at, time)
  <2>1. \E s \in near : \A r \in near : f[r] <= f[s]
    <3> HIDE DEF f, near
    <3> QED BY <1>1, <1>2, <1>3, FiniteHasGreatest
  <2>2. PICK s \in near : \A r \in near : 0 - Gap(r.at, time) <= 0 - Gap(s.at, time)
    <3> HIDE DEF near, f
    <3> QED BY <2>1, <1>2
  <2>3. ASSUME NEW r \in near
        PROVE  Gap(s.at, time) <= Gap(r.at, time)
    <3>1. Gap(s.at, time) \in Int /\ Gap(r.at, time) \in Int
      BY <1>2
    <3>2. 0 - Gap(r.at, time) <= 0 - Gap(s.at, time)
      BY <2>2
    <3> QED BY <3>1, <3>2
  <2> QED BY <2>3
<1>4. CASE near = {}
  BY <1>4 DEF ClosestOdometer, Number
<1>5. CASE near # {}
  <2>1. PICK s \in near : ClosestOdometer(time) = s.odometer
    BY <1>3, <1>5 DEF ClosestOdometer
  <2> QED BY <2>1, TripsAssumption
<1> QED BY <1>4, <1>5

LEMMA FillsOdometerAlike ==
    ASSUME NEW row \in Row
    PROVE  LET new == FillsOdometer(row) IN
           /\ Alike(new, row) /\ new.eff = row.eff
           /\ row.odoEnd # Null => new.odoEnd = row.odoEnd
           /\ row.odoStart # Null => new.odoStart = row.odoStart
<1>1. /\ ClosestOdometer(row.end) \in Number
      /\ row.start # Null => ClosestOdometer(row.start) \in Number
  BY OdometerType DEF Row
<1> DEFINE odoEnd == Fill(row.odoEnd, ClosestOdometer(row.end))
           odoStart == IF row.start = Null THEN row.odoStart
                       ELSE Fill(row.odoStart, ClosestOdometer(row.start))
<1>2. /\ odoEnd \in Number /\ odoStart \in Int \cup {Null}
      /\ row.odoEnd # Null => odoEnd = row.odoEnd
      /\ row.odoStart # Null => odoStart = row.odoStart
  BY <1>1 DEF Fill, Row, Number
<1>3. FillsOdometer(row) = [row EXCEPT !.odoEnd = odoEnd, !.odoStart = odoStart]
  BY DEF FillsOdometer
<1> HIDE DEF odoEnd, odoStart
<1> QED BY <1>2, <1>3 DEF Row, Alike, IsLike

LEMMA SetsTemperatureAlike ==
    ASSUME NEW row \in Row, NEW obs \in Told
    PROVE  LET new == SetsTemperature(row, obs) IN
           Alike(new, row) /\ new.eff = row.eff /\ new.odoEnd = row.odoEnd /\ new.odoStart = row.odoStart
BY DEF SetsTemperature, Row, Told, Alike, IsLike

LEMMA FillsDurationIsRow ==
    ASSUME NEW row \in Row, NEW obs \in Told
    PROVE  LET new == FillsDuration(row, obs) IN
           /\ new \in Row
           /\ new = [row EXCEPT !.duration = new.duration, !.start = new.start]
           /\ obs.duration = Null \/ row.duration # Null => new = row
           /\ obs.duration # Null /\ row.duration = Null =>
                new.duration = obs.duration /\ new.start = Fill(row.start, row.end - obs.duration)
<1>1. CASE obs.duration = Null \/ row.duration # Null
  BY <1>1 DEF FillsDuration, Row
<1>2. CASE obs.duration # Null /\ row.duration = Null
  <2> DEFINE start == Fill(row.start, row.end - obs.duration)
  <2>1. start \in Int /\ obs.duration \in Number
    BY <1>2 DEF Row, Told, Number, Fill
  <2>2. FillsDuration(row, obs) = [row EXCEPT !.duration = obs.duration, !.start = start]
    BY <1>2 DEF FillsDuration
  <2> HIDE DEF start
  <2>3. LET new == FillsDuration(row, obs) IN
        /\ new \in Row /\ new.duration = obs.duration /\ new.start = start
        /\ new = [row EXCEPT !.duration = new.duration, !.start = new.start]
    BY <2>1, <2>2 DEF Row
  <2> QED BY <1>2, <2>3 DEF start
<1> QED BY <1>1, <1>2

LEMMA SetsScoresIsRow ==
    ASSUME NEW row \in Row, NEW trip \in Row
    PROVE  LET new == SetsScores(row, trip) IN
           /\ new \in Row
           /\ new.key = row.key /\ new.end = row.end /\ new.distance = row.distance
           /\ new.energy = row.energy /\ new.odoStart = row.odoStart /\ new.odoEnd = row.odoEnd
           /\ new.src = row.src /\ new.drive = row.drive /\ new.by = row.by
           /\ new.duration = Fill(row.duration, trip.duration)
           /\ new.start = Fill(row.start, trip.start)
           /\ new.eff = Fill(row.eff, trip.eff)
<1> DEFINE regen == IF trip.regen = Null THEN row.regen ELSE trip.regen
           eff == Fill(row.eff, trip.eff)
           duration == Fill(row.duration, trip.duration)
           start == Fill(row.start, trip.start)
<1>1. /\ regen \in Number /\ eff \in {Null} \cup Nat \X Nat
      /\ duration \in Number /\ start \in Int \cup {Null}
  BY DEF Row, Fill
<1>2. SetsScores(row, trip) = [row EXCEPT !.regen = regen, !.eff = eff,
                                          !.duration = duration, !.start = start]
  BY DEF SetsScores
<1> HIDE DEF regen, eff, duration, start
<1>3. [row EXCEPT !.regen = regen, !.eff = eff, !.duration = duration, !.start = start] \in Row
  BY <1>1 DEF Row
<1> QED BY <1>2, <1>3 DEF Row, eff, duration, start

\* What a merge takes from one of the two rows; the start and the efficiency follow.
Merging == {"key", "end", "duration", "distance", "energy", "regen", "temp",
           "odoStart", "odoEnd", "src"}

EfficiencyFollows(row, old) ==
    row.eff = IF row.distance = Null \/ row.energy \in {Null, 0} THEN old.eff
              ELSE <<row.distance, row.energy>>

LEMMA MergedIsRow ==
    ASSUME NEW old \in Row, NEW new \in Row, NEW source \in {"ha", "fcon"}
    PROVE  \A row : row = Merged(old, new, source) =>
           /\ row \in Row
           /\ row.drive = old.drive /\ row.by = old.by \cup {source}
           /\ \A col \in Merging : row[col] = MergedValue(old, new, source, col)
           /\ row.start = IF row.duration = Null THEN MergedValue(old, new, source, "start")
                          ELSE row.end - row.duration
           /\ EfficiencyFollows(row, old)
<1> SUFFICES ASSUME NEW row, row = Merged(old, new, source)
             PROVE  /\ row \in Row
                    /\ row.drive = old.drive /\ row.by = old.by \cup {source}
                    /\ \A col \in Merging : row[col] = MergedValue(old, new, source, col)
                    /\ row.start = IF row.duration = Null
                                   THEN MergedValue(old, new, source, "start")
                                   ELSE row.end - row.duration
                    /\ EfficiencyFollows(row, old)
  BY Zenon
<1> DEFINE mid == MergedColumns(old, new, source)
<1>1. DOMAIN old = Columns /\ DOMAIN new = Columns
  BY RowShape
<1>2. DOMAIN Winner = Columns \ {"eff", "drive", "by"}
  BY DEF Winner, Columns, Column
<1>3. \A col \in Columns : MergedValue(old, new, source, col) \in {old[col], new[col]}
  BY DEF MergedValue, CheckedDistance
<1>4. /\ mid = [col \in Columns |-> mid[col]]
      /\ \A col \in DOMAIN Winner : mid[col] = MergedValue(old, new, source, col)
      /\ mid.by = old.by \cup {source} /\ mid.drive = old.drive /\ mid.eff = old.eff
  BY <1>1, <1>2 DEF MergedColumns, Columns, Column
<1>5. \A col \in DOMAIN Winner : mid[col] \in {old[col], new[col]}
  BY <1>2, <1>3, <1>4
<1>6. mid \in Row
  <2> HIDE DEF mid
  <2>1. /\ mid.key \in {old.key, new.key} /\ mid.start \in {old.start, new.start}
        /\ mid.end \in {old.end, new.end} /\ mid.duration \in {old.duration, new.duration}
        /\ mid.distance \in {old.distance, new.distance} /\ mid.energy \in {old.energy, new.energy}
        /\ mid.regen \in {old.regen, new.regen} /\ mid.temp \in {old.temp, new.temp}
        /\ mid.odoStart \in {old.odoStart, new.odoStart} /\ mid.odoEnd \in {old.odoEnd, new.odoEnd}
        /\ mid.src \in {old.src, new.src}
    BY <1>2, <1>5 DEF Columns, Column
  <2> QED BY <1>4, <2>1, RowShape DEF Row
<1>7. row = [mid EXCEPT !.start = IF mid.duration = Null THEN @ ELSE mid.end - mid.duration,
                        !.eff = Ratio(mid)]
  BY DEF Merged, Derives
<1> HIDE DEF mid
<1>8. mid.duration # Null => mid.end - mid.duration \in Int
  BY <1>6 DEF Row, Number
<1>9. Ratio(mid) \in {Null} \cup Nat \X Nat
  BY <1>6 DEF Row, Number, Ratio
<1>10. row \in Row
  <2> DEFINE start == IF mid.duration = Null THEN mid.start ELSE mid.end - mid.duration
             eff == Ratio(mid)
  <2>1. start \in Int \cup {Null} /\ eff \in {Null} \cup Nat \X Nat
    BY <1>6, <1>8, <1>9 DEF Row
  <2>2. row = [mid EXCEPT !.start = start, !.eff = eff]
    BY <1>7
  <2> HIDE DEF start, eff
  <2> QED BY <1>6, <2>1, <2>2 DEF Row
<1>11. \A col \in Columns \ {"start", "eff"} : row[col] = mid[col]
  BY <1>6, <1>7, RowShape
<1>12. row.start = IF mid.duration = Null THEN mid.start ELSE mid.end - mid.duration
  BY <1>6, <1>7, RowShape DEF Columns, Column
<1>13. row.eff = Ratio(mid)
  BY <1>6, <1>7, RowShape DEF Columns, Column
<1>14. /\ row.duration = mid.duration /\ row.end = mid.end /\ row.distance = mid.distance
       /\ row.energy = mid.energy /\ row.drive = mid.drive /\ row.by = mid.by
  BY <1>11 DEF Columns, Column
<1>15. mid.start = MergedValue(old, new, source, "start")
  BY <1>2, <1>4 DEF Columns, Column
<1>16. \A col \in Merging : row[col] = MergedValue(old, new, source, col)
  BY <1>2, <1>4, <1>11 DEF Merging, Columns, Column
<1>17. EfficiencyFollows(row, old)
  BY <1>4, <1>13, <1>14 DEF Ratio, EfficiencyFollows
<1> QED BY <1>4, <1>10, <1>12, <1>14, <1>15, <1>16, <1>17

-----------------------------------------------------------------------------
(***************************************************************************)
(* What is true of every row: it is as the user entered it, or it has      *)
(* figures of its drive's records and the key of one.                      *)
(***************************************************************************)
Likeness(row) == [start |-> row.start, end |-> row.end, duration |-> row.duration,
                  distance |-> row.distance, energy |-> row.energy]

Attributed(row) ==
    Likeness(row) \in Likenesses(row.drive) /\ row.key \in Figure(row.drive, "key")

SoundRow(row) ==
    /\ row \in Row
    /\ row.src = "manual" => \E trip \in Typed : Alike(row, ManualTrip(trip))
    /\ Mergeable(row) => Attributed(row)

Sound(table) ==
    /\ table \in [Id -> Row \cup {NoRow}]
    /\ \A i \in Stored(table) : SoundRow(table[i])

\* A record matches a row only if the row is of its drive, and every row of
\* its drive that a source has written.
Matches(row, record) ==
    IsSameDrive(row, record) \/ (record.src = "ha" /\ LooksAlike(row, record))

LEMMA RecordsAreRows ==
    ASSUME NEW d \in Drive, NEW record \in RecordsOf(d)
    PROVE  record \in Row /\ record.drive = d /\ Mergeable(record)
<1>1. CASE \E obs \in Reporting(d) : record = HaTrip(d, obs)
  BY <1>1, HaTripIsRow DEF HaTrip, Mergeable
<1>2. CASE Fold[d] # Null /\ record = FconTrip(d, Fold[d])
  BY <1>2, FconTripIsRow DEF FconTrip, Mergeable
<1> QED BY <1>1, <1>2 DEF RecordsOf, Reporting

LEMMA SourcesHaveKeys ==
    ASSUME NEW d \in Drive, NEW record \in RecordsOf(d), record.key # Null
    PROVE  record.key[1] \in {"ha", "fcon"}
<1>1. record.key \in {Null} \cup ({"ha", "fcon"} \X Nat)
  <2>1. CASE \E obs \in Reporting(d) : record = HaTrip(d, obs)
    BY <2>1, HaTripIsRow DEF HaTrip, HaKey, Told
  <2>2. CASE Fold[d] # Null /\ record = FconTrip(d, Fold[d])
    BY <2>2, FconTripIsRow DEF FconTrip, Folded
  <2> QED BY <2>1, <2>2 DEF RecordsOf, Reporting
<1> QED BY <1>1

LEMMA MatchesByLikeness ==
    ASSUME NEW row, NEW record
    PROVE  /\ IsSameDrive(Likeness(row), record) <=> IsSameDrive(row, record)
           /\ LooksAlike(Likeness(row), record) <=> LooksAlike(row, record)
BY DEF Likeness, IsSameDrive, IsUnitTwin, EndsAgree, StartsAgree, LooksAlike

LEMMA LikeRowsMatchAlike ==
    ASSUME NEW row, NEW other, IsLike(row, other)
    PROVE  /\ \A record : IsSameDrive(row, record) <=> IsSameDrive(other, record)
           /\ \A record : LooksAlike(row, record) <=> LooksAlike(other, record)
BY DEF IsLike, IsSameDrive, IsUnitTwin, EndsAgree, StartsAgree, LooksAlike

LEMMA OnlyItsDriveMatches ==
    ASSUME Recognisable, NEW row, SoundRow(row), NEW d \in Drive, NEW record \in RecordsOf(d)
    PROVE  /\ Matches(row, record) => row.drive = d
           /\ Mergeable(row) /\ row.drive = d => IsSameDrive(row, record)
           /\ row.key = record.key /\ row.key # Null => Mergeable(row) /\ row.drive = d
<1>1. row.drive \in Drive /\ row.src \in {"ha", "fcon", "manual"}
  BY DEF SoundRow, Row
<1>2. CASE row.src = "manual"
  <2>1. PICK trip \in Typed : Alike(row, ManualTrip(trip))
    BY <1>2 DEF SoundRow
  <2>2. row.drive = trip.drive /\ IsLike(row, ManualTrip(trip))
    BY <2>1 DEF Alike, IsLike, ManualTrip
  <2>3. Matches(row, record) => row.drive = d
    BY <2>2, LikeRowsMatchAlike, RecordsAreRows DEF Recognisable, Matches
  <2>4. row.key[1] = "manual"
    BY <2>1 DEF Alike, ManualTrip
  <2>5. record.key = Null \/ record.key[1] \in {"ha", "fcon"}
    BY SourcesHaveKeys
  <2> QED BY <1>2, <2>3, <2>4, <2>5 DEF Mergeable
<1>3. CASE Mergeable(row)
  <2>1. Likeness(row) \in Likenesses(row.drive) /\ row.key \in Figure(row.drive, "key")
    BY <1>3 DEF SoundRow, Attributed
  <2>2. IsSameDrive(Likeness(row), record) <=> row.drive = d
    BY <1>1, <2>1 DEF Recognisable
  <2>3. record.src = "ha" /\ LooksAlike(Likeness(row), record) => row.drive = d
    BY <1>1, <2>1 DEF Recognisable
  <2>4. record.key \in Figure(row.drive, "key") \ {Null} => row.drive = d
    BY <1>1 DEF Recognisable
  <2> QED BY <1>3, <2>1, <2>2, <2>3, <2>4, MatchesByLikeness DEF Matches
<1> QED BY <1>1, <1>2, <1>3 DEF Mergeable

-----------------------------------------------------------------------------
(***************************************************************************)
(* The lookups.                                                            *)
(***************************************************************************)
LEMMA SameDriveFinds ==
    ASSUME NEW table, NEW record
    PROVE  LET i == SameDrive(table, record) IN
           \/ i = NoId /\ \A j \in Stored(table) : ~IsSameDrive(table[j], record)
           \/ i # NoId /\ i \in Stored(table) /\ IsSameDrive(table[i], record)
<1> DEFINE same == {i \in Stored(table) : IsSameDrive(table[i], record)}
<1>1. same \in SUBSET Id /\ NoId \notin Id
  BY TripsAssumption DEF Stored
<1>2. SameDrive(table, record) = First(same)
  BY DEF SameDrive
<1>3. same = {} => First(same) = NoId
  BY <1>1, FirstIsOne
<1>4. same # {} => First(same) \in same
  <2> HIDE DEF same
  <2> QED BY <1>1, FirstIsOne
<1>5. CASE same = {}
  BY <1>2, <1>3, <1>5
<1>6. CASE same # {}
  BY <1>1, <1>2, <1>4, <1>6
<1> QED BY <1>5, <1>6

LEMMA MatchingTripFinds ==
    ASSUME NEW table \in [Id -> Row \cup {NoRow}], NEW record, record.src = "ha"
    PROVE  LET i == MatchingTrip(table, record) IN
           \/ /\ i = NoId
              /\ Null \notin {record.distance, record.energy}
                 => \A j \in Stored(table) : ~IsSameDrive(table[j], record)
           \/ i # NoId /\ i \in Stored(table) /\ Matches(table[i], record)
<1> DEFINE alike == {i \in Stored(table) : LooksAlike(table[i], record)}
<1>1. alike \in SUBSET Stored(table) /\ NoId \notin Stored(table)
  BY TripsAssumption DEF Stored
<1>2. CASE alike # {} /\ Null \notin {record.distance, record.energy}
  <2>1. Newest(table, alike) \in alike
    <3> HIDE DEF alike
    <3> QED BY <1>1, <1>2, NewestIsOne
  <2>2. MatchingTrip(table, record) = Newest(table, alike)
    BY <1>2 DEF MatchingTrip
  <2> QED BY <1>1, <2>1, <2>2 DEF Matches
<1>3. CASE alike = {} /\ Null \notin {record.distance, record.energy}
  <2>1. MatchingTrip(table, record) = SameDrive(table, record)
    BY <1>3 DEF MatchingTrip
  <2> QED BY <2>1, SameDriveFinds DEF Matches
<1>4. CASE Null \in {record.distance, record.energy}
  BY <1>4 DEF MatchingTrip
<1> QED BY <1>2, <1>3, <1>4

-----------------------------------------------------------------------------
(***************************************************************************)
(* What a handler makes of the table.                                      *)
(***************************************************************************)
Folding(d) == {Fold[d]} \ {Null}

News(d) == {FillsOdometer(HaTrip(d, obs)) : obs \in Reporting(d)}
           \cup {FconTrip(d, obs) : obs \in Folding(d)}

ByHa(row, d, obs) ==
    LET trip == HaTrip(d, obs) IN
    {FillsOdometer(FillsDuration(SetsTemperature(row, obs), obs)),
     FillsDuration(SetsTemperature(Enriched(row, trip), obs), obs),
     FillsOdometer(SetsScores(Enriched(row, trip), trip))}

ByFcon(row, d, obs) ==
    LET trip == FconTrip(d, obs) IN {[trip EXCEPT !.key = row.key], Merged(row, trip, "fcon")}

Updates(row, d) == (UNION {ByHa(row, d, obs) : obs \in Reporting(d)})
                   \cup (UNION {ByFcon(row, d, obs) : obs \in Folding(d)})

\* A lookup of the record finds the row.
Hit(row, record) == Matches(row, record) \/ (row.key = record.key /\ record.key # Null)

Leaves(table, next, d) ==
    next = table /\ \E i \in Stored(table) : \E record \in RecordsOf(d) : Hit(table[i], record)

Adds(table, next, d) ==
    /\ \E new \in News(d) : next = Added(table, new)
    /\ \E record \in RecordsOf(d) :
          (record.src = "ha" => Null \notin {record.distance, record.energy})
          => \A i \in Stored(table) : ~IsSameDrive(table[i], record)

Improves(table, next, d) ==
    \E i \in Stored(table) :
        /\ Mergeable(table[i]) /\ \E record \in RecordsOf(d) : Hit(table[i], record)
        /\ \E new \in Updates(table[i], d) : next = [table EXCEPT ![i] = new]

Handled(table, next, d) == Leaves(table, next, d) \/ Adds(table, next, d) \/ Improves(table, next, d)

\* A trip the user entered has a key no source uses.
Keyed(table) ==
    /\ table \in [Id -> Row \cup {NoRow}]
    /\ \A i \in Stored(table) : table[i].src = "manual" => table[i].key[1] = "manual"

LEMMA KeysTell ==
    ASSUME NEW d \in Drive, NEW record \in RecordsOf(d), NEW table, Keyed(table),
           NEW i \in Stored(table), table[i].key = record.key, record.key # Null
    PROVE  Mergeable(table[i])
<1>1. record.key[1] \in {"ha", "fcon"}
  BY SourcesHaveKeys
<1>2. table[i].src \in {"ha", "fcon", "manual"}
  BY DEF Keyed, Stored, Row
<1> QED BY <1>1, <1>2 DEF Keyed, Mergeable

LEMMA EventsAreHandled ==
    ASSUME NEW table \in [Id -> Row \cup {NoRow}], NEW d \in Drive, NEW obs \in Reporting(d),
           \A i \in Stored(table) :
               table[i].key = HaTrip(d, obs).key /\ table[i].key # Null => Mergeable(table[i])
    PROVE  Handled(table, AfterEvents(table, d, obs), d)
<1> DEFINE trip == HaTrip(d, obs)
           known == WithKey(table, trip.key)
           found == MatchingTrip(table, trip)
           next == AfterEvents(table, d, obs)
<1> SUFFICES Handled(table, next, d)
  OBVIOUS
<1>1. /\ trip \in Row /\ trip \in RecordsOf(d) /\ trip.src = "ha"
  BY HaTripIsRow DEF HaTrip
<1>2. NoId \notin Id
  BY TripsAssumption
<1>3. next = IF known # NoId
             THEN [table EXCEPT ![known] =
                      FillsOdometer(FillsDuration(SetsTemperature(@, obs), obs))]
             ELSE IF found = NoId THEN Added(table, FillsOdometer(trip))
             ELSE IF ~Mergeable(table[found]) THEN table
             ELSE [table EXCEPT ![found] =
                      FillsDuration(SetsTemperature(Enriched(@, trip), obs), obs)]
  BY DEF AfterEvents
<1>4. CASE known # NoId
  <2>1. known \in Stored(table) /\ table[known].key = trip.key /\ trip.key # Null
    BY <1>2, <1>4, WithKeyFinds
  <2>2. Mergeable(table[known]) /\ Hit(table[known], trip)
    BY <1>1, <2>1 DEF Hit
  <2>3. FillsOdometer(FillsDuration(SetsTemperature(table[known], obs), obs))
            \in Updates(table[known], d)
    BY DEF Updates, ByHa
  <2>4. next = [table EXCEPT ![known] =
                   FillsOdometer(FillsDuration(SetsTemperature(table[known], obs), obs))]
    BY <1>3, <1>4
  <2> HIDE DEF known, next
  <2> QED BY <1>1, <2>1, <2>2, <2>3, <2>4 DEF Handled, Improves
<1>5. CASE known = NoId /\ found = NoId
  <2>2. Null \notin {trip.distance, trip.energy}
            => \A j \in Stored(table) : ~IsSameDrive(table[j], trip)
    BY <1>1, <1>2, <1>5, MatchingTripFinds
  <2>3. next = Added(table, FillsOdometer(trip)) /\ FillsOdometer(trip) \in News(d)
    BY <1>3, <1>5 DEF News
  <2> HIDE DEF known, next, trip, found
  <2> QED BY <1>1, <2>2, <2>3 DEF Handled, Adds
<1>6. CASE known = NoId /\ found # NoId
  <2>1. found \in Stored(table) /\ Matches(table[found], trip)
    BY <1>1, <1>2, <1>6, MatchingTripFinds
  <2>2. Hit(table[found], trip)
    BY <2>1 DEF Hit
  <2>3. FillsDuration(SetsTemperature(Enriched(table[found], trip), obs), obs)
            \in Updates(table[found], d)
    BY DEF Updates, ByHa
  <2>4. next = IF ~Mergeable(table[found]) THEN table
               ELSE [table EXCEPT ![found] =
                   FillsDuration(SetsTemperature(Enriched(table[found], trip), obs), obs)]
    BY <1>3, <1>6
  <2> HIDE DEF found, next, trip
  <2> QED BY <1>1, <2>1, <2>2, <2>3, <2>4 DEF Handled, Improves, Leaves
<1> QED BY <1>4, <1>5, <1>6

LEMMA ElvehIsHandled ==
    ASSUME NEW table \in [Id -> Row \cup {NoRow}], NEW d \in Drive, NEW obs \in Reporting(d)
    PROVE  Handled(table, AfterElveh(table, d, obs), d)
<1> DEFINE trip == HaTrip(d, obs)
           known == WithKey(table, trip.key)
           found == IF known # NoId THEN known ELSE MatchingTrip(table, trip)
           next == AfterElveh(table, d, obs)
           new(row) == FillsOdometer(SetsScores(Enriched(row, trip), trip))
<1> SUFFICES Handled(table, next, d)
  OBVIOUS
<1>1. /\ trip \in Row /\ trip \in RecordsOf(d) /\ trip.src = "ha"
  BY HaTripIsRow DEF HaTrip
<1>2. NoId \notin Id
  BY TripsAssumption
<1>3. next = IF found = NoId THEN Added(table, FillsOdometer(trip))
             ELSE IF ~Mergeable(table[found]) THEN table
             ELSE [table EXCEPT ![found] = new(table[found])]
  BY DEF AfterElveh
<1>4. CASE found = NoId
  <2>2. Null \notin {trip.distance, trip.energy}
            => \A j \in Stored(table) : ~IsSameDrive(table[j], trip)
    BY <1>1, <1>2, <1>4, MatchingTripFinds
  <2>3. next = Added(table, FillsOdometer(trip)) /\ FillsOdometer(trip) \in News(d)
    BY <1>3, <1>4 DEF News
  <2> HIDE DEF found, next, trip
  <2> QED BY <1>1, <2>2, <2>3 DEF Handled, Adds
<1>5. CASE found # NoId
  <2>1. /\ found \in Stored(table)
        /\ Matches(table[found], trip) \/ (table[found].key = trip.key /\ trip.key # Null)
    <3>1. CASE known # NoId
      BY <1>2, <3>1, WithKeyFinds
    <3>2. CASE known = NoId
      BY <1>1, <1>2, <1>5, <3>2, MatchingTripFinds
    <3> QED BY <3>1, <3>2
  <2>2. Hit(table[found], trip)
    BY <2>1 DEF Hit
  <2>3. new(table[found]) \in Updates(table[found], d)
    <3> HIDE DEF found
    <3> QED BY DEF Updates, ByHa
  <2>4. next = IF ~Mergeable(table[found]) THEN table
               ELSE [table EXCEPT ![found] = new(table[found])]
    BY <1>3, <1>5
  <2> HIDE DEF found, next, trip, new
  <2> QED BY <1>1, <2>1, <2>2, <2>3, <2>4 DEF Handled, Improves, Leaves
<1> QED BY <1>4, <1>5

LEMMA FoldIsHandled ==
    ASSUME NEW table \in [Id -> Row \cup {NoRow}], NEW d \in Drive, Fold[d] # Null
    PROVE  Handled(table, AfterFcon(table, d, Fold[d]), d)
<1> DEFINE trip == FconTrip(d, Fold[d])
           known == WithKey(table, trip.key)
           found == IF known # NoId THEN known ELSE SameDrive(table, trip)
           next == AfterFcon(table, d, Fold[d])
           fresh == [trip EXCEPT !.key = table[known].key]
           merged == Merged(table[found], trip, "fcon")
<1> SUFFICES Handled(table, next, d)
  OBVIOUS
<1>1. trip \in Row /\ trip \in RecordsOf(d) /\ Fold[d] \in Folding(d)
  BY FconTripIsRow DEF Folding
<1>2. NoId \notin Id
  BY TripsAssumption
<1>3. next = IF found = NoId THEN Added(table, trip)
             ELSE IF known # NoId /\ table[known].src = "fcon"
             THEN [table EXCEPT ![known] = fresh]
             ELSE IF ~Mergeable(table[found]) THEN table
             ELSE [table EXCEPT ![found] = merged]
  BY DEF AfterFcon
<1>4. CASE found = NoId
  <2>2. \A j \in Stored(table) : ~IsSameDrive(table[j], trip)
    BY <1>4, SameDriveFinds
  <2>3. next = Added(table, trip) /\ trip \in News(d)
    BY <1>1, <1>3, <1>4 DEF News
  <2> HIDE DEF found, next, trip
  <2> QED BY <1>1, <2>2, <2>3 DEF Handled, Adds
<1>5. CASE found # NoId
  <2>1. /\ found \in Stored(table)
        /\ Matches(table[found], trip) \/ (table[found].key = trip.key /\ trip.key # Null)
    <3>1. CASE known # NoId
      BY <1>2, <3>1, WithKeyFinds
    <3>2. CASE known = NoId
      BY <1>5, <3>2, SameDriveFinds DEF Matches
    <3> QED BY <3>1, <3>2
  <2>2. Hit(table[found], trip)
    BY <2>1 DEF Hit
  <2>3. /\ merged \in Updates(table[found], d)
        /\ known # NoId => known = found /\ fresh \in Updates(table[found], d)
    <3>1. merged \in Updates(table[found], d)
      <4> HIDE DEF found
      <4> QED BY <1>1 DEF Updates, ByFcon
    <3>2. fresh \in Updates(table[known], d)
      <4> HIDE DEF known
      <4> QED BY <1>1 DEF Updates, ByFcon
    <3> QED BY <3>1, <3>2
  <2>4. \/ next = table
        \/ Mergeable(table[found]) /\ next = [table EXCEPT ![found] = merged]
        \/ known # NoId /\ Mergeable(table[found]) /\ next = [table EXCEPT ![found] = fresh]
    <3> HIDE DEF fresh, merged, next, trip
    <3> QED BY <1>3, <1>5 DEF Mergeable
  <2> HIDE DEF found, next, fresh, merged, known
  <2> QED BY <1>1, <2>1, <2>2, <2>3, <2>4 DEF Handled, Improves, Leaves
<1> QED BY <1>4, <1>5

-----------------------------------------------------------------------------
(***************************************************************************)
(* A handler's rows have figures of the drive's records.                   *)
(***************************************************************************)
IsOf(row, d) == row \in Row /\ row.drive = d /\ Mergeable(row) /\ Attributed(row)

Starts(d) == Figure(d, "start")
             \cup {end - duration : end \in Figure(d, "end"),
                                    duration \in Figure(d, "duration") \ {Null}}

LEMMA IsOfByColumn ==
    ASSUME NEW row \in Row, NEW d
    PROVE  IsOf(row, d) <=>
             /\ row.drive = d /\ row.src \in {"ha", "fcon"}
             /\ row.start \in Starts(d)
             /\ \A col \in {"key", "end", "duration", "distance", "energy"} :
                    row[col] \in Figure(d, col)
BY DEF IsOf, Mergeable, Attributed, Likeness, Likenesses, Starts

LEMMA StartsFollow ==
    ASSUME NEW d, NEW end \in Figure(d, "end"),
           NEW duration \in Figure(d, "duration"), duration # Null
    PROVE  end - duration \in Starts(d)
BY DEF Starts

LEMMA RecordIsOf ==
    ASSUME NEW d \in Drive, NEW record \in RecordsOf(d)
    PROVE  /\ IsOf(record, d)
           /\ \A col \in Columns : record[col] \in Figure(d, col)
<1>1. record \in Row /\ record.drive = d /\ Mergeable(record)
  BY RecordsAreRows
<1>2. \A col \in Columns : record[col] \in Figure(d, col)
  BY DEF Figure
<1>3. Figure(d, "start") \subseteq Starts(d)
  BY DEF Starts
<1>4. {"key", "end", "duration", "distance", "energy", "start"} \subseteq Columns
  BY DEF Columns, Column
<1> QED BY <1>1, <1>2, <1>3, <1>4, IsOfByColumn DEF Mergeable

LEMMA AlikeIsOf ==
    ASSUME NEW d, NEW row, IsOf(row, d), NEW new, Alike(new, row)
    PROVE  IsOf(new, d)
<1>1. /\ row \in Row /\ new \in Row
      /\ new.drive = row.drive /\ new.src = row.src
      /\ \A col \in {"start", "key", "end", "duration", "distance", "energy"} : new[col] = row[col]
  BY DEF IsOf, Alike, IsLike
<1> QED BY <1>1, IsOfByColumn

LEMMA FillsDurationIsOf ==
    ASSUME NEW d \in Drive, NEW row, IsOf(row, d), NEW obs \in Reporting(d)
    PROVE  IsOf(FillsDuration(row, obs), d)
<1> DEFINE new == FillsDuration(row, obs)
<1>1. row \in Row /\ obs \in Told /\ obs.duration \in Figure(d, "duration")
  <2>1. HaTrip(d, obs).duration = obs.duration /\ "duration" \in Columns
    BY DEF HaTrip, Columns, Column
  <2> QED BY <2>1, HaTripIsRow, RecordIsOf DEF IsOf
<1>2. CASE obs.duration = Null \/ row.duration # Null
  BY <1>1, <1>2, FillsDurationIsRow
<1>3. CASE obs.duration # Null /\ row.duration = Null
  <2>1. /\ new \in Row /\ new.duration = obs.duration
        /\ new.start = Fill(row.start, row.end - obs.duration)
        /\ new = [row EXCEPT !.duration = new.duration, !.start = new.start]
    BY <1>1, <1>3, FillsDurationIsRow
  <2> HIDE DEF new
  <2>2. /\ new.drive = row.drive /\ new.src = row.src
        /\ \A col \in {"key", "end", "distance", "energy"} : new[col] = row[col]
    BY <1>1, <2>1 DEF Row
  <2>3. row.end - obs.duration \in Starts(d)
    BY <1>1, <1>3, StartsFollow, IsOfByColumn
  <2>4. new.start \in Starts(d)
    BY <1>1, <2>1, <2>3, IsOfByColumn DEF Fill
  <2>5. \A col \in {"key", "end", "duration", "distance", "energy"} : new[col] \in Figure(d, col)
    BY <1>1, <2>1, <2>2, IsOfByColumn
  <2>6. new.drive = d /\ new.src \in {"ha", "fcon"}
    BY <1>1, <2>2, IsOfByColumn
  <2> QED BY <2>1, <2>4, <2>5, <2>6, IsOfByColumn DEF new
<1> QED BY <1>2, <1>3

LEMMA SetsScoresIsOf ==
    ASSUME NEW d \in Drive, NEW row, IsOf(row, d), NEW trip \in RecordsOf(d)
    PROVE  IsOf(SetsScores(row, trip), d)
<1> DEFINE new == SetsScores(row, trip)
<1>1. row \in Row /\ trip \in Row /\ IsOf(trip, d)
  BY RecordIsOf DEF IsOf
<1>2. /\ new \in Row /\ new.src = row.src /\ new.drive = row.drive
      /\ \A col \in {"key", "end", "distance", "energy"} : new[col] = row[col]
      /\ new.duration \in {row.duration, trip.duration}
      /\ new.start \in {row.start, trip.start}
  BY <1>1, SetsScoresIsRow DEF Fill
<1> HIDE DEF new
<1> QED BY <1>1, <1>2, IsOfByColumn DEF new

LEMMA MergedIsOf ==
    ASSUME NEW d \in Drive, NEW row, IsOf(row, d), NEW trip \in RecordsOf(d),
           NEW source \in {"ha", "fcon"}
    PROVE  IsOf(Merged(row, trip, source), d)
<1> DEFINE new == Merged(row, trip, source)
<1>1. row \in Row /\ trip \in Row /\ IsOf(trip, d)
  BY RecordIsOf DEF IsOf
<1>2. \A col \in Columns : MergedValue(row, trip, source, col) \in {row[col], trip[col]}
  BY DEF MergedValue, CheckedDistance
<1>3. /\ new \in Row /\ new.drive = row.drive
      /\ \A col \in {"src", "key", "end", "duration", "distance", "energy"} :
            new[col] \in {row[col], trip[col]}
      /\ new.start = IF new.duration = Null THEN MergedValue(row, trip, source, "start")
                     ELSE new.end - new.duration
  <2>1. /\ new \in Row /\ new.drive = row.drive
        /\ \A col \in Merging : new[col] = MergedValue(row, trip, source, col)
        /\ new.start = IF new.duration = Null THEN MergedValue(row, trip, source, "start")
                       ELSE new.end - new.duration
    BY <1>1, MergedIsRow
  <2>2. {"src", "key", "end", "duration", "distance", "energy"}
            \subseteq Columns \cap Merging
    BY DEF Merging, Columns, Column
  <2> HIDE DEF new
  <2> QED BY <1>2, <2>1, <2>2
<1> HIDE DEF new
<1>4. \A col \in {"key", "end", "duration", "distance", "energy"} : new[col] \in Figure(d, col)
  BY <1>1, <1>3, IsOfByColumn
<1>5. new.start \in Starts(d)
  <2>1. CASE new.duration = Null
    BY <1>1, <1>2, <1>3, <2>1, IsOfByColumn DEF Columns, Column
  <2>2. CASE new.duration # Null
    BY <1>3, <1>4, <2>2, StartsFollow
  <2> QED BY <2>1, <2>2
<1>6. new.drive = d /\ new.src \in {"ha", "fcon"}
  BY <1>1, <1>3, IsOfByColumn
<1> QED BY <1>3, <1>4, <1>5, <1>6, IsOfByColumn DEF new

LEMMA NewsAreOf ==
    ASSUME NEW d \in Drive, NEW new \in News(d)
    PROVE  IsOf(new, d)
<1>1. CASE \E obs \in Reporting(d) : new = FillsOdometer(HaTrip(d, obs))
  <2>1. PICK obs \in Reporting(d) : new = FillsOdometer(HaTrip(d, obs))
    BY <1>1
  <2> QED BY <2>1, HaTripIsRow, RecordIsOf, FillsOdometerAlike, AlikeIsOf
<1>2. CASE Fold[d] # Null /\ new = FconTrip(d, Fold[d])
  BY <1>2, FconTripIsRow, RecordIsOf
<1> QED BY <1>1, <1>2 DEF News, Folding

LEMMA UpdatesAreOf ==
    ASSUME NEW d \in Drive, NEW row, IsOf(row, d), NEW new \in Updates(row, d)
    PROVE  IsOf(new, d)
<1>1. ASSUME NEW obs \in Reporting(d), new \in ByHa(row, d, obs)
      PROVE  IsOf(new, d)
  <2> DEFINE trip == HaTrip(d, obs)
             base == Enriched(row, trip)
  <2>1. obs \in Told /\ trip \in RecordsOf(d) /\ row \in Row
    BY HaTripIsRow DEF IsOf
  <2>2. IsOf(base, d)
    BY <2>1, MergedIsOf DEF Enriched
  <2>3. IsOf(SetsTemperature(row, obs), d) /\ IsOf(SetsTemperature(base, obs), d)
    <3> HIDE DEF base
    <3> QED BY <2>1, <2>2, SetsTemperatureAlike, AlikeIsOf DEF IsOf
  <2>4. /\ IsOf(FillsDuration(SetsTemperature(row, obs), obs), d)
        /\ IsOf(FillsDuration(SetsTemperature(base, obs), obs), d)
        /\ IsOf(SetsScores(base, trip), d)
    <3> HIDE DEF base, trip
    <3> QED BY <2>1, <2>2, <2>3, FillsDurationIsOf, SetsScoresIsOf
  <2>5. ASSUME NEW mid, IsOf(mid, d)
        PROVE  IsOf(FillsOdometer(mid), d)
    <3>1. mid \in Row
      BY <2>5 DEF IsOf
    <3> QED BY <2>5, <3>1, FillsOdometerAlike, AlikeIsOf
  <2>6. \/ new = FillsOdometer(FillsDuration(SetsTemperature(row, obs), obs))
        \/ new = FillsDuration(SetsTemperature(base, obs), obs)
        \/ new = FillsOdometer(SetsScores(base, trip))
    BY <1>1 DEF ByHa
  <2> HIDE DEF base, trip
  <2> QED BY <2>4, <2>5, <2>6
<1>2. ASSUME Fold[d] # Null, new \in ByFcon(row, d, Fold[d])
      PROVE  IsOf(new, d)
  <2> DEFINE trip == FconTrip(d, Fold[d])
  <2>1. trip \in RecordsOf(d) /\ trip \in Row /\ row \in Row /\ IsOf(trip, d)
    BY <1>2, FconTripIsRow, RecordIsOf DEF IsOf
  <2>2. CASE new = Merged(row, trip, "fcon")
    <3> HIDE DEF trip
    <3> QED BY <2>1, <2>2, MergedIsOf
  <2>3. CASE new = [trip EXCEPT !.key = row.key]
    <3> HIDE DEF trip
    <3>1. new \in Row /\ new.drive = trip.drive /\ new.src = trip.src /\ new.key = row.key
          /\ \A col \in {"start", "end", "duration", "distance", "energy"} : new[col] = trip[col]
      BY <2>1, <2>3 DEF Row
    <3> QED BY <2>1, <3>1, IsOfByColumn
  <2> QED BY <1>2, <2>2, <2>3 DEF ByFcon
<1> QED BY <1>1, <1>2 DEF Updates, Folding

-----------------------------------------------------------------------------
(***************************************************************************)
(* Every step of the system, as a step of the table.                       *)
(***************************************************************************)
\* One row has been written.
Written(table, next, i, new) == next = [table EXCEPT ![i] = new]

Enriches(d) == Room(rows) /\ Handled(rows, rows', d) /\ Reports(d)

Fills ==
    /\ UNCHANGED <<reported, gone>>
    /\ \E i \in Stored(rows) : \E new \in Row :
          /\ Alike(new, rows[i]) /\ Written(rows, rows', i, new)
          /\ new = [rows[i] EXCEPT !.regen = new.regen] /\ rows[i].regen \in {Null, new.regen}
          /\ \A col \in {"start", "end", "duration", "distance", "energy", "eff",
                         "odoStart", "odoEnd"} : new[col] = rows[i][col]

LEMMA MetricsFills ==
    ASSUME Keyed(rows), NEW d \in Drive, HearsMetrics(d)
    PROVE  Fills \/ UNCHANGED <<rows, reported, gone>>
<1> DEFINE obs == Metrics[d]
           recent == {i \in Stored(rows) : rows[i].end >= obs.at - Day}
           i == Newest(rows, recent)
           new == [rows[i] EXCEPT !.regen = Fill(@, obs.regen)]
<1>1. rows \in [Id -> Row \cup {NoRow}] /\ recent \in SUBSET Stored(rows)
  BY DEF Keyed
<1>2. obs.regen \in Number /\ UNCHANGED <<reported, gone>>
  BY TripsAssumption DEF HearsMetrics
<1>3. rows' = IF recent = {} \/ obs.regen \in {Null, 0} THEN rows
              ELSE [rows EXCEPT ![i].regen = Fill(@, obs.regen)]
  BY DEF HearsMetrics, AfterMetrics
<1>4. CASE recent = {} \/ obs.regen \in {Null, 0}
  BY <1>2, <1>3, <1>4
<1>5. CASE recent # {} /\ obs.regen \notin {Null, 0}
  <2>1. i \in Stored(rows)
    <3>1. Newest(rows, recent) \in recent
      <4> HIDE DEF recent
      <4> QED BY <1>1, <1>5, NewestIsOne
    <3> QED BY <1>1, <3>1
  <2> HIDE DEF i
  <2>2. rows[i] \in Row
    BY <1>1, <2>1 DEF Stored
  <2>3. Fill(rows[i].regen, obs.regen) \in Number
    BY <1>2, <2>2 DEF Row, Fill
  <2>4. /\ new \in Row /\ Alike(new, rows[i])
        /\ new = [rows[i] EXCEPT !.regen = new.regen] /\ rows[i].regen \in {Null, new.regen}
        /\ \A col \in {"start", "end", "duration", "distance", "energy", "eff",
                       "odoStart", "odoEnd"} : new[col] = rows[i][col]
    BY <2>2, <2>3 DEF Row, Alike, IsLike, Fill
  <2>5. Written(rows, rows', i, new)
    BY <1>3, <1>5 DEF Written
  <2> HIDE DEF new
  <2> QED BY <1>2, <2>1, <2>4, <2>5 DEF Fills
<1> QED BY <1>4, <1>5

LEMMA HearingIsAStep ==
    ASSUME Keyed(rows), NEW d \in Drive, Hears(d)
    PROVE  Enriches(d) \/ Fills \/ UNCHANGED <<rows, reported, gone>>
<1> rows \in [Id -> Row \cup {NoRow}]
  BY DEF Keyed
<1>1. CASE HearsEvents(d)
  <2>1. Events[d] \in Reporting(d)
    BY <1>1 DEF HearsEvents, Reporting
  <2>2. \A i \in Stored(rows) : rows[i].key = HaTrip(d, Events[d]).key /\ rows[i].key # Null
            => Mergeable(rows[i])
    BY <2>1, HaTripIsRow, KeysTell
  <2> QED BY <1>1, <2>1, <2>2, EventsAreHandled DEF HearsEvents, Enriches
<1>2. CASE HearsElveh(d)
  BY <1>2, ElvehIsHandled DEF HearsElveh, Enriches, Reporting
<1>3. CASE HearsMetrics(d)
  BY <1>3, MetricsFills
<1>4. CASE DerivesTrip(d)
  BY <1>4, FoldIsHandled DEF DerivesTrip, Enriches
<1> QED BY <1>1, <1>2, <1>3, <1>4 DEF Hears

LEMMA StepsOfTheTable ==
    ASSUME Keyed(rows), [Next]_vars
    PROVE  \/ \E d \in Drive : Enriches(d)
           \/ Fills
           \/ \E trip \in Typed : Enters(trip)
           \/ \E i \in Id : Deletes(i)
           \/ UNCHANGED <<rows, reported, gone>>
<1>1. CASE Restarts \/ UNCHANGED vars
  BY <1>1 DEF Restarts, vars
<1> QED BY <1>1, HearingIsAStep DEF Next, Edits

-----------------------------------------------------------------------------
(***************************************************************************)
(* Sound is kept.                                                          *)
(***************************************************************************)
LEMMA AlikeIsSound ==
    ASSUME NEW row, SoundRow(row), NEW new, Alike(new, row)
    PROVE  SoundRow(new)
<1>1. row.src = "manual" => \E trip \in Typed : Alike(new, ManualTrip(trip))
  BY DEF SoundRow, Alike, IsLike
<1>2. Likeness(new) = Likeness(row)
  BY DEF Likeness, Alike, IsLike
<1>3. new \in Row /\ new.src = row.src /\ new.key = row.key /\ new.drive = row.drive
  BY DEF Alike, IsLike
<1> QED BY <1>1, <1>2, <1>3 DEF SoundRow, Mergeable, Attributed

LEMMA IsOfIsSound ==
    ASSUME NEW d, NEW row, IsOf(row, d)
    PROVE  SoundRow(row)
BY DEF IsOf, SoundRow, Mergeable

LEMMA ManualIsSound ==
    ASSUME NEW trip \in Typed
    PROVE  SoundRow(ManualTrip(trip)) /\ ManualTrip(trip).src = "manual"
           /\ ManualTrip(trip).by = {} /\ ManualTrip(trip).drive = trip.drive
<1>1. ManualTrip(trip) \in Row
  BY ManualTripIsRow
<1>2. Alike(ManualTrip(trip), ManualTrip(trip))
  BY <1>1 DEF Alike, IsLike
<1>3. ManualTrip(trip).src = "manual" /\ ManualTrip(trip).by = {}
      /\ ManualTrip(trip).drive = trip.drive
  BY DEF ManualTrip
<1> QED BY <1>1, <1>2, <1>3 DEF SoundRow, Mergeable

\* What a table is after one row has been written.
LEMMA WrittenTable ==
    ASSUME NEW table, Sound(table), NEW i \in Id, NEW new, SoundRow(new),
           NEW next, Written(table, next, i, new)
    PROVE  /\ Sound(next) /\ Stored(next) = Stored(table) \cup {i}
           /\ next[i] = new /\ \A j \in Id \ {i} : next[j] = table[j]
<1>1. new \in Row /\ new # NoRow /\ table \in [Id -> Row \cup {NoRow}]
  BY TripsAssumption DEF SoundRow, Sound
<1> QED BY <1>1 DEF Sound, Stored, Written


LEMMA SoundIsKeyed ==
    ASSUME NEW table, Sound(table)
    PROVE  Keyed(table)
<1>1. ASSUME NEW i \in Stored(table), table[i].src = "manual"
      PROVE  table[i].key[1] = "manual"
  <2>1. PICK trip \in Typed : Alike(table[i], ManualTrip(trip))
    BY <1>1 DEF Sound, SoundRow
  <2> QED BY <2>1 DEF Alike, ManualTrip
<1> QED BY <1>1 DEF Sound, Keyed

\* The records of a drive find the rows of the drive.
LEMMA HitsAreOfTheDrive ==
    ASSUME Recognisable, NEW table, Sound(table), NEW d \in Drive,
           NEW i \in Stored(table), NEW record \in RecordsOf(d), Hit(table[i], record)
    PROVE  table[i].drive = d
BY OnlyItsDriveMatches DEF Sound, Hit

LEMMA HandledWrites ==
    ASSUME Recognisable, NEW table, Sound(table), Room(table), NEW d \in Drive, NEW next,
           Handled(table, next, d)
    PROVE  \/ next = table /\ \E i \in Stored(table) : table[i].drive = d
           \/ \E i \in Id : \E new \in Row :
                 /\ Written(table, next, i, new) /\ IsOf(new, d)
                 /\ \/ /\ i \notin Stored(table) /\ new \in News(d)
                       /\ \A j \in Stored(table) : table[j].drive = d => ~Mergeable(table[j])
                    \/ /\ i \in Stored(table) /\ IsOf(table[i], d)
                       /\ new \in Updates(table[i], d)
<1>1. CASE Leaves(table, next, d)
  BY <1>1, HitsAreOfTheDrive DEF Leaves
<1>2. CASE Adds(table, next, d)
  <2>1. PICK new \in News(d) : next = Added(table, new)
    BY <1>2 DEF Adds
  <2>2. NextId(table) \in Id \ Stored(table)
    BY NextIdIsFree
  <2>3. IsOf(new, d) /\ new \in Row
    BY NewsAreOf DEF IsOf
  <2>4. Written(table, next, NextId(table), new)
    BY <2>1 DEF Added, Written
  <2>5. PICK record \in RecordsOf(d) : \A i \in Stored(table) : ~IsSameDrive(table[i], record)
    BY <1>2 DEF Adds, Recognisable
  <2>6. \A j \in Stored(table) : table[j].drive = d => ~Mergeable(table[j])
    BY <2>5, OnlyItsDriveMatches DEF Sound
  <2> QED BY <2>2, <2>3, <2>4, <2>6
<1>3. CASE Improves(table, next, d)
  <2>1. PICK i \in Stored(table) :
           /\ Mergeable(table[i]) /\ \E record \in RecordsOf(d) : Hit(table[i], record)
           /\ \E new \in Updates(table[i], d) : next = [table EXCEPT ![i] = new]
    BY <1>3 DEF Improves
  <2>2. IsOf(table[i], d) /\ i \in Id
    BY <2>1, HitsAreOfTheDrive DEF Sound, SoundRow, IsOf, Stored
  <2>3. PICK new \in Updates(table[i], d) : Written(table, next, i, new)
    BY <2>1 DEF Written
  <2>4. IsOf(new, d) /\ new \in Row
    BY <2>2, UpdatesAreOf DEF IsOf
  <2> QED BY <2>2, <2>3, <2>4
<1> QED BY <1>1, <1>2, <1>3 DEF Handled

LEMMA SoundIsKept ==
    ASSUME Recognisable, Sound(rows), [Next]_vars
    PROVE  Sound(rows')
<1>1. ASSUME NEW d \in Drive, Enriches(d)
      PROVE  Sound(rows')
  <2>1. rows' = rows \/ \E i \in Id : \E new \in Row :
            Written(rows, rows', i, new) /\ IsOf(new, d)
    BY <1>1, HandledWrites DEF Enriches
  <2> QED BY <2>1, WrittenTable, IsOfIsSound
<1>2. CASE Fills
  <2>1. PICK i \in Stored(rows) : \E new \in Row :
            Alike(new, rows[i]) /\ Written(rows, rows', i, new)
    BY <1>2 DEF Fills
  <2>2. i \in Id /\ SoundRow(rows[i])
    BY DEF Sound, Stored
  <2>3. PICK new \in Row : Alike(new, rows[i]) /\ Written(rows, rows', i, new)
    BY <2>1
  <2>4. SoundRow(new)
    BY <2>2, <2>3, AlikeIsSound
  <2> QED BY <2>2, <2>3, <2>4, WrittenTable
<1>3. ASSUME NEW trip \in Typed, Enters(trip)
      PROVE  Sound(rows')
  <2>1. Room(rows) /\ Written(rows, rows', NextId(rows), ManualTrip(trip))
    BY <1>3 DEF Enters, Added, Written
  <2>2. NextId(rows) \in Id
    BY <2>1, NextIdIsFree
  <2> QED BY <2>1, <2>2, ManualIsSound, WrittenTable
<1>4. ASSUME NEW i \in Id, Deletes(i)
      PROVE  Sound(rows')
  BY <1>4 DEF Deletes, Sound, Stored
<1> QED BY <1>1, <1>2, <1>3, <1>4, StepsOfTheTable, SoundIsKeyed

LEMMA SoundAtFirst == Init => Sound(rows)
  BY DEF Init, Sound, Stored

LEMMA RowsAreSound ==
    ASSUME Recognisable
    PROVE  Spec => []Sound(rows)
<1>1. Sound(rows) /\ [Next]_vars => Sound(rows)'
  BY SoundIsKept
<1> QED BY <1>1, SoundAtFirst, PTL DEF Spec

-----------------------------------------------------------------------------
(***************************************************************************)
(* One row per drive, and none lost.                                       *)
(***************************************************************************)
LEMMA OneRowIsKept ==
    ASSUME Recognisable, Sound(rows), OneRowPerDrive, [Next]_vars
    PROVE  OneRowPerDrive'
<1> SUFFICES ASSUME NEW j \in Ingested', NEW k \in Ingested', rows'[j].drive = rows'[k].drive
             PROVE  j = k
  BY DEF OneRowPerDrive
<1>1. /\ j \in Stored(rows') /\ rows'[j].src # "manual"
      /\ k \in Stored(rows') /\ rows'[k].src # "manual"
  BY DEF Ingested
<1>2. \A i \in Stored(rows) : Mergeable(rows[i]) <=> rows[i].src # "manual"
  BY DEF Sound, SoundRow, Row, Mergeable
<1>3. ASSUME NEW d \in Drive, Enriches(d)
      PROVE  j = k
  <2>1. CASE rows' = rows /\ \E i \in Stored(rows) : rows[i].drive = d
    BY <1>1, <2>1 DEF OneRowPerDrive, Ingested
  <2>2. ASSUME NEW i \in Id, NEW new \in Row, Written(rows, rows', i, new), IsOf(new, d),
               i \notin Stored(rows),
               \A h \in Stored(rows) : rows[h].drive = d => ~Mergeable(rows[h])
        PROVE  j = k
    <3>1. /\ Stored(rows') = Stored(rows) \cup {i} /\ rows'[i] = new
          /\ \A h \in Id \ {i} : rows'[h] = rows[h]
      BY <2>2, WrittenTable, IsOfIsSound
    <3>2. \A h \in Stored(rows) : h # i /\ h \in Id
      BY <2>2 DEF Stored
    <3>3. new.drive = d
      BY <2>2 DEF IsOf
    <3> QED BY <1>1, <1>2, <2>2, <3>1, <3>2, <3>3 DEF OneRowPerDrive, Ingested
  <2>3. ASSUME NEW i \in Id, NEW new \in Row, Written(rows, rows', i, new), IsOf(new, d),
               i \in Stored(rows), IsOf(rows[i], d)
        PROVE  j = k
    <3>1. /\ Stored(rows') = Stored(rows) \cup {i} /\ rows'[i] = new
          /\ \A h \in Id \ {i} : rows'[h] = rows[h]
      BY <2>3, WrittenTable, IsOfIsSound
    <3>2. new.drive = rows[i].drive /\ rows[i].src # "manual"
      BY <2>3 DEF IsOf, Mergeable
    <3>3. Stored(rows') = Stored(rows) /\ \A h \in Stored(rows) : h \in Id
      BY <2>3, <3>1 DEF Stored
    <3> QED BY <1>1, <3>1, <3>2, <3>3 DEF OneRowPerDrive, Ingested
  <2> QED BY <1>3, <2>1, <2>2, <2>3, HandledWrites DEF Enriches
<1>4. CASE Fills
  <2>1. PICK i \in Stored(rows) : \E new \in Row :
            Alike(new, rows[i]) /\ Written(rows, rows', i, new)
    BY <1>4 DEF Fills
  <2>2. PICK new \in Row : Alike(new, rows[i]) /\ Written(rows, rows', i, new)
    BY <2>1
  <2>3. i \in Id /\ SoundRow(new)
    BY <2>2, AlikeIsSound DEF Sound, Stored
  <2>4. /\ Stored(rows') = Stored(rows) \cup {i} /\ rows'[i] = new
        /\ \A h \in Id \ {i} : rows'[h] = rows[h]
    BY <2>2, <2>3, WrittenTable
  <2>5. new.drive = rows[i].drive /\ new.src = rows[i].src
    BY <2>2 DEF Alike, IsLike
  <2>6. Stored(rows') = Stored(rows) /\ \A h \in Stored(rows) : h \in Id
    BY <2>4 DEF Stored
  <2> QED BY <1>1, <2>4, <2>5, <2>6 DEF OneRowPerDrive, Ingested
<1>5. ASSUME NEW trip \in Typed, Enters(trip)
      PROVE  j = k
  <2> DEFINE i == NextId(rows)
             new == ManualTrip(trip)
  <2>1. Written(rows, rows', i, new) /\ i \in Id \ Stored(rows)
    BY <1>5, NextIdIsFree DEF Enters, Added, Written
  <2>2. SoundRow(new) /\ new.src = "manual"
    BY ManualIsSound
  <2> HIDE DEF i, new
  <2>3. /\ Stored(rows') = Stored(rows) \cup {i} /\ rows'[i] = new
        /\ \A h \in Id \ {i} : rows'[h] = rows[h]
    BY <2>1, <2>2, WrittenTable
  <2> QED BY <1>1, <2>1, <2>2, <2>3 DEF OneRowPerDrive, Ingested, Stored
<1>6. ASSUME NEW i \in Id, Deletes(i)
      PROVE  j = k
  <2>1. \A h \in Stored(rows') : h \in Stored(rows) /\ rows'[h] = rows[h]
    BY <1>6 DEF Deletes, Stored, Sound
  <2> QED BY <1>1, <2>1 DEF OneRowPerDrive, Ingested
<1>7. CASE UNCHANGED <<rows, reported, gone>>
  BY <1>1, <1>7 DEF OneRowPerDrive, Ingested
<1> QED BY <1>3, <1>4, <1>5, <1>6, <1>7, StepsOfTheTable, SoundIsKeyed

(***************************************************************************)
(* However often, in whatever order and by whichever source a drive is     *)
(* recorded, one row of it is in the table, for any number of drives, of   *)
(* reports of them and of trips the user enters and deletes, if the        *)
(* figures of one drive agree and those of two do not                      *)
(* (find_same_drive, _find_matching_trip).                                 *)
(***************************************************************************)
THEOREM DrivesAreOneRow ==
    ASSUME Recognisable
    PROVE  Spec => []OneRowPerDrive
<1>1. Init => OneRowPerDrive
  BY DEF Init, OneRowPerDrive, Ingested, Stored
<1>2. Sound(rows) /\ OneRowPerDrive /\ [Next]_vars => OneRowPerDrive'
  BY OneRowIsKept
<1> QED BY <1>1, <1>2, RowsAreSound, PTL DEF Spec

LEMMA ReportedRowsAreKept ==
    ASSUME Recognisable, Sound(rows), ReportedHasRow, [Next]_vars
    PROVE  ReportedHasRow'
<1> SUFFICES ASSUME NEW e \in reported' \ gone'
             PROVE  \E i \in Stored(rows') : rows'[i].drive = e
  BY DEF ReportedHasRow
<1>1. ASSUME NEW d \in Drive, Enriches(d)
      PROVE  \E i \in Stored(rows') : rows'[i].drive = e
  <2>1. e = d \/ e \in reported \ gone
    BY <1>1 DEF Enriches, Reports
  <2>2. CASE rows' = rows /\ \E i \in Stored(rows) : rows[i].drive = d
    BY <2>1, <2>2 DEF ReportedHasRow
  <2>3. ASSUME NEW i \in Id, NEW new \in Row, Written(rows, rows', i, new), IsOf(new, d),
               i \in Stored(rows) => IsOf(rows[i], d)
        PROVE  \E h \in Stored(rows') : rows'[h].drive = e
    <3>1. /\ Stored(rows') = Stored(rows) \cup {i} /\ rows'[i] = new
          /\ \A h \in Id \ {i} : rows'[h] = rows[h]
      BY <2>3, WrittenTable, IsOfIsSound
    <3>2. new.drive = d /\ (i \in Stored(rows) => rows[i].drive = d)
      BY <2>3 DEF IsOf
    <3> QED BY <2>1, <3>1, <3>2 DEF ReportedHasRow, Stored
  <2> QED BY <1>1, <2>2, <2>3, HandledWrites DEF Enriches
<1>2. CASE Fills
  <2>1. PICK i \in Stored(rows) : \E new \in Row :
            Alike(new, rows[i]) /\ Written(rows, rows', i, new)
    BY <1>2 DEF Fills
  <2>2. PICK new \in Row : Alike(new, rows[i]) /\ Written(rows, rows', i, new)
    BY <2>1
  <2>3. i \in Id /\ SoundRow(new) /\ new.drive = rows[i].drive
    BY <2>2, AlikeIsSound DEF Sound, Stored, Alike, IsLike
  <2>4. /\ Stored(rows') = Stored(rows) \cup {i} /\ rows'[i] = new
        /\ \A h \in Id \ {i} : rows'[h] = rows[h]
    BY <2>2, <2>3, WrittenTable
  <2>5. e \in reported \ gone
    BY <1>2 DEF Fills
  <2> QED BY <2>3, <2>4, <2>5 DEF ReportedHasRow, Stored
<1>3. ASSUME NEW trip \in Typed, Enters(trip)
      PROVE  \E i \in Stored(rows') : rows'[i].drive = e
  <2> DEFINE i == NextId(rows)
             new == ManualTrip(trip)
  <2>1. /\ Written(rows, rows', i, new) /\ i \in Id \ Stored(rows)
        /\ e \in reported \ gone
    BY <1>3, NextIdIsFree DEF Enters, Added, Written
  <2>2. SoundRow(new)
    BY ManualIsSound
  <2> HIDE DEF i, new
  <2>3. /\ Stored(rows') = Stored(rows) \cup {i}
        /\ \A h \in Id \ {i} : rows'[h] = rows[h]
    BY <2>1, <2>2, WrittenTable
  <2> QED BY <2>1, <2>3 DEF ReportedHasRow, Stored
<1>4. ASSUME NEW i \in Id, Deletes(i)
      PROVE  \E h \in Stored(rows') : rows'[h].drive = e
  <2>1. e \in reported \ gone /\ e # rows[i].drive
    BY <1>4 DEF Deletes
  <2>2. \A h \in Stored(rows) \ {i} : h \in Stored(rows') /\ rows'[h] = rows[h]
    BY <1>4 DEF Deletes, Stored, Sound
  <2> QED BY <2>1, <2>2 DEF ReportedHasRow
<1>5. CASE UNCHANGED <<rows, reported, gone>>
  BY <1>5 DEF ReportedHasRow
<1> QED BY <1>1, <1>2, <1>3, <1>4, <1>5, StepsOfTheTable, SoundIsKeyed

(***************************************************************************)
(* A drive whose report a handler has committed has a row until the user   *)
(* deletes one of it: no lookup takes a drive for another, and no add      *)
(* replaces a row (NextIdIsFree).                                          *)
(***************************************************************************)
THEOREM ReportedDrivesHaveRows ==
    ASSUME Recognisable
    PROVE  Spec => []ReportedHasRow
<1>1. Init => ReportedHasRow
  BY DEF Init, ReportedHasRow
<1>2. Sound(rows) /\ ReportedHasRow /\ [Next]_vars => ReportedHasRow'
  BY ReportedRowsAreKept
<1> QED BY <1>1, <1>2, RowsAreSound, PTL DEF Spec

-----------------------------------------------------------------------------
(***************************************************************************)
(* Types, and the trips a user entered, whatever the sources report: the   *)
(* figures of two drives may be the same, or those of one disagree.        *)
(***************************************************************************)
BySource(row) == row \in Row /\ Mergeable(row)

LEMMA AlikeIsBySource ==
    ASSUME NEW row, BySource(row), NEW new, Alike(new, row)
    PROVE  BySource(new)
BY DEF BySource, Alike, Mergeable

LEMMA NewsAreBySource ==
    ASSUME NEW d \in Drive, NEW new \in News(d)
    PROVE  BySource(new)
BY NewsAreOf DEF IsOf, BySource

LEMMA UpdatesAreBySource ==
    ASSUME NEW d \in Drive, NEW row, BySource(row), NEW new \in Updates(row, d)
    PROVE  BySource(new)
<1>1. ASSUME NEW mid, BySource(mid), NEW trip \in RecordsOf(d), NEW source \in {"ha", "fcon"}
      PROVE  BySource(Merged(mid, trip, source))
  <2> DEFINE merged == Merged(mid, trip, source)
  <2>1. mid \in Row /\ trip \in Row /\ trip.src \in {"ha", "fcon"} /\ mid.src \in {"ha", "fcon"}
    BY <1>1, RecordsAreRows DEF BySource, Mergeable
  <2>2. merged \in Row /\ merged.src = MergedValue(mid, trip, source, "src")
    BY <2>1, MergedIsRow DEF Merging
  <2>3. MergedValue(mid, trip, source, "src") \in {"ha", "fcon"}
    BY <2>1 DEF MergedValue
  <2> QED BY <2>2, <2>3 DEF BySource, Mergeable
<1>2. ASSUME NEW mid, BySource(mid), NEW obs \in Reporting(d)
      PROVE  /\ BySource(SetsTemperature(mid, obs)) /\ BySource(FillsOdometer(mid))
             /\ BySource(FillsDuration(mid, obs)) /\ BySource(SetsScores(mid, HaTrip(d, obs)))
             /\ BySource(Enriched(mid, HaTrip(d, obs)))
  <2>1. mid \in Row /\ obs \in Told /\ HaTrip(d, obs) \in Row /\ HaTrip(d, obs) \in RecordsOf(d)
    BY <1>2, HaTripIsRow DEF BySource
  <2>2. BySource(SetsTemperature(mid, obs)) /\ BySource(FillsOdometer(mid))
    BY <1>2, <2>1, SetsTemperatureAlike, FillsOdometerAlike, AlikeIsBySource
  <2>3. BySource(FillsDuration(mid, obs))
    <3> DEFINE filled == FillsDuration(mid, obs)
    <3>1. filled \in Row /\ filled = [mid EXCEPT !.duration = filled.duration, !.start = filled.start]
      BY <2>1, FillsDurationIsRow
    <3> HIDE DEF filled
    <3>2. filled.src = mid.src
      BY <2>1, <3>1 DEF Row
    <3> QED BY <1>2, <3>1, <3>2 DEF BySource, Mergeable, filled
  <2>4. BySource(SetsScores(mid, HaTrip(d, obs)))
    BY <1>2, <2>1, SetsScoresIsRow DEF BySource, Mergeable
  <2>5. BySource(Enriched(mid, HaTrip(d, obs)))
    BY <1>1, <1>2, <2>1 DEF Enriched
  <2> QED BY <2>2, <2>3, <2>4, <2>5
<1>3. ASSUME NEW obs \in Reporting(d), new \in ByHa(row, d, obs)
      PROVE  BySource(new)
  BY <1>2, <1>3 DEF ByHa
<1>4. ASSUME Fold[d] # Null, new \in ByFcon(row, d, Fold[d])
      PROVE  BySource(new)
  <2> DEFINE trip == FconTrip(d, Fold[d])
  <2>1. trip \in RecordsOf(d) /\ BySource(trip) /\ trip \in Row /\ row \in Row
    BY <1>4, FconTripIsRow DEF BySource, Mergeable, FconTrip
  <2>2. BySource(Merged(row, trip, "fcon"))
    <3> HIDE DEF trip
    <3> QED BY <1>1, <2>1
  <2>3. BySource([trip EXCEPT !.key = row.key])
    <3> HIDE DEF trip
    <3> QED BY <2>1 DEF BySource, Mergeable, Row
  <2> QED BY <1>4, <2>2, <2>3 DEF ByFcon
<1> QED BY <1>3, <1>4 DEF Updates, Folding

\* A handler writes one row, never a user's.
Writes == \E i \in Id : \E new \in Row :
             /\ Written(rows, rows', i, new) /\ Mergeable(new)
             /\ i \in Stored(rows) => Mergeable(rows[i])

LEMMA HandlersWrite ==
    ASSUME Keyed(rows), NEW d \in Drive, Enriches(d)
    PROVE  rows' = rows \/ Writes
<1>1. CASE Leaves(rows, rows', d)
  BY <1>1 DEF Leaves
<1>2. CASE Adds(rows, rows', d)
  <2>1. PICK new \in News(d) : rows' = Added(rows, new)
    BY <1>2 DEF Adds
  <2>2. NextId(rows) \in Id \ Stored(rows)
    BY NextIdIsFree DEF Enriches
  <2>3. new \in Row /\ Mergeable(new)
    BY NewsAreBySource DEF BySource
  <2>4. Written(rows, rows', NextId(rows), new)
    BY <2>1 DEF Added, Written
  <2> QED BY <2>2, <2>3, <2>4 DEF Writes
<1>3. CASE Improves(rows, rows', d)
  <2>1. PICK i \in Stored(rows) :
           /\ Mergeable(rows[i])
           /\ \E new \in Updates(rows[i], d) : rows' = [rows EXCEPT ![i] = new]
    BY <1>3 DEF Improves
  <2>2. PICK new \in Updates(rows[i], d) : Written(rows, rows', i, new)
    BY <2>1 DEF Written
  <2>3. BySource(rows[i]) /\ i \in Id
    BY <2>1 DEF BySource, Keyed, Stored
  <2>4. new \in Row /\ Mergeable(new)
    BY <2>3, UpdatesAreBySource DEF BySource
  <2> QED BY <2>1, <2>2, <2>3, <2>4 DEF Writes
<1> QED BY <1>1, <1>2, <1>3 DEF Handled, Enriches

TypeOK ==
    /\ rows \in [Id -> Row \cup {NoRow}]
    /\ latch \in Told \cup {Null}
    /\ reported \subseteq Drive /\ gone \subseteq Drive

LEMMA KeyedIsKept ==
    ASSUME Keyed(rows), [Next]_vars
    PROVE  Keyed(rows')
<1>1. ASSUME NEW i \in Id, NEW new \in Row, Written(rows, rows', i, new),
             new.src = "manual" => new.key[1] = "manual"
      PROVE  Keyed(rows')
  BY <1>1 DEF Keyed, Written, Stored
<1>2. ASSUME NEW d \in Drive, Enriches(d)
      PROVE  Keyed(rows')
  BY <1>1, <1>2, HandlersWrite DEF Writes, Mergeable
<1>3. CASE Fills
  <2>1. PICK i \in Stored(rows) : \E new \in Row :
            Alike(new, rows[i]) /\ Written(rows, rows', i, new)
    BY <1>3 DEF Fills
  <2>2. PICK new \in Row : Alike(new, rows[i]) /\ Written(rows, rows', i, new)
    BY <2>1
  <2>3. i \in Id /\ (new.src = "manual" => new.key[1] = "manual")
    BY <2>2 DEF Alike, Keyed, Stored
  <2> QED BY <1>1, <2>2, <2>3
<1>4. ASSUME NEW trip \in Typed, Enters(trip)
      PROVE  Keyed(rows')
  <2> DEFINE new == ManualTrip(trip)
  <2>1. Written(rows, rows', NextId(rows), new) /\ NextId(rows) \in Id
    BY <1>4, NextIdIsFree DEF Enters, Added, Written
  <2>2. new \in Row /\ new.key[1] = "manual"
    BY ManualTripIsRow DEF ManualTrip
  <2> HIDE DEF new
  <2> QED BY <1>1, <2>1, <2>2
<1>5. ASSUME NEW i \in Id, Deletes(i)
      PROVE  Keyed(rows')
  BY <1>5 DEF Deletes, Keyed, Stored
<1>6. CASE UNCHANGED <<rows, reported, gone>>
  BY <1>6
<1> QED BY <1>2, <1>3, <1>4, <1>5, <1>6, StepsOfTheTable

LEMMA RowsAreKeyed == Spec => []Keyed(rows)
<1>1. Init => Keyed(rows)
  BY DEF Init, Keyed, Stored
<1>2. Keyed(rows) /\ [Next]_vars => Keyed(rows)'
  BY KeyedIsKept
<1> QED BY <1>1, <1>2, PTL DEF Spec

(***************************************************************************)
(* Whatever is reported, a trip has the columns the table declares: no     *)
(* merge, fill or refresh leaves one out or gives it another type.         *)
(***************************************************************************)
THEOREM TripsTypeCorrect == Spec => []TypeOK
<1>1. Init => TypeOK
  BY DEF Init, TypeOK
<1>2. TypeOK /\ Keyed(rows) /\ Keyed(rows)' /\ [Next]_vars => TypeOK'
  <2> SUFFICES ASSUME TypeOK, Keyed(rows), Keyed(rows)', [Next]_vars
               PROVE  TypeOK'
    OBVIOUS
  <2>1. rows' \in [Id -> Row \cup {NoRow}]
    BY DEF Keyed
  <2>2. latch' \in Told \cup {Null}
    BY TripsAssumption
       DEF TypeOK, Next, Hears, HearsEvents, HearsElveh, HearsMetrics, DerivesTrip, Edits,
           Enters, Deletes, Restarts, vars
  <2>3. reported' \subseteq Drive /\ gone' \subseteq Drive
    <3>1. ASSUME NEW i \in Id, Deletes(i)
          PROVE  reported' \subseteq Drive /\ gone' \subseteq Drive
      <4>1. rows[i] \in Row
        BY <3>1 DEF Deletes, Keyed, Stored
      <4>2. rows[i].drive \in Drive
        BY <4>1 DEF Row
      <4> QED BY <3>1, <4>2 DEF Deletes, TypeOK
    <3>2. ASSUME NEW d \in Drive, Enriches(d)
          PROVE  reported' \subseteq Drive /\ gone' \subseteq Drive
      BY <3>2 DEF Enriches, Reports, TypeOK
    <3>3. CASE Fills \/ (\E trip \in Typed : Enters(trip)) \/ UNCHANGED <<rows, reported, gone>>
      BY <3>3 DEF Fills, Enters, TypeOK
    <3> QED BY <3>1, <3>2, <3>3, StepsOfTheTable
  <2> QED BY <2>1, <2>2, <2>3 DEF TypeOK
<1> QED BY <1>1, <1>2, RowsAreKeyed, PTL DEF Spec

LEMMA HearingKeepsManual ==
    ASSUME Keyed(rows), NEW d \in Drive, Hears(d),
           NEW i \in Stored(rows), rows[i].src = "manual"
    PROVE  /\ rows'[i] # NoRow /\ rows[i].regen \in {Null, rows'[i].regen}
           /\ rows[i] = [rows'[i] EXCEPT !.regen = rows[i].regen]
<1>1. rows[i] \in Row /\ i \in Id /\ rows \in [Id -> Row \cup {NoRow}] /\ ~Mergeable(rows[i])
  BY DEF Keyed, Stored, Mergeable
<1>2. CASE rows'[i] = rows[i]
  BY <1>1, <1>2 DEF Row, Stored
<1>3. CASE Writes
  <2>1. rows'[i] = rows[i]
    BY <1>1, <1>3 DEF Writes, Written
  <2> QED BY <1>2, <2>1
<1>4. CASE Fills
  <2>1. PICK j \in Stored(rows) : \E new \in Row :
           /\ Written(rows, rows', j, new)
           /\ new = [rows[j] EXCEPT !.regen = new.regen] /\ rows[j].regen \in {Null, new.regen}
    BY <1>4 DEF Fills
  <2>2. PICK new \in Row :
           /\ Written(rows, rows', j, new)
           /\ new = [rows[j] EXCEPT !.regen = new.regen] /\ rows[j].regen \in {Null, new.regen}
    BY <2>1
  <2>3. CASE j # i
    BY <1>2, <2>2, <2>3 DEF Written
  <2>4. CASE j = i
    <3>1. rows'[i] = new
      BY <1>1, <2>2, <2>4 DEF Written
    <3>2. rows[i] = [new EXCEPT !.regen = rows[i].regen]
      BY <1>1, <2>2, <2>4 DEF Row
    <3> QED BY <2>2, <2>4, <3>1, <3>2, TripsAssumption
  <2> QED BY <2>3, <2>4
<1>5. CASE UNCHANGED <<rows, reported, gone>>
  BY <1>2, <1>5
<1>6. CASE rows' = rows
  BY <1>2, <1>6
<1> QED BY <1>3, <1>4, <1>5, <1>6, HearingIsAStep, HandlersWrite

(***************************************************************************)
(* No report changes a trip the user has entered, but for regeneration it  *)
(* lacks: whatever the sources report and however alike the trips are,     *)
(* also when a lookup by id finds the row without asking whose it is.      *)
(***************************************************************************)
THEOREM UsersTripsStay == Spec => ManualStays
<1>1. Keyed(rows) /\ [Next]_vars => [(\E d \in Drive : Hears(d)) =>
          \A i \in Stored(rows) : rows[i].src = "manual" =>
              /\ rows'[i] # NoRow /\ rows[i].regen \in {Null, rows'[i].regen}
              /\ rows[i] = [rows'[i] EXCEPT !.regen = rows[i].regen]]_rows
  BY HearingKeepsManual
<1> QED BY <1>1, RowsAreKeyed, PTL DEF Spec, ManualStays

-----------------------------------------------------------------------------
(***************************************************************************)
(* What two sources make of a drive does not depend on who came first.     *)
(***************************************************************************)
HaSays(d) == HaTrip(d, Fill(Events[d], Elveh[d]))
FconSays(d) == FconTrip(d, Fold[d])

BestDuration(d) == Fill(HaSays(d).duration, FconSays(d).duration)

BestDistance(d) ==
    IF Gap(HaSays(d).distance, FconSays(d).distance) <= Tolerance
    THEN HaSays(d).distance ELSE FconSays(d).distance

\* Every figure of a drive that both have recorded.
IsBest(row, d) ==
    /\ row.end = FconSays(d).end /\ row.duration = BestDuration(d)
    /\ row.start = FconSays(d).end - BestDuration(d)
    /\ row.distance = BestDistance(d) /\ row.energy = HaSays(d).energy
    /\ row.eff = <<BestDistance(d), HaSays(d).energy>>
    /\ row.odoStart = FconSays(d).odoStart /\ row.odoEnd = FconSays(d).odoEnd
    /\ row.src = "ha"

IsFcons(row, d) ==
    /\ IsLike(row, FconSays(d)) /\ row.src = "fcon"
    /\ row.odoStart = FconSays(d).odoStart /\ row.odoEnd = FconSays(d).odoEnd

Canonical(row) ==
    LET d == row.drive IN
    /\ row.by # {}
    /\ "ha" \in row.by => Reporting(d) # {}
    /\ "fcon" \in row.by => Fold[d] # Null
    /\ row.by = {"ha"} => IsLike(row, HaSays(d)) /\ row.src = "ha"
    /\ row.by = {"fcon"} => IsFcons(row, d)
    /\ row.by = {"ha", "fcon"} => IsBest(row, d)

LEMMA NullIsNoFigure ==
    /\ Null \notin Int /\ Null \notin Nat \X Nat
    /\ Null # "ha" /\ Null # "fcon" /\ Null # "manual"
BY TripsAssumption

LEMMA HaSaysWhatItReports ==
    ASSUME Recognisable, ReportsAgree, NEW d \in Drive, Reporting(d) # {}
    PROVE  /\ HaSays(d) \in Row /\ HaSays(d).src = "ha" /\ HaSays(d).drive = d
           /\ HaSays(d).distance \in Nat /\ HaSays(d).energy \in Nat \ {0}
           /\ HaSays(d).odoStart = Null /\ HaSays(d).odoEnd = Null
           /\ \A obs \in Reporting(d) : IsLike(HaTrip(d, obs), HaSays(d))
<1>1. PICK said \in Reporting(d) : said = Fill(Events[d], Elveh[d])
  BY DEF Reporting, Fill
<1>2. HaSays(d) = HaTrip(d, said)
  BY <1>1 DEF HaSays
<1>3. HaSays(d) \in Row /\ HaSays(d) \in RecordsOf(d)
  BY <1>2, HaTripIsRow
<1>4. /\ HaSays(d).src = "ha" /\ HaSays(d).drive = d /\ HaSays(d).energy = said.energy
      /\ HaSays(d).odoStart = Null /\ HaSays(d).odoEnd = Null
  BY <1>2 DEF HaTrip
<1>5. Null \notin {HaSays(d).distance, HaSays(d).energy}
  BY <1>3, <1>4 DEF Recognisable
<1>6. said.energy # 0 /\ \A obs \in Reporting(d) : IsLike(HaTrip(d, obs), HaSays(d))
  BY <1>2 DEF ReportsAgree, Reporting
<1>7. HaSays(d).distance \in Number /\ HaSays(d).energy \in Number
  BY <1>3 DEF Row
<1> QED BY <1>3, <1>4, <1>5, <1>6, <1>7 DEF Number

LEMMA FconSaysWhatItFolds ==
    ASSUME NEW d \in Drive, Fold[d] # Null
    PROVE  /\ FconSays(d) \in Row /\ FconSays(d).src = "fcon" /\ FconSays(d).drive = d
           /\ FconSays(d).start \in Int /\ FconSays(d).end \in Int
           /\ FconSays(d).duration = FconSays(d).end - FconSays(d).start
           /\ FconSays(d).duration \in Nat
           /\ FconSays(d).distance \in Nat /\ FconSays(d).odoStart \in Nat
           /\ FconSays(d).odoEnd \in Nat
           /\ FconSays(d).odoEnd - FconSays(d).odoStart = FconSays(d).distance
           /\ FconSays(d).energy \in Number
<1>1. Fold[d] \in Folded /\ Fold[d].start <= Fold[d].end /\ FconSays(d) \in Row
  BY TripsAssumption, FconTripIsRow DEF FconSays
<1> QED BY <1>1 DEF FconSays, FconTrip, Folded, Number

\* Which of two values is taken.
LEMMA ValueTaken ==
    ASSUME NEW old, NEW new, NEW source, NEW col, col # "distance"
    PROVE  /\ new[col] = Null => MergedValue(old, new, source, col) = old[col]
           /\ new[col] # Null /\ old[col] = Null => MergedValue(old, new, source, col) = new[col]
           /\ new[col] # Null /\ old[col] # Null /\ Winner[col] = source
                => MergedValue(old, new, source, col) = new[col]
           /\ new[col] # Null /\ old[col] # Null /\ Winner[col] # source
                => MergedValue(old, new, source, col) = old[col]
BY DEF MergedValue

LEMMA DistanceTaken ==
    ASSUME NEW d, NEW old, NEW new, NEW source \in {"ha", "fcon"},
           old.distance # Null, new.distance # Null,
           LET fcon == IF source = "ha" THEN old ELSE new IN
           /\ fcon.distance = FconSays(d).distance
           /\ fcon.odoStart = FconSays(d).odoStart /\ fcon.odoEnd = FconSays(d).odoEnd,
           FconSays(d).odoStart # Null, FconSays(d).odoEnd # Null,
           FconSays(d).odoEnd - FconSays(d).odoStart = FconSays(d).distance
    PROVE  LET ha == IF source = "ha" THEN new ELSE old IN
           MergedValue(old, new, source, "distance") =
               IF Gap(ha.distance, FconSays(d).distance) <= Tolerance
               THEN ha.distance ELSE FconSays(d).distance
<1>1. MergedValue(old, new, source, "distance") = CheckedDistance(old, new, source)
  BY DEF MergedValue
<1>2. CASE source = "ha"
  BY <1>1, <1>2 DEF CheckedDistance
<1>3. CASE source = "fcon"
  BY <1>1, <1>3 DEF CheckedDistance
<1> QED BY <1>2, <1>3

\* FordConnect's record onto a row that has Home Assistant's figures, with or
\* without FordConnect's.
LEMMA FconOntoHa ==
    ASSUME Recognisable, ReportsAgree, NEW d \in Drive, Reporting(d) # {}, Fold[d] # Null,
           NEW row \in Row, row.src = "ha", row.energy = HaSays(d).energy,
           row.duration \in {HaSays(d).duration, BestDuration(d)},
           row.distance \in {HaSays(d).distance, BestDistance(d)}
    PROVE  IsBest(Merged(row, FconSays(d), "fcon"), d)
<1> DEFINE fcon == FconSays(d)
           ha == HaSays(d)
           new == Merged(row, fcon, "fcon")
           V(col) == MergedValue(row, fcon, "fcon", col)
<1>1. /\ ha.distance \in Nat /\ ha.energy \in Nat \ {0} /\ ha.src = "ha"
      /\ ha \in Row
  BY HaSaysWhatItReports
<1>2. /\ fcon \in Row /\ fcon.src = "fcon" /\ fcon.end \in Int /\ fcon.duration \in Nat
      /\ fcon.distance \in Nat /\ fcon.odoStart \in Nat /\ fcon.odoEnd \in Nat
      /\ fcon.odoEnd - fcon.odoStart = fcon.distance
  BY FconSaysWhatItFolds
<1>3. /\ new \in Row /\ \A col \in Merging : new[col] = V(col)
      /\ new.start = IF new.duration = Null THEN V("start") ELSE new.end - new.duration
      /\ EfficiencyFollows(new, row)
  BY <1>2, MergedIsRow
<1>4. BestDistance(d) \in Nat /\ BestDuration(d) \in Nat
      /\ BestDuration(d) = IF ha.duration = Null THEN fcon.duration ELSE ha.duration
  BY <1>1, <1>2 DEF BestDistance, BestDuration, Fill, Row, Number
<1>5. V("distance") = BestDistance(d)
  <2>1. V("distance") = IF Gap(row.distance, fcon.distance) <= Tolerance
                        THEN row.distance ELSE fcon.distance
    <3>1. row.distance # Null /\ fcon.distance # Null /\ fcon.odoStart # Null /\ fcon.odoEnd # Null
      BY <1>1, <1>2, <1>4, NullIsNoFigure
    <3> HIDE DEF fcon
    <3> QED BY <1>2, <3>1, DistanceTaken DEF fcon
  <2> QED BY <1>1, <1>2, <2>1 DEF BestDistance
<1> HIDE DEF new, V, fcon, ha
<1>6. V("duration") = BestDuration(d)
  <2>1. fcon.duration # Null /\ Winner["duration"] # "fcon"
    BY <1>2, NullIsNoFigure DEF Winner
  <2>2. /\ row.duration = Null => V("duration") = fcon.duration
        /\ row.duration # Null => V("duration") = row.duration
    BY <2>1, ValueTaken DEF V
  <2>3. row.duration = Null => ha.duration = Null
    BY <1>4, NullIsNoFigure DEF ha
  <2>4. row.duration \in {ha.duration, BestDuration(d)}
    BY DEF ha
  <2> QED BY <1>4, <2>2, <2>3, <2>4
<1>7. V("end") = fcon.end
  <2>1. fcon.end # Null /\ Winner["end"] = "fcon"
    BY <1>2, NullIsNoFigure DEF Winner
  <2> QED BY <2>1, ValueTaken DEF V
<1>8. V("energy") = ha.energy
  <2>1. row.energy # Null /\ Winner["energy"] # "fcon" /\ row.energy = ha.energy
    BY <1>1, NullIsNoFigure DEF Winner, ha
  <2> QED BY <2>1, ValueTaken DEF V
<1>9. V("odoStart") = fcon.odoStart /\ V("odoEnd") = fcon.odoEnd
  <2>1. fcon.odoStart # Null /\ fcon.odoEnd # Null
        /\ Winner["odoStart"] = "fcon" /\ Winner["odoEnd"] = "fcon"
    BY <1>2, NullIsNoFigure DEF Winner
  <2> QED BY <2>1, ValueTaken DEF V
<1>10. V("src") = "ha"
  <2>1. row.src # Null /\ fcon.src # Null /\ Winner["src"] # "fcon"
    BY <1>2, NullIsNoFigure DEF Winner
  <2> QED BY <2>1, ValueTaken DEF V
<1>11. /\ new.end = fcon.end /\ new.duration = BestDuration(d) /\ new.distance = BestDistance(d)
       /\ new.energy = ha.energy /\ new.odoStart = fcon.odoStart /\ new.odoEnd = fcon.odoEnd
       /\ new.src = "ha"
  BY <1>3, <1>5, <1>6, <1>7, <1>8, <1>9, <1>10 DEF Merging
<1>12. new.start = fcon.end - BestDuration(d)
  BY <1>3, <1>4, <1>11, NullIsNoFigure
<1>13. new.eff = <<BestDistance(d), ha.energy>>
  BY <1>1, <1>3, <1>4, <1>11, NullIsNoFigure DEF EfficiencyFollows
<1> QED BY <1>11, <1>12, <1>13 DEF IsBest, new, fcon, ha

\* Home Assistant's record onto FordConnect's row.
LEMMA HaOntoFcon ==
    ASSUME Recognisable, ReportsAgree, NEW d \in Drive, Fold[d] # Null,
           NEW obs \in Reporting(d), NEW row \in Row, IsFcons(row, d)
    PROVE  IsBest(Merged(row, HaTrip(d, obs), "ha"), d)
<1> DEFINE fcon == FconSays(d)
           ha == HaSays(d)
           trip == HaTrip(d, obs)
           new == Merged(row, trip, "ha")
           V(col) == MergedValue(row, trip, "ha", col)
<1>1. /\ ha.distance \in Nat /\ ha.energy \in Nat \ {0} /\ ha \in Row /\ trip \in Row
      /\ trip.duration = ha.duration /\ trip.distance = ha.distance /\ trip.energy = ha.energy
      /\ trip.odoStart = Null /\ trip.odoEnd = Null /\ trip.src = "ha"
  BY HaSaysWhatItReports, HaTripIsRow DEF IsLike, HaTrip
<1>2. /\ fcon \in Row /\ fcon.end \in Int /\ fcon.duration \in Nat
      /\ fcon.distance \in Nat /\ fcon.odoStart \in Nat /\ fcon.odoEnd \in Nat
      /\ fcon.odoEnd - fcon.odoStart = fcon.distance
  BY FconSaysWhatItFolds
<1>3. /\ new \in Row /\ \A col \in Merging : new[col] = V(col)
      /\ new.start = IF new.duration = Null THEN V("start") ELSE new.end - new.duration
      /\ EfficiencyFollows(new, row)
  BY <1>1, MergedIsRow
<1>4. BestDistance(d) \in Nat /\ BestDuration(d) \in Nat
      /\ BestDuration(d) = IF ha.duration = Null THEN fcon.duration ELSE ha.duration
  BY <1>1, <1>2 DEF BestDistance, BestDuration, Fill, Row, Number
<1>5. /\ row.end = fcon.end /\ row.duration = fcon.duration /\ row.distance = fcon.distance
      /\ row.energy = fcon.energy /\ row.odoStart = fcon.odoStart /\ row.odoEnd = fcon.odoEnd
      /\ row.src = "fcon"
  BY DEF IsFcons, IsLike
<1>6. V("distance") = BestDistance(d)
  <2>1. /\ row.distance # Null /\ trip.distance # Null
        /\ fcon.odoStart # Null /\ fcon.odoEnd # Null
    BY <1>1, <1>2, <1>5, NullIsNoFigure
  <2>2. V("distance") = IF Gap(trip.distance, fcon.distance) <= Tolerance
                        THEN trip.distance ELSE fcon.distance
    <3> HIDE DEF fcon, trip
    <3> QED BY <1>2, <1>5, <2>1, DistanceTaken DEF fcon
  <2>3. trip.distance = ha.distance
    BY <1>1
  <2> HIDE DEF trip
  <2> QED BY <2>2, <2>3 DEF BestDistance
<1> HIDE DEF new, V, fcon, ha, trip
<1>7. V("duration") = BestDuration(d)
  <2>1. Winner["duration"] = "ha" /\ row.duration # Null
    BY <1>2, <1>5, NullIsNoFigure DEF Winner
  <2>2. /\ trip.duration = Null => V("duration") = row.duration
        /\ trip.duration # Null => V("duration") = trip.duration
    BY <2>1, ValueTaken DEF V
  <2> QED BY <1>1, <1>4, <1>5, <2>2
<1>8. V("end") = fcon.end
  <2>1. row.end # Null /\ Winner["end"] # "ha"
    BY <1>2, <1>5, NullIsNoFigure DEF Winner
  <2> QED BY <1>5, <2>1, ValueTaken DEF V
<1>9. V("energy") = ha.energy
  <2>1. trip.energy # Null /\ Winner["energy"] = "ha"
    BY <1>1, NullIsNoFigure DEF Winner
  <2> QED BY <1>1, <2>1, ValueTaken DEF V
<1>10. V("odoStart") = fcon.odoStart /\ V("odoEnd") = fcon.odoEnd
  BY <1>1, <1>5, ValueTaken DEF V
<1>11. V("src") = "ha"
  <2>1. trip.src # Null /\ Winner["src"] = "ha"
    BY <1>1, NullIsNoFigure DEF Winner
  <2> QED BY <1>1, <2>1, ValueTaken DEF V
<1>12. /\ new.end = fcon.end /\ new.duration = BestDuration(d) /\ new.distance = BestDistance(d)
       /\ new.energy = ha.energy /\ new.odoStart = fcon.odoStart /\ new.odoEnd = fcon.odoEnd
       /\ new.src = "ha"
  BY <1>3, <1>6, <1>7, <1>8, <1>9, <1>10, <1>11 DEF Merging
<1>13. new.start = fcon.end - BestDuration(d)
  BY <1>3, <1>4, <1>12, NullIsNoFigure
<1>14. new.eff = <<BestDistance(d), ha.energy>>
  BY <1>1, <1>3, <1>4, <1>12, NullIsNoFigure DEF EfficiencyFollows
<1> QED BY <1>12, <1>13, <1>14 DEF IsBest, new, fcon, ha, trip

\* FordConnect's record onto its own row.
LEMMA FconOntoFcon ==
    ASSUME NEW d \in Drive, Fold[d] # Null, NEW row \in Row, IsFcons(row, d)
    PROVE  IsFcons(Merged(row, FconSays(d), "fcon"), d)
<1> DEFINE fcon == FconSays(d)
           new == Merged(row, fcon, "fcon")
           V(col) == MergedValue(row, fcon, "fcon", col)
<1>1. /\ fcon \in Row /\ fcon.src = "fcon" /\ fcon.drive = d
      /\ fcon.start \in Int /\ fcon.end \in Int
      /\ fcon.duration = fcon.end - fcon.start /\ fcon.duration \in Nat
  BY FconSaysWhatItFolds
<1>2. /\ new \in Row /\ new.drive = row.drive
      /\ \A col \in Merging : new[col] = V(col)
      /\ new.start = IF new.duration = Null THEN V("start") ELSE new.end - new.duration
  BY <1>1, MergedIsRow
<1>3. /\ row.drive = d /\ row.src = "fcon"
      /\ \A col \in {"end", "duration", "distance", "energy", "odoStart", "odoEnd", "src"} :
            row[col] = fcon[col]
  BY <1>1 DEF IsFcons, IsLike
<1>4. \A col \in {"end", "duration", "distance", "energy", "odoStart", "odoEnd", "src"} :
          V(col) = fcon[col]
  BY <1>3 DEF MergedValue, CheckedDistance
<1> HIDE DEF new, V, fcon
<1>5. \A col \in {"end", "duration", "distance", "energy", "odoStart", "odoEnd", "src"} :
          new[col] = fcon[col]
  BY <1>2, <1>4 DEF Merging
<1>6. new.start = fcon.start
  BY <1>1, <1>2, <1>5, NullIsNoFigure
<1>7. \A col \in {"start", "end", "duration", "distance", "energy"} : new[col] = fcon[col]
  BY <1>5, <1>6
<1>8. new.drive = fcon.drive
  BY <1>1, <1>2, <1>3
<1>9. new["src"] = fcon["src"] /\ new["odoStart"] = fcon["odoStart"]
      /\ new["odoEnd"] = fcon["odoEnd"]
  BY <1>5
<1>10. IsFcons(new, d)
  BY <1>1, <1>7, <1>8, <1>9 DEF IsFcons, IsLike, fcon
<1> QED BY <1>10 DEF new, fcon

\* Rows of any figures keep them when nothing but what may be missing is filled.
LEMMA AlikeIsCanonical ==
    ASSUME NEW row \in Row, Canonical(row), NEW new, Alike(new, row),
           new.eff = row.eff,
           row.odoStart # Null => new.odoStart = row.odoStart,
           row.odoEnd # Null => new.odoEnd = row.odoEnd
    PROVE  Canonical(new)
<1>1. /\ new.drive = row.drive /\ new.by = row.by /\ new.src = row.src /\ row.drive \in Drive
      /\ \A col \in {"start", "end", "duration", "distance", "energy"} : new[col] = row[col]
  BY DEF Alike, IsLike, Row
<1>2. row.by = {"ha"} => Canonical(new)
  BY <1>1 DEF Canonical, IsLike
<1>3. "fcon" \in row.by =>
          /\ FconSays(row.drive).odoStart \in Nat /\ FconSays(row.drive).odoEnd \in Nat
          /\ FconSays(row.drive).odoStart # Null /\ FconSays(row.drive).odoEnd # Null
  BY <1>1, FconSaysWhatItFolds, NullIsNoFigure DEF Canonical
<1>4. row.by = {"fcon"} => Canonical(new)
  BY <1>1, <1>3 DEF Canonical, IsFcons, IsLike
<1>5. row.by = {"ha", "fcon"} => Canonical(new)
  BY <1>1, <1>3 DEF Canonical, IsBest
<1>6. row.by \in SUBSET {"ha", "fcon"} /\ row.by # {}
  BY DEF Row, Canonical
<1>7. row.by = {"ha"} \/ row.by = {"fcon"} \/ row.by = {"ha", "fcon"}
  BY <1>6
<1> QED BY <1>2, <1>4, <1>5, <1>7

LEMMA NewsAreCanonical ==
    ASSUME Recognisable, ReportsAgree, NEW d \in Drive, NEW new \in News(d)
    PROVE  Canonical(new)
<1>1. ASSUME NEW obs \in Reporting(d), new = FillsOdometer(HaTrip(d, obs))
      PROVE  Canonical(new)
  <2> DEFINE trip == HaTrip(d, obs)
  <2>1. trip \in Row /\ trip.drive = d /\ trip.by = {"ha"} /\ trip.src = "ha"
    BY HaTripIsRow DEF HaTrip
  <2>2. IsLike(trip, HaSays(d))
    BY HaSaysWhatItReports
  <2> HIDE DEF trip
  <2>3. Canonical(trip)
    BY <2>1, <2>2 DEF Canonical
  <2>4. new = FillsOdometer(trip)
    BY <1>1 DEF trip
  <2> QED BY <2>1, <2>3, <2>4, FillsOdometerAlike, AlikeIsCanonical
<1>2. ASSUME Fold[d] # Null, new = FconTrip(d, Fold[d])
      PROVE  Canonical(new)
  <2>1. new = FconSays(d) /\ new.by = {"fcon"} /\ new.src = "fcon" /\ new.drive = d
    BY <1>2 DEF FconSays, FconTrip
  <2> QED BY <1>2, <2>1 DEF Canonical, IsFcons, IsLike
<1> QED BY <1>1, <1>2 DEF News, Folding

\* A row that has Home Assistant's record in it has its duration, and needs no
\* other figure of it.
LEMMA FillingIsCanonical ==
    ASSUME Recognisable, ReportsAgree, NEW d \in Drive, NEW obs \in Reporting(d),
           NEW row \in Row, row.drive = d, Canonical(row)
    PROVE  /\ Canonical(SetsTemperature(row, obs))
           /\ Canonical(FillsDuration(row, obs))
           /\ Canonical(FillsOdometer(row))
<1>1. obs \in Told /\ HaTrip(d, obs) \in Row
  BY HaTripIsRow
<1>2. Canonical(SetsTemperature(row, obs)) /\ Canonical(FillsOdometer(row))
  BY <1>1, SetsTemperatureAlike, FillsOdometerAlike, AlikeIsCanonical
<1>3. obs.duration = HaSays(d).duration
  BY HaSaysWhatItReports DEF IsLike, HaTrip
<1>4. obs.duration = Null \/ row.duration # Null
  <2>1. CASE row.by = {"ha"}
    BY <1>3, <2>1 DEF Canonical, IsLike
  <2>2. CASE row.by = {"fcon"}
    <3>1. row.duration = FconSays(d).duration /\ Fold[d] # Null
      BY <2>2 DEF Canonical, IsFcons, IsLike
    <3> QED BY <3>1, FconSaysWhatItFolds, NullIsNoFigure
  <2>3. CASE row.by = {"ha", "fcon"}
    <3>1. row.duration = BestDuration(d) /\ Fold[d] # Null
      BY <2>3 DEF Canonical, IsBest
    <3> QED BY <1>3, <3>1, FconSaysWhatItFolds, NullIsNoFigure DEF BestDuration, Fill
  <2>4. row.by \in SUBSET {"ha", "fcon"} /\ row.by # {}
    BY DEF Row, Canonical
  <2> QED BY <2>1, <2>2, <2>3, <2>4
<1>5. FillsDuration(row, obs) = row
  BY <1>1, <1>4, FillsDurationIsRow
<1> QED BY <1>2, <1>5

LEMMA EnrichedIsCanonical ==
    ASSUME Recognisable, ReportsAgree, NEW d \in Drive, NEW obs \in Reporting(d),
           NEW row, IsOf(row, d), Canonical(row)
    PROVE  /\ Canonical(Enriched(row, HaTrip(d, obs)))
           /\ "ha" \in Enriched(row, HaTrip(d, obs)).by
<1> DEFINE trip == HaTrip(d, obs)
           new == Merged(row, trip, "ha")
<1>1. row \in Row /\ row.drive = d /\ row.by \in SUBSET {"ha", "fcon"} /\ row.by # {}
      /\ row.src \in {"ha", "fcon"}
  BY DEF IsOf, Mergeable, Row, Canonical
<1>2. row.by = {"ha"} \/ row.by = {"fcon"} \/ row.by = {"ha", "fcon"}
  BY <1>1
<1>3. CASE row.src = "ha"
  <2>1. Enriched(row, trip) = row
    BY <1>3 DEF Enriched
  <2>2. "ha" \in row.by
    BY <1>1, <1>2, <1>3 DEF Canonical, IsFcons
  <2> QED BY <2>1, <2>2
<1>4. CASE row.src = "fcon"
  <2>1. row.by = {"fcon"} /\ IsFcons(row, d) /\ Fold[d] # Null
    BY <1>1, <1>2, <1>4 DEF Canonical, IsBest
  <2>2. IsBest(new, d)
    BY <1>1, <2>1, HaOntoFcon
  <2>3. trip \in Row
    BY HaTripIsRow
  <2>4. new.by = {"ha", "fcon"} /\ new.drive = d
    <3>1. new.by = row.by \cup {"ha"} /\ new.drive = row.drive
      BY <1>1, <2>3, MergedIsRow
    <3> QED BY <1>1, <2>1, <3>1
  <2>5. Enriched(row, trip) = new
    BY <1>4 DEF Enriched
  <2> HIDE DEF new, trip
  <2>6. Canonical(new)
    BY <2>1, <2>2, <2>4 DEF Canonical
  <2> QED BY <2>4, <2>5, <2>6 DEF trip
<1> QED BY <1>1, <1>3, <1>4

LEMMA ScoresAreCanonical ==
    ASSUME Recognisable, ReportsAgree, NEW d \in Drive, NEW obs \in Reporting(d),
           NEW row \in Row, row.drive = d, Canonical(row), "ha" \in row.by
    PROVE  Canonical(SetsScores(row, HaTrip(d, obs)))
<1> DEFINE trip == HaTrip(d, obs)
           new == SetsScores(row, trip)
<1>1. trip \in Row /\ IsLike(trip, HaSays(d))
  BY HaTripIsRow, HaSaysWhatItReports
<1>2. /\ new.end = row.end /\ new.distance = row.distance /\ new.energy = row.energy
      /\ new.odoStart = row.odoStart /\ new.odoEnd = row.odoEnd
      /\ new.src = row.src /\ new.drive = row.drive /\ new.by = row.by
      /\ new.duration = Fill(row.duration, trip.duration)
      /\ new.start = Fill(row.start, trip.start) /\ new.eff = Fill(row.eff, trip.eff)
  BY <1>1, SetsScoresIsRow
<1> HIDE DEF new, trip
<1>3. row.by = {"ha"} \/ row.by = {"ha", "fcon"}
  BY DEF Row
<1>4. CASE row.by = {"ha"}
  <2>1. IsLike(row, HaSays(d))
    BY <1>4 DEF Canonical
  <2>2. new.duration = row.duration /\ new.start = row.start
    BY <1>1, <1>2, <2>1 DEF IsLike, Fill
  <2>3. IsLike(new, HaSays(d))
    BY <1>2, <2>1, <2>2 DEF IsLike
  <2>4. Canonical(new)
    BY <1>2, <1>4, <2>3 DEF Canonical
  <2> QED BY <2>4 DEF new, trip
<1>5. CASE row.by = {"ha", "fcon"}
  <2>1. IsBest(row, d) /\ Fold[d] # Null
    BY <1>5 DEF Canonical
  <2>2. row.duration # Null /\ row.start # Null /\ row.eff # Null
    <3>1. /\ HaSays(d).distance \in Nat /\ HaSays(d).energy \in Nat /\ HaSays(d) \in Row
          /\ FconSays(d).distance \in Nat /\ FconSays(d).duration \in Nat /\ FconSays(d).end \in Int
      BY <2>1, HaSaysWhatItReports, FconSaysWhatItFolds
    <3>2. BestDistance(d) \in Nat
      BY <3>1 DEF BestDistance
    <3>3. BestDuration(d) \in Nat
      BY <3>1 DEF BestDuration, Fill, Row, Number
    <3>4. row.eff \in Nat \X Nat
      BY <2>1, <3>1, <3>2 DEF IsBest
    <3>5. row.duration \in Nat /\ row.start \in Int
      BY <2>1, <3>1, <3>3 DEF IsBest
    <3> QED BY <3>4, <3>5, NullIsNoFigure
  <2>3. new.duration = row.duration /\ new.start = row.start /\ new.eff = row.eff
    BY <1>2, <2>2 DEF Fill
  <2>4. IsBest(new, d)
    BY <1>2, <2>1, <2>3 DEF IsBest
  <2>5. Canonical(new)
    BY <1>2, <1>5, <2>1, <2>4 DEF Canonical
  <2> QED BY <2>5 DEF new, trip
<1> QED BY <1>3, <1>4, <1>5

LEMMA UpdatesAreCanonical ==
    ASSUME Recognisable, ReportsAgree, NEW d \in Drive, NEW row, IsOf(row, d),
           Canonical(row), NEW new \in Updates(row, d)
    PROVE  Canonical(new)
<1>1. ASSUME NEW obs \in Reporting(d), new \in ByHa(row, d, obs)
      PROVE  Canonical(new)
  <2> DEFINE trip == HaTrip(d, obs)
             base == Enriched(row, trip)
             Good(mid) == IsOf(mid, d) /\ Canonical(mid)
  <2>1. obs \in Told /\ trip \in RecordsOf(d) /\ row \in Row
    BY HaTripIsRow DEF IsOf
  <2>2. IsOf(base, d)
    BY <2>1, MergedIsOf DEF Enriched
  <2>3. Canonical(base) /\ "ha" \in base.by
    BY EnrichedIsCanonical
  <2> HIDE DEF base
  <2>4. ASSUME NEW mid, Good(mid)
        PROVE  /\ Good(SetsTemperature(mid, obs)) /\ Good(FillsDuration(mid, obs))
               /\ Canonical(FillsOdometer(mid))
    <3>1. mid \in Row /\ mid.drive = d
      BY <2>4 DEF IsOf
    <3>2. IsOf(SetsTemperature(mid, obs), d)
      BY <2>1, <2>4, <3>1, SetsTemperatureAlike, AlikeIsOf
    <3>3. IsOf(FillsDuration(mid, obs), d)
      BY <2>1, <2>4, <3>1, FillsDurationIsOf
    <3> QED BY <2>4, <3>1, <3>2, <3>3, FillingIsCanonical
  <2>5. Good(SetsScores(base, trip))
    <3>1. base \in Row /\ base.drive = d
      BY <2>2 DEF IsOf
    <3>2. Canonical(SetsScores(base, trip))
      BY <2>3, <3>1, ScoresAreCanonical
    <3>3. IsOf(SetsScores(base, trip), d)
      <4> HIDE DEF trip
      <4> QED BY <2>1, <2>2, SetsScoresIsOf
    <3> QED BY <3>2, <3>3
  <2>6. Good(row) /\ Good(base)
    BY <2>2, <2>3
  <2>7. \/ new = FillsOdometer(FillsDuration(SetsTemperature(row, obs), obs))
        \/ new = FillsDuration(SetsTemperature(base, obs), obs)
        \/ new = FillsOdometer(SetsScores(base, trip))
    BY <1>1 DEF ByHa, base
  <2>8. \A mid : Good(mid) => Canonical(mid)
    OBVIOUS
  <2> HIDE DEF trip, Good
  <2> QED BY <2>4, <2>5, <2>6, <2>7, <2>8
<1>2. ASSUME Fold[d] # Null, new \in ByFcon(row, d, Fold[d])
      PROVE  Canonical(new)
  <2> DEFINE fcon == FconSays(d)
             merged == Merged(row, fcon, "fcon")
  <2>1. /\ row \in Row /\ row.drive = d /\ fcon \in Row
        /\ row.by = {"ha"} \/ row.by = {"fcon"} \/ row.by = {"ha", "fcon"}
    <3>1. row \in Row /\ row.drive = d /\ fcon \in Row
      BY <1>2, FconSaysWhatItFolds DEF IsOf
    <3>2. row.by \in SUBSET {"ha", "fcon"} /\ row.by # {}
      BY <3>1 DEF Row, Canonical
    <3> QED BY <3>1, <3>2
  <2>2. new = [fcon EXCEPT !.key = row.key] \/ new = merged
    BY <1>2 DEF ByFcon, FconSays
  <2>3. CASE new = [fcon EXCEPT !.key = row.key]
    <3>1. fcon.by = {"fcon"} /\ fcon.src = "fcon" /\ fcon.drive = d
      BY DEF FconSays, FconTrip
    <3> HIDE DEF fcon
    <3>2. /\ new.by = {"fcon"} /\ new.src = "fcon" /\ new.drive = d
          /\ new.odoStart = fcon.odoStart /\ new.odoEnd = fcon.odoEnd
          /\ \A col \in {"start", "end", "duration", "distance", "energy"} : new[col] = fcon[col]
      BY <2>1, <2>3, <3>1 DEF Row
    <3>3. IsFcons(new, d)
      BY <3>1, <3>2 DEF IsFcons, IsLike, fcon
    <3> QED BY <1>2, <3>2, <3>3 DEF Canonical
  <2>4. merged.by = row.by \cup {"fcon"} /\ merged.drive = d
    <3> HIDE DEF fcon
    <3> QED BY <2>1, MergedIsRow
  <2>5. CASE new = merged /\ row.by = {"fcon"}
    <3>1. IsFcons(merged, d)
      BY <1>2, <2>1, <2>5, FconOntoFcon DEF Canonical
    <3> HIDE DEF merged
    <3> QED BY <1>2, <2>4, <2>5, <3>1 DEF Canonical
  <2>6. CASE new = merged /\ (row.by = {"ha"} \/ row.by = {"ha", "fcon"})
    <3>1. Reporting(d) # {} /\ row.src = "ha" /\ row.energy = HaSays(d).energy
      <4>1. CASE row.by = {"ha"}
        BY <2>1, <4>1 DEF Canonical, IsLike
      <4>2. CASE row.by = {"ha", "fcon"}
        BY <2>1, <4>2 DEF Canonical, IsBest
      <4> QED BY <2>6, <4>1, <4>2
    <3>2. /\ row.duration \in {HaSays(d).duration, BestDuration(d)}
          /\ row.distance \in {HaSays(d).distance, BestDistance(d)}
      <4>1. CASE row.by = {"ha"}
        BY <2>1, <4>1 DEF Canonical, IsLike
      <4>2. CASE row.by = {"ha", "fcon"}
        BY <2>1, <4>2 DEF Canonical, IsBest
      <4> QED BY <2>6, <4>1, <4>2
    <3>3. IsBest(merged, d)
      BY <1>2, <2>1, <3>1, <3>2, FconOntoHa
    <3>4. merged.by = {"ha", "fcon"}
      BY <2>4, <2>6
    <3> HIDE DEF merged
    <3> QED BY <1>2, <2>4, <2>6, <3>1, <3>3, <3>4 DEF Canonical
  <2> HIDE DEF merged, fcon
  <2> QED BY <2>1, <2>2, <2>3, <2>5, <2>6
<1> QED BY <1>1, <1>2 DEF Updates, Folding

-----------------------------------------------------------------------------
\* Every row a source has written has the figures of what it was merged from.
AllCanonical(table) ==
    \A i \in Stored(table) : table[i].src # "manual" => Canonical(table[i])

LEMMA WrittenCanonical ==
    ASSUME NEW table, AllCanonical(table), NEW i, NEW new \in Row,
           new.src # "manual" => Canonical(new),
           NEW next, Written(table, next, i, new), table \in [Id -> Row \cup {NoRow}]
    PROVE  AllCanonical(next)
<1>1. ASSUME NEW j \in Stored(next), next[j].src # "manual"
      PROVE  Canonical(next[j])
  <2>1. CASE j = i
    <3>1. next[j] = new
      BY <2>1 DEF Written, Stored
    <3> QED BY <1>1, <3>1
  <2>2. CASE j # i
    <3>1. next[j] = table[j] /\ j \in Stored(table)
      BY <2>2 DEF Written, Stored
    <3> QED BY <1>1, <3>1 DEF AllCanonical
  <2> QED BY <2>1, <2>2
<1> QED BY <1>1 DEF AllCanonical

LEMMA CanonicalIsKept ==
    ASSUME Recognisable, ReportsAgree, Sound(rows), AllCanonical(rows), [Next]_vars
    PROVE  AllCanonical(rows')
<1>1. Keyed(rows) /\ rows \in [Id -> Row \cup {NoRow}]
  BY SoundIsKeyed DEF Sound
<1>2. ASSUME NEW d \in Drive, Enriches(d)
      PROVE  AllCanonical(rows')
  <2>1. CASE rows' = rows
    BY <2>1
  <2>2. ASSUME NEW i \in Id, NEW new \in Row, Written(rows, rows', i, new), new \in News(d)
        PROVE  AllCanonical(rows')
    BY <1>1, <2>2, NewsAreCanonical, WrittenCanonical
  <2>3. ASSUME NEW i \in Id, NEW new \in Row, Written(rows, rows', i, new),
               i \in Stored(rows), IsOf(rows[i], d), new \in Updates(rows[i], d)
        PROVE  AllCanonical(rows')
    <3>1. Canonical(rows[i])
      BY <2>3 DEF AllCanonical, IsOf, Mergeable
    <3>2. Canonical(new)
      BY <2>3, <3>1, UpdatesAreCanonical
    <3> QED BY <1>1, <2>3, <3>2, WrittenCanonical
  <2>4. Room(rows) /\ Handled(rows, rows', d)
    BY <1>2 DEF Enriches
  <2>5. \/ rows' = rows
        \/ \E i \in Id : \E new \in Row :
              /\ Written(rows, rows', i, new)
              /\ \/ new \in News(d)
                 \/ i \in Stored(rows) /\ IsOf(rows[i], d) /\ new \in Updates(rows[i], d)
    BY <2>4, HandledWrites
  <2> QED BY <2>1, <2>2, <2>3, <2>5
<1>3. CASE Fills
  <2>1. PICK i \in Stored(rows) : \E new \in Row :
            /\ Alike(new, rows[i]) /\ Written(rows, rows', i, new)
            /\ \A col \in {"start", "end", "duration", "distance", "energy", "eff",
                           "odoStart", "odoEnd"} : new[col] = rows[i][col]
    BY <1>3 DEF Fills
  <2>2. PICK new \in Row :
            /\ Alike(new, rows[i]) /\ Written(rows, rows', i, new)
            /\ \A col \in {"start", "end", "duration", "distance", "energy", "eff",
                           "odoStart", "odoEnd"} : new[col] = rows[i][col]
    BY <2>1
  <2>3. rows[i] \in Row /\ new.src = rows[i].src
    BY <1>1, <2>2 DEF Stored, Alike
  <2>4. new["eff"] = rows[i]["eff"] /\ new["odoStart"] = rows[i]["odoStart"]
        /\ new["odoEnd"] = rows[i]["odoEnd"]
    BY <2>2
  <2>5. ASSUME new.src # "manual"
        PROVE  Canonical(new)
    <3>1. Canonical(rows[i])
      BY <2>3, <2>5 DEF AllCanonical
    <3> QED BY <2>2, <2>3, <2>4, <3>1, AlikeIsCanonical
  <2> QED BY <1>1, <2>2, <2>5, WrittenCanonical
<1>4. ASSUME NEW trip \in Typed, Enters(trip)
      PROVE  AllCanonical(rows')
  <2> DEFINE new == ManualTrip(trip)
  <2>1. Written(rows, rows', NextId(rows), new)
    BY <1>4 DEF Enters, Added, Written
  <2>2. new \in Row /\ new.src = "manual"
    BY ManualTripIsRow DEF ManualTrip
  <2> HIDE DEF new
  <2> QED BY <1>1, <2>1, <2>2, WrittenCanonical
<1>5. ASSUME NEW i \in Id, Deletes(i)
      PROVE  AllCanonical(rows')
  BY <1>1, <1>5 DEF Deletes, AllCanonical, Stored
<1>6. CASE UNCHANGED <<rows, reported, gone>>
  BY <1>6
<1> QED BY <1>1, <1>2, <1>3, <1>4, <1>5, <1>6, StepsOfTheTable

LEMMA CanonicalIsAgreed ==
    ASSUME Recognisable, ReportsAgree, Sound(rows), AllCanonical(rows)
    PROVE  MergedIsCanonical
<1> SUFFICES ASSUME NEW i \in Ingested, rows[i].by = {"ha", "fcon"}
             PROVE  LET d    == rows[i].drive
                        best == Merged(HaSays(d), FconSays(d), "fcon")
                    IN  \A col \in {"start", "end", "duration", "distance", "energy", "eff",
                                    "odoStart", "odoEnd", "src"} :
                            rows[i][col] = best[col]
  BY DEF MergedIsCanonical, HaSays, FconSays
<1> DEFINE d == rows[i].drive
           best == Merged(HaSays(d), FconSays(d), "fcon")
<1>1. rows[i] \in Row /\ Canonical(rows[i]) /\ d \in Drive
  BY DEF Ingested, AllCanonical, Sound, SoundRow, Row
<1>2. Reporting(d) # {} /\ Fold[d] # Null /\ IsBest(rows[i], d)
  BY <1>1 DEF Canonical
<1>3. IsBest(best, d)
  BY <1>1, <1>2, HaSaysWhatItReports, FconOntoHa
<1> HIDE DEF best, d
<1>4. \A col \in {"start", "end", "duration", "distance", "energy", "eff",
                  "odoStart", "odoEnd", "src"} : rows[i][col] = best[col]
  BY <1>2, <1>3 DEF IsBest
<1> QED BY <1>4 DEF best, d

(***************************************************************************)
(* Once both sources have recorded a drive, its row has the figures of     *)
(* merging FordConnect's record into Home Assistant's: whichever came      *)
(* first, through whichever handler, and however often either came again.  *)
(***************************************************************************)
THEOREM MergeOrderIsIrrelevant ==
    ASSUME Recognisable, ReportsAgree
    PROVE  Spec => []MergedIsCanonical
<1>1. Init => AllCanonical(rows)
  BY DEF Init, AllCanonical, Stored
<1>2. Sound(rows) /\ AllCanonical(rows) /\ [Next]_vars => AllCanonical(rows)'
  BY CanonicalIsKept
<1>3. Sound(rows) /\ AllCanonical(rows) => MergedIsCanonical
  BY CanonicalIsAgreed
<1> QED BY <1>1, <1>2, <1>3, RowsAreSound, PTL DEF Spec

-----------------------------------------------------------------------------
(***************************************************************************)
(* The pages.                                                              *)
(***************************************************************************)
\* SQL's comparison with a window, where something may be missing.
LEMMA WithinSays ==
    ASSUME NEW w \in Window_, NEW time \in Int \cup {Null}
    PROVE  Holds(Within(time, w)) <=>
               /\ w.from = Null \/ (time # Null /\ w.from <= time)
               /\ w.to = Null \/ (time # Null /\ time < w.to)
<1>1. Null \notin BOOLEAN /\ Null \notin Int /\ {w.from, w.to} \subseteq Int \cup {Null}
  BY PagesAssumption, TripsAssumption
<1> DEFINE since == IF w.from = Null THEN TRUE ELSE Negated(Less(time, w.from))
           until == IF w.to = Null THEN TRUE ELSE Less(time, w.to)
<1>2. /\ since \in BOOLEAN \cup {Null}
      /\ since = TRUE <=> w.from = Null \/ (time # Null /\ w.from <= time)
  <2>1. CASE w.from = Null
    BY <2>1
  <2>2. CASE w.from # Null /\ time = Null
    BY <1>1, <2>2 DEF Negated, Less
  <2>3. CASE w.from # Null /\ time # Null
    <3> DEFINE less == time < w.from
    <3>1. w.from \in Int /\ time \in Int
      BY <1>1, <2>3
    <3>2. Less(time, w.from) = less
      BY <1>1, <2>3 DEF Less
    <3>3. less \in BOOLEAN /\ (~less <=> w.from <= time)
      BY <3>1
    <3> HIDE DEF less
    <3>4. Negated(less) = ~less
      BY <1>1, <3>3 DEF Negated
    <3>5. since = ~less
      BY <2>3, <3>2, <3>4
    <3> HIDE DEF since
    <3>6. since \in BOOLEAN /\ (since = TRUE <=> ~less)
      BY <3>3, <3>5
    <3> QED BY <2>3, <3>3, <3>6
  <2> QED BY <2>1, <2>2, <2>3
<1>3. /\ until \in BOOLEAN \cup {Null}
      /\ until = TRUE <=> w.to = Null \/ (time # Null /\ time < w.to)
  <2>1. CASE w.to = Null
    BY <2>1
  <2>2. CASE w.to # Null /\ time = Null
    BY <1>1, <2>2 DEF Less
  <2>3. CASE w.to # Null /\ time # Null
    <3> DEFINE less == time < w.to
    <3>1. Less(time, w.to) = less /\ less \in BOOLEAN
      BY <1>1, <2>3 DEF Less
    <3> HIDE DEF less
    <3>2. until = less
      BY <2>3, <3>1
    <3> HIDE DEF until
    <3>3. until \in BOOLEAN /\ (until = TRUE <=> less)
      BY <3>1, <3>2
    <3> QED BY <2>3, <3>3 DEF less
  <2> QED BY <2>1, <2>2, <2>3
<1>4. Within(time, w) = Conjoined({since, until})
  BY DEF Within
<1> HIDE DEF since, until
<1>5. Within(time, w) = TRUE <=> since = TRUE /\ until = TRUE
  BY <1>1, <1>2, <1>3, <1>4 DEF Conjoined
<1> QED BY <1>2, <1>3, <1>5 DEF Holds

\* SQL's conditions on a NULL: the rule about short trips never says NULL.
LEMMA HidingIsKnown ==
    ASSUME NEW row \in Row, NEW hide \in Hide
    PROVE  IsHidden(row, hide) \in BOOLEAN
<1>1. /\ Null \notin BOOLEAN /\ Null \notin Int
      /\ {hide.short, hide.stationary} \subseteq BOOLEAN
      /\ {hide.minDuration, hide.minDistance} \subseteq Int
  BY PagesAssumption, TripsAssumption
<1>2. row.duration \in Number /\ row.distance \in Number
  BY DEF Row
<1>3. ASSUME NEW x \in Number, NEW limit \in Int
      PROVE  Under(x, limit) \in BOOLEAN
  <2>1. CASE x = Null
    BY <2>1 DEF Under, Disjoined
  <2>2. CASE x # Null
    <3>1. Less(x, limit) = (x < limit)
      BY <1>1, <1>3, <2>2 DEF Less
    <3>2. (x = Null) = FALSE
      BY <2>2
    <3>3. (x < limit) \in BOOLEAN
      OBVIOUS
    <3> DEFINE less == x < limit
    <3>4. Under(x, limit) = Disjoined({FALSE, less})
      BY <3>1, <3>2, Zenon DEF Under
    <3> HIDE DEF less
    <3>5. less \in BOOLEAN
      BY <3>3 DEF less
    <3> QED BY <1>1, <3>4, <3>5 DEF Disjoined
  <2> QED BY <2>1, <2>2
<1>4. Stationary(row) \in BOOLEAN
  <2>1. CASE row.distance = Null
    <3>1. (row.distance # Null) = FALSE
      BY <2>1
    <3> QED BY <3>1 DEF Stationary, Conjoined
  <2>2. CASE row.distance # Null
    <3> DEFINE less == row.distance < 5
    <3>1. (row.distance # Null) = TRUE /\ less \in BOOLEAN
      BY <2>2
    <3>2. Less(row.distance, 5) = less
      BY <1>1, <2>2 DEF Less
    <3> HIDE DEF less
    <3>3. Stationary(row) = Conjoined({TRUE, less})
      BY <3>1, <3>2, Zenon DEF Stationary
    <3> QED BY <1>1, <3>1, <3>3 DEF Conjoined
  <2> QED BY <2>1, <2>2
<1> DEFINE short == Conjoined({Under(row.duration, hide.minDuration),
                               Under(row.distance, hide.minDistance)})
<1>5. short \in BOOLEAN
  BY <1>1, <1>2, <1>3 DEF Conjoined
<1>6. IsHidden(row, hide) = Disjoined((IF hide.short THEN {short} ELSE {})
                                      \cup (IF hide.stationary THEN {Stationary(row)} ELSE {}))
  BY DEF IsHidden
<1> HIDE DEF short
<1> QED BY <1>1, <1>4, <1>5, <1>6 DEF Disjoined

\* Every trip of a window is listed or hidden, never both.
LEMMA ListedOrHidden ==
    ASSUME \A i \in Stored(rows) : rows[i] \in Row, NEW hide \in Hide, NEW w \in Window_
    PROVE  /\ Listed(w, hide) \cap HiddenFrom(w, hide) = {}
           /\ Listed(w, hide) \cup HiddenFrom(w, hide)
                = {i \in Stored(rows) : Holds(Within(rows[i].end, w))}
<1>1. ASSUME NEW i \in Stored(rows)
      PROVE  Holds(Negated(IsHidden(rows[i], hide))) <=> ~Holds(IsHidden(rows[i], hide))
  <2>1. IsHidden(rows[i], hide) \in BOOLEAN
    BY HidingIsKnown
  <2> QED BY <2>1, PagesAssumption DEF Negated, Holds
<1> QED BY <1>1 DEF Listed, HiddenFrom, Visible

\* What a page adds up is a sum over its trips.
LEMMA TotalIsSum ==
    ASSUME NEW column, NEW ids, IsFiniteSet(ids), \A i \in ids : Value(rows[i][column]) \in Int,
           NEW f, \A i \in ids : f[i] = Value(rows[i][column])
    PROVE  Total(column, ids) = SumOf(f, ids)
<1> DEFINE Running(g) == g = [s \in SUBSET ids |->
                              IF s = {} THEN 0
                              ELSE Value(rows[CHOOSE x \in s : TRUE][column])
                                   + g[s \ {CHOOSE x \in s : TRUE}]]
           h == CHOOSE g : Running(g)
<1>1. Total(column, ids) = h[ids]
  BY Zenon DEF Total, FoldSet, MapThenFoldSet
<1>2. ASSUME NEW g, AddsUp(g, f, ids)
      PROVE  Running(g)
  <2>1. ASSUME NEW s \in SUBSET ids, s # {}
        PROVE  f[Any(s)] = Value(rows[Any(s)][column])
    BY <2>1 DEF Any
  <2>2. \A s \in SUBSET ids : g[s] = IF s = {} THEN 0
                              ELSE Value(rows[Any(s)][column]) + g[s \ {Any(s)}]
    BY <1>2, <2>1 DEF AddsUp
  <2>3. g = [s \in SUBSET ids |-> g[s]]
    BY <1>2 DEF AddsUp
  <2> QED BY <2>2, <2>3, Zenon DEF Any
<1>3. ASSUME NEW g, Running(g)
      PROVE  AddsUp(g, f, ids)
  <2>1. ASSUME NEW s \in SUBSET ids, s # {}
        PROVE  f[Any(s)] = Value(rows[Any(s)][column])
    BY <2>1 DEF Any
  <2>2. \A s \in SUBSET ids : g[s] = IF s = {} THEN 0 ELSE f[Any(s)] + g[s \ {Any(s)}]
    BY <1>3, <2>1 DEF Any
  <2>3. g = [s \in SUBSET ids |-> g[s]]
    BY <1>3
  <2> QED BY <2>2, <2>3 DEF AddsUp
<1>4. \E g : AddsUp(g, f, ids)
  BY AddingUpEnds
<1>5. Running(h)
  <2>1. \E g : Running(g)
    BY <1>2, <1>4
  <2> HIDE DEF Running
  <2> QED BY <2>1
<1> HIDE DEF h, Running
<1>6. AddsUp(h, f, ids) /\ \A i \in ids : f[i] \in Int
  BY <1>3, <1>5
<1> QED BY <1>1, <1>6, SumIsTheEnd

\* A trip starts before it ends; both sources' trip has an efficiency.
OrderlyRow(row) ==
    /\ row \in Row
    /\ row.start = Null \/ row.start <= row.end
    /\ row.by = {"ha", "fcon"} => row.eff # Null

LEMMA RowsAreOrderly ==
    ASSUME Recognisable, ReportsAgree, Sound(rows), AllCanonical(rows), NEW i \in Stored(rows)
    PROVE  OrderlyRow(rows[i])
<1> DEFINE row == rows[i]
           d == row.drive
<1>1. row \in Row /\ d \in Drive /\ row.by \in SUBSET {"ha", "fcon"} /\ row.end \in Nat
  BY DEF Sound, SoundRow, Row
<1>2. CASE row.src = "manual"
  <2>1. PICK trip \in Typed : Alike(row, ManualTrip(trip))
    BY <1>2 DEF Sound, SoundRow
  <2>2. row.start = row.end /\ row.by = {}
    BY <2>1 DEF Alike, IsLike, ManualTrip
  <2> QED BY <1>1, <2>2 DEF OrderlyRow
<1>3. CASE row.src # "manual"
  <2> HIDE DEF row, d
  <2>1. Canonical(row)
    BY <1>3 DEF AllCanonical, row
  <2>2. row.by \in {{"ha"}, {"fcon"}, {"ha", "fcon"}}
    BY <1>1, <2>1 DEF Canonical
  <2>3. CASE row.by = {"ha"}
    <3>1. Reporting(d) # {} /\ IsLike(row, HaSays(d))
      BY <2>1, <2>3 DEF Canonical, d
    <3>2. PICK obs \in Reporting(d) : HaSays(d) = HaTrip(d, obs)
      BY <3>1 DEF Reporting, HaSays, Fill
    <3>3. obs \in Told
      BY <1>1, HaTripIsRow
    <3>4. /\ row.start = IF obs.duration \in {Null, 0} THEN Null ELSE obs.end - obs.duration
          /\ row.end = obs.end
      BY <3>1, <3>2 DEF IsLike, HaTrip
    <3>5. obs.end \in Nat /\ obs.duration \in Nat \cup {Null}
      BY <3>3 DEF Told, Number
    <3> QED BY <1>1, <2>3, <3>4, <3>5 DEF OrderlyRow, row
  <2>4. CASE row.by = {"fcon"}
    <3>1. Fold[d] # Null /\ IsLike(row, FconSays(d))
      BY <2>1, <2>4 DEF Canonical, IsFcons, d
    <3>2. /\ row.start = FconSays(d).start /\ row.end = FconSays(d).end
          /\ FconSays(d).start \in Int /\ FconSays(d).end \in Int
          /\ FconSays(d).end - FconSays(d).start \in Nat
      BY <1>1, <3>1, FconSaysWhatItFolds DEF IsLike
    <3> QED BY <1>1, <2>4, <3>2 DEF OrderlyRow, row
  <2>5. CASE row.by = {"ha", "fcon"}
    <3>1. Reporting(d) # {} /\ Fold[d] # Null /\ IsBest(row, d)
      BY <2>1, <2>5 DEF Canonical, d
    <3>2. BestDuration(d) \in Nat /\ FconSays(d).end \in Int
      BY <1>1, <3>1, HaSaysWhatItReports, FconSaysWhatItFolds
         DEF BestDuration, Fill, Row, Number
    <3>3. row.start <= row.end
      BY <3>1, <3>2 DEF IsBest
    <3>4. row.eff # Null
      <4>1. BestDistance(d) \in Nat /\ HaSays(d).energy \in Nat
        BY <1>1, <3>1, HaSaysWhatItReports, FconSaysWhatItFolds DEF BestDistance
      <4> QED BY <3>1, <4>1, NullIsNoFigure DEF IsBest
    <3> QED BY <1>1, <3>3, <3>4 DEF OrderlyRow, row
  <2> QED BY <2>2, <2>3, <2>4, <2>5 DEF row
<1> QED BY <1>2, <1>3

LEMMA OrderlyPagesAgree ==
    ASSUME \A i \in Stored(rows) : OrderlyRow(rows[i])
    PROVE  PagesAgree
<1> SUFFICES ASSUME NEW hide \in Hide, NEW w \in Window_
    PROVE LET inWindow == {i \in Stored(rows) : Holds(Within(rows[i].end, w))}
              regen == Regenerated(w, hide)
              listed == Listed(w, hide)
          IN  /\ listed \cap HiddenFrom(w, hide) = {} /\ listed \cup HiddenFrom(w, hide) = inWindow
              /\ w.to = Null => /\ regen \subseteq listed
                                /\ Performance(w, hide).count <= Cardinality(listed)
                                /\ Performance(w, hide).regen <= Total("regen", listed)
              /\ \A i \in (regen \ listed) \cup (Recovered(w, hide) \ regen) :
                  rows[i].start = Null \/ \E edge \in {w.from, w.to} \ {Null} :
                      rows[i].start < edge /\ edge <= rows[i].end
              /\ \A i \in (Correlated(w, hide) \cup Recovered(w, hide)) \ Trend(w, hide) :
                  rows[i].by # {"ha", "fcon"}
              /\ \A range \in {"none", "empty", "preset"} : range # "none" \/ w = Preset =>
                  Listed(ListWindow(range, w), hide) = Listed(ExportWindow(range, w), hide)
  BY Zenon DEF PagesAgree
<1> DEFINE regen == Regenerated(w, hide)
           listed == Listed(w, hide)
<1>1. \A i \in Stored(rows) : rows[i] \in Row
  BY DEF OrderlyRow
<1>2. {w.from, w.to} \subseteq Int \cup {Null} /\ Null \notin Int
  BY PagesAssumption, TripsAssumption
<1>3. ASSUME NEW i \in Stored(rows)
      PROVE  /\ rows[i].start \in Int \cup {Null} /\ rows[i].end \in Int /\ rows[i].end # Null
             /\ rows[i].start = Null \/ rows[i].start <= rows[i].end
             /\ Holds(Within(rows[i].end, w)) <=>
                   /\ w.from = Null \/ w.from <= rows[i].end
                   /\ w.to = Null \/ rows[i].end < w.to
             /\ Holds(Within(rows[i].start, w)) <=>
                   /\ w.from = Null \/ (rows[i].start # Null /\ w.from <= rows[i].start)
                   /\ w.to = Null \/ (rows[i].start # Null /\ rows[i].start < w.to)
  <2>1. /\ rows[i].start \in Int \cup {Null} /\ rows[i].end \in Int /\ rows[i].end # Null
        /\ rows[i].start = Null \/ rows[i].start <= rows[i].end
    BY <1>2 DEF OrderlyRow, Row
  <2> QED BY <2>1, WithinSays
<1>4. listed \cap HiddenFrom(w, hide) = {}
      /\ listed \cup HiddenFrom(w, hide) = {i \in Stored(rows) : Holds(Within(rows[i].end, w))}
  BY <1>1, ListedOrHidden
<1>5. /\ listed = {i \in Visible(hide) : Holds(Within(rows[i].end, w))}
      /\ regen = {i \in Visible(hide) : rows[i].regen # Null /\ Holds(Within(rows[i].start, w))}
      /\ Visible(hide) \subseteq Stored(rows)
  BY DEF Listed, Regenerated, Visible
<1>6. /\ Recovered(w, hide) \subseteq {i \in listed : rows[i].regen # Null}
      /\ (Correlated(w, hide) \cup Recovered(w, hide)) \subseteq listed
      /\ Trend(w, hide) = {i \in listed : rows[i].eff # Null}
  BY DEF Recovered, Correlated, Trend
<1>7. Performance(w, hide).regen = Total("regen", regen)
      /\ Performance(w, hide).count = IF regen # {} THEN Cardinality(regen) ELSE Cardinality(listed)
  BY DEF Performance
<1> HIDE DEF regen, listed
<1>8. ASSUME w.to = Null
      PROVE  /\ regen \subseteq listed
             /\ Performance(w, hide).count <= Cardinality(listed)
             /\ Performance(w, hide).regen <= Total("regen", listed)
  <2>1. regen \subseteq listed
    BY <1>2, <1>3, <1>5, <1>8
  <2>2. IsFiniteSet(listed) /\ listed \subseteq Stored(rows) /\ IsFiniteSet(regen)
    <3>1. listed \subseteq Id /\ listed \subseteq Stored(rows)
      BY <1>5 DEF Stored
    <3> QED BY <2>1, <3>1, TripsAssumption, FS_Subset
  <2>3. Cardinality(regen) <= Cardinality(listed) /\ Cardinality(listed) \in Nat
    BY <2>1, <2>2, FS_Subset, FS_CardinalityType
  <2>4. Total("regen", regen) <= Total("regen", listed)
    <3> DEFINE f == [i \in Stored(rows) |-> Value(rows[i].regen)]
    <3>1. \A i \in Stored(rows) : f[i] = Value(rows[i]["regen"]) /\ f[i] \in Nat
      BY <1>1 DEF Row, Number, Value
    <3> HIDE DEF f
    <3>2. Total("regen", regen) = SumOf(f, regen) /\ Total("regen", listed) = SumOf(f, listed)
      BY <2>1, <2>2, <3>1, TotalIsSum
    <3>3. /\ \A x \in listed : f[x] \in Int /\ 0 <= f[x]
          /\ \A x \in regen : f[x] \in Int /\ f[x] <= f[x]
      BY <2>1, <2>2, <3>1
    <3>4. SumOf(f, regen) <= SumOf(f, listed)
      BY <2>1, <2>2, <3>3, SumAtMost
    <3> QED BY <3>2, <3>4
  <2> QED BY <1>7, <2>1, <2>3, <2>4
<1>9. ASSUME NEW i \in (regen \ listed) \cup (Recovered(w, hide) \ regen)
      PROVE  rows[i].start = Null \/ \E edge \in {w.from, w.to} \ {Null} :
                 rows[i].start < edge /\ edge <= rows[i].end
  <2>1. i \in Stored(rows) /\ i \in Visible(hide)
    BY <1>5, <1>6
  <2>2. \/ Holds(Within(rows[i].start, w)) /\ ~Holds(Within(rows[i].end, w))
        \/ Holds(Within(rows[i].end, w)) /\ ~Holds(Within(rows[i].start, w))
    BY <1>5, <1>6, <2>1
  <2> QED BY <1>2, <1>3, <2>1, <2>2
<1>10. ASSUME NEW i \in (Correlated(w, hide) \cup Recovered(w, hide)) \ Trend(w, hide)
       PROVE  rows[i].by # {"ha", "fcon"}
  <2>1. i \in Stored(rows) /\ rows[i].eff = Null
    BY <1>5, <1>6
  <2> QED BY <2>1 DEF OrderlyRow
<1>11. ASSUME NEW range \in {"none", "empty", "preset"}, range # "none" \/ w = Preset
       PROVE  Listed(ListWindow(range, w), hide) = Listed(ExportWindow(range, w), hide)
  <2>1. CASE range = "none"
    <3>1. ListWindow(range, w) = Preset /\ ExportWindow(range, w) = Preset
      BY <1>11, <2>1 DEF ListWindow, ExportWindow, Filtered
    <3> QED BY <3>1
  <2>2. CASE range # "none"
    BY <2>2 DEF ListWindow, ExportWindow
  <2> QED BY <2>1, <2>2
<1> QED BY <1>4, <1>8, <1>9, <1>10, <1>11 DEF regen, listed

(***************************************************************************)
(* The list, the hidden count, the export and the performance page tell    *)
(* one story of every window under every rule, whatever the trips lack:    *)
(* for any drives and reports that can be told apart.                      *)
(***************************************************************************)
THEOREM PagesTellOneStory ==
    ASSUME Recognisable, ReportsAgree
    PROVE  Spec => []PagesAgree
<1>1. Init => AllCanonical(rows)
  BY DEF Init, AllCanonical, Stored
<1>2. Sound(rows) /\ AllCanonical(rows) /\ [Next]_vars => AllCanonical(rows)'
  BY CanonicalIsKept
<1>3. Sound(rows) /\ AllCanonical(rows) => PagesAgree
  BY RowsAreOrderly, OrderlyPagesAgree
<1> QED BY <1>1, <1>2, <1>3, RowsAreSound, PTL DEF Spec

-----------------------------------------------------------------------------
(***************************************************************************)
(* The repairs.  A handler, on whatever table, writes one row at most.     *)
(* What is written over a user's trip is the user's, of the same end; what *)
(* is written over a drive's row is the drive's, unless the key of         *)
(* FordConnect's row is that of another drive.                             *)
(***************************************************************************)
FconKey(d) == <<"fcon", Fold[d].start>>

Continues(new, old) ==
    /\ old.src = "manual" => new.src = "manual" /\ new.end = old.end
    /\ new.src = "fcon" => old.src = "fcon" /\ (old.key = Null \/ new.key = old.key)
    /\ \/ new.drive = old.drive
       \/ /\ old.src = "fcon"
          /\ \E d \in Drive : Fold[d] # Null /\ old.key = FconKey(d) /\ new.drive = d

IsNews(new) ==
    new.src = "fcon" => Fold[new.drive] # Null /\ new.key = FconKey(new.drive)

StepOf(table, next) ==
    \/ next = table
    \/ \E i \in Id : \E new \in Row :
          /\ Written(table, next, i, new)
          /\ IF i \in Stored(table) THEN Continues(new, table[i]) ELSE IsNews(new)

\* The same, and no user's row is written at all.
SafeStep(table, next) ==
    \/ next = table
    \/ \E i \in Id : \E new \in Row :
          /\ Written(table, next, i, new)
          /\ IF i \in Stored(table) THEN Mergeable(table[i]) /\ Continues(new, table[i])
             ELSE IsNews(new)

LEMMA SafeStepIsAStep ==
    ASSUME NEW table, NEW next, SafeStep(table, next)
    PROVE  StepOf(table, next)
BY DEF SafeStep, StepOf

LEMMA AddedIsAStep ==
    ASSUME NEW table \in Tables, NEW new \in Row, IsNews(new)
    PROVE  SafeStep(table, Added(table, new))
<1>1. CASE Room(table)
  <2>1. NextId(table) \in Id \ Stored(table)
    BY <1>1, NextIdIsFree
  <2> QED BY <2>1 DEF SafeStep, Added, Written
<1>2. CASE ~Room(table)
  BY <1>2 DEF Room, Added, Tables, SafeStep
<1> QED BY <1>1, <1>2

\* A report onto a row that is there.
LEMMA ReportContinues ==
    ASSUME NEW row \in Row, NEW d \in Drive, NEW obs \in Reporting(d)
    PROVE  LET trip == HaTrip(d, obs)
               known == FillsOdometer(FillsDuration(SetsTemperature(row, obs), obs))
               found == FillsDuration(SetsTemperature(Enriched(row, trip), obs), obs)
               scored == FillsOdometer(SetsScores(Enriched(row, trip), trip))
           IN  /\ known \in Row /\ Continues(known, row)
               /\ Mergeable(row) => /\ found \in Row /\ Continues(found, row)
                                    /\ scored \in Row /\ Continues(scored, row)
<1> DEFINE trip == HaTrip(d, obs)
           Same(new, old) == /\ new \in Row /\ new.src = old.src /\ new.key = old.key
                             /\ new.drive = old.drive /\ new.end = old.end
<1>1. obs \in Told /\ trip \in Row /\ trip.src = "ha"
  BY HaTripIsRow DEF HaTrip
<1>2. ASSUME NEW old \in Row
      PROVE  /\ Same(FillsOdometer(old), old) /\ Same(SetsTemperature(old, obs), old)
             /\ Same(SetsScores(old, trip), old)
  BY <1>1, FillsOdometerAlike, SetsTemperatureAlike, SetsScoresIsRow DEF Alike, IsLike
<1>3. ASSUME NEW old \in Row
      PROVE  Same(FillsDuration(old, obs), old)
  <2> DEFINE new == FillsDuration(old, obs)
  <2>1. new \in Row /\ new = [old EXCEPT !.duration = new.duration, !.start = new.start]
    BY <1>1, FillsDurationIsRow
  <2> HIDE DEF new
  <2> QED BY <2>1 DEF Row, new
<1>4. ASSUME Mergeable(row)
      PROVE  LET new == Enriched(row, trip)
             IN  new \in Row /\ new.drive = row.drive /\ new.src = "ha"
  <2>1. CASE row.src = "ha"
    BY <2>1 DEF Enriched
  <2>2. CASE row.src # "ha"
    <3> DEFINE new == Merged(row, trip, "ha")
    <3>1. new \in Row /\ new.drive = row.drive
          /\ new.src = MergedValue(row, trip, "ha", "src")
      BY <1>1, MergedIsRow DEF Merging
    <3>2. MergedValue(row, trip, "ha", "src") = "ha"
      BY <1>1, NullIsNoFigure DEF MergedValue, Winner
    <3>3. Enriched(row, trip) = new
      BY <2>2 DEF Enriched
    <3> HIDE DEF new
    <3> QED BY <3>1, <3>2, <3>3
  <2> QED BY <2>1, <2>2
<1> HIDE DEF trip
<1>5. Same(FillsOdometer(FillsDuration(SetsTemperature(row, obs), obs)), row)
  BY <1>2, <1>3
<1>6. ASSUME Mergeable(row)
      PROVE  /\ Same(FillsDuration(SetsTemperature(Enriched(row, trip), obs), obs), Enriched(row, trip))
             /\ Same(FillsOdometer(SetsScores(Enriched(row, trip), trip)), Enriched(row, trip))
  BY <1>2, <1>3, <1>4, <1>6
<1> QED BY <1>4, <1>5, <1>6 DEF Continues, Mergeable, trip

LEMMA EventsAreAStep ==
    ASSUME NEW table \in Tables, NEW d \in Drive, NEW obs \in Reporting(d)
    PROVE  StepOf(table, AfterEvents(table, d, obs))
<1> DEFINE trip == HaTrip(d, obs)
           known == WithKey(table, trip.key)
           found == MatchingTrip(table, trip)
           next == AfterEvents(table, d, obs)
<1>1. /\ trip \in Row /\ trip.src = "ha" /\ table \in [Id -> Row \cup {NoRow}]
      /\ NoId \notin Id
  BY HaTripIsRow, TripsAssumption DEF HaTrip, Tables
<1>2. next = IF known # NoId
             THEN [table EXCEPT ![known] =
                      FillsOdometer(FillsDuration(SetsTemperature(@, obs), obs))]
             ELSE IF found = NoId THEN Added(table, FillsOdometer(trip))
             ELSE IF ~Mergeable(table[found]) THEN table
             ELSE [table EXCEPT ![found] =
                      FillsDuration(SetsTemperature(Enriched(@, trip), obs), obs)]
  BY DEF AfterEvents
<1>3. CASE known # NoId
  <2>1. known \in Stored(table)
    BY <1>1, <1>3, WithKeyFinds
  <2> DEFINE new == FillsOdometer(FillsDuration(SetsTemperature(table[known], obs), obs))
  <2>2. known \in Id /\ table[known] \in Row
    BY <1>1, <2>1 DEF Stored
  <2>3. next = [table EXCEPT ![known] = new]
    BY <1>2, <1>3
  <2> HIDE DEF known, next
  <2>4. new \in Row /\ Continues(new, table[known])
    BY <2>2, ReportContinues
  <2> HIDE DEF new
  <2> QED BY <2>1, <2>2, <2>3, <2>4 DEF StepOf, Written, next
<1>4. CASE known = NoId /\ found = NoId
  <2>1. FillsOdometer(trip) \in Row /\ FillsOdometer(trip).src = "ha"
    BY <1>1, FillsOdometerAlike DEF Alike
  <2>2. next = Added(table, FillsOdometer(trip))
    BY <1>2, <1>4
  <2> HIDE DEF trip, next
  <2>3. StepOf(table, next)
    BY <2>1, <2>2, AddedIsAStep, SafeStepIsAStep DEF IsNews
  <2> QED BY <2>3 DEF next
<1>5. CASE known = NoId /\ found # NoId
  <2>1. found \in Stored(table)
    BY <1>1, <1>5, MatchingTripFinds
  <2> DEFINE new == FillsDuration(SetsTemperature(Enriched(table[found], trip), obs), obs)
  <2>2. found \in Id /\ table[found] \in Row
    BY <1>1, <2>1 DEF Stored
  <2>3. next = IF ~Mergeable(table[found]) THEN table ELSE [table EXCEPT ![found] = new]
    BY <1>2, <1>5
  <2> HIDE DEF found, next
  <2>4. Mergeable(table[found]) => new \in Row /\ Continues(new, table[found])
    BY <2>2, ReportContinues
  <2> HIDE DEF new
  <2>5. StepOf(table, next)
    BY <2>1, <2>2, <2>3, <2>4 DEF StepOf, Written
  <2> QED BY <2>5 DEF next
<1> QED BY <1>3, <1>4, <1>5

LEMMA ElvehIsAStep ==
    ASSUME NEW table \in Tables, NEW d \in Drive, NEW obs \in Reporting(d)
    PROVE  StepOf(table, AfterElveh(table, d, obs))
<1> DEFINE trip == HaTrip(d, obs)
           known == WithKey(table, trip.key)
           found == IF known # NoId THEN known ELSE MatchingTrip(table, trip)
           next == AfterElveh(table, d, obs)
           new == FillsOdometer(SetsScores(Enriched(table[found], trip), trip))
<1>1. /\ trip \in Row /\ trip.src = "ha" /\ table \in [Id -> Row \cup {NoRow}]
      /\ NoId \notin Id
  BY HaTripIsRow, TripsAssumption DEF HaTrip, Tables
<1>2. next = IF found = NoId THEN Added(table, FillsOdometer(trip))
             ELSE IF ~Mergeable(table[found]) THEN table
             ELSE [table EXCEPT ![found] = new]
  BY DEF AfterElveh
<1>3. CASE found = NoId
  <2>1. FillsOdometer(trip) \in Row /\ FillsOdometer(trip).src = "ha"
    BY <1>1, FillsOdometerAlike DEF Alike
  <2>2. next = Added(table, FillsOdometer(trip))
    BY <1>2, <1>3
  <2> HIDE DEF trip, next, found
  <2>3. StepOf(table, next)
    BY <2>1, <2>2, AddedIsAStep, SafeStepIsAStep DEF IsNews
  <2> QED BY <2>3 DEF next
<1>4. CASE found # NoId
  <2>1. found \in Stored(table)
    <3>1. CASE known # NoId
      BY <1>1, <3>1, WithKeyFinds
    <3>2. CASE known = NoId
      BY <1>1, <1>4, <3>2, MatchingTripFinds
    <3> QED BY <3>1, <3>2
  <2> HIDE DEF found, next
  <2>2. found \in Id /\ table[found] \in Row
    BY <1>1, <2>1 DEF Stored
  <2>3. Mergeable(table[found]) => new \in Row /\ Continues(new, table[found])
    BY <2>2, ReportContinues
  <2> HIDE DEF new
  <2>4. StepOf(table, next)
    BY <1>2, <1>4, <2>1, <2>2, <2>3 DEF StepOf, Written
  <2> QED BY <2>4 DEF next
<1> QED BY <1>3, <1>4

LEMMA MetricsAreAStep ==
    ASSUME NEW table \in Tables, NEW d \in Drive, Metrics[d] # Null
    PROVE  StepOf(table, AfterMetrics(table, Metrics[d]))
<1> DEFINE obs == Metrics[d]
           recent == {i \in Stored(table) : table[i].end >= obs.at - Day}
           i == Newest(table, recent)
           new == [table[i] EXCEPT !.regen = Fill(@, obs.regen)]
           next == AfterMetrics(table, obs)
<1>1. table \in [Id -> Row \cup {NoRow}] /\ recent \in SUBSET Stored(table) /\ obs.regen \in Number
  BY TripsAssumption DEF Tables
<1>2. next = IF recent = {} \/ obs.regen \in {Null, 0} THEN table
             ELSE [table EXCEPT ![i].regen = Fill(@, obs.regen)]
  BY DEF AfterMetrics
<1>3. CASE recent = {} \/ obs.regen \in {Null, 0}
  BY <1>2, <1>3 DEF StepOf
<1>4. CASE recent # {} /\ obs.regen \notin {Null, 0}
  <2>1. i \in Stored(table)
    <3>1. Newest(table, recent) \in recent
      <4> HIDE DEF recent
      <4> QED BY <1>1, <1>4, NewestIsOne
    <3> QED BY <1>1, <3>1
  <2> HIDE DEF i
  <2>2. table[i] \in Row /\ i \in Id
    BY <1>1, <2>1 DEF Stored
  <2>3. Fill(table[i].regen, obs.regen) \in Number
    BY <1>1, <2>2 DEF Row, Fill
  <2>4. new \in Row /\ Continues(new, table[i])
    BY <2>2, <2>3 DEF Row, Continues
  <2>5. Written(table, next, i, new)
    BY <1>2, <1>4 DEF Written
  <2> HIDE DEF new, next
  <2>6. StepOf(table, next)
    BY <2>1, <2>2, <2>4, <2>5 DEF StepOf
  <2> QED BY <2>6 DEF next
<1> QED BY <1>3, <1>4

LEMMA FoldIsAStep ==
    ASSUME NEW table \in Tables, NEW d \in Drive, Fold[d] # Null
    PROVE  SafeStep(table, AfterFcon(table, d, Fold[d]))
<1> DEFINE trip == FconTrip(d, Fold[d])
           known == WithKey(table, trip.key)
           found == IF known # NoId THEN known ELSE SameDrive(table, trip)
           next == AfterFcon(table, d, Fold[d])
           fresh == [trip EXCEPT !.key = table[known].key]
           merged == Merged(table[found], trip, "fcon")
<1>1. /\ trip \in Row /\ table \in [Id -> Row \cup {NoRow}] /\ NoId \notin Id
      /\ trip.src = "fcon" /\ trip.key = FconKey(d) /\ trip.drive = d
  BY FconTripIsRow, TripsAssumption DEF FconTrip, FconKey, Tables
<1>2. next = IF found = NoId THEN Added(table, trip)
             ELSE IF known # NoId /\ table[known].src = "fcon"
             THEN [table EXCEPT ![known] = fresh]
             ELSE IF ~Mergeable(table[found]) THEN table
             ELSE [table EXCEPT ![found] = merged]
  BY DEF AfterFcon
<1>3. CASE found = NoId
  <2>1. next = Added(table, trip)
    BY <1>2, <1>3
  <2> HIDE DEF trip, next, found
  <2>2. SafeStep(table, next)
    BY <1>1, <2>1, AddedIsAStep DEF IsNews
  <2> QED BY <2>2 DEF next
<1>4. CASE known # NoId /\ table[known].src = "fcon"
  <2>1. known \in Stored(table) /\ table[known].key = FconKey(d) /\ trip.key # Null
    BY <1>1, <1>4, WithKeyFinds
  <2>2. known \in Id /\ table[known] \in Row
    BY <1>1, <2>1 DEF Stored
  <2>3. next = [table EXCEPT ![known] = fresh]
    BY <1>2, <1>4, <1>1, <2>2
  <2> HIDE DEF known, next, trip
  <2>4. fresh \in Row /\ fresh.src = "fcon" /\ fresh.key = table[known].key /\ fresh.drive = d
    BY <1>1, <2>2 DEF Row
  <2>5. Continues(fresh, table[known])
    BY <1>4, <2>1, <2>4, NullIsNoFigure DEF Continues
  <2> HIDE DEF fresh
  <2>6. SafeStep(table, next)
    BY <2>1, <2>2, <2>3, <2>4, <2>5, <1>4 DEF SafeStep, Written, Mergeable
  <2> QED BY <2>6 DEF next
<1>5. CASE found # NoId /\ ~(known # NoId /\ table[known].src = "fcon")
  <2>1. found \in Stored(table)
    <3>1. CASE known # NoId
      BY <1>1, <3>1, WithKeyFinds
    <3>2. CASE known = NoId
      BY <1>5, <3>2, SameDriveFinds
    <3> QED BY <3>1, <3>2
  <2>2. next = IF ~Mergeable(table[found]) THEN table ELSE [table EXCEPT ![found] = merged]
    BY <1>2, <1>5
  <2> HIDE DEF found, next, trip
  <2>3. found \in Id /\ table[found] \in Row
    BY <1>1, <2>1 DEF Stored
  <2>4. ASSUME Mergeable(table[found])
        PROVE  merged \in Row /\ Continues(merged, table[found])
    <3> DEFINE old == table[found]
    <3>1. /\ merged \in Row /\ merged.drive = old.drive
          /\ merged.src = MergedValue(old, trip, "fcon", "src")
          /\ merged.key = MergedValue(old, trip, "fcon", "key")
      BY <1>1, <2>3, MergedIsRow DEF Merging
    <3>2. old.src # Null /\ trip.src # Null
      BY <1>1, <2>4, NullIsNoFigure DEF Mergeable
    <3>3. Winner["src"] # "fcon" /\ Winner["key"] # "fcon"
      BY DEF Winner
    <3>4. merged.src = old.src /\ (old.key = Null \/ merged.key = old.key)
      BY <3>1, <3>2, <3>3, ValueTaken
    <3> HIDE DEF merged
    <3> QED BY <2>4, <3>1, <3>4 DEF Continues, Mergeable
  <2> HIDE DEF merged
  <2>5. SafeStep(table, next)
    BY <2>1, <2>2, <2>3, <2>4 DEF SafeStep, Written
  <2> QED BY <2>5 DEF next
<1> QED BY <1>3, <1>4, <1>5

-----------------------------------------------------------------------------
(***************************************************************************)
(* The keys FordConnect's rows have are those of their drives.             *)
(***************************************************************************)
FoldsTell ==
    \A d, e \in Drive : Fold[d] # Null /\ Fold[e] # Null /\ Fold[d].start = Fold[e].start => d = e

KeyTells(row) ==
    row.src = "fcon" =>
        row.key # Null /\ \A d \in Drive : Fold[d] # Null /\ row.key = FconKey(d) => row.drive = d

FconKeysTell(table) == \A i \in Stored(table) : KeyTells(table[i])

KeepsDrives(table, next) ==
    \A i \in Stored(table) : i \in Stored(next) /\ next[i].drive = table[i].drive

LEMMA StepTells ==
    ASSUME FoldsTell, NEW table \in Tables, FconKeysTell(table), NEW next, StepOf(table, next)
    PROVE  FconKeysTell(next) /\ KeepsDrives(table, next)
<1>1. CASE next = table
  BY <1>1 DEF KeepsDrives
<1>2. ASSUME NEW i \in Id, NEW new \in Row, Written(table, next, i, new),
             IF i \in Stored(table) THEN Continues(new, table[i]) ELSE IsNews(new)
      PROVE  FconKeysTell(next) /\ KeepsDrives(table, next)
  <2>1. new # NoRow /\ new.drive \in Drive
    BY TripsAssumption DEF Row
  <2>2. next \in Tables /\ next[i] = new /\ \A j \in Id \ {i} : next[j] = table[j]
    BY <1>2 DEF Tables, Written
  <2>3. i \in Stored(table) => new.drive = table[i].drive
    BY <1>2 DEF Continues, FconKeysTell, KeyTells
  <2>4. ASSUME new.src = "fcon"
        PROVE  /\ new.key # Null
               /\ \A d \in Drive : Fold[d] # Null /\ new.key = FconKey(d) => new.drive = d
    <3>1. CASE i \in Stored(table)
      BY <1>2, <2>3, <2>4, <3>1 DEF Continues, FconKeysTell, KeyTells
    <3>2. CASE i \notin Stored(table)
      <4>1. Fold[new.drive] # Null /\ new.key = FconKey(new.drive)
        BY <1>2, <2>4, <3>2 DEF IsNews
      <4>2. Fold[new.drive].start \in Nat
        BY <2>1, <4>1, TripsAssumption DEF Folded
      <4>3. new.key # Null
        BY <4>1, <4>2, TripsAssumption DEF FconKey
      <4>4. ASSUME NEW d \in Drive, Fold[d] # Null, new.key = FconKey(d)
            PROVE  new.drive = d
        <5>1. Fold[d].start = Fold[new.drive].start
          BY <4>1, <4>4 DEF FconKey
        <5> QED BY <2>1, <4>1, <4>4, <5>1 DEF FoldsTell
      <4> QED BY <4>3, <4>4
    <3> QED BY <3>1, <3>2
  <2>5. ASSUME NEW j \in Stored(next), next[j].src = "fcon"
        PROVE  /\ next[j].key # Null
               /\ \A d \in Drive : Fold[d] # Null /\ next[j].key = FconKey(d) => next[j].drive = d
    <3>1. CASE j = i
      BY <2>2, <2>4, <2>5, <3>1
    <3>2. CASE j # i
      <4>1. j \in Stored(table) /\ next[j] = table[j]
        BY <2>2, <3>2 DEF Stored
      <4> QED BY <2>5, <4>1 DEF FconKeysTell, KeyTells
    <3> QED BY <3>1, <3>2
  <2>6. FconKeysTell(next)
    BY <2>5 DEF FconKeysTell, KeyTells
  <2>7. ASSUME NEW j \in Stored(table)
        PROVE  j \in Stored(next) /\ next[j].drive = table[j].drive
    BY <2>1, <2>2, <2>3 DEF Stored
  <2> QED BY <2>6, <2>7 DEF KeepsDrives
<1> QED BY <1>1, <1>2 DEF StepOf

-----------------------------------------------------------------------------
(***************************************************************************)
(* What a chain of handlers keeps.                                         *)
(***************************************************************************)
\* A user's trip is there, the user's, and of the same end.
KeepsUsers(table, next) ==
    \A i \in Stored(table) : table[i].src = "manual" =>
        i \in Stored(next) /\ next[i].src = "manual" /\ next[i].end = table[i].end

LEMMA StepKeepsUsers ==
    ASSUME NEW table \in Tables, NEW next, StepOf(table, next)
    PROVE  next \in Tables /\ KeepsUsers(table, next)
<1>1. CASE next = table
  BY <1>1 DEF KeepsUsers
<1>2. ASSUME NEW i \in Id, NEW new \in Row, Written(table, next, i, new),
             i \in Stored(table) => Continues(new, table[i])
      PROVE  next \in Tables /\ KeepsUsers(table, next)
  <2>1. new # NoRow
    BY TripsAssumption
  <2>2. next \in Tables /\ next[i] = new /\ \A j \in Id \ {i} : next[j] = table[j]
    BY <1>2 DEF Tables, Written
  <2>3. ASSUME NEW j \in Stored(table), table[j].src = "manual"
        PROVE  j \in Stored(next) /\ next[j].src = "manual" /\ next[j].end = table[j].end
    BY <1>2, <2>1, <2>2, <2>3 DEF Continues, Stored
  <2> QED BY <2>2, <2>3 DEF KeepsUsers
<1> QED BY <1>1, <1>2 DEF StepOf

LEMMA ReplayedIsAStep ==
    ASSUME NEW table \in Tables, NEW n \in 1 .. Len(Heard)
    PROVE  StepOf(table, Replayed(table, n))
<1>1. /\ Heard[n].kind \in {"events", "elveh", "metrics"} /\ Heard[n].drive \in Drive
      /\ LET d == Heard[n].drive IN
         /\ Heard[n].kind = "events" => Events[d] # Null
         /\ Heard[n].kind = "elveh" => Elveh[d] # Null
         /\ Heard[n].kind = "metrics" => Metrics[d] # Null
  <2> DEFINE States == [kind : {"events", "elveh", "metrics"}, drive : Drive]
  <2>1. Heard \in Seq(States)
    BY RepairAssumption
  <2> HIDE DEF States
  <2>2. n \in DOMAIN Heard /\ Heard[n] \in States
    BY <2>1
  <2> QED BY <2>2, RepairAssumption DEF States
<1> DEFINE d == Heard[n].drive
<1>2. CASE Heard[n].kind = "events"
  <2>1. Events[d] \in Reporting(d) /\ Replayed(table, n) = AfterEvents(table, d, Events[d])
    BY <1>1, <1>2 DEF Reporting, Replayed
  <2> QED BY <1>1, <2>1, EventsAreAStep
<1>3. CASE Heard[n].kind = "elveh"
  <2>1. Elveh[d] \in Reporting(d)
        /\ Replayed(table, n) = IF IsRepeated(n) THEN table ELSE AfterElveh(table, d, Elveh[d])
    BY <1>1, <1>3 DEF Reporting, Replayed
  <2>2. StepOf(table, AfterElveh(table, d, Elveh[d])) /\ StepOf(table, table)
    BY <1>1, <2>1, ElvehIsAStep DEF StepOf
  <2> QED BY <2>1, <2>2
<1>4. CASE Heard[n].kind = "metrics"
  <2>1. Metrics[d] # Null /\ Replayed(table, n) = AfterMetrics(table, Metrics[d])
    BY <1>1, <1>4 DEF Replayed
  <2> QED BY <1>1, <2>1, MetricsAreAStep
<1> QED BY <1>1, <1>2, <1>3, <1>4

LEMMA HeardIsASequence == Len(Heard) \in Nat
<1> DEFINE States == [kind : {"events", "elveh", "metrics"}, drive : Drive]
<1>1. Heard \in Seq(States)
  BY RepairAssumption
<1> HIDE DEF States
<1> QED BY <1>1

\* The archived states, one after the other, from whichever on.
LEMMA HistoryRuns ==
    ASSUME NEW table \in Tables, NEW from \in 1 .. Len(Heard) + 1
    PROVE  \A C : C = (CHOOSE g : g = [n \in from - 1 .. Len(Heard) |->
                                          IF n = from - 1 THEN table ELSE Replayed(g[n - 1], n)])
                  => /\ C[from - 1] = table
                     /\ \A n \in from .. Len(Heard) : C[n] = Replayed(C[n - 1], n)
                     /\ \A n \in from - 1 .. Len(Heard) :
                           /\ C[n] \in Tables /\ KeepsUsers(table, C[n])
                           /\ FoldsTell /\ FconKeysTell(table) => FconKeysTell(C[n])
<1> DEFINE L == Len(Heard)
           Runs(g) == g = [n \in from - 1 .. L |->
                              IF n = from - 1 THEN table ELSE Replayed(g[n - 1], n)]
           C == CHOOSE g : Runs(g)
           f == [n \in 1 .. L |-> [t \in Tables |-> Replayed(t, n)]]
<1>1. L \in Nat /\ from \in Int /\ 1 <= from /\ from - 1 <= L
  BY HeardIsASequence
<1>2. \A n \in from .. L : \A t \in Tables :
         /\ f[n][t] = Replayed(t, n) /\ f[n][t] \in Tables /\ KeepsUsers(t, f[n][t])
         /\ FoldsTell /\ FconKeysTell(t) => FconKeysTell(f[n][t])
  <2>1. ASSUME NEW n \in from .. L, NEW t \in Tables
        PROVE  /\ f[n][t] = Replayed(t, n) /\ f[n][t] \in Tables /\ KeepsUsers(t, f[n][t])
               /\ FoldsTell /\ FconKeysTell(t) => FconKeysTell(f[n][t])
    <3>1. n \in 1 .. L /\ n \in 1 .. Len(Heard)
      BY <1>1
    <3>2. StepOf(t, Replayed(t, n))
      BY <3>1, ReplayedIsAStep
    <3>3. f[n][t] = Replayed(t, n)
      BY <3>1
    <3> HIDE DEF f
    <3> QED BY <3>2, <3>3, StepKeepsUsers, StepTells
  <2> QED BY <2>1
<1> HIDE DEF f, L
<1>3. PICK g : Chained(g, from - 1, L, Tables, table, f)
  <2>1. StaysIn(Tables, f, from - 1, L) /\ from - 1 \in Int /\ L \in Int /\ from - 1 <= L
    BY <1>1, <1>2 DEF StaysIn
  <2> QED BY <2>1, ChainRuns
<1>4. \E h : Runs(h)
  <2>1. ASSUME NEW n \in from - 1 .. L
        PROVE  g[n] = IF n = from - 1 THEN table ELSE Replayed(g[n - 1], n)
    <3>1. CASE n = from - 1
      BY <1>3, <3>1 DEF Chained
    <3>2. CASE n # from - 1
      <4>1. n \in (from - 1) + 1 .. L /\ n \in from .. L /\ n - 1 \in from - 1 .. L
        BY <1>1, <3>2
      <4>2. g[n] = f[n][g[n - 1]] /\ g[n - 1] \in Tables
        BY <1>3, <4>1 DEF Chained
      <4> QED BY <1>2, <3>2, <4>1, <4>2
    <3> QED BY <3>1, <3>2
  <2>2. g = [n \in from - 1 .. L |-> g[n]]
    BY <1>3 DEF Chained
  <2>3. Runs(g)
    BY <2>1, <2>2
  <2> QED BY <2>3
<1>5. Runs(C)
  <2> HIDE DEF Runs
  <2> QED BY <1>4
<1> HIDE DEF C
<1>6. C[from - 1] = table /\ \A n \in from .. L : C[n] = Replayed(C[n - 1], n)
  BY <1>1, <1>5
<1> DEFINE Tells == FoldsTell /\ FconKeysTell(table)
<1> HIDE DEF Tells
<1> DEFINE P == {n \in from - 1 .. L : /\ C[n] \in Tables /\ KeepsUsers(table, C[n])
                                       /\ Tells => FconKeysTell(C[n])}
<1>7. from - 1 .. L \subseteq P
  <2>1. from - 1 \in P
    BY <1>1, <1>6 DEF KeepsUsers, Tells
  <2>2. ASSUME NEW k \in (from - 1) + 1 .. L, k - 1 \in P
        PROVE  k \in P
    <3>1. k \in from .. L /\ k \in from - 1 .. L /\ C[k - 1] \in Tables
      BY <1>1, <2>2
    <3>2. /\ C[k] \in Tables /\ KeepsUsers(C[k - 1], C[k])
          /\ FoldsTell /\ FconKeysTell(C[k - 1]) => FconKeysTell(C[k])
      <4>1. C[k] = f[k][C[k - 1]]
        BY <1>2, <1>6, <3>1
      <4> QED BY <1>2, <3>1, <4>1
    <3>3. KeepsUsers(table, C[k])
      <4>1. KeepsUsers(table, C[k - 1])
        BY <2>2
      <4> QED BY <3>2, <4>1 DEF KeepsUsers
    <3>4. Tells => FconKeysTell(C[k])
      <4>1. Tells => FoldsTell /\ FconKeysTell(C[k - 1])
        BY <2>2 DEF Tells
      <4> QED BY <3>2, <4>1
    <3> QED BY <3>1, <3>2, <3>3, <3>4
  <2>3. from - 1 \in Int /\ L \in Int
    BY <1>1
  <2> HIDE DEF P
  <2> QED BY <2>1, <2>2, <2>3, IntervalInduction
<1> QED BY <1>6, <1>7 DEF C, L, Tells

-----------------------------------------------------------------------------
(***************************************************************************)
(* What a trip can be given from the vehicle's status rows.                *)
(***************************************************************************)
LEMMA LatestIsOne ==
    ASSUME NEW statuses \in SUBSET Status, statuses # {}
    PROVE  Latest(statuses) \in statuses
<1> DEFINE f == [s \in statuses |-> s.at]
<1>1. IsFiniteSet(statuses) /\ \A s \in statuses : f[s] = s.at /\ f[s] \in Int
  BY TripsAssumption, FS_Subset
<1> HIDE DEF f
<1>2. PICK s \in statuses : \A r \in statuses : f[r] <= f[s]
  BY <1>1, FiniteHasGreatest
<1>3. \A r \in statuses : r.at <= s.at
  BY <1>1, <1>2
<1> QED BY <1>3 DEF Latest

LEMMA LookupsAreTyped ==
    ASSUME NEW end \in Int, NEW odoStart
    PROVE  /\ OdometerAtEnd(end) \in Number
           /\ StartFromOdometer(end, odoStart) \in Nat \cup {Null}
           /\ StartFromIgnition(end, odoStart) \in Nat \cup {Null}
<1>1. OdometerAtEnd(end) \in Number
  <2> DEFINE near == WithOdometer(Between(end - 30 * Minute, end + 5 * Minute))
  <2>1. near \subseteq Status
    BY DEF WithOdometer, Between
  <2>2. OdometerAtEnd(end) = IF near = {} THEN Null ELSE Latest(near).odometer
    BY DEF OdometerAtEnd
  <2> HIDE DEF near
  <2> QED BY <2>1, <2>2, LatestIsOne, TripsAssumption DEF Number
<1>2. StartFromOdometer(end, odoStart) \in Nat \cup {Null}
  <2> DEFINE seen == {s \in WithOdometer(Before(end - 48 * Hour, end)) :
                        odoStart - 100 <= s.odometer /\ s.odometer <= odoStart + 50}
  <2>1. seen \subseteq Status
    BY DEF WithOdometer, Before
  <2>2. StartFromOdometer(end, odoStart) = TimeOf(seen)
    BY DEF StartFromOdometer
  <2> HIDE DEF seen
  <2> QED BY <2>1, <2>2, LatestIsOne, TripsAssumption DEF TimeOf
<1>3. StartFromIgnition(end, odoStart) \in Nat \cup {Null}
  <2> DEFINE Reading(s) == Fill(s.odometer, OdometerNear(s.at))
             blind == {s \in KeyOns(end) : Null \in {odoStart, Reading(s)}}
             matching == {s \in KeyOns(end) \ blind : Gap(Reading(s), odoStart) <= 100}
             stop == Latest(blind \cup matching)
  <2>1. blind \cup matching \subseteq Status
    BY DEF KeyOns, Before
  <2>2. StartFromIgnition(end, odoStart) =
            IF blind \cup matching = {} THEN Null
            ELSE IF stop \in matching \/ stop = Latest(KeyOns(end)) THEN stop.at ELSE Null
    BY DEF StartFromIgnition
  <2> HIDE DEF blind, matching
  <2> QED BY <2>1, <2>2, LatestIsOne, TripsAssumption
<1> QED BY <1>1, <1>2, <1>3

LEMMA MeanIsANumber ==
    ASSUME NEW from, NEW to
    PROVE  MeanTemperature(from, to) \in Int \cup {Null}
<1> DEFINE told == {s \in Between(from, to) : s.temp # Null}
           f == [s \in told |-> s.temp]
           Running(g) == g = [s \in SUBSET told |->
                                IF s = {} THEN 0
                                ELSE (CHOOSE x \in s : TRUE).temp
                                     + g[s \ {CHOOSE x \in s : TRUE}]]
           h == CHOOSE g : Running(g)
           sum == MapThenSumSet(LAMBDA s : s.temp, told)
<1>1. IsFiniteSet(told) /\ \A s \in told : s.temp \in Int /\ f[s] = s.temp
  <2>1. told \subseteq Status
    BY DEF Between
  <2> QED BY <2>1, TripsAssumption, FS_Subset
<1>2. MeanTemperature(from, to) = IF told = {} THEN Null ELSE sum \div Cardinality(told)
  BY Zenon DEF MeanTemperature
<1>3. sum = h[told]
  BY Zenon DEF MapThenSumSet, MapThenFoldSet
<1> HIDE DEF told, f, sum
<1>4. ASSUME NEW g, AddsUp(g, f, told)
      PROVE  Running(g)
  <2>1. ASSUME NEW s \in SUBSET told, s # {}
        PROVE  f[Any(s)] = Any(s).temp
    BY <1>1, <2>1 DEF Any
  <2>2. \A s \in SUBSET told : g[s] = IF s = {} THEN 0 ELSE Any(s).temp + g[s \ {Any(s)}]
    BY <1>4, <2>1 DEF AddsUp
  <2>3. g = [s \in SUBSET told |-> g[s]]
    BY <1>4 DEF AddsUp
  <2> QED BY <2>2, <2>3, Zenon DEF Any
<1>5. ASSUME NEW g, Running(g)
      PROVE  AddsUp(g, f, told)
  <2>1. ASSUME NEW s \in SUBSET told, s # {}
        PROVE  f[Any(s)] = Any(s).temp
    BY <1>1, <2>1 DEF Any
  <2>2. \A s \in SUBSET told : g[s] = IF s = {} THEN 0 ELSE f[Any(s)] + g[s \ {Any(s)}]
    BY <1>5, <2>1 DEF Any
  <2>3. g = [s \in SUBSET told |-> g[s]]
    BY <1>5
  <2> QED BY <2>2, <2>3 DEF AddsUp
<1>6. \E g : AddsUp(g, f, told)
  BY <1>1, AddingUpEnds
<1>7. Running(h)
  <2>1. \E g : Running(g)
    BY <1>4, <1>6
  <2> HIDE DEF Running
  <2> QED BY <2>1
<1> HIDE DEF h, Running
<1>8. sum \in Int
  <2>1. AddsUp(h, f, told) /\ \A s \in told : f[s] \in Int
    BY <1>1, <1>5, <1>7
  <2>2. sum = SumOf(f, told)
    BY <1>1, <1>3, <2>1, SumIsTheEnd
  <2> QED BY <1>1, <2>1, <2>2, SumTakes
<1>9. told # {} => Cardinality(told) \in Nat /\ Cardinality(told) > 0
  <2>1. Cardinality(told) \in Nat /\ (Cardinality(told) = 0 <=> told = {})
    BY <1>1, FS_CardinalityType, FS_EmptySet
  <2> QED BY <2>1
<1>10. \A n \in Int, k \in Nat : k > 0 => n \div k \in Int
  OBVIOUS
<1> QED BY <1>2, <1>8, <1>9, <1>10

EndReading(row) == Fill(row.odoEnd, OdometerAtEnd(row.end))

StartReading(row) ==
    IF EndReading(row) = Null THEN Null
    ELSE IF row.distance \in {Null, 0} THEN row.odoStart
    ELSE Fill(row.odoStart, EndReading(row) - row.distance)

TimingOf(row) == Timing(row, StartReading(row), EndReading(row))

LEMMA TimingIsTyped ==
    ASSUME NEW row \in Row, NEW odoStart, NEW odoEnd
    PROVE  LET timing == Timing(row, odoStart, odoEnd)
           IN  timing.start \in Int \cup {Null} /\ timing.duration \in Number
<1> DEFINE pinned    == IF row.start = Null /\ row.duration # Null
                        THEN row.end - row.duration ELSE row.start
           measured  == IF pinned # Null \/ odoEnd = Null \/ odoStart = Null THEN Null
                        ELSE StartFromOdometer(row.end, odoStart)
           candidate == Fill(pinned, measured)
           timed     == /\ odoEnd # Null /\ candidate # Null
                        /\ Plausible(row.distance, row.end - candidate)
           keyOn     == StartFromIgnition(row.end, odoStart)
<1>1. /\ row.end \in Nat /\ row.duration \in Number /\ row.start \in Int \cup {Null}
  BY DEF Row
<1>2. /\ pinned \in Int \cup {Null} /\ measured \in Int \cup {Null} /\ candidate \in Int \cup {Null}
      /\ keyOn \in Int \cup {Null}
  BY <1>1, LookupsAreTyped DEF Number, Fill
<1>3. Timing(row, odoStart, odoEnd) =
          IF timed THEN [start |-> candidate, duration |-> Fill(row.duration, row.end - candidate)]
          ELSE IF pinned = Null /\ keyOn # Null /\ Plausible(row.distance, row.end - keyOn)
          THEN [start |-> keyOn, duration |-> Fill(row.duration, row.end - keyOn)]
          ELSE [start |-> pinned, duration |-> row.duration]
  BY DEF Timing
<1>4. ASSUME NEW time \in Int, Plausible(row.distance, time)
      PROVE  time \in Nat
  BY <1>4 DEF Plausible, Minute
<1> HIDE DEF pinned, candidate, keyOn
<1>5. timed => row.end - candidate \in Nat
  BY <1>1, <1>2, <1>4
<1>6. keyOn # Null /\ Plausible(row.distance, row.end - keyOn) => row.end - keyOn \in Nat
  BY <1>1, <1>2, <1>4
<1> HIDE DEF timed
<1> QED BY <1>1, <1>2, <1>3, <1>5, <1>6 DEF Fill, Number

LEMMA DerivedIsRow ==
    ASSUME NEW row \in Row
    PROVE  LET new == Derived(row)
               timing == TimingOf(row)
           IN  /\ new \in Row
               /\ \A col \in {"key", "end", "distance", "energy", "regen", "src", "drive", "by"} :
                     new[col] = row[col]
               /\ new.odoEnd = EndReading(row) /\ new.odoStart = Fill(row.odoStart, StartReading(row))
               /\ new.start = timing.start /\ new.duration = timing.duration
               /\ new.eff = IF row.distance = 0 THEN row.eff ELSE Fill(row.eff, Ratio(row))
               /\ new.temp = IF timing.start = Null THEN row.temp
                             ELSE Fill(row.temp, MeanTemperature(timing.start, row.end))
<1> DEFINE odoEnd == EndReading(row)
           odoStart == Fill(row.odoStart, StartReading(row))
           timing == TimingOf(row)
           eff == IF row.distance = 0 THEN row.eff ELSE Fill(row.eff, Ratio(row))
           temp == IF timing.start = Null THEN row.temp
                   ELSE Fill(row.temp, MeanTemperature(timing.start, row.end))
           start == timing.start
           duration == timing.duration
           mid == WithTiming(row, StartReading(row), odoEnd, timing)
<1>1. odoEnd \in Number /\ odoStart \in Int \cup {Null}
  <2>1. row.end \in Int /\ row.odoEnd \in Number /\ row.odoStart \in Int \cup {Null}
        /\ row.distance \in Number
    BY DEF Row
  <2>2. OdometerAtEnd(row.end) \in Number
    BY <2>1, LookupsAreTyped
  <2>3. odoEnd \in Number
    BY <2>1, <2>2 DEF EndReading, Fill
  <2> QED BY <2>1, <2>3 DEF StartReading, Fill, Number
<1>2. start \in Int \cup {Null} /\ duration \in Number
  BY TimingIsTyped DEF TimingOf
<1>3. eff \in {Null} \cup Nat \X Nat
  BY DEF Row, Ratio, Fill, Number
<1>4. temp \in Int \cup {Null}
  <2>1. row.temp \in Int \cup {Null}
    BY DEF Row
  <2> QED BY <2>1, MeanIsANumber DEF Fill
<1>5. mid = [row EXCEPT !.odoEnd = odoEnd, !.odoStart = odoStart, !.start = start,
                        !.duration = duration, !.eff = eff]
  BY DEF WithTiming
<1>6. Derived(row) = [mid EXCEPT !.temp = IF start = Null THEN @
                                          ELSE Fill(@, MeanTemperature(start, mid.end))]
  BY DEF Derived, Completed, WithTemperature, EndReading, StartReading, TimingOf
<1> HIDE DEF odoEnd, odoStart, timing, eff, start, duration, mid
<1>7. mid \in Row
  BY <1>1, <1>2, <1>3, <1>5 DEF Row
<1>8. /\ mid.end = row.end /\ mid.temp = row.temp
      /\ \A col \in {"key", "end", "distance", "energy", "regen", "src", "drive", "by"} :
            mid[col] = row[col]
      /\ mid.odoEnd = odoEnd /\ mid.odoStart = odoStart /\ mid.start = start
      /\ mid.duration = duration /\ mid.eff = eff
  BY <1>5 DEF Row
<1>9. Derived(row) = [mid EXCEPT !.temp = temp]
  BY <1>6, <1>7, <1>8 DEF Row, start
<1> HIDE DEF temp
<1>10. /\ Derived(row) \in Row /\ Derived(row).temp = temp
       /\ \A col \in Columns \ {"temp"} : Derived(row)[col] = mid[col]
  BY <1>4, <1>7, <1>9 DEF Row, Columns, Column
<1> DEFINE new == Derived(row)
<1>11. /\ new.odoEnd = odoEnd /\ new.odoStart = odoStart /\ new.start = start
       /\ new.duration = duration /\ new.eff = eff
       /\ \A col \in {"key", "end", "distance", "energy", "regen", "src", "drive", "by"} :
             new[col] = row[col]
  BY <1>8, <1>10 DEF Columns, Column
<1> HIDE DEF new
<1>12. new \in Row /\ new.temp = temp
  BY <1>10 DEF new
<1> QED BY <1>11, <1>12 DEF new, odoEnd, odoStart, timing, eff, start, duration, temp

\* A timing found is found again.
LEMMA TimingIsFoundAgain ==
    ASSUME NEW row \in Row, NEW new \in Row, NEW odoStart, NEW odoEnd,
           new.end = row.end, new.distance = row.distance,
           LET timing == Timing(row, odoStart, odoEnd)
           IN  new.start = timing.start /\ new.duration = timing.duration
    PROVE  LET timing == Timing(new, odoStart, odoEnd)
           IN  timing.start = new.start /\ timing.duration = new.duration
<1> DEFINE Pinned(r) == IF r.start = Null /\ r.duration # Null THEN r.end - r.duration ELSE r.start
           Measured(r) == IF Pinned(r) # Null \/ odoEnd = Null \/ odoStart = Null THEN Null
                          ELSE StartFromOdometer(row.end, odoStart)
           Candidate(r) == Fill(Pinned(r), Measured(r))
           Fits_(time) == Plausible(row.distance, row.end - time)
           Timed(r) == odoEnd # Null /\ Candidate(r) # Null /\ Fits_(Candidate(r))
           keyOn == StartFromIgnition(row.end, odoStart)
           Is(r, start, duration) == /\ Timing(r, odoStart, odoEnd).start = start
                                     /\ Timing(r, odoStart, odoEnd).duration = duration
<1>1. ASSUME NEW r \in Row, r.end = row.end, r.distance = row.distance
      PROVE  Timing(r, odoStart, odoEnd) =
                 IF Timed(r)
                 THEN [start |-> Candidate(r), duration |-> Fill(r.duration, row.end - Candidate(r))]
                 ELSE IF Pinned(r) = Null /\ keyOn # Null /\ Fits_(keyOn)
                 THEN [start |-> keyOn, duration |-> Fill(r.duration, row.end - keyOn)]
                 ELSE [start |-> Pinned(r), duration |-> r.duration]
  BY <1>1 DEF Timing
<1>2. ASSUME NEW r \in Row, r.end = row.end, r.distance = row.distance
      PROVE  /\ Timed(r) => Is(r, Candidate(r), Fill(r.duration, row.end - Candidate(r)))
             /\ ~Timed(r) /\ Pinned(r) = Null /\ keyOn # Null /\ Fits_(keyOn)
                  => Is(r, keyOn, Fill(r.duration, row.end - keyOn))
             /\ ~Timed(r) /\ ~(Pinned(r) = Null /\ keyOn # Null /\ Fits_(keyOn))
                  => Is(r, Pinned(r), r.duration)
  <2> HIDE DEF Pinned, Candidate, Timed, Fits_, keyOn
  <2> QED BY <1>1, <1>2
<1>3. row.end \in Int /\ row.start \in Int \cup {Null} /\ row.duration \in Number /\ Null \notin Int
  BY TripsAssumption DEF Row
<1>4. Measured(row) \in Int \cup {Null} /\ keyOn \in Int \cup {Null}
  BY <1>3, LookupsAreTyped
<1>5. Pinned(row) \in Int \cup {Null} /\ Candidate(row) \in Int \cup {Null}
  BY <1>3, <1>4 DEF Number, Fill
<1>6. Is(row, new.start, new.duration)
  OBVIOUS
<1>7. Pinned(row) # Null => Candidate(row) = Pinned(row)
  BY DEF Fill
<1>8. Pinned(row) = Null => row.start = Null /\ row.duration = Null
  BY <1>3 DEF Number
<1>9. CASE Timed(row)
  <2>1. new.start = Candidate(row) /\ new.duration = Fill(row.duration, row.end - Candidate(row))
    BY <1>2, <1>6, <1>9
  <2>2. new.start # Null /\ new.start \in Int /\ new.duration # Null
    BY <1>3, <1>5, <1>9, <2>1 DEF Fill
  <2>3. Pinned(new) = new.start /\ Candidate(new) = new.start
    BY <2>2 DEF Fill
  <2>4. Timed(new)
    BY <1>9, <2>1, <2>3
  <2>5. Is(new, new.start, Fill(new.duration, row.end - new.start))
    BY <1>2, <2>3, <2>4
  <2> QED BY <2>2, <2>5 DEF Fill
<1>10. CASE ~Timed(row) /\ Pinned(row) = Null /\ keyOn # Null /\ Fits_(keyOn)
  <2>1. new.start = keyOn /\ new.duration = Fill(row.duration, row.end - keyOn)
    BY <1>2, <1>6, <1>10
  <2>2. new.start # Null /\ new.start \in Int /\ new.duration # Null
    BY <1>3, <1>4, <1>10, <2>1 DEF Fill
  <2>3. Pinned(new) = new.start /\ Candidate(new) = new.start
    BY <2>2 DEF Fill
  <2>4. Is(new, new.start, Fill(new.duration, row.end - new.start)) \/ Is(new, new.start, new.duration)
    BY <1>2, <2>2, <2>3
  <2> QED BY <2>2, <2>4 DEF Fill
<1>11. CASE ~Timed(row) /\ ~(Pinned(row) = Null /\ keyOn # Null /\ Fits_(keyOn))
  <2>1. new.start = Pinned(row) /\ new.duration = row.duration
    BY <1>2, <1>6, <1>11
  <2>2. Pinned(new) = Pinned(row)
    BY <1>3, <1>8, <2>1
  <2>3. Candidate(new) = Candidate(row)
    BY <2>2
  <2>4. ~Timed(new)
    BY <1>11, <2>3
  <2>5. Is(new, Pinned(new), new.duration)
    BY <1>2, <1>11, <2>2, <2>4
  <2> QED BY <2>1, <2>2, <2>5
<1> QED BY <1>9, <1>10, <1>11

LEMMA DerivedTwice ==
    ASSUME NEW row \in Row
    PROVE  Derived(Derived(row)) = Derived(row)
<1> DEFINE new == Derived(row)
           again == Derived(new)
           timing == TimingOf(row)
<1>1. /\ new \in Row
      /\ \A col \in {"key", "end", "distance", "energy", "regen", "src", "drive", "by"} :
            new[col] = row[col]
      /\ new.odoEnd = EndReading(row) /\ new.odoStart = Fill(row.odoStart, StartReading(row))
      /\ new.start = timing.start /\ new.duration = timing.duration
      /\ new.eff = IF row.distance = 0 THEN row.eff ELSE Fill(row.eff, Ratio(row))
      /\ new.temp = IF timing.start = Null THEN row.temp
                    ELSE Fill(row.temp, MeanTemperature(timing.start, row.end))
  BY DerivedIsRow
<1> HIDE DEF new, timing
<1>2. /\ again \in Row
      /\ \A col \in {"key", "end", "distance", "energy", "regen", "src", "drive", "by"} :
            again[col] = new[col]
      /\ again.odoEnd = EndReading(new) /\ again.odoStart = Fill(new.odoStart, StartReading(new))
      /\ again.start = TimingOf(new).start /\ again.duration = TimingOf(new).duration
      /\ again.eff = IF new.distance = 0 THEN new.eff ELSE Fill(new.eff, Ratio(new))
      /\ again.temp = IF TimingOf(new).start = Null THEN new.temp
                      ELSE Fill(new.temp, MeanTemperature(TimingOf(new).start, new.end))
  BY <1>1, DerivedIsRow
<1> HIDE DEF again
<1>3. new.end = row.end /\ new.distance = row.distance /\ new.energy = row.energy
  BY <1>1
<1>4. EndReading(new) = EndReading(row)
  BY <1>1, <1>3 DEF EndReading, Fill
<1>5. StartReading(new) = StartReading(row)
  BY <1>1, <1>3, <1>4 DEF StartReading, Fill
<1>6. again.start = new.start /\ again.duration = new.duration /\ TimingOf(new).start = new.start
  <2>1. LET again_ == Timing(new, StartReading(row), EndReading(row))
        IN  again_.start = new.start /\ again_.duration = new.duration
    BY <1>1, <1>3, TimingIsFoundAgain DEF TimingOf, timing
  <2> QED BY <1>2, <1>4, <1>5, <2>1 DEF TimingOf
<1>7. again.odoEnd = new.odoEnd /\ again.odoStart = new.odoStart
  BY <1>1, <1>2, <1>4, <1>5 DEF Fill
<1>8. again.eff = new.eff
  BY <1>1, <1>2, <1>3 DEF Fill, Ratio
<1>9. again.temp = new.temp
  BY <1>1, <1>2, <1>3, <1>6 DEF Fill
<1>10. /\ again.key = new.key /\ again.end = new.end /\ again.distance = new.distance
       /\ again.energy = new.energy /\ again.regen = new.regen /\ again.src = new.src
       /\ again.drive = new.drive /\ again.by = new.by
  BY <1>2
<1>11. again = new
  <2>1. \A col \in Columns : again[col] = new[col]
    BY <1>6, <1>7, <1>8, <1>9, <1>10 DEF Columns, Column
  <2>2. again = [col \in Columns |-> again[col]] /\ new = [col \in Columns |-> new[col]]
    BY <1>1, <1>2 DEF Row, Columns, Column
  <2> QED BY <2>1, <2>2
<1> QED BY <1>11 DEF new, again

-----------------------------------------------------------------------------
(***************************************************************************)
(* The groups of an operation.                                             *)
(***************************************************************************)
IsPairOf(pair, table, ids) ==
    \E a, b \in ids : a < b /\ pair = {a, b} /\ IsPair(table[a], table[b])

\* Pairs of rows, no row in two of them.
Paired(pairs, table, ids) ==
    /\ \A pair \in pairs : IsPairOf(pair, table, ids)
    /\ \A p, q \in pairs : p = q \/ p \cap q = {}

LEMMA PairsAreFound ==
    ASSUME NEW table, NEW ids \in SUBSET Id, NEW excluded
    PROVE  Paired(PairsBut(table, ids, excluded), table, ids)
<1> DEFINE N == Cardinality(Id)
           With(n, free) == {j \in free : /\ n < j /\ IsPair(table[n], table[j])
                                          /\ {n, j} \notin excluded}
           More(n, before) == IF n \notin ids \ UNION before \/ With(n, ids \ UNION before) = {}
                              THEN before
                              ELSE before \cup {{n, Least(With(n, ids \ UNION before))}}
           Finds(g) == g = [n \in {0} \cup Id |-> IF n = 0 THEN {} ELSE More(n, g[n - 1])]
           S == {pairs \in SUBSET SUBSET Id : Paired(pairs, table, ids)}
           f == [n \in 1 .. N |-> [pairs \in S |-> More(n, pairs)]]
           C == CHOOSE g : Finds(g)
<1>1. N \in Nat /\ Id = 1 .. N /\ {0} \cup Id = 0 .. N /\ Id \subseteq Int
  <2>1. N \in Nat /\ Id = 1 .. N
    BY TripsAssumption, FS_CardinalityType
  <2> HIDE DEF N
  <2> QED BY <2>1
<1>2. PairsBut(table, ids, excluded) = C[N]
  BY DEF PairsBut
<1> HIDE DEF N
<1>3. ASSUME NEW n \in 1 .. N, NEW pairs \in S
      PROVE  More(n, pairs) \in S
  <2> DEFINE free == ids \ UNION pairs
             with == With(n, free)
             j == Least(with)
             pair == {n, j}
  <2>1. CASE n \notin free \/ with = {}
    BY <2>1
  <2>2. CASE n \in free /\ with # {}
    <3>1. with \in SUBSET Id /\ with \subseteq free
      OBVIOUS
    <3>2. j \in with
      <4>1. First(with) = j
        BY <2>2 DEF First
      <4> HIDE DEF with
      <4> QED BY <2>2, <3>1, <4>1, FirstIsOne
    <3>3. j \in free /\ n < j /\ IsPair(table[n], table[j])
      BY <3>2
    <3>4. More(n, pairs) = pairs \cup {pair}
      BY <2>2
    <3> HIDE DEF j, with, More
    <3>5. IsPairOf(pair, table, ids)
      BY <2>2, <3>3 DEF IsPairOf
    <3>6. pair \in SUBSET Id /\ \A p \in pairs : p \cap pair = {}
      BY <2>2, <3>3
    <3> HIDE DEF pair
    <3>7. pairs \cup {pair} \in SUBSET SUBSET Id
      BY <3>6
    <3>8. Paired(pairs \cup {pair}, table, ids)
      <4>1. Paired(pairs, table, ids)
        OBVIOUS
      <4> QED BY <3>5, <3>6, <4>1 DEF Paired
    <3> QED BY <3>4, <3>7, <3>8
  <2> QED BY <2>1, <2>2
<1>4. {} \in S
  BY DEF Paired
<1>5. \A n \in 1 .. N : \A pairs \in S : f[n][pairs] = More(n, pairs) /\ f[n][pairs] \in S
  <2> HIDE DEF S, More
  <2> QED BY <1>3
<1> HIDE DEF f, S, More
<1>6. PICK g : Chained(g, 0, N, S, {}, f)
  <2>1. StaysIn(S, f, 0, N) /\ 0 <= N
    BY <1>1, <1>5 DEF StaysIn
  <2> QED BY <1>1, <1>4, <2>1, ChainRuns
<1>7. \E h : Finds(h)
  <2>1. ASSUME NEW n \in 0 .. N
        PROVE  g[n] = IF n = 0 THEN {} ELSE More(n, g[n - 1])
    <3>1. CASE n = 0
      BY <1>6, <3>1 DEF Chained
    <3>2. CASE n # 0
      <4>1. n \in 0 + 1 .. N /\ n \in 1 .. N /\ n - 1 \in 0 .. N
        BY <1>1, <3>2
      <4>2. g[n] = f[n][g[n - 1]] /\ g[n - 1] \in S
        BY <1>6, <4>1 DEF Chained
      <4> QED BY <1>5, <3>2, <4>1, <4>2
    <3> QED BY <3>1, <3>2
  <2>2. g = [n \in 0 .. N |-> g[n]]
    BY <1>6 DEF Chained
  <2>3. Finds(g)
    BY <1>1, <2>1, <2>2
  <2> QED BY <2>3
<1>8. Finds(C)
  <2> HIDE DEF Finds
  <2> QED BY <1>7
<1> HIDE DEF C
<1>9. C[0] = {} /\ \A n \in 1 .. N : C[n] = More(n, C[n - 1])
  <2>1. \A n \in 0 .. N : C[n] = IF n = 0 THEN {} ELSE More(n, C[n - 1])
    BY <1>1, <1>8
  <2> QED BY <1>1, <2>1
<1> DEFINE P == {n \in 0 .. N : C[n] \in S}
<1>10. 0 .. N \subseteq P
  <2>1. 0 \in P
    BY <1>1, <1>4, <1>9
  <2>2. ASSUME NEW k \in 0 + 1 .. N, k - 1 \in P
        PROVE  k \in P
    <3>1. k \in 1 .. N /\ k \in 0 .. N /\ C[k - 1] \in S
      BY <1>1, <2>2
    <3>2. C[k] \in S
      BY <1>5, <1>9, <3>1
    <3> QED BY <3>1, <3>2
  <2>3. N \in Int
    BY <1>1
  <2> HIDE DEF P
  <2> QED BY <2>1, <2>2, <2>3, IntervalInduction
<1>11. C[N] \in S
  BY <1>1, <1>10
<1> QED BY <1>2, <1>11 DEF S

LEMMA MergedPairIsRow ==
    ASSUME NEW row \in Row, NEW other \in Row
    PROVE  LET new == MergedPair(row, other)
           IN  new \in Row /\ new.drive = row.drive /\ new.src = row.src /\ new.key = row.key
<1> DEFINE Larger(a, b) == IF a = Null \/ b = Null THEN Fill(a, b) ELSE IF a < b THEN b ELSE a
           energy == Larger(row.energy, other.energy)
           duration == Larger(row.duration, other.duration)
           temp == Fill(row.temp, other.temp)
           regen == Fill(row.regen, other.regen)
           start == Fill(row.start, other.start)
           odoStart == Fill(row.odoStart, other.odoStart)
           odoEnd == Fill(row.odoEnd, other.odoEnd)
           by == row.by \cup other.by
<1>1. \A a, b \in Number : Larger(a, b) \in Number
  BY DEF Number, Fill
<1>2. /\ energy \in Number /\ duration \in Number /\ temp \in Int \cup {Null}
      /\ regen \in Number /\ start \in Int \cup {Null} /\ odoStart \in Int \cup {Null}
      /\ odoEnd \in Number /\ by \in SUBSET {"ha", "fcon"}
  <2> HIDE DEF Larger
  <2> QED BY <1>1 DEF Row, Fill
<1>3. MergedPair(row, other) =
          [row EXCEPT !.temp = temp, !.regen = regen, !.energy = energy, !.duration = duration,
                      !.start = start, !.odoStart = odoStart, !.odoEnd = odoEnd,
                      !.by = by]
  BY DEF MergedPair
<1> HIDE DEF by, energy, duration, temp, regen, start, odoStart, odoEnd
<1> DEFINE new == MergedPair(row, other)
<1>4. /\ new = [col \in Columns |-> new[col]]
      /\ new.temp = temp /\ new.regen = regen /\ new.energy = energy
      /\ new.duration = duration /\ new.start = start /\ new.odoStart = odoStart
      /\ new.odoEnd = odoEnd /\ new.by = by
      /\ \A col \in {"key", "end", "distance", "eff", "src", "drive"} : new[col] = row[col]
  BY <1>3, RowShape DEF Columns, Column
<1> HIDE DEF new
<1>5. new \in Row
  <2>1. /\ new.key = row.key /\ new.end = row.end /\ new.distance = row.distance
        /\ new.eff = row.eff /\ new.src = row.src /\ new.drive = row.drive
    BY <1>4
  <2> QED BY <1>2, <1>4, <2>1, RowShape DEF Row
<1> QED BY <1>4, <1>5 DEF new

-----------------------------------------------------------------------------
(***************************************************************************)
(* The archive of FordConnect's samples, and what the operations of one    *)
(* transaction make of a table.                                            *)
(***************************************************************************)
\* A user's trip is not touched.
LeavesUsers(table, next) ==
    \A i \in Stored(table) : table[i].src = "manual" => next[i] = table[i]

LEMMA SafeStepKeeps ==
    ASSUME NEW table \in Tables, NEW next, SafeStep(table, next)
    PROVE  next \in Tables /\ LeavesUsers(table, next)
<1>1. CASE next = table
  BY <1>1 DEF LeavesUsers
<1>2. ASSUME NEW i \in Id, NEW new \in Row, Written(table, next, i, new),
             i \in Stored(table) => Mergeable(table[i])
      PROVE  next \in Tables /\ LeavesUsers(table, next)
  <2>1. next \in Tables /\ \A j \in Id \ {i} : next[j] = table[j]
    BY <1>2 DEF Tables, Written
  <2> QED BY <1>2, <2>1 DEF LeavesUsers, Mergeable, Stored
<1> QED BY <1>1, <1>2 DEF SafeStep

LEMMA ArchiveRuns ==
    ASSUME NEW table \in Tables
    PROVE  /\ Reparsed(table) \in Tables /\ LeavesUsers(table, Reparsed(table))
           /\ FoldsTell /\ FconKeysTell(table) => /\ FconKeysTell(Reparsed(table))
                                                 /\ KeepsDrives(table, Reparsed(table))
<1> DEFINE L == Len(Samples)
           After(t, n) == AfterFcon(t, Samples[n], Fold[Samples[n]])
           Runs(g) == g = [n \in 0 .. L |-> IF n = 0 THEN table ELSE After(g[n - 1], n)]
           C == CHOOSE g : Runs(g)
           f == [n \in 1 .. L |-> [t \in Tables |-> After(t, n)]]
           Tells == FoldsTell /\ FconKeysTell(table)
<1>1. L \in Nat /\ \A n \in 1 .. L : Samples[n] \in Drive /\ Fold[Samples[n]] # Null
  <2>1. Samples \in Seq(Drive)
    BY RepairAssumption
  <2>2. L \in Nat /\ \A n \in 1 .. L : Samples[n] \in Drive /\ n \in DOMAIN Samples
    BY <2>1
  <2> QED BY <2>2, RepairAssumption
<1>2. Reparsed(table) = C[L]
  BY DEF Reparsed
<1>3. ASSUME NEW n \in 1 .. L, NEW t \in Tables
      PROVE  /\ f[n][t] = After(t, n) /\ f[n][t] \in Tables /\ LeavesUsers(t, f[n][t])
             /\ FoldsTell /\ FconKeysTell(t) => FconKeysTell(f[n][t]) /\ KeepsDrives(t, f[n][t])
  <2>1. SafeStep(t, After(t, n))
    BY <1>1, FoldIsAStep
  <2>2. f[n][t] = After(t, n)
    OBVIOUS
  <2> HIDE DEF f, After
  <2>3. SafeStep(t, f[n][t]) /\ StepOf(t, f[n][t])
    BY <2>1, <2>2, SafeStepIsAStep
  <2> QED BY <2>2, <2>3, SafeStepKeeps, StepTells
<1> HIDE DEF f, L, After
<1>4. PICK g : Chained(g, 0, L, Tables, table, f)
  <2>1. StaysIn(Tables, f, 0, L) /\ 0 <= L /\ L \in Int
    BY <1>1, <1>3 DEF StaysIn
  <2> QED BY <2>1, ChainRuns
<1>5. \E h : Runs(h)
  <2>1. ASSUME NEW n \in 0 .. L
        PROVE  g[n] = IF n = 0 THEN table ELSE After(g[n - 1], n)
    <3>1. CASE n = 0
      BY <1>4, <3>1 DEF Chained
    <3>2. CASE n # 0
      <4>1. n \in 0 + 1 .. L /\ n \in 1 .. L /\ n - 1 \in 0 .. L
        BY <1>1, <3>2
      <4>2. g[n] = f[n][g[n - 1]] /\ g[n - 1] \in Tables
        BY <1>4, <4>1 DEF Chained
      <4> QED BY <1>3, <3>2, <4>1, <4>2
    <3> QED BY <3>1, <3>2
  <2>2. g = [n \in 0 .. L |-> g[n]]
    BY <1>4 DEF Chained
  <2>3. Runs(g)
    BY <2>1, <2>2
  <2> QED BY <2>3
<1>6. Runs(C)
  <2> HIDE DEF Runs
  <2> QED BY <1>5
<1> HIDE DEF C
<1>7. C[0] = table /\ \A n \in 1 .. L : C[n] = After(C[n - 1], n)
  <2>1. \A n \in 0 .. L : C[n] = IF n = 0 THEN table ELSE After(C[n - 1], n)
    BY <1>6
  <2> QED BY <1>1, <2>1
<1> HIDE DEF Tells
<1> DEFINE P == {n \in 0 .. L : /\ C[n] \in Tables /\ LeavesUsers(table, C[n])
                                /\ Tells => FconKeysTell(C[n]) /\ KeepsDrives(table, C[n])}
<1>8. 0 .. L \subseteq P
  <2>1. 0 \in P
    <3>1. LeavesUsers(table, table) /\ KeepsDrives(table, table)
      BY DEF LeavesUsers, KeepsDrives
    <3> QED BY <1>1, <1>7, <3>1 DEF Tells
  <2>2. ASSUME NEW k \in 0 + 1 .. L, k - 1 \in P
        PROVE  k \in P
    <3>1. k \in 1 .. L /\ k \in 0 .. L /\ C[k - 1] \in Tables
      BY <1>1, <2>2
    <3>2. C[k] = f[k][C[k - 1]]
      BY <1>3, <1>7, <3>1
    <3>3. /\ C[k] \in Tables /\ LeavesUsers(C[k - 1], C[k])
          /\ FoldsTell /\ FconKeysTell(C[k - 1])
               => FconKeysTell(C[k]) /\ KeepsDrives(C[k - 1], C[k])
      BY <1>3, <3>1, <3>2
    <3>4. LeavesUsers(table, C[k])
      <4>1. LeavesUsers(table, C[k - 1])
        BY <2>2
      <4> QED BY <3>3, <4>1 DEF LeavesUsers, Stored
    <3>5. ASSUME Tells
          PROVE  FconKeysTell(C[k]) /\ KeepsDrives(table, C[k])
      <4>1. FconKeysTell(C[k - 1]) /\ KeepsDrives(table, C[k - 1])
        BY <2>2, <3>5
      <4>2. FconKeysTell(C[k]) /\ KeepsDrives(C[k - 1], C[k])
        BY <3>3, <3>5, <4>1 DEF Tells
      <4> QED BY <4>1, <4>2 DEF KeepsDrives
    <3> QED BY <3>1, <3>3, <3>4, <3>5
  <2>3. L \in Int
    BY <1>1
  <2> HIDE DEF P
  <2> QED BY <2>1, <2>2, <2>3, IntervalInduction
<1>9. L \in P
  BY <1>1, <1>8
<1> QED BY <1>2, <1>9 DEF Tells

LEMMA ReconvertedIsRow ==
    ASSUME NEW row \in Row, row.distance # Null
    PROVE  LET new == Reconverted(row)
           IN  /\ new \in Row /\ new.distance = (1000 * row.distance) \div 1609
               /\ new.odoStart = row.odoStart /\ new.odoEnd = row.odoEnd
               /\ new.src = row.src /\ new.drive = row.drive
<1> DEFINE distance == (1000 * row.distance) \div 1609
           fixed == [row EXCEPT !.distance = distance]
           new == [fixed EXCEPT !.eff = Ratio(fixed)]
<1>1. row.distance \in Nat /\ distance \in Nat
  BY DEF Row, Number
<1> HIDE DEF distance
<1>2. fixed \in Row /\ fixed.distance = distance /\ fixed.energy = row.energy
      /\ fixed.odoStart = row.odoStart /\ fixed.odoEnd = row.odoEnd
      /\ fixed.src = row.src /\ fixed.drive = row.drive
  BY <1>1 DEF Row, Number
<1> HIDE DEF fixed
<1>3. Ratio(fixed) \in {Null} \cup Nat \X Nat
  BY <1>2 DEF Ratio, Row, Number
<1>4. new \in Row /\ new.distance = distance
      /\ new.odoStart = row.odoStart /\ new.odoEnd = row.odoEnd
      /\ new.src = row.src /\ new.drive = row.drive
  BY <1>2, <1>3 DEF Row
<1>5. Reconverted(row) = new
  BY DEF Reconverted, fixed, distance
<1> QED BY <1>4, <1>5 DEF distance

\* A group names rows, none of them a user's, and what becomes of them.
SoundGroup(g, table) ==
    \A i \in DOMAIN g.after : /\ i \in Id /\ g.after[i] \in Row \cup {NoRow}
                              /\ i \in Stored(table) => Mergeable(table[i])

LEMMA StoredAreRows ==
    ASSUME NEW table \in Tables
    PROVE  /\ \A i \in Stored(table) : i \in Id /\ table[i] \in Row /\ table[i] # NoRow
           /\ \A i \in Repairable(table) : /\ i \in Id /\ i \in Stored(table) /\ table[i] \in Row
                                           /\ Mergeable(table[i])
BY DEF Tables, Stored, Repairable, Mergeable

\* The pairs a consolidation merges, and what it makes of them.
LEMMA PairIsMerged ==
    ASSUME NEW table \in Tables, NEW pair, IsPairOf(pair, table, Repairable(table))
    PROVE  LET g == PairGroup(table, pair)
               kept == Survivor(table, pair)
           IN  /\ SoundGroup(g, table) /\ DOMAIN g.after = pair
               /\ kept \in pair /\ g.after[kept] \in Row
               /\ g.after[kept].src = "ha" /\ g.after[kept].drive = table[kept].drive
               /\ \A i \in pair \ {kept} : g.after[i] = NoRow
<1> DEFINE ids == Repairable(table)
           kept == Survivor(table, pair)
           lost == CHOOSE i \in pair : i # kept
           after == [i \in pair |-> IF i = kept THEN MergedPair(table[kept], table[lost]) ELSE NoRow]
           g == PairGroup(table, pair)
           Ahead(i, j) == table[i].distance < table[j].distance
                          \/ (table[i].distance = table[j].distance /\ i < j)
<1>1. PICK a \in ids, b \in ids : a < b /\ pair = {a, b} /\ IsPair(table[a], table[b])
  BY DEF IsPairOf
<1>2. /\ a \in Id /\ b \in Id /\ table[a] \in Row /\ table[b] \in Row
      /\ Mergeable(table[a]) /\ Mergeable(table[b])
  BY StoredAreRows
<1>3. /\ table[a].distance \in Nat /\ table[b].distance \in Nat /\ a \in Int /\ b \in Int
  <2>1. Null \notin {table[a].distance, table[b].distance}
    BY <1>1 DEF IsPair
  <2>2. Id \subseteq Int
    BY TripsAssumption, FS_CardinalityType
  <2> QED BY <1>2, <2>1, <2>2 DEF Row, Number
<1>4. kept \in pair
  <2>1. kept = CHOOSE i \in pair : \A j \in pair \ {i} : Ahead(i, j)
    BY DEF Survivor
  <2>2. \E i \in pair : \A j \in pair \ {i} : Ahead(i, j)
    <3>1. CASE Ahead(a, b)
      BY <1>1, <3>1
    <3>2. CASE ~Ahead(a, b)
      <4>1. Ahead(b, a)
        BY <1>1, <1>3, <3>2
      <4> QED BY <1>1, <4>1
    <3> QED BY <3>1, <3>2
  <2> HIDE DEF Ahead, kept
  <2> QED BY <2>1, <2>2
<1> HIDE DEF kept
<1>5. lost \in pair
  BY <1>1, <1>3
<1> HIDE DEF lost
<1>6. MergedPair(table[kept], table[lost]) \in Row
      /\ MergedPair(table[kept], table[lost]).drive = table[kept].drive
      /\ MergedPair(table[kept], table[lost]).src = "ha"
  <2>1. table[kept] \in Row /\ table[lost] \in Row /\ table[kept].src = "ha"
    BY <1>1, <1>2, <1>4, <1>5 DEF Repairable
  <2> QED BY <2>1, MergedPairIsRow
<1>7. g.after = after
  BY DEF PairGroup, Group, kept, lost
<1> HIDE DEF g
<1>8. SoundGroup(g, table)
  BY <1>1, <1>2, <1>6, <1>7 DEF SoundGroup
<1> QED BY <1>4, <1>6, <1>7, <1>8 DEF g, kept

LEMMA SingleIs ==
    ASSUME NEW i, NEW key, NEW row
    PROVE  DOMAIN Single(i, key, row).after = {i} /\ Single(i, key, row).after[i] = row
BY DEF Single, Group

LEMMA ConversionsAreSingle ==
    ASSUME NEW table, NEW g \in Groups("conversion", table)
    PROVE  \E i \in Repairable(table) :
               ConvertedTwice(table[i]) /\ DOMAIN g.after = {i} /\ g.after[i] = Reconverted(table[i])
<1>1. PICK i \in {j \in Repairable(table) : ConvertedTwice(table[j])} :
          g = Single(i, <<"trip", i>>, Reconverted(table[i]))
  BY DEF Groups, Conversion
<1>2. DOMAIN Single(i, <<"trip", i>>, Reconverted(table[i])).after = {i}
      /\ Single(i, <<"trip", i>>, Reconverted(table[i])).after[i] = Reconverted(table[i])
  BY SingleIs
<1> QED BY <1>1, <1>2

LEMMA DerivationsAreSingle ==
    ASSUME NEW table, NEW g \in Groups("derive", table)
    PROVE  \E i \in Repairable(table) : DOMAIN g.after = {i} /\ g.after[i] = Derived(table[i])
<1> DEFINE Key(i) == <<"trip", i, {col \in Column : Derived(table[i])[col] # table[i][col]}>>
<1>1. PICK i \in {j \in Repairable(table) : Derived(table[j]) # table[j]} :
          g = Single(i, Key(i), Derived(table[i]))
  BY DEF Groups, Derivation
<1> HIDE DEF Key
<1>2. DOMAIN Single(i, Key(i), Derived(table[i])).after = {i}
      /\ Single(i, Key(i), Derived(table[i])).after[i] = Derived(table[i])
  BY SingleIs
<1> QED BY <1>1, <1>2

LEMMA ReparsesAreSingle ==
    ASSUME NEW table, NEW g \in Groups("reparse", table)
    PROVE  LET after == Reparsed(table)
           IN  \E i \in ChangeLog(table, after) : DOMAIN g.after = {i} /\ g.after[i] = after[i]
<1> DEFINE after == Reparsed(table)
           Key(i) == IF table[i] = NoRow THEN <<"new", after[i].start>> ELSE <<"trip", i>>
<1>1. PICK i \in ChangeLog(table, after) : g = Single(i, Key(i), after[i])
  BY DEF Groups, Reparse
<1> HIDE DEF Key, after
<1>2. DOMAIN Single(i, Key(i), after[i]).after = {i}
      /\ Single(i, Key(i), after[i]).after[i] = after[i]
  BY SingleIs
<1> QED BY <1>1, <1>2 DEF after

LEMMA GroupsAreSound ==
    ASSUME NEW table \in Tables, NEW op \in Op \ {"replay"}, NEW g \in Groups(op, table)
    PROVE  SoundGroup(g, table)
<1>1. CASE op = "consolidation"
  <2>1. PICK pair \in PairsOf(table, Repairable(table)) : g = PairGroup(table, pair)
    BY <1>1 DEF Groups, Consolidation
  <2>2. Repairable(table) \in SUBSET Id
    BY DEF Repairable, Stored
  <2>3. IsPairOf(pair, table, Repairable(table))
    BY <2>1, <2>2, PairsAreFound DEF PairsOf, Paired
  <2> QED BY <2>1, <2>3, PairIsMerged
<1>2. CASE op = "conversion"
  <2>1. PICK i \in Repairable(table) :
            ConvertedTwice(table[i]) /\ DOMAIN g.after = {i} /\ g.after[i] = Reconverted(table[i])
    BY <1>2, ConversionsAreSingle
  <2>2. table[i] \in Row /\ i \in Id /\ Mergeable(table[i])
    BY StoredAreRows
  <2>3. Reconverted(table[i]) \in Row
    BY <2>1, <2>2, ReconvertedIsRow DEF ConvertedTwice
  <2> QED BY <2>1, <2>2, <2>3 DEF SoundGroup
<1>3. CASE op = "derive"
  <2>1. PICK i \in Repairable(table) : DOMAIN g.after = {i} /\ g.after[i] = Derived(table[i])
    BY <1>3, DerivationsAreSingle
  <2>2. table[i] \in Row /\ i \in Id /\ Mergeable(table[i])
    BY StoredAreRows
  <2>3. Derived(table[i]) \in Row
    BY <2>2, DerivedIsRow
  <2> QED BY <2>1, <2>2, <2>3 DEF SoundGroup
<1>4. CASE op = "reparse"
  <2> DEFINE after == Reparsed(table)
  <2>1. PICK i \in ChangeLog(table, after) : DOMAIN g.after = {i} /\ g.after[i] = after[i]
    BY <1>4, ReparsesAreSingle
  <2>2. after \in Tables /\ LeavesUsers(table, after)
    BY ArchiveRuns
  <2> HIDE DEF after
  <2>3. i \in Id /\ after[i] # table[i] /\ after[i] \in Row \cup {NoRow}
    BY <2>2 DEF ChangeLog, Tables
  <2>4. i \in Stored(table) => Mergeable(table[i])
    <3>1. i \in Stored(table) => table[i].src # "manual" /\ table[i] \in Row
      BY <2>2, <2>3, StoredAreRows DEF LeavesUsers
    <3> QED BY <3>1 DEF Row, Mergeable
  <2> QED BY <2>1, <2>3, <2>4 DEF SoundGroup
<1> QED BY <1>1, <1>2, <1>3, <1>4 DEF Op

LEMMA ChangedIsSound ==
    ASSUME NEW table \in Tables, NEW groups, \A g \in groups : SoundGroup(g, table)
    PROVE  Changed(table, groups) \in Tables /\ LeavesUsers(table, Changed(table, groups))
<1> DEFINE Has(g, i) == i \in DOMAIN g.after
           One(i) == CHOOSE g \in groups : Has(g, i)
           next == Changed(table, groups)
<1>1. next = [i \in Id |-> IF \E g \in groups : Has(g, i) THEN One(i).after[i] ELSE table[i]]
  BY DEF Changed
<1>2. ASSUME NEW i \in Id
      PROVE  /\ next[i] \in Row \cup {NoRow}
             /\ i \in Stored(table) /\ table[i].src = "manual" => next[i] = table[i]
  <2>1. CASE \E g \in groups : Has(g, i)
    <3>1. One(i) \in groups /\ Has(One(i), i)
      BY <2>1
    <3>2. next[i] = One(i).after[i]
      BY <1>1, <2>1
    <3> HIDE DEF One, next
    <3> QED BY <3>1, <3>2 DEF SoundGroup, Mergeable
  <2>2. CASE ~\E g \in groups : Has(g, i)
    BY <1>1, <2>2 DEF Tables
  <2> QED BY <2>1, <2>2
<1> HIDE DEF next
<1>3. next \in Tables
  <2>1. next = [i \in Id |-> next[i]]
    BY <1>1
  <2> QED BY <1>2, <2>1 DEF Tables
<1>4. LeavesUsers(table, next)
  BY <1>2 DEF LeavesUsers, Stored
<1> QED BY <1>3, <1>4 DEF next
-----------------------------------------------------------------------------
(***************************************************************************)
(* What a conversion or a derivation has made of a row is no candidate.    *)
(***************************************************************************)
LEMMA ConvertedOnce ==
    ASSUME NEW row \in Row, ConvertedTwice(row)
    PROVE  ~ConvertedTwice(Reconverted(row))
<1> DEFINE new == Reconverted(row)
           delta == row.odoEnd - row.odoStart
           d == row.distance
           D == (1000 * d) \div 1609
<1>1. /\ d \in Nat /\ delta \in Int /\ delta >= 50 /\ 100 * d <= 167 * delta
      /\ row.distance # Null
  BY DEF ConvertedTwice, Row, Number
<1>2. D \in Int /\ 1609 * D <= 1000 * d
  <2>1. d \in Nat
    BY <1>1
  <2> HIDE DEF d
  <2> QED BY <2>1
<1>3. new.distance = D /\ new.odoStart = row.odoStart /\ new.odoEnd = row.odoEnd
  BY <1>1, ReconvertedIsRow
<1> HIDE DEF new, D, d, delta
<1>4. ~(155 * delta <= 100 * D)
  BY <1>1, <1>2
<1> QED BY <1>3, <1>4 DEF ConvertedTwice, new, delta

\* Groups of one row each, one for each row of C.
Singles(groups, C, F) ==
    /\ \A g \in groups : \E j \in C : DOMAIN g.after = {j} /\ g.after[j] = F[j]
    /\ \A j \in C : \E g \in groups : DOMAIN g.after = {j}

LEMMA SinglesChange ==
    ASSUME NEW table, NEW groups, NEW C \in SUBSET Id, NEW F, Singles(groups, C, F), NEW i \in Id
    PROVE  Changed(table, groups)[i] = IF i \in C THEN F[i] ELSE table[i]
<1> DEFINE Has(g, j) == j \in DOMAIN g.after
           One(j) == CHOOSE g \in groups : Has(g, j)
<1>1. Changed(table, groups)[i] = IF \E g \in groups : Has(g, i) THEN One(i).after[i] ELSE table[i]
  BY DEF Changed
<1>2. (\E g \in groups : Has(g, i)) <=> i \in C
  BY DEF Singles
<1>3. ASSUME i \in C
      PROVE  One(i).after[i] = F[i]
  <2>1. One(i) \in groups /\ Has(One(i), i)
    BY <1>2, <1>3
  <2> HIDE DEF One
  <2> QED BY <2>1 DEF Singles
<1> HIDE DEF One, Has
<1> QED BY <1>1, <1>2, <1>3

LEMMA ConversionConverges ==
    ASSUME NEW table \in Tables
    PROVE  Groups("conversion", Changed(table, Groups("conversion", table))) = {}
<1> DEFINE groups == Groups("conversion", table)
           C == {j \in Repairable(table) : ConvertedTwice(table[j])}
           F == [j \in Id |-> Reconverted(table[j])]
           next == Changed(table, groups)
           Made(j) == Single(j, <<"trip", j>>, Reconverted(table[j]))
<1>1. C \in SUBSET Id /\ \A j \in C : table[j] \in Row
  BY StoredAreRows
<1>2. groups = {Made(j) : j \in C}
  BY DEF Groups, Conversion
<1>3. \A j \in C : DOMAIN Made(j).after = {j} /\ Made(j).after[j] = F[j]
  <2>1. ASSUME NEW j \in C
        PROVE  DOMAIN Made(j).after = {j} /\ Made(j).after[j] = Reconverted(table[j])
    BY SingleIs
  <2> QED BY <1>1, <2>1
<1>4. Singles(groups, C, F)
  <2> HIDE DEF groups, Made, F, C
  <2> QED BY <1>2, <1>3 DEF Singles
<1>5. \A i \in Id : next[i] = IF i \in C THEN F[i] ELSE table[i]
  <2> HIDE DEF groups, C, F
  <2> QED BY <1>1, <1>4, SinglesChange
<1> HIDE DEF next
<1>6. \A i \in Repairable(next) : ~ConvertedTwice(next[i])
  <2>1. ASSUME NEW i \in Repairable(next)
        PROVE  ~ConvertedTwice(next[i])
    <3>1. i \in Id /\ next[i] # NoRow /\ next[i].src = "ha"
      BY DEF Repairable, Stored
    <3>2. CASE i \in C
      <4>1. next[i] = Reconverted(table[i]) /\ ConvertedTwice(table[i]) /\ table[i] \in Row
        BY <1>1, <1>5, <3>1, <3>2
      <4> QED BY <4>1, ConvertedOnce
    <3>3. CASE i \notin C
      <4>1. next[i] = table[i]
        BY <1>5, <3>1, <3>3
      <4> QED BY <3>1, <3>3, <4>1 DEF Repairable, Stored
    <3> QED BY <3>2, <3>3
  <2> QED BY <2>1
<1>7. Conversion(next) = {}
  BY <1>6 DEF Conversion
<1> QED BY <1>7 DEF Groups, next

LEMMA DerivationConverges ==
    ASSUME NEW table \in Tables
    PROVE  Groups("derive", Changed(table, Groups("derive", table))) = {}
<1> DEFINE groups == Groups("derive", table)
           C == {j \in Repairable(table) : Derived(table[j]) # table[j]}
           F == [j \in Id |-> Derived(table[j])]
           next == Changed(table, groups)
           Key(j) == <<"trip", j, {col \in Column : Derived(table[j])[col] # table[j][col]}>>
           Made(j) == Single(j, Key(j), Derived(table[j]))
<1>1. C \in SUBSET Id /\ \A j \in C : table[j] \in Row
  BY StoredAreRows
<1>2. groups = {Made(j) : j \in C}
  BY DEF Groups, Derivation
<1>3. \A j \in C : DOMAIN Made(j).after = {j} /\ Made(j).after[j] = F[j]
  <2>1. ASSUME NEW j \in C
        PROVE  DOMAIN Made(j).after = {j} /\ Made(j).after[j] = Derived(table[j])
    <3> DEFINE key == Key(j)
    <3> HIDE DEF key
    <3>1. DOMAIN Single(j, key, Derived(table[j])).after = {j}
          /\ Single(j, key, Derived(table[j])).after[j] = Derived(table[j])
      BY SingleIs
    <3> QED BY <3>1 DEF key
  <2> QED BY <1>1, <2>1
<1>4. Singles(groups, C, F)
  <2> HIDE DEF groups, Made, F, C
  <2> QED BY <1>2, <1>3 DEF Singles
<1>5. \A i \in Id : next[i] = IF i \in C THEN F[i] ELSE table[i]
  <2> HIDE DEF groups, C, F
  <2> QED BY <1>1, <1>4, SinglesChange
<1> HIDE DEF next
<1>6. \A i \in Repairable(next) : Derived(next[i]) = next[i]
  <2>1. ASSUME NEW i \in Repairable(next)
        PROVE  Derived(next[i]) = next[i]
    <3>1. i \in Id /\ next[i] # NoRow /\ next[i].src = "ha"
      BY DEF Repairable, Stored
    <3>2. CASE i \in C
      <4>1. next[i] = Derived(table[i]) /\ table[i] \in Row
        BY <1>1, <1>5, <3>1, <3>2
      <4> QED BY <4>1, DerivedTwice
    <3>3. CASE i \notin C
      <4>1. next[i] = table[i]
        BY <1>5, <3>1, <3>3
      <4> QED BY <3>1, <3>3, <4>1 DEF Repairable, Stored
    <3> QED BY <3>2, <3>3
  <2> QED BY <2>1
<1>7. Derivation(next) = {}
  BY <1>6 DEF Derivation
<1> QED BY <1>7 DEF Groups, next
-----------------------------------------------------------------------------
(***************************************************************************)
(* What a section of a replay makes of a table.                            *)
(***************************************************************************)
LEMMA UndoneIsSound ==
    ASSUME NEW after \in Tables, NEW before \in Tables, NEW only, NEW skipped
    PROVE  LET next == Undone(after, before, only, skipped)
           IN  /\ next \in Tables
               /\ \A i \in Id : InWindow(after[i]) /\ before[i] # NoRow /\ before[i].src = "manual"
                                => next[i] = before[i]
<1> DEFINE Keeps(i) == i \in Kept(after, before, only, skipped)
           Is(i) == IF ~InWindow(after[i]) THEN after[i]
                    ELSE IF before[i] = NoRow THEN IF Keeps(i) THEN after[i] ELSE NoRow
                    ELSE IF ~Guarded(before[i]) \/ ~Allowed(skipped, <<"trip", i>>, only)
                    THEN before[i] ELSE after[i]
           next == Undone(after, before, only, skipped)
<1>1. next = [i \in Id |-> Is(i)]
  BY DEF Undone
<1> HIDE DEF next
<1>2. \A i \in Id : Is(i) \in {after[i], before[i], NoRow}
  OBVIOUS
<1>3. \A i \in Id : Is(i) \in Row \cup {NoRow}
  BY <1>2 DEF Tables
<1>4. ASSUME NEW i \in Id, InWindow(after[i]), before[i] # NoRow, before[i].src = "manual"
      PROVE  Is(i) = before[i]
  BY <1>4 DEF Guarded
<1> HIDE DEF Is
<1> QED BY <1>1, <1>3, <1>4 DEF Tables, next

\* Where the replay is after each archived state.
LEMMA CourseRuns ==
    ASSUME rows \in Tables, NEW from \in 1 .. Len(Heard) + 1
    PROVE  \A n \in from - 1 .. Len(Heard) :
               Course(from)[n] \in Tables /\ KeepsUsers(rows, Course(from)[n])
BY HistoryRuns DEF Course

LEMMA StopIsOne ==
    ASSUME NEW from \in 1 .. Len(Heard) + 1, Stops(from) # {}
    PROVE  Least(Stops(from)) \in from .. Len(Heard)
<1>1. IsFiniteSet(Stops(from)) /\ Stops(from) \subseteq Int /\ Stops(from) \subseteq from .. Len(Heard)
  <2>1. from \in Int /\ Len(Heard) \in Int
    BY HeardIsASequence
  <2>2. IsFiniteSet(from .. Len(Heard)) /\ from .. Len(Heard) \subseteq Int
    BY <2>1, FS_Interval
  <2>3. Stops(from) \subseteq from .. Len(Heard)
    BY DEF Stops
  <2> QED BY <2>2, <2>3, FS_Subset
<1>2. \E n \in Stops(from) : \A m \in Stops(from) : n <= m
  BY <1>1, FiniteInts
<1> QED BY <1>1, <1>2 DEF Least

Replaying == [next : 1 .. Len(Heard) + 1, before : Tables, only : {All} \cup SUBSET ReplayKey]

LEMMA ReplayIsKnown == Null \notin Replaying
BY RepairAssumption, HeardIsASequence DEF Replaying

LEMMA KeysAreReplayed ==
    ASSUME NEW table \in Tables, NEW skipped
    PROVE  ReplayKeys(table, skipped) \subseteq ReplayKey
<1> DEFINE C == CHOOSE g : g = [n \in 0 .. Len(Heard) |->
                                   IF n = 0 THEN table ELSE Replayed(g[n - 1], n)]
           before == Saved(table, {i \in Id : InWindow(table[i])})
           after == Undone(C[Len(Heard)], before, All, skipped)
           Key(i) == IF before[i] = NoRow THEN <<"new", after[i].end, after[i].distance>>
                     ELSE <<"trip", i>>
<1>1. ReplayKeys(table, skipped) =
          {Key(i) : i \in {j \in Id : InWindow(after[j]) /\ after[j] # before[j]}}
  BY DEF ReplayKeys
<1>2. C[Len(Heard)] \in Tables
  <2>1. 1 \in 1 .. Len(Heard) + 1 /\ Len(Heard) \in 0 .. Len(Heard) /\ 1 - 1 = 0
    BY HeardIsASequence
  <2> QED BY <2>1, HistoryRuns
<1>3. before \in Tables
  BY DEF Saved, Tables
<1> HIDE DEF C, before
<1>4. after \in Tables
  BY <1>2, <1>3, UndoneIsSound
<1> HIDE DEF after
<1>5. ASSUME NEW i \in Id, InWindow(after[i])
      PROVE  Key(i) \in ReplayKey
  <2>1. after[i] \in Row
    BY <1>4, <1>5 DEF Tables, InWindow
  <2>2. after[i].end \in Nat /\ after[i].distance \in Number
    BY <2>1 DEF Row
  <2> QED BY <2>2 DEF ReplayKey
<1> HIDE DEF Key
<1> QED BY <1>1, <1>5

PageOK(shown) == shown # Null /\ shown.op = "replay" => shown.keys \subseteq ReplayKey

LEMMA PagesAreKnown ==
    ASSUME NEW table \in Tables, NEW op \in Op, NEW skipped
    PROVE  PageOK(Page(op, table, skipped))
<1>1. Page(op, table, skipped).op = op
      /\ (op = "replay" => Page(op, table, skipped).keys = ReplayKeys(table, skipped))
  BY DEF Page
<1> QED BY <1>1, KeysAreReplayed DEF PageOK

LEMMA SectionIsSound ==
    ASSUME rows \in Tables, NEW from \in 1 .. Len(Heard) + 1, NEW before \in Tables,
           NEW only \in {All} \cup SUBSET ReplayKey, NEW skipped,
           KeepsUsers(before, rows), Section(from, before, only, skipped)
    PROVE  /\ rows' \in Tables /\ PageOK(page')
           /\ \/ /\ replay' = Null
                 /\ \A i \in Id : InWindow(before[i]) /\ before[i].src = "manual"
                                  => rows'[i] = before[i]
              \/ /\ replay' \in Replaying
                 /\ KeepsUsers(replay'.before, rows')
<1> DEFINE C == Course(from)
           L == Len(Heard)
<1>1. L \in Nat /\ from \in Int /\ 1 <= from /\ from - 1 <= L
  BY HeardIsASequence
<1>2. \A n \in from - 1 .. L : C[n] \in Tables /\ KeepsUsers(before, C[n])
  <2>1. ASSUME NEW n \in from - 1 .. L
        PROVE  C[n] \in Tables /\ KeepsUsers(before, C[n])
    <3>1. C[n] \in Tables /\ KeepsUsers(rows, C[n])
      BY <2>1, CourseRuns
    <3> HIDE DEF C
    <3> QED BY <3>1 DEF KeepsUsers
  <2> QED BY <2>1
<1>3. CASE Stops(from) # {}
  <2> DEFINE stop == Least(Stops(from))
  <2>1. stop \in from .. L
    BY <1>3, StopIsOne
  <2>2. /\ rows' = C[stop] /\ page' = Null
        /\ replay' = [next |-> stop + 1, before |-> before, only |-> only]
    BY <1>3 DEF Section
  <2> HIDE DEF stop, C
  <2>3. stop + 1 \in 1 .. Len(Heard) + 1 /\ stop \in from - 1 .. L
    BY <1>1, <2>1
  <2>4. replay' \in Replaying /\ replay'.before = before
    BY <2>2, <2>3 DEF Replaying
  <2>5. PageOK(page')
    BY <2>2 DEF PageOK
  <2> QED BY <1>2, <2>2, <2>3, <2>4, <2>5
<1>4. CASE Stops(from) = {}
  <2> DEFINE after == C[L]
             next == Undone(after, before, only, skipped)
  <2>1. /\ rows' = next /\ replay' = Null
        /\ page' = IF only = All THEN Null ELSE Page("replay", rows', skipped)
    BY <1>4 DEF Section
  <2>2. after \in Tables /\ KeepsUsers(before, after)
    <3>1. L \in from - 1 .. L
      BY <1>1
    <3> HIDE DEF C, L
    <3> QED BY <1>2, <3>1
  <2> HIDE DEF after
  <2>3. /\ next \in Tables
        /\ \A i \in Id : InWindow(after[i]) /\ before[i] # NoRow /\ before[i].src = "manual"
                         => next[i] = before[i]
    BY <2>2, UndoneIsSound
  <2> HIDE DEF next
  <2>4. PageOK(page')
    <3>1. PageOK(Null) /\ PageOK(Page("replay", next, skipped))
      BY <2>3, PagesAreKnown DEF PageOK, Op
    <3> QED BY <2>1, <3>1
  <2>5. ASSUME NEW i \in Id, InWindow(before[i]), before[i].src = "manual"
        PROVE  rows'[i] = before[i]
    <3>1. i \in Stored(before)
      BY <2>5 DEF InWindow, Stored
    <3>2. i \in Stored(after) /\ after[i].end = before[i].end
      BY <2>2, <2>5, <3>1 DEF KeepsUsers
    <3>3. InWindow(after[i])
      BY <2>5, <3>2 DEF InWindow, Stored
    <3> QED BY <2>1, <2>3, <2>5, <3>1, <3>3 DEF Stored
  <2> QED BY <2>1, <2>3, <2>4, <2>5
<1> QED BY <1>3, <1>4
-----------------------------------------------------------------------------
(***************************************************************************)
(* The tables of the repairs: the one the application works on, the        *)
(* snapshots, and the one a replay has begun with, whose users' trips are  *)
(* there as long as it has not ended.                                      *)
(***************************************************************************)
RepairTypeOK ==
    /\ rows \in Tables
    /\ \A run \in runs : run.saved \in Tables
    /\ PageOK(page)
    /\ replay # Null => replay \in Replaying /\ KeepsUsers(replay.before, rows)

LEMMA SavedIsATable ==
    ASSUME NEW table \in Tables, NEW ids
    PROVE  Saved(table, ids) \in Tables
BY DEF Saved, Tables

LEMMA SnapshotsAreTables ==
    ASSUME RepairTypeOK, NEW op, NEW ids, Snapshots(op, ids)
    PROVE  \A run \in runs' : run.saved \in Tables
BY SavedIsATable DEF RepairTypeOK, Snapshots

LEMMA RequestedReplays ==
    ASSUME RepairTypeOK, NEW only \in Requested("replay")
    PROVE  only \in {All} \cup SUBSET ReplayKey
BY DEF Requested, RepairTypeOK, PageOK

LEMMA AppliedIsSound ==
    ASSUME RepairTypeOK, NEW op \in Op, NEW only, Applies(op, only)
    PROVE  RepairTypeOK' /\ LeavesUsers(rows, rows') /\ replay = Null /\ replay' = Null
<1> DEFINE groups == Chosen(op, rows, only)
<1>1. op \in Op \ {"replay"} /\ rows' = Changed(rows, groups) /\ replay = Null /\ replay' = Null
      /\ Snapshots(op, Affected(groups))
      /\ page' = IF only = All THEN Null ELSE Page(op, rows', skips'[op])
  BY DEF Applies, Idle
<1>2. rows \in Tables
  BY DEF RepairTypeOK
<1>3. \A g \in groups : SoundGroup(g, rows)
  <2>1. groups \subseteq Groups(op, rows)
    BY DEF Chosen
  <2> HIDE DEF groups
  <2> QED BY <1>1, <1>2, <2>1, GroupsAreSound
<1>4. rows' \in Tables /\ LeavesUsers(rows, rows')
  <2> HIDE DEF groups
  <2> QED BY <1>1, <1>2, <1>3, ChangedIsSound
<1>5. PageOK(page')
  <2>1. PageOK(Null) /\ PageOK(Page(op, rows', skips'[op]))
    BY <1>4, PagesAreKnown DEF PageOK
  <2> QED BY <1>1, <2>1
<1>6. \A run \in runs' : run.saved \in Tables
  BY <1>1, SnapshotsAreTables
<1> QED BY <1>1, <1>4, <1>5, <1>6 DEF RepairTypeOK

LEMMA BegunIsSound ==
    ASSUME RepairTypeOK, NEW only \in Requested("replay"), ReplayBegins(only)
    PROVE  /\ RepairTypeOK' /\ replay = Null
           /\ replay' = Null => \A i \in Id : InWindow(rows[i]) /\ rows[i].src = "manual"
                                              => rows'[i] = rows[i]
<1> DEFINE ids == {i \in Id : InWindow(rows[i])}
           before == Saved(rows, ids)
           skipped == IF only = All THEN skips["replay"] ELSE skips["replay"] \cup (page.keys \ only)
           saved == {i \in Id : Enrichable(rows[i]) /\ Allowed(skipped, <<"trip", i>>, only)}
<1>1. Section(1, before, only, skipped) /\ Snapshots("replay", saved) /\ replay = Null
  BY DEF ReplayBegins, Idle
<1>2. rows \in Tables /\ before \in Tables
  BY SavedIsATable DEF RepairTypeOK
<1>3. KeepsUsers(before, rows) /\ \A i \in ids : before[i] = rows[i]
  BY DEF KeepsUsers, Saved, Stored
<1>4. only \in {All} \cup SUBSET ReplayKey
  BY RequestedReplays
<1>5. 1 \in 1 .. Len(Heard) + 1
  BY HeardIsASequence
<1>6. \A run \in runs' : run.saved \in Tables
  BY <1>1, SnapshotsAreTables
<1> HIDE DEF before, skipped, saved
<1>7. /\ rows' \in Tables /\ PageOK(page')
      /\ \/ /\ replay' = Null
            /\ \A i \in Id : InWindow(before[i]) /\ before[i].src = "manual"
                             => rows'[i] = before[i]
         \/ /\ replay' \in Replaying
            /\ KeepsUsers(replay'.before, rows')
  BY <1>1, <1>2, <1>3, <1>4, <1>5, SectionIsSound
<1>8. RepairTypeOK'
  BY <1>6, <1>7 DEF RepairTypeOK
<1>9. ASSUME replay' = Null, NEW i \in Id, InWindow(rows[i]), rows[i].src = "manual"
      PROVE  rows'[i] = rows[i]
  <2>1. before[i] = rows[i]
    BY <1>3, <1>9
  <2>2. replay' \notin Replaying
    BY <1>9, ReplayIsKnown
  <2> QED BY <1>7, <1>9, <2>1, <2>2
<1> QED BY <1>1, <1>8, <1>9

LEMMA ContinuedIsSound ==
    ASSUME RepairTypeOK, ReplayGoesOn
    PROVE  /\ RepairTypeOK' /\ replay # Null
           /\ replay' = Null => \A i \in Id : InWindow(replay.before[i]) /\ replay.before[i].src = "manual"
                                              => rows'[i] = replay.before[i]
<1>1. replay # Null /\ Section(replay.next, replay.before, replay.only, skips["replay"])
      /\ runs' = runs
  BY DEF ReplayGoesOn, Idle
<1>2. rows \in Tables /\ replay \in Replaying /\ KeepsUsers(replay.before, rows)
      /\ \A run \in runs : run.saved \in Tables
  BY <1>1 DEF RepairTypeOK
<1>3. /\ replay.next \in 1 .. Len(Heard) + 1 /\ replay.before \in Tables
      /\ replay.only \in {All} \cup SUBSET ReplayKey
  BY <1>2 DEF Replaying
<1>4. /\ rows' \in Tables /\ PageOK(page')
      /\ \/ /\ replay' = Null
            /\ \A i \in Id : InWindow(replay.before[i]) /\ replay.before[i].src = "manual"
                             => rows'[i] = replay.before[i]
         \/ /\ replay' \in Replaying
            /\ KeepsUsers(replay'.before, rows')
  BY <1>1, <1>2, <1>3, SectionIsSound
<1>5. RepairTypeOK'
  BY <1>1, <1>2, <1>4 DEF RepairTypeOK
<1>6. replay' = Null => replay' \notin Replaying
  BY ReplayIsKnown
<1> QED BY <1>1, <1>4, <1>5, <1>6
LEMMA ReportsAreSteps ==
    ASSUME rows \in Tables, NEW d \in Drive, Hears(d)
    PROVE  StepOf(rows, rows')
<1>1. CASE HearsEvents(d)
  BY <1>1, EventsAreAStep DEF HearsEvents, Reporting
<1>2. CASE HearsElveh(d)
  <2>1. Elveh[d] \in Reporting(d)
    BY <1>2 DEF HearsElveh, Reporting
  <2> QED BY <1>2, <2>1, ElvehIsAStep DEF HearsElveh, StepOf
<1>3. CASE HearsMetrics(d)
  BY <1>3, MetricsAreAStep DEF HearsMetrics
<1>4. CASE DerivesTrip(d)
  BY <1>4, FoldIsAStep, SafeStepIsAStep DEF DerivesTrip
<1> QED BY <1>1, <1>2, <1>3, <1>4 DEF Hears

LEMMA RecordedIsSound ==
    ASSUME RepairTypeOK, Records
    PROVE  RepairTypeOK'
<1>1. rows \in Tables /\ UNCHANGED <<page, runs, replay>>
  BY DEF RepairTypeOK, Records, repairVars
<1>2. rows' \in Tables
  <2>1. ASSUME NEW d \in Meanwhile, Hears(d)
        PROVE  rows' \in Tables
    <3>1. d \in Drive
      BY RepairAssumption
    <3> QED BY <1>1, <2>1, <3>1, ReportsAreSteps, StepKeepsUsers
  <2>2. ASSUME NEW trip \in Typed, Enters(trip)
        PROVE  rows' \in Tables
    <3>1. rows' = [rows EXCEPT ![NextId(rows)] = ManualTrip(trip)]
      BY <2>2 DEF Enters, Added
    <3>2. ManualTrip(trip) \in Row
      BY ManualTripIsRow
    <3> QED BY <1>1, <3>1, <3>2 DEF Tables
  <2>3. ASSUME NEW i \in Id, Deletes(i)
        PROVE  rows' \in Tables
    BY <1>1, <2>3 DEF Deletes, Tables
  <2> QED BY <2>1, <2>2, <2>3 DEF Records, Edits
<1>3. ASSUME replay # Null
      PROVE  KeepsUsers(replay.before, rows')
  <2>1. KeepsUsers(replay.before, rows) /\ \A i \in Stored(replay.before) : rows'[i] = rows[i]
    BY <1>3 DEF RepairTypeOK, Records, Held, Idle
  <2> QED BY <2>1 DEF KeepsUsers, Stored
<1> QED BY <1>1, <1>2, <1>3 DEF RepairTypeOK

LEMMA RestoredIsSound ==
    ASSUME RepairTypeOK, NEW run \in runs, Restores(run)
    PROVE  RepairTypeOK'
<1>1. /\ rows' = Restored(rows, run) /\ UNCHANGED <<page, runs, replay>> /\ replay = Null
      /\ rows \in Tables /\ run.saved \in Tables
  BY DEF Restores, RepairTypeOK, repairVars, Idle
<1>2. rows' \in Tables
  BY <1>1 DEF Restored, Tables
<1> QED BY <1>1, <1>2 DEF RepairTypeOK

LEMMA RepairTypeIsKept ==
    ASSUME RepairTypeOK, [RepairNext]_allVars
    PROVE  RepairTypeOK'
<1>1. ASSUME NEW op \in Op, NEW only \in Requested(op), Applies(op, only)
      PROVE  RepairTypeOK'
  BY <1>1, AppliedIsSound
<1>2. ASSUME NEW only \in Requested("replay"), ReplayBegins(only)
      PROVE  RepairTypeOK'
  BY <1>2, BegunIsSound
<1>3. CASE ReplayGoesOn
  BY <1>3, ContinuedIsSound
<1>4. CASE Records
  BY <1>4, RecordedIsSound
<1>5. ASSUME NEW run \in runs, Restores(run)
      PROVE  RepairTypeOK'
  BY <1>5, RestoredIsSound
<1>6. ASSUME NEW run \in runs, Purges(run)
      PROVE  RepairTypeOK'
  BY <1>6 DEF Purges, RepairTypeOK, vars
<1>7. ASSUME NEW op \in Op, ClearsSkips(op)
      PROVE  RepairTypeOK'
  BY <1>7 DEF ClearsSkips, RepairTypeOK, vars
<1>8. ASSUME NEW op \in Op, Previews(op)
      PROVE  RepairTypeOK'
  <2>1. PageOK(page') /\ UNCHANGED <<rows, runs, replay>>
    BY <1>8, PagesAreKnown DEF Previews, RepairTypeOK, vars
  <2> QED BY <2>1 DEF RepairTypeOK
<1>9. CASE Crashes
  BY <1>9 DEF Crashes, Restarts, RepairTypeOK
<1>10. CASE UNCHANGED allVars
  BY <1>10 DEF allVars, vars, repairVars, RepairTypeOK
<1> QED BY <1>1, <1>2, <1>3, <1>4, <1>5, <1>6, <1>7, <1>8, <1>9, <1>10 DEF RepairNext, Requests

(***************************************************************************)
(* Whatever is repaired, restored or reported meanwhile, and wherever a    *)
(* replay ends, the trips and the snapshots have the columns of a trip,    *)
(* and a replay under way has every trip of a user that it began with.     *)
(***************************************************************************)
THEOREM RepairsTypeCorrect == RepairSpec => []RepairTypeOK
<1>1. RepairInit => RepairTypeOK
  BY RepairAssumption DEF RepairInit, RepairTypeOK, PageOK
<1>2. RepairTypeOK /\ [RepairNext]_allVars => RepairTypeOK'
  BY RepairTypeIsKept
<1> QED BY <1>1, <1>2, PTL DEF RepairSpec

(***************************************************************************)
(* On whatever table, a conversion or a derivation leaves nothing for its  *)
(* second run to do.                                                       *)
(***************************************************************************)
THEOREM RepairsConverge == RepairSpec => []Converges
<1>1. RepairTypeOK => Converges
  BY ConversionConverges, DerivationConverges DEF Converges, RepairTypeOK
<1> QED BY <1>1, RepairsTypeCorrect, PTL

(***************************************************************************)
(* No repair leaves a trip that the user entered other than it was: an     *)
(* operation's groups have none of them, and what a replay's handlers have *)
(* written into one is undone when it ends.                                *)
(***************************************************************************)
THEOREM UsersTripsArePutBack == RepairSpec => ManualIsPutBack
<1>1. RepairTypeOK =>
        LET was     == IF Idle THEN rows ELSE replay.before
            changed == {i \in Id : InWindow(was[i]) /\ was[i].src = "manual" /\ rows'[i] # was[i]}
        IN  replay' = Null /\ changed # {} =>
               ~(AppliesSome \/ ReplayGoesOn \/ \E only \in Requested("replay") : ReplayBegins(only))
  <2> SUFFICES ASSUME RepairTypeOK, replay' = Null,
                      NEW i \in Id, LET was == IF Idle THEN rows ELSE replay.before
                                    IN  InWindow(was[i]) /\ was[i].src = "manual" /\ rows'[i] # was[i],
                      \/ AppliesSome \/ ReplayGoesOn
                      \/ \E only \in Requested("replay") : ReplayBegins(only)
               PROVE  FALSE
    OBVIOUS
  <2>1. CASE AppliesSome
    <3>1. replay = Null /\ LeavesUsers(rows, rows')
      BY <2>1, AppliedIsSound DEF AppliesSome
    <3> QED BY <3>1 DEF LeavesUsers, Idle, Stored, InWindow
  <2>2. CASE ReplayGoesOn
    BY <2>2, ContinuedIsSound DEF Idle
  <2>3. CASE \E only \in Requested("replay") : ReplayBegins(only)
    BY <2>3, BegunIsSound DEF Idle
  <2> QED BY <2>1, <2>2, <2>3
<1> QED BY <1>1, RepairsTypeCorrect, PTL DEF RepairSpec, ManualIsPutBack

(***************************************************************************)
(* An operation of one transaction can be taken back: whatever row it      *)
(* changes or deletes, the snapshot it leaves has it as it was.            *)
(***************************************************************************)
THEOREM OperationsCanBeTakenBack == RepairSpec => Restorable
<1>1. ASSUME NEW op \in Op, NEW only, Applies(op, only), NEW i \in Stored(rows),
             rows'[i] # rows[i]
      PROVE  \E run \in runs' : run.saved[i] = rows[i]
  <2> DEFINE groups == Chosen(op, rows, only)
             run == [op |-> op, saved |-> Saved(rows, Affected(groups))]
  <2>1. i \in Id /\ rows' = Changed(rows, groups) /\ Snapshots(op, Affected(groups))
    BY <1>1 DEF Applies, Stored
  <2> HIDE DEF groups
  <2>2. \E g \in groups : i \in DOMAIN g.after
    BY <1>1, <2>1 DEF Changed
  <2>3. i \in Affected(groups)
    BY <2>2 DEF Affected
  <2>4. run \in runs'
    BY <2>1, <2>3 DEF Snapshots
  <2>5. run.saved[i] = rows[i]
    BY <2>1, <2>3 DEF Saved
  <2> QED BY <2>4, <2>5
<1>2. AppliesSome => \A i \in Stored(rows) : rows'[i] # rows[i] =>
                        \E run \in runs' : run.saved[i] = rows[i]
  BY <1>1 DEF AppliesSome
<1> QED BY <1>2, PTL DEF RepairSpec, Restorable

-----------------------------------------------------------------------------
(***************************************************************************)
(* The drives stay.  It takes that the samples of two drives do not begin  *)
(* at the same time, that the tables of the past have no row of            *)
(* FordConnect's under another drive's key, and that what a consolidation  *)
(* finds to be a pair is of one drive.                                     *)
(***************************************************************************)
PairsAreOfOneDrive(table) ==
    \A i, j \in Repairable(table) :
        i < j /\ IsPair(table[i], table[j]) => table[i].drive = table[j].drive

\* The rows of a group that stay have their drive; so has each row that goes.
KeepingGroup(g, table) ==
    \A i \in DOMAIN g.after \cap Stored(table) :
        g.after[i] # NoRow /\ g.after[i].drive = table[i].drive

LEMMA GroupsTell ==
    ASSUME FoldsTell, NEW table \in Tables, FconKeysTell(table),
           NEW op \in Op \ {"replay"}, NEW g \in Groups(op, table)
    PROVE  /\ \A i \in DOMAIN g.after : g.after[i] # NoRow => KeyTells(g.after[i])
           /\ op # "consolidation" => KeepingGroup(g, table)
<1>1. NoRow \notin Row
  BY TripsAssumption
<1>2. CASE op = "consolidation"
  <2>1. PICK pair \in PairsOf(table, Repairable(table)) : g = PairGroup(table, pair)
    BY <1>2 DEF Groups, Consolidation
  <2>2. Repairable(table) \in SUBSET Id
    BY DEF Repairable, Stored
  <2>3. IsPairOf(pair, table, Repairable(table))
    BY <2>1, <2>2, PairsAreFound DEF PairsOf, Paired
  <2>4. \A i \in DOMAIN g.after : g.after[i] # NoRow => g.after[i].src = "ha"
    BY <2>1, <2>3, PairIsMerged
  <2> QED BY <1>2, <2>4 DEF KeyTells
<1>3. CASE op = "conversion"
  <2>1. PICK i \in Repairable(table) :
            ConvertedTwice(table[i]) /\ DOMAIN g.after = {i} /\ g.after[i] = Reconverted(table[i])
    BY <1>3, ConversionsAreSingle
  <2>2. table[i] \in Row /\ table[i].src = "ha"
    BY StoredAreRows DEF Repairable
  <2>3. /\ g.after[i] \in Row /\ g.after[i].src = "ha" /\ g.after[i].drive = table[i].drive
    BY <2>1, <2>2, ReconvertedIsRow DEF ConvertedTwice
  <2> QED BY <1>1, <2>1, <2>3 DEF KeyTells, KeepingGroup
<1>4. CASE op = "derive"
  <2>1. PICK i \in Repairable(table) : DOMAIN g.after = {i} /\ g.after[i] = Derived(table[i])
    BY <1>4, DerivationsAreSingle
  <2>2. table[i] \in Row /\ table[i].src = "ha"
    BY StoredAreRows DEF Repairable
  <2>3. /\ g.after[i] \in Row /\ g.after[i].src = "ha" /\ g.after[i].drive = table[i].drive
    BY <2>1, <2>2, DerivedIsRow
  <2> QED BY <1>1, <2>1, <2>3 DEF KeyTells, KeepingGroup
<1>5. CASE op = "reparse"
  <2> DEFINE after == Reparsed(table)
  <2>1. PICK i \in ChangeLog(table, after) : DOMAIN g.after = {i} /\ g.after[i] = after[i]
    BY <1>5, ReparsesAreSingle
  <2>2. FconKeysTell(after) /\ KeepsDrives(table, after)
    BY ArchiveRuns
  <2> HIDE DEF after
  <2>3. i \in Id
    BY DEF ChangeLog
  <2>4. after[i] # NoRow => KeyTells(after[i])
    BY <2>2, <2>3 DEF FconKeysTell, Stored
  <2>5. i \in Stored(table) => after[i] # NoRow /\ after[i].drive = table[i].drive
    BY <2>2 DEF KeepsDrives, Stored
  <2> QED BY <2>1, <2>4, <2>5 DEF KeepingGroup
<1> QED BY <1>2, <1>3, <1>4, <1>5 DEF Op

\* What a row becomes is what some group with it says.
LEMMA ChangedBy ==
    ASSUME NEW table, NEW groups, NEW i \in Id
    PROVE  IF \E g \in groups : i \in DOMAIN g.after
           THEN \E g \in groups : i \in DOMAIN g.after /\ Changed(table, groups)[i] = g.after[i]
           ELSE Changed(table, groups)[i] = table[i]
<1> DEFINE Has(g) == i \in DOMAIN g.after
           one == CHOOSE g \in groups : Has(g)
<1>1. Changed(table, groups)[i] = IF \E g \in groups : Has(g) THEN one.after[i] ELSE table[i]
  BY DEF Changed
<1>2. (\E g \in groups : Has(g)) => one \in groups /\ Has(one)
  OBVIOUS
<1> HIDE DEF one
<1> QED BY <1>1, <1>2

\* A pair's drive is that of the row it leaves.
LEMMA PairKeepsItsDrive ==
    ASSUME NEW table \in Tables, PairsAreOfOneDrive(table),
           NEW groups \in SUBSET Groups("consolidation", table), NEW g \in groups,
           NEW i \in DOMAIN g.after
    PROVE  LET next == Changed(table, groups)
           IN  \E j \in Stored(next) : next[j].drive = table[i].drive
<1> DEFINE next == Changed(table, groups)
           pairs == PairsOf(table, Repairable(table))
<1>1. \A pair \in pairs : IsPairOf(pair, table, Repairable(table))
  <2>1. Repairable(table) \in SUBSET Id
    BY DEF Repairable, Stored
  <2> QED BY <2>1, PairsAreFound DEF PairsOf, Paired
<1>2. \A p, q \in pairs : p = q \/ p \cap q = {}
  <2>1. Repairable(table) \in SUBSET Id
    BY DEF Repairable, Stored
  <2> QED BY <2>1, PairsAreFound DEF PairsOf, Paired
<1>3. \A h \in groups : \E pair \in pairs : h = PairGroup(table, pair)
  BY DEF Groups, Consolidation
<1> HIDE DEF pairs
<1>4. PICK pair \in pairs : g = PairGroup(table, pair)
  BY <1>3
<1> DEFINE kept == Survivor(table, pair)
<1>5. /\ DOMAIN g.after = pair /\ kept \in pair
      /\ g.after[kept] \in Row /\ g.after[kept].drive = table[kept].drive
  BY <1>1, <1>4, PairIsMerged
<1>6. table[kept].drive = table[i].drive /\ kept \in Id
  <2>1. PICK a \in Repairable(table), b \in Repairable(table) :
            a < b /\ pair = {a, b} /\ IsPair(table[a], table[b])
    BY <1>1, <1>4 DEF IsPairOf
  <2>2. table[a].drive = table[b].drive
    BY <2>1 DEF PairsAreOfOneDrive
  <2> QED BY <1>5, <2>1, <2>2, StoredAreRows
<1> HIDE DEF kept
<1>7. ASSUME NEW h \in groups, kept \in DOMAIN h.after
      PROVE  h = g
  <2>1. PICK q \in pairs : h = PairGroup(table, q)
    BY <1>3
  <2>2. DOMAIN h.after = q
    BY <1>1, <2>1, PairIsMerged
  <2> QED BY <1>2, <1>4, <1>5, <1>7, <2>1, <2>2
<1>8. next[kept] = g.after[kept]
  <2>1. kept \in DOMAIN g.after
    BY <1>5
  <2>2. \E h \in groups : kept \in DOMAIN h.after /\ next[kept] = h.after[kept]
    BY <1>6, <2>1, ChangedBy
  <2> HIDE DEF next
  <2> QED BY <1>7, <2>2
<1> HIDE DEF next
<1>9. kept \in Stored(next)
  <2>1. NoRow \notin Row
    BY TripsAssumption
  <2> QED BY <1>5, <1>6, <1>8, <2>1 DEF Stored
<1> QED BY <1>5, <1>6, <1>8, <1>9 DEF next

LEMMA DrivesAreKept ==
    ASSUME FoldsTell, NEW table \in Tables, FconKeysTell(table),
           NEW op \in Op \ {"replay"}, NEW groups \in SUBSET Groups(op, table)
    PROVE  LET next == Changed(table, groups)
           IN  /\ FconKeysTell(next)
               /\ PairsAreOfOneDrive(table) =>
                     \A i \in Stored(table) : \E j \in Stored(next) : next[j].drive = table[i].drive
<1> DEFINE next == Changed(table, groups)
<1>1. \A i \in Id : IF \E g \in groups : i \in DOMAIN g.after
                    THEN \E g \in groups : i \in DOMAIN g.after /\ next[i] = g.after[i]
                    ELSE next[i] = table[i]
  BY ChangedBy
<1>2. \A g \in groups : /\ \A i \in DOMAIN g.after : g.after[i] # NoRow => KeyTells(g.after[i])
                        /\ op # "consolidation" => KeepingGroup(g, table)
  BY GroupsTell
<1>3. ASSUME PairsAreOfOneDrive(table), NEW i \in Stored(table)
      PROVE  \E j \in Stored(next) : next[j].drive = table[i].drive
  <2>1. CASE \E g \in groups : i \in DOMAIN g.after
    <3>1. CASE op = "consolidation"
      <4>1. PICK g \in groups : i \in DOMAIN g.after
        BY <2>1
      <4>2. groups \in SUBSET Groups("consolidation", table)
        BY <3>1
      <4> QED BY <1>3, <4>1, <4>2, PairKeepsItsDrive
    <3>2. CASE op # "consolidation"
      <4> HIDE DEF next
      <4>1. PICK g \in groups : i \in DOMAIN g.after /\ next[i] = g.after[i]
        BY <1>1, <2>1 DEF Stored
      <4>2. next[i] # NoRow /\ next[i].drive = table[i].drive
        BY <1>2, <3>2, <4>1 DEF KeepingGroup
      <4> QED BY <4>2 DEF Stored
    <3> QED BY <3>1, <3>2
  <2>2. CASE ~\E g \in groups : i \in DOMAIN g.after
    <3> HIDE DEF next
    <3>1. i \in Id /\ next[i] = table[i] /\ table[i] # NoRow
      BY <1>1, <2>2 DEF Stored
    <3> QED BY <3>1 DEF Stored
  <2> QED BY <2>1, <2>2
<1> HIDE DEF next
<1>4. FconKeysTell(next)
  <2>1. ASSUME NEW i \in Stored(next)
        PROVE  KeyTells(next[i])
    <3>1. i \in Id /\ next[i] # NoRow
      BY DEF Stored
    <3> QED BY <1>1, <1>2, <3>1 DEF FconKeysTell, Stored
  <2> QED BY <2>1 DEF FconKeysTell
<1> QED BY <1>3, <1>4 DEF next
\* The rows, those saved, and those a replay may put back.
KeysOK ==
    /\ FconKeysTell(rows)
    /\ \A run \in runs : FconKeysTell(run.saved)
    /\ replay # Null => FconKeysTell(replay.before)

LEMMA PickedTells ==
    ASSUME NEW one, FconKeysTell(one), NEW other, FconKeysTell(other), NEW next,
           \A i \in Id : next[i] \in {one[i], other[i], NoRow}
    PROVE  FconKeysTell(next)
BY DEF FconKeysTell, Stored

LEMMA SavedTells ==
    ASSUME NEW table, FconKeysTell(table), NEW ids
    PROVE  FconKeysTell(Saved(table, ids))
BY DEF FconKeysTell, Stored, Saved

LEMMA SnapshotsTell ==
    ASSUME KeysOK, NEW op, NEW ids, Snapshots(op, ids)
    PROVE  \A run \in runs' : FconKeysTell(run.saved)
BY SavedTells DEF KeysOK, Snapshots

LEMMA SectionTells ==
    ASSUME FoldsTell, rows \in Tables, FconKeysTell(rows), NEW from \in 1 .. Len(Heard) + 1,
           NEW before \in Tables, FconKeysTell(before), NEW only, NEW skipped,
           Section(from, before, only, skipped)
    PROVE  FconKeysTell(rows') /\ (replay' # Null => FconKeysTell(replay'.before))
<1> DEFINE C == Course(from)
           L == Len(Heard)
<1>1. L \in Nat /\ from \in Int /\ 1 <= from /\ from - 1 <= L
  BY HeardIsASequence
<1>2. \A n \in from - 1 .. L : FconKeysTell(C[n])
  BY HistoryRuns DEF Course
<1>3. CASE Stops(from) # {}
  <2> DEFINE stop == Least(Stops(from))
  <2>1. stop \in from .. L
    BY <1>3, StopIsOne
  <2>2. rows' = C[stop] /\ replay' = [next |-> stop + 1, before |-> before, only |-> only]
    BY <1>3 DEF Section
  <2> HIDE DEF stop, C
  <2>3. stop \in from - 1 .. L
    BY <1>1, <2>1
  <2> QED BY <1>2, <2>2, <2>3
<1>4. CASE Stops(from) = {}
  <2> DEFINE after == C[L]
             next == Undone(after, before, only, skipped)
  <2>1. rows' = next /\ replay' = Null
    BY <1>4 DEF Section
  <2>2. FconKeysTell(after)
    <3>1. L \in from - 1 .. L
      BY <1>1
    <3> HIDE DEF C, L
    <3> QED BY <1>2, <3>1
  <2> HIDE DEF after
  <2>3. \A i \in Id : next[i] \in {after[i], before[i], NoRow}
    <3> DEFINE Keeps(i) == i \in Kept(after, before, only, skipped)
               Is(i) == IF ~InWindow(after[i]) THEN after[i]
                        ELSE IF before[i] = NoRow THEN IF Keeps(i) THEN after[i] ELSE NoRow
                        ELSE IF ~Guarded(before[i]) \/ ~Allowed(skipped, <<"trip", i>>, only)
                        THEN before[i] ELSE after[i]
    <3>1. next = [i \in Id |-> Is(i)]
      BY DEF Undone
    <3>2. \A i \in Id : Is(i) \in {after[i], before[i], NoRow}
      OBVIOUS
    <3> HIDE DEF next, Is
    <3> QED BY <3>1, <3>2
  <2> HIDE DEF next
  <2>4. FconKeysTell(next)
    BY <2>2, <2>3, PickedTells
  <2> QED BY <2>1, <2>4
<1> QED BY <1>3, <1>4

LEMMA RecordedTells ==
    ASSUME FoldsTell, rows \in Tables, FconKeysTell(rows), Records
    PROVE  FconKeysTell(rows')
<1>1. ASSUME NEW d \in Meanwhile, Hears(d)
      PROVE  FconKeysTell(rows')
  <2>1. d \in Drive
    BY RepairAssumption
  <2> QED BY <1>1, <2>1, ReportsAreSteps, StepTells
<1>2. ASSUME NEW trip \in Typed, Enters(trip)
      PROVE  FconKeysTell(rows')
  <2> DEFINE new == ManualTrip(trip)
  <2>1. rows' = [rows EXCEPT ![NextId(rows)] = new]
    BY <1>2 DEF Enters, Added
  <2>2. KeyTells(new)
    BY DEF KeyTells, ManualTrip
  <2> HIDE DEF new
  <2> QED BY <2>1, <2>2 DEF FconKeysTell, Stored, Tables
<1>3. ASSUME NEW i \in Id, Deletes(i)
      PROVE  FconKeysTell(rows')
  BY <1>3 DEF Deletes, FconKeysTell, Stored, Tables
<1> QED BY <1>1, <1>2, <1>3 DEF Records, Edits

LEMMA KeysAreKept ==
    ASSUME FoldsTell, RepairTypeOK, KeysOK, [RepairNext]_allVars
    PROVE  KeysOK'
<1>0. rows \in Tables /\ FconKeysTell(rows) /\ \A run \in runs : FconKeysTell(run.saved)
  BY DEF RepairTypeOK, KeysOK
<1>1. ASSUME NEW op \in Op, NEW only \in Requested(op), Applies(op, only)
      PROVE  KeysOK'
  <2> DEFINE groups == Chosen(op, rows, only)
  <2>1. /\ op \in Op \ {"replay"} /\ rows' = Changed(rows, groups) /\ replay' = Null
        /\ Snapshots(op, Affected(groups))
    BY <1>1 DEF Applies, Idle
  <2>2. groups \in SUBSET Groups(op, rows)
    BY DEF Chosen
  <2> HIDE DEF groups
  <2> QED BY <1>0, <2>1, <2>2, DrivesAreKept, SnapshotsTell DEF KeysOK
<1>2. ASSUME NEW only \in Requested("replay"), ReplayBegins(only)
      PROVE  KeysOK'
  <2> DEFINE before == Saved(rows, {i \in Id : InWindow(rows[i])})
             skipped == IF only = All THEN skips["replay"]
                        ELSE skips["replay"] \cup (page.keys \ only)
             saved == {i \in Id : Enrichable(rows[i]) /\ Allowed(skipped, <<"trip", i>>, only)}
  <2>1. Section(1, before, only, skipped) /\ Snapshots("replay", saved)
    BY <1>2 DEF ReplayBegins
  <2>2. before \in Tables /\ FconKeysTell(before) /\ 1 \in 1 .. Len(Heard) + 1
    BY <1>0, SavedIsATable, SavedTells, HeardIsASequence
  <2> HIDE DEF before, skipped, saved
  <2> QED BY <1>0, <2>1, <2>2, SectionTells, SnapshotsTell DEF KeysOK
<1>3. CASE ReplayGoesOn
  <2>1. replay # Null /\ Section(replay.next, replay.before, replay.only, skips["replay"])
        /\ runs' = runs
    BY <1>3 DEF ReplayGoesOn, Idle
  <2>2. replay \in Replaying /\ FconKeysTell(replay.before)
    BY <2>1 DEF RepairTypeOK, KeysOK
  <2>3. replay.next \in 1 .. Len(Heard) + 1 /\ replay.before \in Tables
    BY <2>2 DEF Replaying
  <2> QED BY <1>0, <2>1, <2>2, <2>3, SectionTells DEF KeysOK
<1>4. CASE Records
  BY <1>0, <1>4, RecordedTells DEF Records, repairVars, KeysOK
<1>5. ASSUME NEW run \in runs, Restores(run)
      PROVE  KeysOK'
  <2>1. rows' = Restored(rows, run) /\ UNCHANGED <<runs, replay>>
    BY <1>5 DEF Restores, repairVars
  <2>2. \A i \in Id : rows'[i] \in {rows[i], run.saved[i], NoRow}
    BY <2>1 DEF Restored
  <2> QED BY <1>0, <2>1, <2>2, PickedTells DEF KeysOK
<1>6. ASSUME NEW run \in runs, Purges(run)
      PROVE  KeysOK'
  BY <1>6 DEF Purges, KeysOK, vars
<1>7. ASSUME NEW op \in Op, ClearsSkips(op)
      PROVE  KeysOK'
  BY <1>7 DEF ClearsSkips, KeysOK, vars
<1>8. ASSUME NEW op \in Op, Previews(op)
      PROVE  KeysOK'
  BY <1>8 DEF Previews, KeysOK, vars
<1>9. CASE Crashes
  BY <1>9 DEF Crashes, Restarts, KeysOK
<1>10. CASE UNCHANGED allVars
  BY <1>10 DEF allVars, vars, repairVars, KeysOK
<1> QED BY <1>1, <1>2, <1>3, <1>4, <1>5, <1>6, <1>7, <1>8, <1>9, <1>10 DEF RepairNext, Requests

(***************************************************************************)
(* No operation takes the row of a drive away: a pair leaves the row it    *)
(* keeps, and no row is in two pairs; everything else keeps its rows, the  *)
(* archive's samples theirs by the key.                                    *)
(***************************************************************************)
THEOREM NoOperationTakesADriveAway ==
    ASSUME FoldsTell, \A table \in Legacy : FconKeysTell(table)
    PROVE  RepairSpec /\ []PairsAreOfOneDrive(rows) => DrivesStay
<1>1. RepairInit => KeysOK
  BY RepairAssumption DEF RepairInit, KeysOK
<1>2. RepairTypeOK /\ KeysOK /\ [RepairNext]_allVars => KeysOK'
  BY KeysAreKept
<1>3. RepairTypeOK /\ KeysOK /\ PairsAreOfOneDrive(rows) =>
        (AppliesSome =>
            \A i \in Stored(rows) : \E j \in Stored(rows') : rows'[j].drive = rows[i].drive)
  <2> SUFFICES ASSUME RepairTypeOK, KeysOK, PairsAreOfOneDrive(rows), AppliesSome
               PROVE  \A i \in Stored(rows) : \E j \in Stored(rows') : rows'[j].drive = rows[i].drive
    OBVIOUS
  <2>1. PICK op \in Op : \E only \in Requested(op) : Applies(op, only)
    BY DEF AppliesSome
  <2>2. PICK only \in Requested(op) : Applies(op, only)
    BY <2>1
  <2> DEFINE groups == Chosen(op, rows, only)
  <2>3. op \in Op \ {"replay"} /\ rows' = Changed(rows, groups)
    BY <2>2 DEF Applies
  <2>4. groups \in SUBSET Groups(op, rows)
    BY DEF Chosen
  <2> HIDE DEF groups
  <2>5. rows \in Tables /\ FconKeysTell(rows)
    BY DEF RepairTypeOK, KeysOK
  <2> QED BY <2>3, <2>4, <2>5, DrivesAreKept
<1> QED BY <1>1, <1>2, <1>3, RepairsTypeCorrect, PTL DEF RepairSpec, DrivesStay

===============================================================================
