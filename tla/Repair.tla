-------------------------------- MODULE Repair --------------------------------
(***************************************************************************)
(* The data repairs (web/services/repair), over the trip table of Trips:   *)
(* an operation detects groups of rows, shows them on a page, and when the *)
(* user applies the page changes the ticked groups, after saving their     *)
(* rows to a snapshot; the others are skipped from then on.  A snapshot is *)
(* restored or purged.  Trips are recorded meanwhile.                      *)
(*                                                                         *)
(* Four operations are one transaction.  A replay drives archived states   *)
(* through the handlers of Trips, and a handler of the elveh entity        *)
(* commits when it adds a trip: it takes as many transactions as that, and *)
(* may end between them.  Meanwhile only rows that it does not hold change *)
(* here (its session does not look at those again).                        *)
(***************************************************************************)
EXTENDS TelemetryDerive, Sequences

CONSTANTS
    Legacy,     \* the tables that bugs of the past have left
    Heard,      \* the archived states, oldest first: [kind, drive]
    Since,      \* the time of the first of them: the window
    Meanwhile,  \* the drives that are reported meanwhile
    Samples,    \* the drives FordConnect's archive holds samples of, in order
    MaxSteps,   \* bound on the requests and reports that change something
    MaxNew,     \* bound on the rows one operation adds
    All         \* no page: the whole operation

Op == {"consolidation", "conversion", "reparse", "derive", "replay"}

Tables == [Id -> Row \cup {NoRow}]

\* The keys of the groups a replay shows.
ReplayKey == ({"trip"} \X Id) \cup ({"new"} \X Nat \X Number)

ASSUME RepairAssumption ==
    /\ Legacy \subseteq Tables /\ Meanwhile \subseteq Drive
    /\ Samples \in Seq(Drive) /\ \A n \in DOMAIN Samples : Fold[Samples[n]] # Null
    /\ Heard \in Seq([kind : {"events", "elveh", "metrics"}, drive : Drive])
    /\ \A n \in DOMAIN Heard : LET d == Heard[n].drive IN
          /\ Heard[n].kind = "events" => Events[d] # Null
          /\ Heard[n].kind = "elveh" => Elveh[d] # Null
          /\ Heard[n].kind = "metrics" => Metrics[d] # Null
    /\ Since \in Int /\ MaxSteps \in Nat /\ MaxNew \in Nat
    /\ Null \notin [next : Nat, before : Tables, only : {All} \cup SUBSET ReplayKey]

VARIABLES
    page,       \* the preview shown: [op, keys], or Null
    skips,      \* data_repair_skips
    runs,       \* data_repair_backups: [op, saved]
    replay,     \* the replay under way, or Null: [next, before, only]
    left        \* how many of MaxSteps are left

repairVars == <<page, skips, runs, replay>>
allVars == <<vars, repairVars, left>>

\* A group: its key, and what its rows become.
Group(key, after) == [key |-> key, after |-> after]

Single(i, key, row) == Group(key, [j \in {i} |-> row])

-----------------------------------------------------------------------------
(***************************************************************************)
(* The operations that are one transaction: their groups.                  *)
(***************************************************************************)
Repairable(table) == {i \in Stored(table) : table[i].src = "ha"}    \* mutable_only

\* Faulty variant: start, duration and energy are not compared.
IsPairByEnd(a, b) ==
    /\ Null \notin {a.distance, b.distance}
    /\ EndsAgree(a, b) /\ Twins(a.distance, b.distance)

IsPair(a, b) ==
    /\ Null \notin {a.distance, b.distance}
    /\ EndsAgree(a, b) /\ Twins(a.distance, b.distance) /\ IsUnitTwin(a, b)

\* find_unit_duplicate_pairs: each row takes the first that is still free.
PairsBut(table, ids, excluded) ==
    LET Found[n \in {0} \cup Id] ==
            IF n = 0 THEN {}
            ELSE LET before == Found[n - 1]
                     free   == ids \ UNION before
                     with   == {j \in free : /\ n < j /\ IsPair(table[n], table[j])
                                             /\ {n, j} \notin excluded}
                 IN  IF n \notin free \/ with = {} THEN before
                     ELSE before \cup {{n, Least(with)}}
    IN  Found[Cardinality(Id)]

PairsOf(table, ids) == PairsBut(table, ids, {})

\* merge_pair: everything but the distance and the efficiency.
MergedPair(row, other) ==
    LET larger(a, b) == IF a = Null \/ b = Null THEN Fill(a, b) ELSE IF a < b THEN b ELSE a
    IN  [row EXCEPT !.temp = Fill(@, other.temp), !.regen = Fill(@, other.regen),
                    !.energy = larger(@, other.energy), !.duration = larger(@, other.duration),
                    !.start = Fill(@, other.start), !.odoStart = Fill(@, other.odoStart),
                    !.odoEnd = Fill(@, other.odoEnd), !.by = @ \cup other.by]

Survivor(table, pair) ==
    CHOOSE i \in pair : \A j \in pair \ {i} :
        table[i].distance < table[j].distance \/ (table[i].distance = table[j].distance /\ i < j)

PairGroup(table, pair) ==
    LET kept == Survivor(table, pair)
        lost == CHOOSE i \in pair : i # kept
    IN  Group(<<"pair", pair>>,
              [i \in pair |-> IF i = kept THEN MergedPair(table[kept], table[lost]) ELSE NoRow])

Consolidation(table) == {PairGroup(table, pair) : pair \in PairsOf(table, Repairable(table))}

\* The distance is 1.609 times what the odometer says.
ConvertedTwice(row) ==
    /\ Null \notin {row.distance, row.odoStart, row.odoEnd}
    /\ LET delta == row.odoEnd - row.odoStart
       IN  delta >= 50 /\ 155 * delta <= 100 * row.distance /\ 100 * row.distance <= 167 * delta

\* _fixed_values
Reconverted(row) ==
    LET fixed == [row EXCEPT !.distance = (1000 * @) \div 1609]
    IN  [fixed EXCEPT !.eff = Ratio(fixed)]

Conversion(table) ==
    {Single(i, <<"trip", i>>, Reconverted(table[i])) :
        i \in {j \in Repairable(table) : ConvertedTwice(table[j])}}

\* The key names the columns, so that new evidence brings back a skipped trip.
Derivation(table) ==
    {Single(i, <<"trip", i, {col \in Column : Derived(table[i])[col] # table[i][col]}>>,
            Derived(table[i])) :
        i \in {j \in Repairable(table) : Derived(table[j]) # table[j]}}

\* FconArchiveReparse._replay, and the rows it has changed or added.
Reparsed(table) ==
    LET After[n \in 0 .. Len(Samples)] ==
            IF n = 0 THEN table ELSE AfterFcon(After[n - 1], Samples[n], Fold[Samples[n]])
    IN  After[Len(Samples)]

\* What a handler's session has changed or added.
ChangeLog(table, after) == {i \in Id : after[i] # table[i]}

Reparse(table) ==
    LET after == Reparsed(table)
    IN  {Single(i, IF table[i] = NoRow THEN <<"new", after[i].start>> ELSE <<"trip", i>>, after[i]) :
            i \in ChangeLog(table, after)}

Groups(op, table) ==
    CASE op = "consolidation" -> Consolidation(table)
      [] op = "conversion"    -> Conversion(table)
      [] op = "derive"        -> Derivation(table)
      [] op = "reparse"       -> Reparse(table)

\* Selection: never a skipped one, and only a ticked one if there is a page.
Allowed(skipped, key, only) == key \notin skipped /\ (only = All \/ key \in only)

Chosen(op, table, only) == {g \in Groups(op, table) : Allowed(skips[op], g.key, only)}

Changed(table, groups) ==
    [i \in Id |->
        IF \E g \in groups : i \in DOMAIN g.after
        THEN (CHOOSE g \in groups : i \in DOMAIN g.after).after[i] ELSE table[i]]

\* Faulty variant: the rows that stay.
AffectedKept(groups) ==
    {i \in Stored(rows) : \E g \in groups : i \in DOMAIN g.after /\ g.after[i] # NoRow}

\* affected_rows
Affected(groups) == {i \in Stored(rows) : \E g \in groups : i \in DOMAIN g.after}

Saved(table, ids) == [i \in Id |-> IF i \in ids THEN table[i] ELSE NoRow]

\* snapshot_rows, unless there is nothing to save.
Snapshots(op, ids) ==
    runs' = IF ids = {} THEN runs ELSE runs \cup {[op |-> op, saved |-> Saved(rows, ids)]}

-----------------------------------------------------------------------------
(***************************************************************************)
(* The replay (recorder_replay.py, archive_replay.py).                     *)
(***************************************************************************)
InWindow(row) == row # NoRow /\ row.end >= Since

Guarded(row) == row.src \in {"ha", "fcon"}

\* _census_filters: what lacks something a replay might fill.
Enrichable(row) ==
    /\ InWindow(row) /\ Guarded(row)
    /\ Null \in {row.duration, row.start, row.odoStart, row.odoEnd, row.regen, row.temp}

\* The elveh state a replay skips: the one before it said the same.
IsRepeated(n) ==
    \E m \in 1 .. n - 1 :
        /\ Heard[m].kind = "elveh" /\ Elveh[Heard[m].drive] = Elveh[Heard[n].drive]
        /\ \A k \in m + 1 .. n - 1 : Heard[k].kind # "elveh"

\* One archived state, through its handler.
Replayed(table, n) ==
    LET d == Heard[n].drive
    IN  CASE Heard[n].kind = "events"  -> AfterEvents(table, d, Events[d])
          [] Heard[n].kind = "metrics" -> AfterMetrics(table, Metrics[d])
          [] Heard[n].kind = "elveh"   ->
                 IF IsRepeated(n) THEN table ELSE AfterElveh(table, d, Elveh[d])

\* The handler commits: it has added a trip.
Commits(table, n) ==
    Heard[n].kind = "elveh" /\ Stored(Replayed(table, n)) # Stored(table)

\* The tables after each state from the next one on.
Course(from) ==
    LET Table[n \in from - 1 .. Len(Heard)] ==
            IF n = from - 1 THEN rows ELSE Replayed(Table[n - 1], n)
    IN  Table

Stops(from) ==
    {n \in from .. Len(Heard) : Commits(Course(from)[n - 1], n)}

\* Recovered trips that are kept: ticked, and not a drive that was there, or
\* that a recovered trip before it records.
Kept(after, before, only, skipped) ==
    LET was == {i \in Id : before[i] # NoRow /\ after[i] # NoRow}
        new == {i \in Id : before[i] = NoRow /\ InWindow(after[i])}
        Set[n \in {0} \cup Id] ==
            IF n = 0 THEN {}
            ELSE LET kept == Set[n - 1] IN
                 IF /\ n \in new /\ Allowed(skipped, <<"new", after[n].end, after[n].distance>>, only)
                    /\ \A i \in was : ~IsSameDrive(after[n], before[i])
                    /\ \A i \in kept : ~IsSameDrive(after[n], after[i])
                 THEN kept \cup {n} ELSE kept
    IN  Set[Cardinality(Id)]

\* Faulty variant: what the handlers did stays.
KeepsAll(after, before, only, skipped) == after

\* What _replay undoes: changes of rows that are not the operation's, or not
\* ticked, and recovered trips that are not to be kept.
Undone(after, before, only, skipped) ==
    [i \in Id |->
        IF ~InWindow(after[i]) THEN after[i]
        ELSE IF before[i] = NoRow
        THEN IF i \in Kept(after, before, only, skipped) THEN after[i] ELSE NoRow
        ELSE IF ~Guarded(before[i]) \/ ~Allowed(skipped, <<"trip", i>>, only) THEN before[i]
        ELSE after[i]]

ReplayKeys(table, skipped) ==
    LET Table[n \in 0 .. Len(Heard)] ==
            IF n = 0 THEN table ELSE Replayed(Table[n - 1], n)
        before == Saved(table, {i \in Id : InWindow(table[i])})
        after  == Undone(Table[Len(Heard)], before, All, skipped)
    IN  {IF before[i] = NoRow THEN <<"new", after[i].end, after[i].distance>> ELSE <<"trip", i>> :
            i \in {j \in Id : InWindow(after[j]) /\ after[j] # before[j]}}

\* The page of an operation's groups.
Page(op, table, skipped) ==
    [op |-> op, keys |-> IF op = "replay" THEN ReplayKeys(table, skipped)
                         ELSE {g.key : g \in Groups(op, table)} \ skipped]

\* From state `from` to the next commit, or to the end.
Section(from, before, only, skipped) ==
    IF Stops(from) # {}
    THEN /\ rows' = Course(from)[Least(Stops(from))]
         /\ replay' = [next |-> Least(Stops(from)) + 1, before |-> before, only |-> only]
         /\ page' = Null
    ELSE /\ rows' = Undone(Course(from)[Len(Heard)], before, only, skipped)
         /\ replay' = Null
         /\ page' = IF only = All THEN Null ELSE Page("replay", rows', skipped)

-----------------------------------------------------------------------------
(***************************************************************************)
(* The requests of the repair tab.                                         *)
(***************************************************************************)
RepairInit ==
    /\ rows \in Legacy /\ latch = Null /\ reported = {} /\ gone = {}
    /\ page = Null /\ replay = Null
    /\ skips = [op \in Op |-> {}] /\ runs = {} /\ left = MaxSteps

Idle == replay = Null           \* bound: one repair at a time

Fits == NextId(rows) + MaxNew <= Cardinality(Id) + 1

Previews(op) ==
    /\ Idle /\ Fits
    /\ page' = Page(op, rows, skips[op])
    /\ UNCHANGED <<vars, skips, runs, replay>>

\* What is applied: the ticked groups of the page, or with no page everything.
\* What is not ticked is skipped from now on.
Ticks(op, only) ==
    IF only = All THEN UNCHANGED skips
    ELSE skips' = [skips EXCEPT ![op] = @ \cup (page.keys \ only)]

Requested(op) ==
    IF page = Null \/ page.op # op THEN {All} ELSE {All} \cup SUBSET page.keys

\* data_repair_apply and RepairOperation.apply; the groups are detected anew.
Applies(op, only) ==
    LET groups == Chosen(op, rows, only)
    IN  /\ op # "replay" /\ Idle /\ Fits
        /\ only \in Requested(op)
        /\ UNCHANGED <<latch, reported, gone, replay>>
        /\ Ticks(op, only)
        /\ Snapshots(op, Affected(groups))
        /\ rows' = Changed(rows, groups)
        /\ page' = IF only = All THEN Null ELSE Page(op, rows', skips'[op])

\* The rows its census names are saved; nothing happens if none is ticked.
ReplayBegins(only) ==
    LET skipped == IF only = All THEN skips["replay"] ELSE skips["replay"] \cup (page.keys \ only)
    IN  /\ Idle /\ Fits
        /\ only \in Requested("replay") \ {{}}
        /\ UNCHANGED <<latch, reported, gone>>
        /\ Ticks("replay", only)
        /\ Section(1, Saved(rows, {i \in Id : InWindow(rows[i])}), only, skipped)
        /\ Snapshots("replay", {i \in Id : Enrichable(rows[i]) /\ Allowed(skipped, <<"trip", i>>, only)})

ReplayGoesOn ==
    /\ ~Idle
    /\ Section(replay.next, replay.before, replay.only, skips["replay"])
    /\ UNCHANGED <<latch, reported, gone, skips, runs>>

ClearsSkips(op) ==
    /\ Idle /\ skips[op] # {}
    /\ skips' = [skips EXCEPT ![op] = {}]
    /\ UNCHANGED <<vars, page, runs, replay>>

\* restore_run: row by row by primary key; refused if a trip_id is taken.
Restored(table, run) == [i \in Id |-> IF run.saved[i] = NoRow THEN table[i] ELSE run.saved[i]]

KeysAreUnique(table) ==
    \A i, j \in Stored(table) : table[i].key = table[j].key /\ table[i].key # Null => i = j

Restores(run) ==
    /\ Idle /\ run \in runs /\ KeysAreUnique(Restored(rows, run))
    /\ rows' = Restored(rows, run)
    /\ UNCHANGED <<latch, reported, gone, repairVars>>

Purges(run) ==
    /\ Idle /\ run \in runs
    /\ runs' = runs \ {run}
    /\ UNCHANGED <<vars, page, skips, replay>>

\* The rows a replay under way has loaded.
Held == IF Idle THEN {} ELSE Stored(replay.before)

\* Trips are recorded, entered and deleted; not those a replay holds.
Records ==
    /\ (\E d \in Meanwhile : Hears(d)) \/ Edits
    /\ \A i \in Held : rows'[i] = rows[i]
    /\ UNCHANGED repairVars

\* A restart ends a replay between its transactions.
Crashes == Restarts /\ replay' = Null /\ UNCHANGED <<page, skips, runs>>

Requests ==
    \/ \E op \in Op :
          \/ ClearsSkips(op)
          \/ \E only \in Requested(op) : Applies(op, only)
    \/ \E only \in Requested("replay") : ReplayBegins(only)
    \/ \E run \in runs : Restores(run) \/ Purges(run)

RepairNext ==
    \/ left > 0 /\ left' = left - 1 /\ (Requests \/ Records)
    \/ ReplayGoesOn /\ UNCHANGED left
    \/ \E op \in Op : Previews(op) /\ UNCHANGED left
    \/ Crashes /\ UNCHANGED left

RepairSpec == RepairInit /\ [][RepairNext]_allVars

-----------------------------------------------------------------------------
(***************************************************************************)
(* Properties.                                                             *)
(***************************************************************************)
AppliesSome == rows' # rows /\ \E op \in Op : \E only \in Requested(op) : Applies(op, only)

\* An operation of one transaction can be taken back: whatever row it changes or
\* deletes is in the snapshot of its run as it was ("Before an operation
\* changes existing rows, it saves them to a snapshot", data-repair.md).  A
\* replay also changes rows its census does not name.
Restorable ==
    [][AppliesSome =>
          \A i \in Stored(rows) : rows'[i] # rows[i] =>
              \E run \in runs' : run.saved[i] = rows[i]]_allVars

\* No such operation takes the row of a drive away: what it merges are records
\* of one drive, also when a page is applied to a table that has changed since
\* it was shown.
DrivesStay ==
    [][AppliesSome =>
          \A i \in Stored(rows) : \E j \in Stored(rows') : rows'[j].drive = rows[i].drive]_allVars

\* A trip the user entered is after an operation what it was before it, though
\* a replay's handlers may have written it in between ("Trips you entered
\* manually or imported ... are never changed", data-repair.md).
ManualIsPutBack ==
    [][LET was     == IF Idle THEN rows ELSE replay.before
           changed == {i \in Id : InWindow(was[i]) /\ was[i].src = "manual" /\ rows'[i] # was[i]}
       IN  replay' = Null /\ changed # {} =>
              ~(AppliesSome \/ ReplayGoesOn \/ \E only \in Requested("replay") : ReplayBegins(only))]_allVars

\* A repair run twice changes nothing the second time: what a conversion or a
\* derivation has made of a row is no candidate any more ("you can re-run them
\* at any time", data-repair.md).
Converges ==
    \A op \in {"conversion", "derive"} :
        Groups(op, Changed(rows, Groups(op, rows))) = {}

=============================================================================
