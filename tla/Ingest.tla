-------------------------------- MODULE Ingest --------------------------------
(***************************************************************************)
(* From an incoming event or sample to the typed tables.                   *)
(*                                                                         *)
(* A Home Assistant runtime handles one event after another (_dispatch in  *)
(* ha_websocket.py): the event is archived in a transaction of its own     *)
(* (raw_archive.py), offered to the gas-price source, and handed to the    *)
(* handler of its slug (handlers.py), which adds it to a batch held in     *)
(* memory; a batch becomes a row when the car reports a refresh or when it *)
(* is overdue.  The FordConnect poller archives a response and, if it is   *)
(* new, parses it in a second transaction (fcon/ingest.py).  Both create   *)
(* the vehicle and fill what the user has left empty (auto_create.py).     *)
(*                                                                         *)
(* An item is a delivered reading or a response, numbered in the order of  *)
(* delivery; a row holds the numbers of its items.  One vehicle.           *)
(***************************************************************************)
EXTENDS Naturals, Sequences

CONSTANTS
    Runtime,        \* Home Assistant runtimes (config ids)
    Event,          \* what Home Assistant may send, again and again
    Slug,           \* the slug of each event's entity
    Known,          \* events whose state is not unknown or unavailable
    Sample,         \* distinct FordConnect responses
    Garage,         \* ... those from the garage endpoint
    Months,         \* calendar months
    MonthOf,        \* the month each event is dated in
    Edited,         \* columns of the vehicle a user edits
    MaxItems,       \* bound on deliveries
    MaxFaults,      \* bound on rollbacks and restarts
    MaxEdits,       \* bound on what the user does
    Snapshot,       \* TRUE: SQLite; FALSE: PostgreSQL
    None

Poller == "poller"
Backfill == "backfill"      \* the user's request to fetch the sensors' history
Task == Runtime \cup {Poller, Backfill}
Item == 1 .. MaxItems

\* Slugs by handler.  A gas sensor's entity has no slug.
BatterySlugs == {"soc", "elveh"}
Slugs == BatterySlugs \cup
         {"odometer", "outsidetemp", "tirepressure", "lastrefresh", "metrics", "gas"}

Batch == {"vehicle", "battery"}
Column == {"vin", "model", "battery"}

\* What a batch holds, who set each column of the vehicle, what a task is doing.
Batches == UNION {[F -> Item] : F \in SUBSET Slugs}
Vehicle == [Column -> {"auto", "user", "empty"}]
Averaging == {"averaging", "months", "refreshing", "further"}
MonthAverages == UNION {[M -> SUBSET Item] : M \in SUBSET Months}
Work == [at : {"gas", "filling", "archive", "slug", "create", "handle", "commit", "insert"}
                  \cup Averaging,
         item : Item, on : BOOLEAN, average : MonthAverages, fills : SUBSET Column,
         adds : SUBSET SUBSET Item]

ASSUME IngestAssumption ==
    /\ Slug \in [Event -> Slugs] /\ Known \subseteq Event /\ MonthOf \in [Event -> Months]
    /\ Event \cap Sample = {} /\ Garage \subseteq Sample /\ {Poller, Backfill} \cap Runtime = {}
    /\ Edited \subseteq Column
    /\ MaxItems \in Nat /\ MaxFaults \in Nat /\ MaxEdits \in Nat /\ Snapshot \in BOOLEAN
    /\ None \notin BOOLEAN \cup Batches \cup Vehicle \cup Work

VARIABLES
    archived,   \* ha_raw_events and fcon_raw_samples
    switch,     \* the app setting raw_archive_enabled
    cache,      \* raw_archive._settings: what was last read of it, or None
    pending,    \* each runtime's batches in memory: the item held for each field
    since,      \* how long each batch has been waiting
    rows,       \* status rows: the sets of items they were made from
    prices,     \* gas-price readings
    month,      \* the readings each month's price is the mean of
    late,       \* history: months a writer has put a mean into that was out of date,
                \* another month having been committed first
    vehicle,    \* who set each column of the vehicle, or None: no vehicle yet
    task,       \* what each task is doing: [at, item, on, average, fills, adds]
    stale,      \* tasks whose transaction another commit has overtaken
    taken,      \* history: the input of each item
    out,        \* history: items superseded in their batch, and items ignored
    faults,     \* history: rollbacks and restarts
    wasOff,     \* history: the archive has been switched off
    edits       \* history: how often the user has done something

archives == <<archived, switch, cache, wasOff>>
batches == <<pending, since>>
tables == <<rows, prices, month, late, vehicle>>
ledger == <<taken, out>>
vars == <<archives, batches, tables, task, stale, ledger, faults, edits>>

NoMonths == [m \in {} |-> {}]

Idle(t) == task[t] = None
At(t, place) == task[t] # None /\ task[t].at = place
InputOf(t) == taken[task[t].item]
Goes(t, place) == task' = [task EXCEPT ![t].at = place]
Rests(t) == task' = [task EXCEPT ![t] = None]

Init ==
    /\ archived = {} /\ switch = TRUE /\ cache = None /\ wasOff = FALSE
    /\ pending = [r \in Runtime |-> [b \in Batch |-> None]]
    /\ since = [r \in Runtime |-> [b \in Batch |-> "unset"]]
    /\ rows = {} /\ prices = {} /\ month = [m \in Months |-> {}] /\ late = {}
    /\ vehicle = None
    /\ task = [t \in Task |-> None] /\ stale = {}
    /\ taken = <<>> /\ out = [superseded |-> {}, ignored |-> {}] /\ faults = 0 /\ edits = 0

-----------------------------------------------------------------------------
(***************************************************************************)
(* Transactions.  A task reads, awaits, and commits; on SQLite it cannot   *)
(* commit a write once another commit has overtaken what it has read.      *)
(***************************************************************************)
Reading(t) ==
    /\ task[t] # None
    /\ task[t].at \in {"filling", "insert", "months", "further", "create", "handle", "commit"}

\* The user does one thing more.
Edits == edits < MaxEdits /\ edits' = edits + 1 /\ stale' = {u \in Task : u \in stale \/ Reading(u)}

Overtakes(t) == stale' = {u \in Task \ {t} : u \in stale \/ Reading(u)}

\* Faulty variant: nothing notices that another commit came in between.
CommitsStale(t) == TRUE

MayCommit(t) == Snapshot => t \notin stale

Faults == faults < MaxFaults /\ faults' = faults + 1

\* An exception, or a commit that SQLite refuses: the transaction is rolled
\* back, what was changed in memory stays changed.
Fails(t) ==
    /\ task[t] # None /\ (t \in Runtime => task[t].at \notin {"filling", "archive"})
    /\ Faults \/ (~MayCommit(t) /\ faults' = faults + 1)
    /\ Rests(t) /\ stale' = stale \ {t}
    /\ UNCHANGED <<archives, batches, tables, ledger, edits>>

\* The process ends and starts again: everything in memory is gone.
Restarts ==
    /\ Faults
    /\ task' = [t \in Task |-> None] /\ stale' = {} /\ cache' = None
    /\ pending' = [r \in Runtime |-> [b \in Batch |-> None]]
    /\ since' = [r \in Runtime |-> [b \in Batch |-> "unset"]]
    /\ UNCHANGED <<archived, switch, wasOff, tables, ledger, edits>>

-----------------------------------------------------------------------------
(***************************************************************************)
(* The archive.                                                            *)
(***************************************************************************)
Takes(t, input, place, on) ==
    /\ Idle(t) /\ Len(taken) < MaxItems
    /\ taken' = Append(taken, input)
    /\ task' = [task EXCEPT ![t] =
          [at |-> place, item |-> Len(taken) + 1, on |-> on, average |-> NoMonths,
           fills |-> {}, adds |-> {}]]
    /\ stale' = stale \ {t}

\* An event arrives, live or in a snapshot.  The setting is the cached one, or
\* is read now and cached after the await.
Receives(r, e) ==
    /\ Takes(r, e,
             IF Slug[e] = "gas" THEN "gas" ELSE IF cache = None THEN "filling" ELSE "archive",
             IF cache = None THEN switch ELSE cache)
    /\ UNCHANGED <<archives, batches, tables, out, faults, edits>>

FillsCache(r) ==
    /\ At(r, "filling") /\ Goes(r, "archive")
    /\ cache' = task[r].on
    /\ UNCHANGED <<archived, switch, wasOff, batches, tables, stale, ledger, faults, edits>>

\* One copy of an entity's update: ON CONFLICT DO NOTHING.
Archives(r) ==
    /\ r \in Runtime /\ At(r, "archive") /\ Goes(r, "slug")
    /\ IF task[r].on
       THEN archived' = archived \cup {InputOf(r)} /\ MayCommit(r) /\ Overtakes(r)
       ELSE archived' = archived /\ stale' = stale \ {r}
    /\ UNCHANGED <<switch, cache, wasOff, batches, tables, ledger, faults, edits>>

\* The archive's faults never reach the typed tables.
ArchiveFails(r) ==
    /\ r \in Runtime /\ (At(r, "filling") \/ At(r, "archive"))
    /\ Faults \/ (~MayCommit(r) /\ faults' = faults + 1)
    /\ Goes(r, "slug") /\ stale' = stale \ {r}
    /\ UNCHANGED <<archives, batches, tables, ledger, edits>>

\* The user's switch: the setting is committed, then the cache is dropped.
Switches(on) ==
    /\ Edits /\ on # switch
    /\ switch' = on /\ cache' = None /\ wasOff' = (wasOff \/ ~on)
    /\ UNCHANGED <<archived, batches, tables, task, ledger, faults>>

-----------------------------------------------------------------------------
(***************************************************************************)
(* Gas prices: a reading is committed, then the mean of every month is read*)
(* and the months are written one by one, with a commit after each.        *)
(***************************************************************************)
Ignores(t) == out' = [out EXCEPT !.ignored = @ \cup {task[t].item}]

StoresPrice(r) ==
    /\ r \in Runtime /\ At(r, "gas") /\ InputOf(r) \in Known /\ Goes(r, "averaging")
    /\ prices' = prices \cup {task[r].item} /\ Overtakes(r)
    /\ UNCHANGED <<archives, batches, rows, month, late, vehicle, ledger, faults, edits>>

IgnoresPrice(r) ==
    /\ At(r, "gas") /\ Rests(r) /\ Ignores(r)
    /\ \/ InputOf(r) \notin Known
       \/ r = Backfill /\ \E i \in prices : taken[i] = InputOf(r)
    /\ UNCHANGED <<archives, batches, tables, stale, taken, faults, edits>>

\* A backfill only adds a reading that is not there (no unique constraint).
FetchesPrice(e) ==
    /\ Slug[e] = "gas" /\ Takes(Backfill, e, "gas", TRUE)
    /\ UNCHANGED <<archives, batches, tables, out, faults, edits>>

LooksForPrice ==
    /\ At(Backfill, "gas") /\ InputOf(Backfill) \in Known
    /\ \A i \in prices : taken[i] # InputOf(Backfill)
    /\ Goes(Backfill, "insert") /\ stale' = stale \ {Backfill}
    /\ UNCHANGED <<archives, batches, tables, ledger, faults, edits>>

BackfillsPrice ==
    /\ At(Backfill, "insert") /\ MayCommit(Backfill) /\ Goes(Backfill, "averaging")
    /\ prices' = prices \cup {task[Backfill].item} /\ Overtakes(Backfill)
    /\ UNCHANGED <<archives, batches, rows, month, late, vehicle, ledger, faults, edits>>

PricesOf(m) == {i \in prices : MonthOf[taken[i]] = m}

\* compute_monthly_averages: the months that have a reading.
Averages(r) ==
    /\ At(r, "averaging")
    /\ task' = [task EXCEPT ![r].at = "months",
          ![r].average = [m \in {n \in Months : PricesOf(n) # {}} |-> PricesOf(m)]]
    /\ stale' = stale \ {r}
    /\ UNCHANGED <<archives, batches, tables, ledger, faults, edits>>

\* upsert_gas_price of one month.  Only the first is written in the transaction that
\* has read the means.
Upserts(r) ==
    /\ At(r, "months") \/ At(r, "further")
    /\ MayCommit(r)
    /\ \E m \in DOMAIN task[r].average :
          LET mean == task[r].average[m]
          IN  /\ month' = [month EXCEPT ![m] = mean]
              /\ late' = IF At(r, "further") /\ mean # PricesOf(m) THEN late \cup {m}
                         ELSE late \ {m}
              /\ task' = [task EXCEPT ![r].at = "refreshing",
                    ![r].average = [n \in DOMAIN task[r].average \ {m} |-> task[r].average[n]]]
    /\ Overtakes(r)
    /\ UNCHANGED <<archives, batches, rows, prices, vehicle, ledger, faults, edits>>

\* The row is read back, which begins the transaction of the next month.
Refreshes(r) ==
    /\ At(r, "refreshing") /\ stale' = stale \ {r}
    /\ IF DOMAIN task[r].average = {} THEN Rests(r) ELSE Goes(r, "further")
    /\ UNCHANGED <<archives, batches, tables, ledger, faults, edits>>

-----------------------------------------------------------------------------
(***************************************************************************)
(* The vehicle.                                                            *)
(***************************************************************************)
\* What an input says of the vehicle; telemetry's capacity identifies a battery
\* once the model is known (fill_battery).
Facts(t) ==
    CASE InputOf(t) \in Garage -> {"vin", "model"}
      [] InputOf(t) \in Sample \ Garage /\ vehicle # None /\ vehicle["model"] # "empty" ->
             {"vin", "battery"}
      [] OTHER -> {"vin"}

\* Faulty variant: what the column holds is not looked at.
AllColumns == Column

EmptyColumns == {c \in Column : vehicle[c] = "empty"}

\* ensure_vehicle: looks the vehicle up, and decides what to fill.
Sees(t) ==
    /\ At(t, "slug")
    /\ task' = [task EXCEPT
          ![t].at = IF vehicle = None THEN "create" ELSE "handle",
          ![t].fills = IF vehicle = None THEN Facts(t) ELSE Facts(t) \cap EmptyColumns]
    /\ stale' = stale \ {t}
    /\ UNCHANGED <<archives, batches, tables, ledger, faults, edits>>

\* The new vehicle is also made the active one, which commits; unless another
\* writer has created it first, when the insert is rolled back.
Creates(t) ==
    /\ At(t, "create") /\ MayCommit(t)
    /\ task' = [task EXCEPT ![t].at = "handle", ![t].fills = {}]
    /\ IF vehicle = None
       THEN /\ vehicle' = [c \in Column |-> IF c \in task[t].fills THEN "auto" ELSE "empty"]
            /\ Overtakes(t)
       ELSE vehicle' = vehicle /\ stale' = stale \ {t}
    /\ UNCHANGED <<archives, batches, rows, prices, month, late, ledger, faults, edits>>

\* The user sets or clears a column in the vehicle's form.
EditsVehicle(c, by) ==
    /\ Edits /\ vehicle # None /\ vehicle[c] # by
    /\ vehicle' = [vehicle EXCEPT ![c] = by]
    /\ UNCHANGED <<archives, batches, rows, prices, month, late, task, ledger, faults>>

-----------------------------------------------------------------------------
(***************************************************************************)
(* The handlers.  A batch is the item held for each field.                 *)
(***************************************************************************)
EmptyBatch == [f \in {} |-> None]

Held(r, b) == IF pending[r][b] = None THEN EmptyBatch ELSE pending[r][b]

Items(batch) == {batch[f] : f \in DOMAIN batch}

Put(batch, f, i) ==
    [g \in DOMAIN batch \cup {f} |-> IF g = f THEN i ELSE batch[g]]

\* A later reading of a field replaces the one held.
Superseding(batch, f) ==
    out' = [out EXCEPT !.superseded = @ \cup {batch[g] : g \in DOMAIN batch \cap {f}}]

\* Adds to batch b, and pops it for a row if it has waited too long.  A handler
\* that does not look at the clock leaves it for the next one.
Accumulates(r, b, batch, looks) ==
    LET pops == looks /\ since[r][b] = "overdue"
    IN  /\ pending' = [pending EXCEPT ![r][b] = IF pops THEN None ELSE batch]
        /\ since' = [since EXCEPT ![r][b] =
              IF pops THEN "unset" ELSE IF @ = "unset" THEN "recent" ELSE @]
        /\ task' = [task EXCEPT ![r].at = "commit",
                                ![r].adds = IF pops THEN {Items(batch)} ELSE {}]

\* A reading of one field.  An unknown state is skipped, except that the state
\* of charge is then recorded as unknown.
HandlesReading(r, b, f) ==
    LET batch == Held(r, b)
        keeps == InputOf(r) \in Known \/ f \in {"soc", "tirepressure"}
    IN  /\ Accumulates(r, b, IF keeps THEN Put(batch, f, task[r].item) ELSE batch,
                       f # "tirepressure")
        /\ IF keeps THEN Superseding(batch, f) ELSE Ignores(r)

\* Faulty variant: the battery's batch is popped, and not written.
RefreshForgetsBattery(r) ==
    /\ task' = [task EXCEPT ![r].at = "commit", ![r].adds = {Items(Held(r, "vehicle"))}]
    /\ pending' = [pending EXCEPT ![r] = [b \in Batch |-> None]]
    /\ since' = [since EXCEPT ![r] = [b \in Batch |-> "unset"]]
    /\ Ignores(r)

\* The car reports a refresh: both batches become rows, the vehicle's in any case.
HandlesRefresh(r) ==
    /\ task' = [task EXCEPT ![r].at = "commit",
          ![r].adds = {Items(Held(r, "vehicle"))} \cup
                      {Items(pending[r][b]) : b \in {c \in {"battery"} : pending[r][c] # None}}]
    /\ pending' = [pending EXCEPT ![r] = [b \in Batch |-> None]]
    /\ since' = [since EXCEPT ![r] = [b \in Batch |-> "unset"]]
    /\ Ignores(r)

\* The metrics entity's values are a row of their own.
HandlesMetrics(r) ==
    /\ task' = [task EXCEPT ![r].at = "commit",
          ![r].adds = IF InputOf(r) \in Known THEN {{task[r].item}} ELSE {}]
    /\ IF InputOf(r) \in Known THEN out' = out ELSE Ignores(r)
    /\ UNCHANGED batches

Handles(r) ==
    /\ r \in Runtime /\ At(r, "handle")
    /\ LET slug == Slug[InputOf(r)]
       IN  \/ slug = "lastrefresh" /\ HandlesRefresh(r)
           \/ slug = "metrics" /\ HandlesMetrics(r)
           \/ slug \in BatterySlugs /\ HandlesReading(r, "battery", slug)
           \/ slug \in {"odometer", "outsidetemp", "tirepressure"} /\
                 HandlesReading(r, "vehicle", slug)
    /\ UNCHANGED <<archives, tables, stale, taken, faults, edits>>

\* More than _FLUSH_TIMEOUT passes.
Waits ==
    /\ \E r \in Runtime : "recent" \in {since[r][b] : b \in Batch}
    /\ since' = [r \in Runtime |-> [b \in Batch |->
          IF since[r][b] = "recent" THEN "overdue" ELSE since[r][b]]]
    /\ UNCHANGED <<archives, pending, tables, task, stale, ledger, faults, edits>>

\* The end of a transaction.
Commits(t) ==
    /\ At(t, "commit") /\ Rests(t)
    /\ rows' = rows \cup task[t].adds
    /\ vehicle' = IF task[t].fills = {} THEN vehicle
                  ELSE [c \in Column |-> IF c \in task[t].fills THEN "auto" ELSE vehicle[c]]
    /\ IF task[t].adds = {} /\ task[t].fills = {} THEN stale' = stale \ {t}
       ELSE MayCommit(t) /\ Overtakes(t)
    /\ UNCHANGED <<archives, batches, prices, month, late, ledger, faults, edits>>

-----------------------------------------------------------------------------
(***************************************************************************)
(* FordConnect's responses.                                                *)
(***************************************************************************)
Fetches(s) ==
    /\ Takes(Poller, s, "archive", TRUE)
    /\ UNCHANGED <<archives, batches, tables, out, faults, edits>>

\* Faulty variant: parsed first, in the same transaction.
ArchivesWithParsing ==
    /\ At(Poller, "archive") /\ Goes(Poller, "slug")
    /\ UNCHANGED <<archives, batches, tables, stale, ledger, faults, edits>>

\* A response seen before only has its last_seen_at moved.
ArchivesSample ==
    /\ At(Poller, "archive")
    /\ archived' = archived \cup {InputOf(Poller)} /\ Overtakes(Poller)
    /\ IF InputOf(Poller) \in archived
       THEN Rests(Poller) /\ Ignores(Poller)
       ELSE Goes(Poller, "slug") /\ out' = out
    /\ UNCHANGED <<switch, cache, wasOff, batches, tables, taken, faults, edits>>

\* Telemetry's rows, keyed by the time it was measured; a garage has none.
Parses ==
    /\ At(Poller, "handle")
    /\ IF InputOf(Poller) \in Garage
       THEN Ignores(Poller) /\ Goes(Poller, "commit")
       ELSE /\ task' = [task EXCEPT ![Poller].at = "commit",
                                    ![Poller].adds = {{task[Poller].item}}]
            /\ out' = out
    /\ UNCHANGED <<archives, batches, tables, stale, taken, faults, edits>>

-----------------------------------------------------------------------------
Next ==
    \/ \E r \in Runtime :
          \/ \E e \in Event : Receives(r, e)
          \/ FillsCache(r) \/ Archives(r) \/ ArchiveFails(r)
          \/ StoresPrice(r) \/ Handles(r)
    \/ \E e \in Event : FetchesPrice(e)
    \/ LooksForPrice \/ BackfillsPrice
    \/ \E t \in Task : IgnoresPrice(t) \/ Averages(t) \/ Upserts(t) \/ Refreshes(t)
    \/ \E s \in Sample : Fetches(s)
    \/ ArchivesSample \/ Parses
    \/ \E t \in Task : Sees(t) \/ Creates(t) \/ Commits(t) \/ Fails(t)
    \/ \E on \in BOOLEAN : Switches(on)
    \/ \E c \in Edited, by \in {"user", "empty"} : EditsVehicle(c, by)
    \/ Waits \/ Restarts

Spec == Init /\ [][Next]_vars

-----------------------------------------------------------------------------
(***************************************************************************)
(* Properties.                                                             *)
(***************************************************************************)
Waiting ==
    (UNION {Items(Held(r, b)) : r \in Runtime, b \in Batch}) \cup
    (UNION {{task[t].item} \cup UNION task[t].adds : t \in {u \in Task : ~Idle(u)}})

\* What has become of each item, the first that applies; one of two rows is none of
\* Delivery's.
Statuses ==
    LET waiting == Waiting
        inRows  == UNION rows
        twice(i) == \E row, other \in rows : row # other /\ i \in row \cap other
    IN  [i \in Item |->
            IF i > Len(taken) THEN "new"
            ELSE IF i \in inRows THEN (IF twice(i) THEN "twice" ELSE "stored")
            ELSE IF i \in prices THEN "stored"
            ELSE IF i \in out.superseded THEN "superseded"
            ELSE IF i \in out.ignored THEN "ignored"
            ELSE IF i \in waiting THEN "taken" ELSE "lost"]

\* The pipeline keeps what Delivery promises: whatever a refresh, a timeout, a
\* rollback or a restart does to the batches, each reading and each response
\* ends in one row, unless a later one of its field took its place in the batch
\* or a transaction failed (_flush_vehicle_status, _flush_battery_status,
\* _dispatch, store_sample).
Ledger == INSTANCE Delivery WITH status <- Statuses
Delivered == Ledger!Spec

\* What has reached a table can be derived again: while the archive is on and
\* its own writes succeed, every stored item's input is in it; a FordConnect
\* response is in it whatever fails, as it is committed before it is parsed
\* (_dispatch's first branch, store_sample).
StoredIsArchived ==
    \A i \in UNION rows :
        taken[i] \in Sample \/ (faults = 0 /\ ~wasOff) => taken[i] \in archived

\* A column the user has set is never replaced by what a source says, even when
\* the user sets it between the look and the commit (fill_vehicle,
\* ensure_vehicle).  The user's own edits are the other steps.
UserColumnsStay ==
    [][(\A c \in Edited, by \in {"user", "empty"} : ~EditsVehicle(c, by)) =>
          \A c \in Column : vehicle # None /\ vehicle[c] = "user" => vehicle'[c] = "user"]_vehicle

\* Unless something failed, a month's price is the mean of all its readings whenever no
\* writer is on its way to update it, except where a writer of several months had
\* committed one of them before the reading came (handle_gas_sensor_event,
\* _refresh_gas_monthly_history, upsert_gas_price).
MonthIsCurrent ==
    faults = 0 /\ (\A t \in Task : task[t] # None => task[t].at \notin Averaging) =>
        \A m \in Months \ late : month[m] = PricesOf(m)
=============================================================================
