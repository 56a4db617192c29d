# LightningROD: models, checks and proofs

LightningROD is a FastAPI application that records what an electric Ford does:
it ingests events from Home Assistant (websocket) and from Ford's own API
(polling), stores them in SQLite or PostgreSQL, and shows charging sessions,
trips and battery health. This directory holds TLA+ models of the parts where
several things happen at once, TLC runs over small instances of them, and
TLAPS proofs that hold for every instance.

Paths below are relative to `src/`.

## Inventory

| Part | State | Operations | What is hard about it | What makes it correct |
|---|---|---|---|---|
| Ingestion supervisor (`web/services/ingestion/supervisor.py`) | registry of runtimes and tasks, `_needs_reauth` | `start_all`, `stop_all`, `restart_runtime`, `stop_runtime`, `_start_one` | every method awaits in the middle; two requests can be inside it at once; tasks end by themselves | each running task can be stopped; it runs what is stored; a stop waits; every call returns |
| FordConnect source (`web/services/ingestion/fcon_poller.py`, `web/services/sources/fcon/*`, `web/services/sources/config_store.py`, `web/routes/fcon.py`) | one `data_source_configs` row (credentials, tokens, consent); the poller's copy of it | poll, refresh, persist; save, connect, finish, disconnect | the poller and the handlers write the same JSON column after awaits; Ford rotates refresh tokens; replies are lost | credentials are not overwritten, the newest refresh token is stored, a disconnect sticks, a dead grant ends the polling |
| Home Assistant runtime (`web/services/ingestion/ha_websocket.py`) | socket, `_running`, health | `start`, `stop`, handshake, event loop, reconnect loop, cancellation, backfill | stop and cancellation meet the task at any await; a connection fails at any step | it comes back from every failure but a refusal, no lost state is overlooked, nothing older replaces something newer, a stop ends it |
| Event handlers (`web/services/sources/ha_fordpass/*`, `ford_metrics/writer.py`) | pending batches and last trip per device (memory), the tables | one handler per entity | memory is changed before the commit, and a rollback does not undo it | every reading ends in one row, is superseded, or is lost to a failure |
| Raw archives (`web/services/ingestion/raw_archive.py`, `web/services/sources/fcon/raw_store.py`, `ingest.py`) | archive tables, settings cache, prune throttle | store, prune, invalidate | archive and parse are two transactions; the switch is cached | what was stored can be derived again from the archive |
| Charging sessions and their merge (`web/services/source_merge.py`, `session_merge.py`, `sources/fcon/charge_sessions.py`) | session rows | match, merge, refresh, user edits | two sources report one charge in either order, repeatedly, in transactions that overlap | one row per charge, the same whatever the order, curated columns kept |
| Trips and their merge (`web/services/trip_merge.py`, `sources/fcon/trips.py`, `handlers.py`) | trip rows, the latch `_last_trip_values` | three Home Assistant reports, FordConnect's derivation, add, delete | records in two units, without start or end, of drives that follow each other | one row per drive, none for two drives, figures independent of the order |
| Trip pages (`web/queries/trips.py`, `driving_performance.py`, `energy.py`, `routes/trips.py`) | none | list, export, hide filter, performance | conditions over NULLs, windows by start or by end | what is hidden is counted as hidden; no chart knows of a trip the list has not |
| Data repair (`web/services/repair/*`) | snapshots by run, skips | preview, apply, skip, restore, purge | runs while ingestion goes on; pages go stale; replays handlers that commit | a run can be taken back, takes no drive away, and changes nothing when repeated |
| Gas prices (`web/services/sources/ha_gas_price/*`, `web/queries/gas_prices.py`) | readings, monthly averages | live insert, backfill, average | both writers average what they have read | the month is the mean of its readings |
| Networks, locations, stalls, memberships (`db/models/reference.py`, `web/queries/settings.py`, `locations.py`, `web/routes/settings.py`) | five tables and the aliases | resolve on ingestion; create, edit, convert, delete in Settings | ingestion makes and fills rows a user edits; primary keys are used again; a conversion commits twice | ingestion only adds; sessions keep their network; one rate a day |
| Review queue (`web/routes/review.py`) | the same tables | approve, edit, merge, delete | merges move rows of five tables and leave aliases | a merge does what its preview says; everything is on some tab |
| Costs (`web/queries/costs.py`, `cost_explorer.py`, `dashboard.py`, `comparisons.py`, `sessions.py`) | none | summary, explorer, dashboard, comparisons, list | six callers of one cascade, with different data | the totals agree |
| CSV import (`web/services/csv_parser.py`, `web/routes/csv_import.py`) | the preview in the browser | upload, edit, execute | the preview is old when it is executed; rows fail one by one | one row's failure is its own; ids stay unique |
| Units (`web/unit_system.py`, `web/services/units/*`) | none | convert, detect | values converted twice | conversions invert each other |
| Secrets (`web/services/secrets.py`, `config_secrets.py`) | key file | seal, open | a changed key | never started with garbage |
| Battery pages, other settings, templates, migrations | rows | read, format | none that a model checker adds to | - |

How they interact: the web application and all runtimes share **one event
loop**; coroutines interleave at awaits only. Request handlers call the
supervisor, which creates, cancels and awaits runtime tasks. Handlers and the
FordConnect poller communicate through the database row only. A runtime hands
what it receives to the archives and handlers, each with a session of its own.
The tables are what everything else shares: sessions and trips are written by
both sources, by repairs, by an import and by a user's requests, and read by
the pages.

## Modules

| Module | Models | Kind |
|---|---|---|
| `Supervisor` | the supervisor and its callers | component |
| `SupervisorProofs` | theorems about `Supervisor` | proofs |
| `FordConnect` | row, poller, settings handlers, Ford; composed with `Supervisor` by `INSTANCE` | composition |
| `FordConnectProofs` | theorems about `FordConnect` | proofs |
| `HaRuntime` | the websocket task, `stop()`, Home Assistant | component |
| `HaRuntimeProofs` | theorems about `HaRuntime` | proofs |
| `Delivery` | what ingestion promises of each item it takes | abstract specification |
| `Ingest` | archive, batches, handlers, gas prices, vehicle columns, the poller's samples; implements `Delivery` | component |
| `IngestProofs` | theorems about `Ingest`, and that it implements `Delivery` | proofs |
| `Charges` | the charging-session table, both ingesting sources, the user's edits, retention | component |
| `ChargesProofs` | theorems about `Charges` | proofs |
| `Trips` | the trip table, its reporters, the user | component |
| `TripsProofs` | theorems about `Trips`, `TripPages` and `Repair` | proofs |
| `TripPages` | the list, the export and the performance page, over `Trips` | queries |
| `TelemetryDerive` | what status rows say about an incomplete trip, over `Trips` | algorithm |
| `Repair` | previews, runs, snapshots and the five trip repairs; extends `TelemetryDerive`, and so runs next to `Trips` | composition |
| `Places` | networks, locations, stalls, memberships, sessions, and everyone who writes them | component |
| `Costs` | what a session costs, and every page that adds costs up, over `Places` | queries |
| `ReviewPages` | the tabs, badges and previews of the Review Queue, over `Places` | queries |
| `CsvImport` | the import's preview and execution, next to `Places` | composition |
| `PlacesProofs` | theorems about `Places`, `Costs`, `ReviewPages` and `CsvImport` | proofs |
| `FiniteProofs` | facts about finite sets, intervals, sums and chains of steps, for the proofs about tables | lemmas |
| `MCSupervisor`, `MCFordConnect`, `MCHaRuntime`, `MCIngest`, `MCCharges`, `MCTrips`, `MCRepair`, `MCCsvImport` | model values, records and symmetry for TLC | instances |

### Supervisor

`_runtimes` and `_tasks` are always written together and are one function,
`registry`; a runtime and its task have one identity; `job[r]` is what the task
of `r` runs on (the row's content at `_start_one`) until it ends. `call[k]`
is where caller `k` is: *stopping* (inside `rt.stop()`), *joining* (inside
`await task`), *loading* (inside `db.get`), *starting* (about to call
`_start_one`), *sweeping* (between two configs of `stop_all`). Each action is
the code between two of these awaits. `start_all` and `_start_one` do not
suspend after their read. Rows hold an abstract value which is startable,
enabled but not startable (no builder, or one that raises), unreadable with
the current key, or disabled. `Crash` and `Exit` drop everything but the rows.

Histories, for the properties only: `overlapped`, the configs two calls have
worked on at the same time (since the process started), and `edited`, the
configs committed since a restart was last asked for.

### FordConnect

The row is `app` (client id and secret) and a token set: refresh token,
`needs_consent`, and whether a consent is pending (`oauth_state`). Access
tokens are not named: one may have lapsed whenever it is looked at. A poller is
at *asking*, *spent*, *refreshing*, *reading*/*writing* (the two halves of
`persist_token_fields`), *getting* or *declining*. A request has *seen* the
row, taken the *base* it merges over, and commits the whole of
`config_json`; `save` and `finish` then restart the runtime through the
supervisor's own actions.

`Snapshot` tells the databases apart. `db/engine.py` opens SQLite in WAL mode
with an explicit BEGIN: a transaction that has read cannot commit a write once
another one has committed. PostgreSQL runs READ COMMITTED: the later commit
wins. In the model only a change of this row counts as another commit; commits
to other tables, which on SQLite fail a persist as well, are `PersistFails`
and `CommitFails`, possible at every commit.

Ford is external: it issues tokens to an app, may rotate a refresh token when
it is used, may do so without being heard, and answers 4xx to a token that is
revoked, rotated, or another app's.

### HaRuntime

One entity, its states numbered in the order they occur, stands for all of
them; handling a state stores it, or fails and is logged. `at` is the await the
task is at, `reconnecting` whether `_connect_and_subscribe` was called from
`_reconnect_loop`, where other `except` clauses apply. `cancelled` is a
`task.cancel()` that has not been delivered; it is delivered before anything
else the task does. `open` is the set of open connections, including those
nothing refers to any more; `inbox` is what was sent on the task's own.
`get_states` is answered with the entity's state (`SnapshotTaken`) or without
success (`SnapshotRefused`): then the states of the last snapshot are replayed,
and the task subscribes and reports itself connected all the same. `gap` and
`missed` record what the properties may except.
`steady` says that from here on nothing fails at Home Assistant's side.

### Ingest and Delivery

An *item* is a delivered reading, event or response; items are numbered as they
are taken. A row in `rows` is the set of items it was made from, which is all
the properties ask of its columns; `month[m]` is the set of readings its price is
the mean of. `task[t]` is what a runtime, the poller or
the backfill is doing: *filling* (between the two awaits that fill the settings
cache), *gas* and *insert* (a gas price), *create* (the vehicle), *handle* and
*commit*; and, once a gas price is stored, *averaging* (about to read the means
of all months), *months* (it has read them, and writes one in the same
transaction), *refreshing* (that month is committed and its row is read back)
and *further* (the next month is written, from the same means, in the
transaction that reading back has begun). There is one gas sensor. Batches are
per runtime and in memory (`pending`); a
handler changes them when it runs, its rows appear when it commits, and `Fails`
undoes only the latter. A refresh, and a reading that finds its batch overdue,
make rows of batches; the metrics entity's values are a row of their own. `Restarts` loses what is in memory.

`Delivery` is the promise: each item goes from *new* to *taken*, and from there
to *stored*, *superseded* by a later one that is itself waiting, *ignored*
(a gas sensor's state without a value, a refresh, a response that is known or
has nothing for a row) or *lost*, and *lost* only in a step that is counted as a
fault. `Statuses` is the refinement mapping; an item that is in two rows is
mapped to none of these, so `Delivered` also says that nothing is stored twice.

### Charges

`rows` is `ev_charging_session`. Its columns are one or two of each kind of
`Rule` in `SESSION_PRECEDENCE`: *start* and *energy* (Home Assistant wins, and
records are matched on them), *range* (Home Assistant wins unless the value is
FordConnect's converted by mistake), *plug* (FordConnect wins), *place* (fill
only), *src* (`source_system`), and the two columns of the review queue. The
rest of the columns of one kind are treated alike by `merge_values`.

`tx[t]` is the transaction a writer has open: *matched* after
`find_matching_sessions`, *ready* once the row to be changed has been loaded
(`db.get`, or the query for FordConnect's own row). What it does is *merge*,
*refresh* or *insert*. The commit writes the columns that differ from the
loaded row, as the ORM does, to the row as it is then. `stale` holds the
writers whose transaction another commit has overtaken: on SQLite
(`Snapshot`) they cannot commit. A source has any number of tasks, since a
history backfill and a re-parse run next to the websocket task and the poller.

What a log entry of a charge says (`HaLog`), what its samples fold to (`Fold`)
and what they fold to once retention has deleted the first ones (`FoldCut`) are
constants. Any record may be delivered at any time and as often as you like.

What is coarser than the code: there is one vehicle; a writer's first read and
its match are one step; what `resolve_network` and `resolve_location` insert on
the way is left out, and so is the write lock they take on SQLite (a failure
the lock causes is `Fails`, which is always possible; an order it forbids is
still in the model); a user's request is one step, since it reads the row and
commits without waiting for anything else; a re-parse commits once per charge
rather than once for all; an id that an open transaction still names is not
used again.

Histories: a row's `charge` and `by` (the sources that have written it), and
`touched`, the charges a user has corrected the energy of. The properties are
about *plain* charges: not touched, and no sample pruned. After a correction
the records of a charge need not match its row, and nothing in the repository
says what should happen then.

### Trips and TripPages

A handler is one step from a table to a table, since on SQLite handlers that
commit are as if one after another; `Charges` interleaves the statements of the
same kind of handler and shows what overlapping does. Each of *events*, *elveh*,
*metrics* and FordConnect's fold of a drive is a constant record, delivered at
any time and again. The matchers compare times, distances in both units,
energies and durations as `_find_matching_trip`, `is_same_drive` and
`find_matching_trip` do. `latch` is `_last_trip_values`: a step that fails may
leave it set, which hides the drive, and `ReportedHasRow` is about drives whose
report has been committed. `by` and `drive` are histories. A user enters and
deletes trips.

`TripPages` evaluates the queries in three-valued logic (`Null` for SQL's NULL),
so that a trip without a duration counts as the code counts it. Windows are by
end in the list and by start in the regeneration query.

### TelemetryDerive and Repair

`TelemetryDerive` has the lookups of `telemetry_derive.py` with their windows
and tolerances, in half minutes. `Repair` takes its tables from `Legacy`, what
bugs of the past have left, and adds to the actions of `Trips` those of the
repair page. Every operation yields groups with a key; applying changes the
groups of the page that still exist under the same key and are not skipped,
after `Affected` rows have been saved as a run. A replay takes the archived
states through the handlers of `Trips`, one transaction for each commit they
make, and puts rows that are not Home Assistant's back at the end.

### Places, Costs and ReviewPages

`db` is one record of tables; a handler is an operator from a database to a
database, and the action commits its result. Only
`convert_network_to_location` commits twice (`converting`). Primary keys are the
next ones SQLite would give, so a deleted row's key returns, to a row that
other tables may still refer to (`location_id` is no foreign key). A *spot* is
a position along a line. Aliases, of names and of positions, are kept as the
merges leave them. Sessions have the columns that places and costs depend on.
`HomeName` and `Nameless` are the names a location is given when nothing names
it. `Typed` and `Consistent` say what a database is: rows of the declared
columns, declared references that have their row, session ids and period keys
that are each one row's.

`Costs` is `compute_session_cost` and its callers: each has its own idea of
what to hand to it. Rates are integers per kWh, and ratios are pairs, so totals
are compared exactly. Every form asks for figures of at least 0, but nothing
behind the forms does, and a file may hold any: `Signed` says whether energies,
prices and fees may be negative (`Amount`). The monthly chart goes by the names
of networks: `Label` is a session's, `Minor` the names that are not among the
`MaxCharted` with the most energy, and `BarOf` the bar a session is in.
`ReviewPages` counts what the tabs
show.

### CsvImport

The browser keeps the rows (`kept`) apart from the statuses it shows (`shown`):
an inline edit changes the latter, the bulk form the former. `Executes` takes
every combination of choices the page offers, in one transaction with a
savepoint per row; a name that has become ambiguous raises outside it, and
everything is rolled back. `RowsAreIndependent` compares the execution with the
one that would have imported a row alone, and excepts what the code does not
promise: two rows that overwrite one session, or one whose session has been
deleted since, so that its key may go to another row (`NoneInTheWay`), and that
rollback.

## Runs

| Run | Instance | Shows |
|---|---|---|
| `supervisor` | 2 configs, 2 callers, 4 runtimes, 4 row values; symmetric | `NoUnownedTask`, `RunsStoredRow`, `StopLeavesNothing` |
| `supervisor_live` | 1 config, 2 callers | `CallsReturn` |
| `fcon` | SQLite, 2 apps, 2 tokens, 2 runtimes, 1 caller; symmetric | `CredentialsSurvive`, `ConsentFlagIsJustified`, `RotationReachesRow`, `DisconnectSticks`, `ImplementsSupervisor` |
| `fcon_live` | 1 app, 1 token | `DeadGrantIsDropped`, `RequestsReturn` |
| `ha_runtime` | 3 sockets, 2 changes of the entity | `OnlyTwoGaps`, `NeverGoesBack`, `StopEndsTask`, `GetsConnected` |
| `charges` | SQLite, 2 charges 25 minutes apart, 2 ids, 1 writer of each source; symmetric | `OneRowPerCharge`, `MergedIsCanonical`, `RespectsUser`, `FlaggedBesideUsers` |
| `ingest` | SQLite, 1 runtime, poller, backfill, 4 kinds of event and gas prices of 2 months, 2 responses, 3 deliveries, 1 fault, 1 edit; symmetric | `Delivered`, `StoredIsArchived`, `MonthIsCurrent`, `UserColumnsStay` |
| `trips` | 2 drives in a row, 2 trips a user types, 4 ids | `OneRowPerDrive`, `ReportedHasRow`, `MergedIsCanonical`, `ManualStays`, `PagesAgree` |
| `repair` | 3 legacy tables, 3 drives, 4 ids, 3 requests or reports | `Restorable`, `DrivesStay`, `ManualIsPutBack`, `Converges` |
| `places` | 3 names, 3 spots, 4 ids a table, a file of 2 rows, 3 starting databases, 2 steps each | `PlacesTypeOK`, `IngestionOnlyAdds`, `SessionsKeepNetwork`, `OneRatePerDay`, `CostsAgree`, `ReviewShowsAll`, `MergesAsPreviewed`, `RowsAreIndependent` |
| `import_update` | the same | violated: `UpdatesDuplicates` |
| `dashboard_cost` | the same, 3 steps | violated: `DashboardFollowsCascade` |

Two runs refute a sentence of the repository; each is a finding in
`PROJECT.json`.

### What else the models show

While they were built, the models also reached the following. These are
described rather than run; the properties above except them by name, or state
what holds instead.

* Two overlapping `restart_runtime` calls for one config leave two tasks, one
  of which nothing can stop, though the module "spawns one `IngestionRuntime`
  per row" (`supervisor.py:3`). `NoUnownedTask` and the other two except
  *overlapped* configs.
* On PostgreSQL a token refresh that has read the row before a save of
  credentials writes the old ones back; `CredentialsSurvive` is for SQLite.
  Between that save and its restart the old poller may store the old
  application's tokens (`routes/fcon.py:129-132`).
* A state that changes between the snapshot and the subscription is lost until
  it changes again. So is one that changed while there was no connection, if the
  next `get_states` is answered without success: `ha_websocket.py:224` then keeps
  the old states without a word, replays them, subscribes, and the status page
  says connected (`docs/guide/home-assistant.md:79` speaks of filling any gaps).
  `OnlyTwoGaps` says there is no other gap. A reconnection connects twice; the
  first socket stays open after a stop.
* The mean gas prices of all months are read once and written with a commit
  after each (`upsert_gas_price`). A second writer may store a reading and write
  its mean after one of these commits; the first writer then puts the older mean
  back for a month it had still to write, with no fault and on SQLite too, and
  the month stays so until the next reading of any month. `MonthIsCurrent`
  excepts such months (`late`), and no others.
* Records of one charge match within a tenth of the *stored* energy, so a row
  may be matched by one source and not by the other's re-parse: two rows.
  `OneRowPerCharge` is about records that match both ways (`Recognisable`).
* A replay changes rows its census did not name, which its snapshot therefore
  lacks (`docs/guide/data-repair.md:61`): `Restorable` is about the operations
  of one transaction. A restore writes over whatever has its primary key by
  then, newer trips included. Consolidating three records of a drive leaves a
  pair for the next run, so `Converges` is about the other two operations.
* The trip export takes a custom window that comes without a range, the list
  falls back on its preset; the performance page's count of trips is not the
  list's, as its regeneration query goes by a trip's start. `PagesAgree` states
  how far they may differ.
* A location approved while its network is pending is on no tab of the Review
  Queue, though counted as approved (`docs/guide/review-queue.md:21`):
  `ReviewShowsAll` says that it is the only kind.
* The session list sorts by stored cost and shows the cascade's, so a session
  with an estimate stands among those that cost nothing.
* The monthly energy chart groups sessions by their network's *name*, which is
  not unique (`dashboard.py:299`), and puts all but the seven largest into
  "Other": the list filtered by one network's id need not be any bar of it.
  `ListsAddUp` says what is true instead: a bar is what the list has of its
  month under all of the bar's networks, if each of its sessions has one (the
  list cannot filter for sessions without).
* Updating a session from a row of a file whose network is blank takes the
  session's network away (`csv_parser.py:1064`), and `is_free` becomes false
  unless the row's location is named for work or a dealership.
  `SessionsKeepNetwork` excepts the session the user has chosen to update.
* The `elveh` entity's trip is compared with the last one by distance, duration
  and efficiency (`handlers.py:663`): a drive that agrees with the one before in
  all three is not recorded from there. In the instance no two drives do.
* Merging two networks that both have memberships may leave a day with two
  rates. `OneRatePerDay` says nothing else does.

### Bounds, and why they are enough

* *Supervisor.* Two callers are the least that overlap. A third one adds no
  new pair of awaits. A runtime identity is used again once nothing refers to
  it, so four identities allow unboundedly many restarts; `RoomForRuntime`
  only keeps a restart from starting when it could find none.
* *FordConnect.* One caller, and the poller, and up to two runtimes (one being
  stopped, one being started). With two callers the instance has more than ten
  million states; two requests at once are allowed by the module and recorded
  in `crossed`, and the properties that need them apart say so; what is proved
  (below) holds of any number of them. Two tokens allow a rotation, or a second
  consent by the same app or by another one. Tokens are never issued twice, so
  a behaviour of the instance ends its supply; what follows is still checked
  with what there is.
* *HaRuntime.* Three sockets: the one `_ws` names, the one `stop()` is closing,
  and a forgotten one. Two changes of the entity are the least that can be
  stored in the wrong order, and let a refused snapshot hold an older state than
  was stored since. The name of a forgotten socket may be used again.
* *Charges.* The two charges start within the window of each other, so only
  their energies tell them apart. The energy of one is at the very edge of the
  tolerance, the range of the other is converted by mistake, and the corrected
  energy makes one charge look like the other. Two ids are two rows for one
  charge, a user's row and an ingested one, or a row each. Each source has one
  writer here; two of the same source, and three ids, were checked in larger
  instances (one charge: 1.6 million states; two charges, two ids: 8.5
  million), and the theorems are about any number. On PostgreSQL two writers
  that have both matched before either inserts make two rows: the code has
  nothing against it, and the properties are stated for SQLite.
* *Ingest.* Three deliveries are a reading, one that takes its place or flushes
  it, and a third in the batch after; one fault is a rollback or a restart
  between any two of them. One runtime, the poller and the backfill are the
  writers there can be of the vehicle and of the month. Gas prices are of
  two months, so that a writer commits one between reading the means and writing
  the other; three deliveries are a reading of each month and the one that comes
  in between. The months may change places, with their prices (`Twins`).
* *Trips.* The second drive starts as the first ends and is the first one in
  the other unit, so only one measurement tells them apart; the elveh entity
  does not say when the first ended, and Home Assistant has its distance wrong.
  Four ids are a row for each drive and for each trip the user types. Every
  report may be repeated, so there is no bound on steps.
* *Repair.* Every operation finds something in one of the tables; three steps
  are a preview, a report in between and the application, or two applications
  and a restore.
* *Places.* The starting databases are empty, one with two networks of which
  one has a rate and both a membership, and one in which a network and a
  location have been merged into others; so two steps more are a good deal more
  than two, counted from an empty database. A file has a row that was heard by a source and one that
  is new. Four ids leave room for all that two steps can add. The
  chart shows one name (`MaxCharted`) where the code shows seven: with three
  names there are bars of small networks, bars that two networks share, and
  bars in which every session has a network.

### Fairness

* The event loop resumes a coroutine whose await is ready: weak fairness of the
  steps of each call, request, poller and task, and of delivering a
  cancellation. No user action, edit, crash, drop or revocation is fair.
* `FordConnect`: an access token lasts twenty minutes, so a poller asks for a
  refresh again and again (strong fairness of `RefreshBegins`), and Ford does
  not answer 429 or 5xx for ever (strong fairness of `RefreshRejected`).
* `HaRuntime`: weak fairness only. `GetsConnected` assumes instead that
  failures end (`steady`).

## Proofs

`SupervisorProofs` proves for every set of configs, runtimes, callers and row
values, from `SupervisorAssumption` (which TLC evaluates for the instances):

* `TypeCorrect`: `Spec => []TypeOK`
* `TasksAreOwned`: `Spec => []NoUnownedTask`
* `ReauthIsDown`: `Spec => []ReauthMeansDown` (no run checks it)
* `TasksRunTheStoredRow`: `Spec => []RunsStoredRow`
* `StopsAreComplete`: `Spec => StopLeavesNothing`

None of these invariants is inductive. The inductive one, `SupInv`, adds to
them: *ExclusiveRuntimes* (a runtime is in one place: registered for one config
or held by one caller, and a registered one was built for that config),
*OneCallPerConfig* (two calls on one config have recorded it in
`overlapped`), *QuietLifespan* (before start-up and after the end there is
nothing; during `stop_all` there is no other call) and *LoadedIsStored* (a row
value a restart carries is the stored one unless the row has been edited).
Ownership needs the first: without it a runtime could be taken out of the
registry of one config and leave another's entry behind. `RunsStoredRow` needs
the last: it is what the value was between `LoadRow` and `StartOne`.
The step proof has one case per action, and under it one step per conjunct the
action can disturb. `StopsAreComplete` follows from the invariant before the
step: the last step of a stop is taken when the task it held has ended, and
`NoUnownedTask` leaves no other task of that config.

`FordConnectProofs` proves for every set of apps, tokens, runtimes and callers,
so also for settings requests that cross each other, from
`FordConnectAssumption` (the model values differ from the data):

* `FordTypeCorrect`: `Spec => []TypeOK`
* `CredentialsAreKept`: on SQLite (`Snapshot`), `Spec => []CredentialsSurvive`
* `ConsentFlagIsTrue`: `Spec => []ConsentFlagIsJustified`, on both databases
* `RunsUnderTheSupervisor`: `Spec => Sup!Spec`; by it the theorems about
  `Supervisor` apply to the supervisor inside `FordConnect`

The inductive invariant is `Shapes`. A task must be known to run exactly when
its poller is in the loop, which start-up keeps only because nothing runs
before it (*Quiet*); a commit writes a row only because a request in its last
place carries what its operation needs (*RequestOK*) and because a row, once
there, is never deleted (*WorksWithRow*). `CredentialsAreKept` adds nothing to
it: a commit that goes through found the row as the request or the poller had
read it. `ConsentFlagIsTrue` adds `CopiesJustified`: the row is copied into
requests, calls and pollers, and since any copy may be written back, on
PostgreSQL over a newer row, the flag must be justified in each of them.

`ChargesProofs` proves for every set of charges, ids and writers, and for all
records that satisfy `ChargesAssumption` (they are well typed, and a fold has a
start, which `derive_session` guarantees):

* `ChargesTypeCorrect`: `Spec => []TypeOK`
* `ChargesAreOneRow`: on SQLite, `Recognisable` implies
  `Spec => []OneRowPerCharge`
* `MergeOrderIsIrrelevant`: on SQLite, `Recognisable` implies
  `Spec => []MergedIsCanonical`
* `UserIsRespected`: on SQLite, `Spec => RespectsUser`, whatever the records
* `UsersRowsAreFlagged`: on SQLite, `Recognisable` implies
  `Spec => FlaggedBesideUsers`

`Recognisable` says that the two records of one charge match in both
directions, and that no record of a charge matches another charge's; TLC
evaluates it for the instance. It cannot be dropped: a re-parse of a record
that matches in one direction only makes a second row.

`OneRowPerCharge` is not inductive: whether the next record finds the row
depends on what a merge has left in it. `ChargeInv` adds *RowsAreRecords* (a row
of a plain charge holds the start and energy of one of its two records, so
every record of that charge matches it), *ObservationsAreRecords*, and
*DecisionsHold*: what a writer has decided from its match (this row is the
charge's; there is none) is still true unless a commit has overtaken it, and
then it cannot commit. `MergeOrderIsIrrelevant` rests on three facts about
`MergedValue`, for each column with a winner: merging one way or the other gives
the same value, merging a record in again changes nothing, and columns do not
influence each other. `UserIsRespected` needs only *BasesAreCurrent*: the row a
writer has loaded is the row it overwrites. `UsersRowsAreFlagged` needs to know
what a writer that inserts must have seen when it looked: *UsersFigures* (a
user's row of a plain charge has the figures the vehicle showed, so both
sources' records match it) and *UsersAreSeen* (of the writers no commit has
overtaken, the ones about to insert beside such a row are Home Assistant's, and
name a row in the flag).

`FordConnectProofs` also proves, of
behaviours in which no two requests have crossed (the properties say so):

* `DisconnectsStick`: `Spec => []DisconnectSticks`, on both databases
* `RotationsReachTheRow`: on SQLite, `Spec => []RotationReachesRow`

Both need to know that there is one poller, which `Supervisor` does not promise
when calls overlap. `Solo` says why there is while they do not: one caller is
busy, one task runs, and it is registered or the caller waits for its end; what
a caller relies on (a registry it has emptied, a row it has loaded) still holds.
From it `Silenced` follows for a disconnection, that every copy of the row
lacks the token, in requests as well as in the row, and that the poller will
find so; and `TokensTracked` for a rotation, that a token Ford has replaced is
in the row only while the poller is between the two halves of storing its
successor, and that no request carries a token that any poller has.

`HaRuntimeProofs` proves for any number of sockets and changes:

* `NothingElseIsMissed`: `Spec => []OnlyTwoGaps`
* `StatesOnlyAdvance`: `Spec => NeverGoesBack`

`InOrder` says that what is on its way to the table is ordered: stored, then
held, then the inbox, none newer than the entity. `UpToDate` says where the
newest state is: the snapshot or what its refusal missed, the gap after it, the
end of the inbox, the handler. It is claimed of a subscribed connection that is still open; a dropped
one may have a queue that lacks it.

`IngestProofs` proves for every set of runtimes, events, responses and vehicle
columns and any number of months, items, faults and edits, from `IngestAssumption` (events
and responses differ, and `None` is no batch, vehicle or piece of work):

* `InvHolds`: `Spec => []Inv`
* `KeepsDelivery`: `Spec => Delivered`, the refinement of `Delivery`, on both
  databases
* `StoredCanBeDerivedAgain`: `Spec => []StoredIsArchived`, on both databases
* `MonthKeepsUp`: on SQLite, `Spec => []MonthIsCurrent`
* `UsersColumnsAreKept`: on SQLite, `Spec => UserColumnsStay`

The invariant is about who has an item. Each belongs to one task, in its hands,
in a transaction or in its batches, until it has come to rest, and to none
afterwards (*OnePlace*); rows share no item (*RowsApart*); a batch holds only
items older than the one at work, each for one field (*BatchesInOrder*). Each
action is then shown to be *Moves* (items stay with their task or come to
rest, and nothing leaves its rest) and *Keeps* (without a fault none disappears,
and what is superseded is so by a later item of the same task). From these two,
and not from the actions again, follow the invariant, that what has come to rest
stays put, and the four kinds of steps of `Delivery`. `ArchiveInv`, `MonthInv`
and `FillsEmpty` each add what a task has read and still relies on. `MonthInv`
has three parts: no mean, written or carried, has a reading that is not stored
(`MeansBehind`); the means of a task that has committed no month yet and is not
overtaken are of all readings (`FirstMeans`); and a month that is behind is
`late`, or some task is yet to read the means or carries the right one
(`UnderWay`).

`TripsProofs` proves for every set of drives, keys, status rows and trips a user
types, and for all reports that satisfy `TripsAssumption` (they are well typed,
and a fold does not end before it starts):

* `TripsTypeCorrect`: `Spec => []TypeOK`
* `UsersTripsStay`: `Spec => ManualStays`, whatever the records
* `DrivesAreOneRow`: `Recognisable` implies `Spec => []OneRowPerDrive`
* `ReportedDrivesHaveRows`: `Recognisable` implies `Spec => []ReportedHasRow`
* `MergeOrderIsIrrelevant`: `Recognisable` and `ReportsAgree` imply
  `Spec => []MergedIsCanonical`

`Recognisable` is stated about what a drive's row can be: `Likenesses` are all
combinations of the figures that the drive's records have, and of the starts
that follow from them. Each must match each record of the drive, and none of
another drive; Home Assistant's records must have a distance and an energy,
without which `_find_matching_trip` does not look. `ReportsAgree` is that the
events and elveh entities tell the same figures of a drive, and of one that took
some energy. TLC evaluates both
for the instance, whose two drives are each other's twins in miles and whose
sources disagree about a distance by more than the tolerance.

The proofs reduce each handler to one of three things it makes of the table
(*Handled*): it leaves it alone because a lookup has found a row, adds one of
the drive's `News`, or replaces a row a lookup has found by one of its
`Updates`. That `Sound` rows have figures of their drive's records is kept by
every update, so that a lookup finds the row of the drive if there is one and no
other: a row is never added beside it, and never taken for it. What a user has
typed needs another argument, *Keyed*: a lookup by id does not ask whose row it
finds, but a key no source computes is not found.
`MergeOrderIsIrrelevant` strengthens the property to rows that one source has
written (*Canonical*): Home Assistant's has the figures its entities agree on,
FordConnect's those of its fold. The distance is why the odometer readings have
to be in the invariant: `checked_distance` decides between the sources by the
readings of the row, not by the record, and only `PRECEDENCE` keeps them
FordConnect's.

`PagesTellOneStory` (`Recognisable` and `ReportsAgree` imply
`Spec => []PagesAgree`) is about every limit of the hide rule, every window,
and any drives. The sets of trips are compared trip by trip, which needs
`OrderlyRow`: no trip starts after its end, so what a window by start lets in
and a window by end does not can only straddle an edge; and a trip of both
sources has an efficiency, so the two charts that plot regeneration and
temperature have nothing the trend leaves out. The counts and sums then follow
from `FiniteProofs`: a sum over a subset is no greater when nothing is
negative. `PagesAssumption` (limits and edges are numbers or `Null`) is
evaluated by TLC.

`TripsProofs` also proves, of the repairs, for every table the past may have
left, every archive and any number of requests and reports, from
`RepairAssumption` (the tables, samples and archived states are typed, and an
archived sample folds to a drive):

* `RepairsTypeCorrect`: `RepairSpec => []RepairTypeOK`
* `RepairsConverge`: `RepairSpec => []Converges`
* `UsersTripsArePutBack`: `RepairSpec => ManualIsPutBack`
* `OperationsCanBeTakenBack`: `RepairSpec => Restorable`
* `NoOperationTakesADriveAway`: `FoldsTell` and, of every legacy table,
  `FconKeysTell` imply
  `RepairSpec /\ []PairsAreOfOneDrive(rows) => DrivesStay`

None of these can assume that rows look like their drives: legacy tables are
what bugs have made of them. So a handler is summed up anew, of any typed
table: it is a `StepOf`, which writes one row at most and leaves a row of the
user's the user's, with its end. The archived states and samples are chains of
such steps, by induction over an interval (`HistoryRuns`, `ArchiveRuns`).
`RepairTypeOK` says besides that each of the user's trips a replay began with
is still there: that is why, when the replay ends and puts them back, no
handler's write survives (`KeepsUsers`). `RepairsConverge` needs no reachable
table: a distance once converted is no longer a candidate (`ConvertedOnce`, from
the factor alone), and `Derived` is idempotent (`DerivedTwice`), since what the
first run has derived is what the second one would look up with.
`OperationsCanBeTakenBack` holds because every row a group changes is among the
rows its snapshot saves.

`NoOperationTakesADriveAway` has three premises, and each is needed. Samples of
two drives do not begin at the same time, and no legacy row of FordConnect's has
another drive's key, or a re-parse would rewrite one drive's row as the other's.
And whenever a consolidation looks, two rows it takes for a pair are of one
drive (`PairsAreOfOneDrive`): that is the operation's own criterion, and it is
not proved that no two drives are ever alike. What is proved is the rest: that
rows are in one pair at most (`Paired`), that one of the two stays, that a page
applied to a changed table merges only what is still a pair, that the keys
survive handlers, derivations, replays and restores (`KeysOK`), and that no
other operation deletes. TLC finds all three true in every state of `repair`.

`PlacesProofs` proves for every set of names, keys, spots, days and primary
keys, every file, every table of reports and all consistent databases to begin
with, from `PlacesAssumption` and `ImportAssumption` (primary keys are 1 .. n,
and `Null` and `NoRow` are no data):

* `PlacesTypeCorrect`: `ImportSpec => []PlacesTypeOK`
* `NetworksAreKept`: `ImportSpec => SessionsKeepNetwork`
* `RatesAreUnique`: `ImportSpec => OneRatePerDay`
* `IngestionAdds`: `ImportSpec => IngestionOnlyAdds`
* `EverythingIsShown`: `ImportSpec => []ReviewShowsAll`
* `PreviewsAreRight`: `ImportSpec => MergesAsPreviewed`
* `RowsDoNotInterfere`: `ImportSpec => RowsAreIndependent`

The inductive invariant is `Sane`, typed and consistent. As a handler is an
operator on databases, there is a lemma for each operator, of any sane
database, and a step's proof is the lemma of its handler. What ingestion does
is summed up by `Adds`, which is transitive: networks and locations stay,
approved rows as they are, names lead where they led, no session loses its
network. Resolving a name or a position and adding a session are instances of
it. A row of an import is not, since it may clear the network of the session it
overwrites, but is one of `Grows`, which is `Adds` except that sessions only have to stay; an
import is a chain of rows, and `OnlyCleared` follows a session's network along
it: one that is gone at the end was taken by a row whose target it was. What any
step may do is `SafeStep`.

`RowsDoNotInterfere` needs more of the chain. A row changes the key of no
session but the one it overwrites (`KeysStay`) and makes no name ambiguous
(`NamesStayClear`), so no later row raises. A row that is stored in one database
is stored in any to which others have added (`RowIsStored`): its network is
still there, and its key is either free or some row's already. Once the key is
there, it could only be lost by a row that overwrites its holder; but the holder
has changed its key in this import, so it is the target of an earlier row, and
no two rows have one target.

`PreviewsAreRight` adds up two counts for each table, which is sound because no
row refers to both the source and the target of the merge. Periods are a set,
so a merge could make two of them one; that their keys differ
(`PeriodsAreUnique`) has to be in the invariant.

From `CostsAssumption` as well (price history, trips and odometer readings are
finite records of integers):

* `BooksAreBalanced`: `ImportSpec => []Balanced`
* `CostsAddUp`: `NothingNegative => (ImportSpec => []CostsAgree)`

`Balanced` is the part of `CostsAgree` that says what adds up, and holds of any
figures. Every cost the cascade gives is an amount or `Null` (`CostsAreAmounts`),
and every total is the sum of one function of the sessions over the sessions a
page takes (`TotalIsSum`, `NamedTotalIsSum`, `EnergyIsSum`). Networks, headings
and the bars of the chart are keys of such a sum (`GroupsAddUp`), and pages that
leave sessions out differ by the sum over these. For a bar without sessions of
no network, the list is summed over the bar's networks first
(`MonthListsAgree`).

The rest of `CostsAgree` says that no page counts more than one that takes more
sessions, which needs `NothingNegative`: `Signed` is false, and no trip has a
negative distance. One negative cost in an imported file is enough for the
comparison to exceed the dashboard. Fees grow with the days they are counted over
(`FeesGrow`), since more periods touch them, each in more calendar months. The
odometer's rises are its steps and its falls (`DistanceIsOdometers`), and the
steps telescope.

No run checks the type correctness of `Supervisor`, `FordConnect`, `Charges`,
`Ingest` and `Trips`, which is proved. Only model-checked is all liveness
(`CallsReturn`, `DeadGrantIsDropped`, `RequestsReturn`, `StopEndsTask`,
`GetsConnected`): the provers do not reason about fairness and ENABLED.

## Plan

Modelled, in this order: what keeps the connections alive (`Supervisor`,
`FordConnect`, `HaRuntime`), what two sources do to the table both write
(`Charges`), the way there (`Ingest`), the other such table (`Trips`), what
changes it afterwards (`Repair`), the reference data and everyone who edits it
(`Places`), and the pages and the import (`TripPages`, `Costs`, `ReviewPages`,
`CsvImport`). Proved: every safety property a run expects to hold.

## Not modelled

* Battery statistics, the energy page, a trip's own page and lifetime charts:
  floating-point aggregation over one table.
* Unit conversion and detection: stateless arithmetic. A distance converted
  twice is in `Repair` by its factor.
* The handlers of live GPS and charging power, and the write of Home
  Assistant's home location: single assignments.
* Prune throttling: time is abstracted everywhere, a timeout is a step that may
  happen.
* What a replay and a re-parse do to charging sessions and status rows. They go
  through the same previews, snapshots and skips as trips do; `Charges` has the
  re-parse as one more writer.
* On PostgreSQL, overlapping handlers of trips and reference data: `Trips` and
  `Places` take a handler as one step.
* Templates, formatting, CSV syntax, the demo and developer modes, migrations,
  sample data, cryptography, log output and error texts.
