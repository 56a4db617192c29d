-------------------------------- MODULE CsvImport -------------------------------
(***************************************************************************)
(* The CSV import of charging sessions, beside everything else that writes *)
(* them (Places).  An upload is parsed and compared with the sessions      *)
(* stored; the browser keeps the rows (routes/csv_import.py) and shows a   *)
(* status for each.  Editing one row inline has the server look again, but *)
(* what the browser keeps of it stays; the bulk form changes what it keeps.*)
(* Later, perhaps more than once, the rows are imported                    *)
(* (services/csv_parser.py).                                               *)
(***************************************************************************)
EXTENDS ReviewPages

CONSTANTS
    File,       \* the rows of the file: a sequence of records
    Editions    \* what a user may type into the inline form of a row

Rows == 1 .. Len(File)

\* A row names its network, or gives its key.
Line ==
    [sid : OrNull(Key), start : OrNull(Day), name : OrNull(Name), energy : OrNull(Amount),
     network : NetId \cup OrNull(Name), at : OrNull(Spot), address : OrNull(Address), cost : OrNull(Amount)]

ParsedLine ==
    [key : Key, start : OrNull(Day), name : OrNull(Name), energy : OrNull(Amount),
     network : NetId \cup OrNull(Name), at : OrNull(Spot), address : OrNull(Address), cost : OrNull(Amount)]

Status == {"error", "duplicate", "fuzzy", "new"}

VARIABLE page   \* the rows the browser keeps and the status each shows, or Null

importVars == <<vars, page>>

-----------------------------------------------------------------------------
(***************************************************************************)
(* transform_rows and detect_duplicates                                    *)
(***************************************************************************)
\* make_session_id: the row's own id, or a digest of what tells it from others.
KeyOf(row) == Either(row.sid, <<"digest", row.start, row.name, row.energy>>)

ASSUME ImportAssumption ==
    /\ File \in Seq(Line) /\ Editions \subseteq Line
    /\ \A i \in Rows : KeyOf(File[i]) \in Key
    /\ Null \notin {"skip", "insert", "update"}

Parsed(row) ==
    [key |-> KeyOf(row), start |-> row.start, name |-> row.name, energy |-> row.energy,
     network |-> row.network, at |-> row.at, address |-> row.address, cost |-> row.cost]

IsError(row) == Null = row.energy /\ Null = row.start

\* Within an hour (starts further apart are taken to differ in their day), at the same
\* location, of about the same energy; a row without a start or a location resembles none.
Resembles(row, s) ==
    /\ Null \notin {row.start, row.name} /\ row.start = s.day /\ row.name = s.name
    /\ \/ row.energy = Null /\ s.energy = Null
       \/ Null \notin {row.energy, s.energy} /\ 10 * Gap(row.energy, s.energy) <= s.energy

\* [status, matched]: only a resemblance names the session it has found.
Detected(d, row) ==
    LET like == {i \in Stored(d.sessions) : Resembles(row, d.sessions[i])}
    IN  IF IsError(row) THEN [status |-> "error", matched |-> Null]
        ELSE IF Recorded(d, row.key) THEN [status |-> "duplicate", matched |-> Null]
        ELSE IF like # {} THEN [status |-> "fuzzy", matched |-> Least(like)]
        ELSE [status |-> "new", matched |-> Null]

IsDuplicate(status) == status \in {"duplicate", "fuzzy"}

-----------------------------------------------------------------------------
(***************************************************************************)
(* import_rows: one transaction, a savepoint for each row.                 *)
(***************************************************************************)
\* A name is resolved outside the savepoint: the network stays if the row fails.
RowNetwork(d, row) ==
    IF row.network \in NetId THEN [db |-> d, id |-> row.network]
    ELSE ResolveNetwork(d, row.network, Null)

\* Faulty variant: a second session of the same id is let in.
AnyKey(d, key, itself) == TRUE

\* The keys the database checks when the savepoint is released.
KeyIsFree(d, key, itself) == \A i \in Stored(d.sessions) \ itself : d.sessions[i].key # key

NetworkExists(d, n) == n = Null \/ n \in Stored(d.nets)

Inserted(d, row, n) ==
    LET p == ResolvePlace(d, [at |-> row.at, address |-> row.address, name |-> row.name,
                              network |-> n, home |-> FALSE, src |-> "csv_import"])
        net == Inherited(p.db, n, p.id)
    IN  IF NetworkExists(d, n) /\ KeyIsFree(d, row.key, {})
        THEN [p.db EXCEPT !.sessions = Put(@,
                [key |-> row.key, name |-> row.name, network |-> net, place |-> p.id,
                 stall |-> Null, at |-> row.at, address |-> row.address, day |-> row.start,
                 energy |-> row.energy, cost |-> row.cost, by |-> Null, free |-> FALSE,
                 estimate |-> Null])]
        ELSE d

\* The session a row was found to resemble takes the row's values, its id included: it
\* loses what the row has none for, its network too, and is free no more.
Updated(d, row, n, i) ==
    IF /\ i \in Stored(d.sessions) /\ NetworkExists(d, n) /\ KeyIsFree(d, row.key, {i})
    THEN [d EXCEPT !.sessions[i] =
            [@ EXCEPT !.key = row.key, !.name = row.name, !.day = row.start, !.energy = row.energy,
                      !.at = row.at, !.address = row.address, !.cost = row.cost, !.network = n,
                      !.free = FALSE]]
    ELSE d

\* What the browser sends for a row; without a choice, new rows are inserted.
Action(kept, choice) ==
    IF kept.status = "error" THEN "skip"
    ELSE IF choice # Null THEN choice
    ELSE IF kept.status = "new" THEN "insert" ELSE "skip"

ImportedRow(d, kept, choice) ==
    LET n == RowNetwork(d, kept.row)
        action == Action(kept, choice)
    IN  IF action = "skip" THEN d
        ELSE IF action = "insert" THEN Inserted(n.db, kept.row, n.id)
        ELSE Updated(n.db, kept.row, n.id, kept.matched)

\* A name of two networks raises outside the savepoint: the import is rolled back.
Aborts(d, kept, choice) ==
    Action(kept, choice) # "skip" /\ kept.row.network \in Name /\ Ambiguous(d, kept.row.network)

\* Faulty variant: a row that cannot be stored ends the import.
StepOrStop(acc, kept, choice) ==
    LET d == ImportedRow(acc.db, kept, choice)
    IN  IF acc.failed \/ Aborts(acc.db, kept, choice) \/ (Action(kept, choice) # "skip" /\ d = acc.db)
        THEN [acc EXCEPT !.failed = TRUE] ELSE [acc EXCEPT !.db = d]

Step(acc, kept, choice) ==
    IF acc.failed \/ Aborts(acc.db, kept, choice) THEN [acc EXCEPT !.failed = TRUE]
    ELSE [acc EXCEPT !.db = ImportedRow(acc.db, kept, choice)]

\* What the first n rows make of the database.
Partial(d, rows, choices) ==
    LET after[n \in 0 .. Len(File)] ==
            IF n = 0 THEN [db |-> d, failed |-> FALSE] ELSE Step(after[n - 1], rows[n], choices[n])
    IN  after

Imported(d, rows, choices) ==
    LET done == Partial(d, rows, choices)[Len(File)]
    IN  IF done.failed THEN d ELSE done.db

-----------------------------------------------------------------------------
(***************************************************************************)
(* The page.                                                               *)
(***************************************************************************)
Kept(d, row) ==
    LET parsed == Parsed(row)
        found == Detected(d, parsed)
    IN  [row |-> parsed, status |-> found.status, matched |-> found.matched]

Acts == left > 0 /\ left' = left - 1 /\ UNCHANGED <<db, converting>>

Page ==
    [kept : [Rows -> [row : ParsedLine, status : Status, matched : OrNull(SessionId)]],
     shown : [Rows -> Status]]

\* preview: what the server answers to an upload.
Preview(d) ==
    LET kept == [i \in Rows |-> Kept(d, File[i])]
    IN  [kept |-> kept, shown |-> [i \in DOMAIN kept |-> kept[i].status]]

Uploads == page = Null /\ page' = Preview(db) /\ Acts

\* verify_row: the network it may make up is never committed.
EditsInline(i, edition) ==
    /\ page # Null /\ ~Ambiguous(db, edition.network)
    /\ page' = [page EXCEPT !.shown[i] = Kept(db, edition).status]
    /\ Acts

\* applyImportBulkEdit, in the browser.
EditsImportInBulk(chosen, network, name) ==
    /\ page # Null
    /\ page' = [page EXCEPT !.kept = [i \in DOMAIN @ |->
            IF i \in chosen THEN [@[i] EXCEPT !.row.network = network, !.row.name = name] ELSE @[i]]]
    /\ Acts

\* execute.  For each row what the browser sends: the choice made for one shown as a
\* duplicate, nothing for another, and "skip" stands for one not ticked.
Executes(choices) ==
    /\ page # Null
    /\ \A n \in 0 .. Len(File) - 1 : RoomIn(Partial(db, page.kept, choices)[n].db)
    /\ \A i \in DOMAIN choices :
        choices[i] \in IF IsDuplicate(page.shown[i]) THEN {"skip", "insert", "update"} ELSE {"skip", Null}
    /\ Commits(Imported(db, page.kept, choices))
    /\ UNCHANGED page

Leaves == page # Null /\ page' = Null /\ Acts

Replies == [Rows -> {"skip", "insert", "update", Null}]

Executions == \E choices \in Replies : Executes(choices)

Pages ==
    \/ Uploads \/ Executions \/ Leaves
    \/ \E i \in Rows : \E edition \in Editions : EditsInline(i, edition)
    \/ \E chosen \in SUBSET Rows : \E network \in Nets \cup Name : \E name \in Name :
            EditsImportInBulk(chosen, network, name)

\* A file may just have been uploaded.
ImportInit == Init /\ page \in {Null, Preview(db)}

ImportNext == (Next /\ UNCHANGED page) \/ Pages

ImportSpec == ImportInit /\ [][ImportNext]_importVars

-----------------------------------------------------------------------------
(***************************************************************************)
(* Properties.                                                             *)
(***************************************************************************)
\* The database is consistent: what a foreign key declares refers to a row, and a
\* session's id is its own, whatever is merged, converted, deleted or imported in
\* whatever order (db/models/reference.py, csv_parser.py:import_rows).
PlacesTypeOK ==
    /\ Typed(db) /\ Consistent(db) /\ left \in 0 .. MaxSteps
    /\ converting \in OrNull(Conversion)
    /\ converting # Null => converting.from # converting.to
    /\ page \in OrNull(Page)

Ingests == (Charges /\ UNCHANGED page) \/ Executions

OnlyFills(old, new) ==
    new = old \/ (old.src # "manual" /\ \A f \in DOMAIN old : old[f] # Null => new[f] = old[f])

\* Ingestion and import only add to what there is: a location the user approved stays
\* as it is and another only gains what it lacks; a name that leads to a network leads
\* there afterwards, and gets no second network; and nobody but the user approves or
\* takes back anything: what they make waits in the Review Queue (resolve_location,
\* resolve_network).
IngestionOnlyAdds ==
    [][(db'.places # db.places \/ db'.nets # db.nets) /\ Ingests =>
        /\ \A p \in Stored(db.places) : OnlyFills(db.places[p], db'.places[p])
        /\ Approved(db'.places) = Approved(db.places) /\ Approved(db'.nets) = Approved(db.nets)
        /\ \A name \in Name : Known(db, name) # Null =>
            Known(db', name) = Known(db, name) /\ Named(db', name) = Named(db, name)]_importVars

\* The session a row is to update.
Target(i, choices) == IF Action(page.kept[i], choices[i]) = "update" THEN page.kept[i].matched ELSE Null

\* A row without a network is imported over a session.
Clears(i) == \E choices \in Replies : Executes(choices) /\
    \E j \in Rows : Target(j, choices) = i /\ page.kept[j].row.network = Null

Loses(i) == /\ i \in Stored(db.sessions) /\ i \in Stored(db'.sessions)
            /\ db.sessions[i].network # Null /\ db'.sessions[i].network = Null

\* A session loses its network only when the user deletes that network, clears the
\* session's, or imports a row without one over it: merging and converting, in any order
\* and cut short anywhere, take all sessions along, and no row touches another session
\* than its own (merge_network, convert_network_to_location, import_rows).
SessionsKeepNetwork ==
    [][\A i \in SessionId : Loses(i) =>
        \/ DeletesNetwork(db.sessions[i].network)
        \/ \E place \in Locations \cup {Null} : \E cost \in {Null, 7} : EditsInBulk(Sessions, Null, place, cost)
        \/ Clears(i)]_importVars

OneRate(d) == \A n \in Stored(d.nets) : \A day \in Day : Cardinality(Covering(d, n, day)) <= 1

\* No edit of the membership periods gives a day two rates; only merging two networks
\* that both have periods does (validate_no_overlap, merge_network).
OneRatePerDay ==
    [][db'.periods # db.periods /\ OneRate(db) /\ ~OneRate(db') =>
        \E n, m \in Nets : MergesNetwork(n, m)]_importVars

SummaryMatchesExplorer(d) ==
    LET summary == Summary(d)
        explorer == Explorer(d, Least(Rate))
        unexplored == TotalCost(d, Configured(d) \ Explored(d))
    IN  /\ summary.total = explorer.energy + unexplored
        /\ summary.saved = explorer.without - explorer.energy
        /\ explorer.saved = summary.saved - Fees(d)

PartsAddUp(d) ==
    LET summary == Summary(d)
        explorer == Explorer(d, Least(Rate))
        undated == {i \in Explored(d) : d.sessions[i].day = Null}
        uncharted == Stored(d.sessions) \ Charted(d)
    IN  /\ summary.total = SumFunction(summary.byNetwork)
        /\ explorer.energy = SumFunction([n \in DOMAIN explorer.ledger |-> explorer.ledger[n].paid])
        /\ explorer.atReference =
            SumFunction([n \in DOMAIN explorer.ledger |-> explorer.ledger[n].atReference])
        /\ Fees(d) = SumFunction([n \in DOMAIN explorer.memberships |-> explorer.memberships[n].fees])
        /\ explorer.whatIf - Fees(d) =
            SumFunction(explorer.monthly) + SumFunction([i \in undated |-> WhatIf(d, i, Least(Rate))])
        /\ Dashboard(d).energy =
            SumFunction(EnergyByMonth(d)) + SumFunction([i \in uncharted |-> Number(d.sessions[i].energy)])

\* The filters of the list: its networks, and the sessions of none, make up the whole; a
\* month of the networks that share a bar of the chart is what the bar shows; and the
\* costs are in order, estimates aside.
ListsAddUp(d) ==
    LET always == [from |-> Null, to |-> Null]
        month(m) == [from |-> 30 * m, to |-> 30 * m + 29]
        unassigned == {i \in Stored(d.sessions) : d.sessions[i].network = Null}
        billed == {i \in Stored(d.sessions) : d.sessions[i].cost # Null \/ d.sessions[i].free}
    IN  /\ ListSummary(d, always, {}).kwh = Dashboard(d).energy
        /\ ListSummary(d, always, {}).count = Cardinality(unassigned)
              + SumFunction([n \in Stored(d.nets) |-> ListSummary(d, always, {n}).count])
        /\ \A bar \in DOMAIN EnergyByMonth(d) : Null \notin BarNetworks(d, bar) =>
              ListSummary(d, month(bar[1]), BarNetworks(d, bar)).kwh = EnergyByMonth(d)[bar]
        /\ \A i, j \in billed : SortKey(d, i) <= SortKey(d, j) <=> ListCost(d, i) <= ListCost(d, j)

\* Its network is the one its location is named like, and neither place nor period counts.
PricedByName(d, i) ==
    LET s == d.sessions[i]
    IN  NamedNetwork(d, s.name) = s.network /\ PlaceRate(d, s) = 0 /\ FirstActive(d, s) = Null

Dearest == Greatest({DefaultGas} \cup UNION {{Number(g.station), Number(g.average)} : g \in GasPrices})

\* No comparison counts more than the dashboard, nor charges more than miles; the
\* distance is the odometer's, falls aside; and no gallon is dearer than any price.
ComparisonsNest(d) ==
    \A readings \in Readings :
        LET charges == ChargeForCharge(d)
            miles == MileForMile(d, readings)
            falls == {k \in 2 .. Len(readings) : readings[k].km < readings[k - 1].km}
            energy == TotalEnergy(d, Compared(d))
        IN  /\ charges.ev.energy <= miles.ev.energy /\ charges.ev.fees <= miles.ev.fees
            /\ miles.ev.energy <= Dashboard(d).cost
            /\ (\E k \in 2 .. Len(readings) : readings[k].km > readings[k - 1].km) =>
                miles.km = readings[Len(readings)].km - readings[1].km
                            + SumFunction([k \in falls |-> readings[k - 1].km - readings[k].km])
            /\ charges.gas.high <= energy * Dearest /\ miles.gas.high <= miles.km * Dearest

\* The pages agree.  The summary's total is the Cost Explorer's and the cost of the
\* sessions without energy, and membership saved the same in both; networks,
\* memberships and months add up, in the charts and in the list; the ratios divide no
\* more than the total, unless a free session was given a cost; the session pages add up
\* to it unless a day has two rates, and the dashboard does if every session is priced
\* by the name of its location
\* (compute_session_cost, its callers).
CostsAgree ==
    LET total == Summary(db).total
    IN  /\ SummaryMatchesExplorer(db) /\ PartsAddUp(db) /\ ListsAddUp(db) /\ ComparisonsNest(db)
        /\ Ratios(db).perKwh[1] <= Ratios(db).perSession[1]
        /\ (\A i \in Sessions : db.sessions[i].free => Number(db.sessions[i].cost) = 0) =>
                Ratios(db).perSession[1] <= total
        /\ OneRate(db) => total = SumFunction([i \in Configured(db) |-> PageCost(db, i)])
        /\ (\A i \in Sessions : PricedByName(db, i)) => Dashboard(db).cost = total

\* What the guide promises of every session's cost (docs/guide/costs.md:53-60), and so
\* of the "Lifetime charging cost" (docs/guide/dashboard.md:20): the location's rate,
\* else its network's, or the member's.
DashboardFollowsCascade == \A i \in Sessions : Number(NamedCost(db, i)) = Number(SummaryCost(db, i))

Alone(i, choices) == [j \in Rows |-> IF j = i THEN choices[i] ELSE "skip"]

\* No two rows update one session, and none a session that has been deleted since the
\* preview: its key may be given to the session another row inserts.
NoneInTheWay(choices) ==
    \A i \in Rows : Target(i, choices) # Null =>
        /\ Target(i, choices) \in Sessions
        /\ \A j \in Rows \ {i} : Target(j, choices) # Target(i, choices)

\* One row that fails does not keep another out: what would be stored if it were sent
\* alone is stored when all are, unless a row overwrites what another has stored, or a
\* name in the file has become ambiguous (import_rows, a savepoint for each row).
RowsAreIndependent ==
    [][page # Null /\ page' = page /\ left' # left => \A choices \in Replies :
        /\ Executes(choices) /\ NoneInTheWay(choices)
        /\ \A i \in Rows : ~Aborts(db, page.kept[i], choices[i])
        => \A i \in Rows : LET key == page.kept[i].row.key
                               alone == Imported(db, page.kept, Alone(i, choices))
                           IN  ~Recorded(db, key) /\ Recorded(alone, key) => Recorded(db', key)]_importVars

\* What the guide promises (docs/guide/csv-import.md:76): a duplicate the user wants
\* updated is overwritten with the row's values.
UpdatesDuplicates ==
    [][page # Null /\ left' # left => \A choices \in Replies : Executes(choices) =>
        \A i \in Rows : choices[i] = "update" /\ Recorded(db, page.kept[i].row.key) =>
            \E j \in Stored(db'.sessions) :
                /\ db'.sessions[j].key = page.kept[i].row.key
                /\ db'.sessions[j].cost = page.kept[i].row.cost]_importVars
=============================================================================
