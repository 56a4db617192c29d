------------------------------- MODULE Charges -------------------------------
(***************************************************************************)
(* The charging-session table and everyone who writes it.  Home Assistant  *)
(* (the websocket task, a history backfill) logs a charge as often as it   *)
(* reconnects or is asked; FordConnect (the poller, a re-parse of its      *)
(* archive) derives it from telemetry; each looks for the other's row and  *)
(* merges into it (handlers.py, charge_sessions.py, session_merge.py,      *)
(* source_merge.py).  A user curates, corrects, enters, deletes and        *)
(* reviews rows meanwhile (routes/sessions.py).                            *)
(*                                                                         *)
(* A writer reads, awaits, and commits a transaction of its own.  Snapshot *)
(* tells the databases apart as in FordConnect: on SQLite a transaction    *)
(* that another commit has overtaken cannot commit, on PostgreSQL it can.  *)
(*                                                                         *)
(* The columns are abstracted to one or two of each kind of Rule: start    *)
(* and energy (also matched on), range (has a resolver), plug (FordConnect *)
(* wins), place (curated) and src (source_system).  One vehicle.           *)
(***************************************************************************)
EXTENDS Naturals, FiniteSets

CONSTANTS
    Charge,     \* the charges that happen
    Id,         \* primary keys; an insert needs an unused one (a bound)
    HaTask,     \* writers of Home Assistant's log entries
    FconTask,   \* writers of FordConnect's derivations
    HaLog,      \* Home Assistant's log entry of each charge
    Fold,       \* what FordConnect's samples of each charge fold to
    FoldCut,    \* ... after retention has pruned the first of these samples
    Place,      \* names of places
    Corrected,  \* energies a user types in
    Snapshot,   \* TRUE: SQLite; FALSE: PostgreSQL
    Null, NoRow, NoId, NoTx

\* What a source says of a charge, and a row of ev_charging_session.
Obs == [start : Nat \cup {Null}, energy : Nat \cup {Null}, range : Nat \cup {Null},
        plug : Nat \cup {Null}, place : Place \cup {Null}]

Row == [start : Nat \cup {Null}, energy : Nat \cup {Null}, range : Nat \cup {Null},
        plug : Nat \cup {Null}, place : Place \cup {Null},
        src : {"ha", "fcon", "user"}, other : Id \cup {NoId}, review : BOOLEAN,
        charge : Charge, by : SUBSET {"ha", "fcon"}]

Tx == [charge : Charge, at : {"matched", "ready"},
       doing : {"merge", "refresh", "insert"}, target : Id \cup {NoId},
       base : Row \cup {NoRow}, other : Id \cup {NoId}, obs : Obs]

\* Log entries, folds and corrections are observations; a fold has a start.
ASSUME ChargesAssumption ==
    /\ HaTask \cap FconTask = {}
    /\ HaLog \in [Charge -> Obs]
    /\ \A f \in {Fold, FoldCut} :
          f \in [Charge -> Obs] /\ \A c \in Charge : f[c].start # Null
    /\ Corrected \subseteq Nat
    /\ Snapshot \in BOOLEAN
    /\ Null \notin Nat \cup Place \cup {"ha", "fcon"}
    /\ NoRow \notin Row /\ NoId \notin Id /\ NoTx \notin Tx

VARIABLES
    rows,       \* ev_charging_session
    tx,         \* the open transaction of each writer
    stale,      \* writers whose transaction another commit has overtaken
    cut,        \* charges whose first samples have been pruned
    touched     \* history: charges a user has corrected the figures of

vars == <<rows, tx, stale, cut, touched>>

Task == HaTask \cup FconTask

\* Columns with a Rule, and the source that wins them; "keep": neither does.
Winner == [start |-> "ha", energy |-> "ha", range |-> "ha", plug |-> "fcon",
           place |-> "keep", src |-> "ha"]
Columns == DOMAIN Winner

Source(t) == IF t \in HaTask THEN "ha" ELSE "fcon"

Observation(t, c) ==
    CASE t \in HaTask -> HaLog[c]
      [] t \in FconTask /\ c \notin cut -> Fold[c]
      [] OTHER -> FoldCut[c]

-----------------------------------------------------------------------------
(***************************************************************************)
(* Matching and merging.  Times are in minutes, energies in tenths of kWh. *)
(***************************************************************************)
Window == 30

Distance(a, b) == IF a > b THEN a - b ELSE b - a

\* Within a tenth of the stored energy, or 0.5 kWh of none.
EnergyAgrees(energy, stored) ==
    IF energy = Null \/ stored = Null THEN energy = stored
    ELSE IF stored = 0 THEN energy <= 5
    ELSE 10 * Distance(energy, stored) <= stored

StartAgrees(start, stored) ==
    start # Null /\ stored # Null /\ Distance(start, stored) <= Window

SameCharge(obs, row) ==
    StartAgrees(obs.start, row.start) /\ EnergyAgrees(obs.energy, row.energy)

Stored == {i \in Id : rows[i] # NoRow}

\* Faulty variant: only ingested rows are looked at.
MatchingIngested(obs) ==
    {i \in Stored : rows[i].src # "user" /\ SameCharge(obs, rows[i])}

\* find_matching_sessions
Matching(obs) == {i \in Stored : SameCharge(obs, rows[i])}

\* is_km_mile_twin (RATIO_BAND)
IsTwin(a, b) ==
    \E small \in {a, b} : \E large \in {a, b} :
        /\ 0 < small /\ small <= large
        /\ 155 * small <= 100 * large /\ 100 * large <= 167 * small

\* Home Assistant's range, unless it is FordConnect's converted by mistake.
CheckedRange(old, new, source) ==
    LET ha   == IF source = "fcon" THEN old.range ELSE new.range
        fcon == IF source = "fcon" THEN new.range ELSE old.range
    IN  IF IsTwin(ha, fcon) THEN fcon ELSE ha

\* Faulty variant: the record already there wins every column.
FirstValue(old, new, source, col) ==
    IF old[col] = Null THEN new[col] ELSE old[col]

\* merge_values: a column's value after merging a new record into an old one.
MergedValue(old, new, source, col) ==
    IF new[col] = Null THEN old[col]
    ELSE IF old[col] = Null THEN new[col]
    ELSE IF col = "range" THEN CheckedRange(old, new, source)
    ELSE IF Winner[col] = source THEN new[col]
    ELSE old[col]

\* apply_session_merge
Merged(old, new, source) ==
    [col \in DOMAIN old |->
        IF col \in Columns THEN MergedValue(old, new, source, col) ELSE old[col]]

\* Faulty variant: everything is re-derived.
RefreshedWhole(old, new) ==
    [col \in DOMAIN old |-> IF col \in Columns THEN new[col] ELSE old[col]]

\* refresh_own_row: FordConnect re-derives a row of its own.
Refreshed(old, new) ==
    [col \in DOMAIN old |->
        IF col \notin Columns \/ (Winner[col] = "keep" /\ old[col] # Null)
        THEN old[col] ELSE new[col]]

-----------------------------------------------------------------------------
(***************************************************************************)
(* Rows and transactions.  A row's charge and by (the sources it has been  *)
(* written by) are histories.                                              *)
(***************************************************************************)
Record(obs, source) ==
    [start |-> obs.start, energy |-> obs.energy, range |-> obs.range,
     plug |-> obs.plug, place |-> obs.place, src |-> source]

NewRow(obs, source, c, other) ==
    [start |-> obs.start, energy |-> obs.energy, range |-> obs.range,
     plug |-> obs.plug, place |-> obs.place, src |-> source,
     other |-> other, review |-> other # NoId,
     charge |-> c, by |-> {source} \ {"user"}]

\* The ids an insert may use: not one that an open transaction still names.
Free == {i \in Id \ Stored :
            \A t \in Task : tx[t] # NoTx => i \notin {tx[t].target, tx[t].other}}

Open == {t \in Task : tx[t] # NoTx}

Opens(t, c, at, doing, target, base, other) ==
    tx' = [tx EXCEPT ![t] =
              [charge |-> c, at |-> at, doing |-> doing, target |-> target,
               base |-> base, other |-> other, obs |-> Observation(t, c)]]

Closes(t) == tx' = [tx EXCEPT ![t] = NoTx]

\* A commit overtakes every other transaction that is open.
Overtakes(mine) == stale' = Open \ mine

\* Faulty variant: a transaction that has been overtaken commits all the same.
CommitsStale(t) == t \in Open

MayCommit(t) == ~Snapshot \/ t \notin stale

Init ==
    /\ rows = [i \in Id |-> NoRow]
    /\ tx = [t \in Task |-> NoTx]
    /\ stale = {} /\ cut = {} /\ touched = {}

-----------------------------------------------------------------------------
(***************************************************************************)
(* The writers.                                                            *)
(***************************************************************************)

\* handle_energy_transfer up to its match: one of its own rows means the log
\* entry has been seen; FordConnect's row is merged into; anything else that
\* matches is a user's, and the new row will be flagged for review.
HaMatches(t, c) ==
    /\ tx[t] = NoTx
    /\ HaLog[c].start # Null \/ HaLog[c].energy # Null
    /\ LET matches == Matching(HaLog[c])
           fcon    == {i \in matches : rows[i].src = "fcon"}
       IN  /\ \A i \in matches : rows[i].src # "ha"
           /\ IF fcon # {}
              THEN \E i \in fcon : Opens(t, c, "matched", "merge", i, NoRow, NoId)
              ELSE \E i \in IF matches = {} THEN {NoId} ELSE matches :
                      Opens(t, c, "ready", "insert", NoId, NoRow, i)
    /\ UNCHANGED <<rows, stale, cut, touched>>

\* record_session_if_ended up to its match: FordConnect refreshes a row of its
\* own, merges into Home Assistant's, and leaves a user's alone.
FconMatches(t, c) ==
    /\ tx[t] = NoTx
    /\ LET obs    == Observation(t, c)
           own    == {i \in Stored : rows[i].src = "fcon" /\ rows[i].start = obs.start}
           others == {i \in Matching(obs) : rows[i].src # "fcon"}
           ha     == {i \in others : rows[i].src = "ha"}
       IN  IF own # {}
           THEN \E i \in own : Opens(t, c, "ready", "refresh", i, rows[i], NoId)
           ELSE IF ha # {}
           THEN \E i \in ha : Opens(t, c, "matched", "merge", i, NoRow, NoId)
           ELSE /\ others = {}
                /\ Opens(t, c, "ready", "insert", NoId, NoRow, NoId)
    /\ UNCHANGED <<rows, stale, cut, touched>>

\* db.get of the row to merge into; if it has gone, a row is inserted.
Loads(t) ==
    /\ tx[t] # NoTx /\ tx[t].at = "matched"
    /\ tx' = [tx EXCEPT ![t] =
                 IF rows[tx[t].target] = NoRow
                 THEN [@ EXCEPT !.at = "ready", !.doing = "insert", !.target = NoId]
                 ELSE [@ EXCEPT !.at = "ready", !.base = rows[tx[t].target]]]
    /\ UNCHANGED <<rows, stale, cut, touched>>

\* What the loaded row is made into, and the UPDATE of the columns that differ.
After(x, source) ==
    IF x.doing = "merge" THEN Merged(x.base, Record(x.obs, source), source)
    ELSE Refreshed(x.base, Record(x.obs, source))

Updated(x, source) ==
    [col \in DOMAIN x.base |->
        IF col = "by" THEN rows[x.target].by \cup {source}
        ELSE IF col \in Columns /\ After(x, source)[col] # x.base[col]
        THEN After(x, source)[col] ELSE rows[x.target][col]]

Inserts(t) ==
    /\ tx[t] # NoTx /\ tx[t].at = "ready" /\ tx[t].doing = "insert"
    /\ MayCommit(t)
    /\ tx[t].other \in Stored \cup {NoId}
    /\ \E i \in Free :
          rows' = [rows EXCEPT ![i] =
                      NewRow(tx[t].obs, Source(t), tx[t].charge, tx[t].other)]
    /\ Closes(t) /\ Overtakes({t})
    /\ UNCHANGED <<cut, touched>>

Updates(t) ==
    /\ tx[t] # NoTx /\ tx[t].at = "ready" /\ tx[t].doing # "insert"
    /\ MayCommit(t)
    /\ rows[tx[t].target] # NoRow
    /\ rows' = [rows EXCEPT ![tx[t].target] = Updated(tx[t], Source(t))]
    /\ Closes(t) /\ Overtakes({t})
    /\ UNCHANGED <<cut, touched>>

\* The transaction is rolled back: the database refused, or a step raised.
Fails(t) ==
    /\ tx[t] # NoTx
    /\ Closes(t)
    /\ stale' = stale \ {t}
    /\ UNCHANGED <<rows, cut, touched>>

-----------------------------------------------------------------------------
(***************************************************************************)
(* The user, and retention.  A request writes only the columns it changes, *)
(* to values that do not depend on what it read: it is one step.           *)
(***************************************************************************)
Remaining(i) ==
    [j \in Id |-> IF j = i THEN NoRow
                  ELSE IF j \in Stored /\ rows[j].other = i
                  THEN [rows[j] EXCEPT !.other = NoId] ELSE rows[j]]

\* update_session with a curated column ...
Curates(i, place) ==
    /\ i \in Stored /\ rows[i].place # place
    /\ rows' = [rows EXCEPT ![i].place = place]
    /\ Overtakes({})
    /\ UNCHANGED <<tx, cut, touched>>

\* ... and with a measured one.
Corrects(i, energy) ==
    /\ i \in Stored /\ rows[i].energy # energy
    /\ rows' = [rows EXCEPT ![i].energy = energy]
    /\ touched' = touched \cup {rows[i].charge}
    /\ Overtakes({})
    /\ UNCHANGED <<tx, cut>>

\* delete_session, and resolve_duplicate: keep the other.
Deletes(i) ==
    /\ i \in Stored
    /\ rows' = Remaining(i)
    /\ Overtakes({})
    /\ UNCHANGED <<tx, cut, touched>>

\* create_session, or a CSV import: the figures are those the vehicle showed.
Enters(c, place) ==
    /\ \E i \in Free :
          rows' = [rows EXCEPT ![i] =
                      NewRow([HaLog[c] EXCEPT !.place = place], "user", c, NoId)]
    /\ Overtakes({})
    /\ UNCHANGED <<tx, cut, touched>>

\* resolve_duplicate.  Keep this: the other one is deleted.
KeepsThis(i) ==
    /\ i \in Stored /\ rows[i].review
    /\ rows' = [Remaining(rows[i].other) EXCEPT ![i].review = FALSE, ![i].other = NoId]
    /\ Overtakes({})
    /\ UNCHANGED <<tx, cut, touched>>

KeepsBoth(i) ==
    /\ i \in Stored /\ rows[i].review
    /\ rows' = [rows EXCEPT ![i].review = FALSE, ![i].other = NoId]
    /\ Overtakes({})
    /\ UNCHANGED <<tx, cut, touched>>

\* Retention deletes the oldest samples of a charge, not yet the others.
Prunes(c) ==
    /\ c \notin cut
    /\ cut' = cut \cup {c}
    /\ Overtakes({})
    /\ UNCHANGED <<rows, tx, touched>>

Writes ==
    \/ \E t \in HaTask, c \in Charge : HaMatches(t, c)
    \/ \E t \in FconTask, c \in Charge : FconMatches(t, c)
    \/ \E t \in Task : Loads(t) \/ Inserts(t) \/ Updates(t) \/ Fails(t)

Edits ==
    \/ \E i \in Id : \/ \E place \in Place : Curates(i, place)
                     \/ \E energy \in Corrected : Corrects(i, energy)
                     \/ Deletes(i) \/ KeepsThis(i) \/ KeepsBoth(i)
    \/ \E c \in Charge, place \in Place : Enters(c, place)

Next == Writes \/ Edits \/ \E c \in Charge : Prunes(c)

Spec == Init /\ [][Next]_vars

-----------------------------------------------------------------------------
(***************************************************************************)
(* Properties.                                                             *)
(***************************************************************************)

\* Types; no row is its own duplicate; and a transaction has a target, and its
\* row loaded, exactly when its place says so.
TypeOK ==
    /\ rows \in [Id -> Row \cup {NoRow}]
    /\ \A i \in Stored : rows[i].other # i
    /\ tx \in [Task -> Tx \cup {NoTx}]
    /\ stale \subseteq Open
    /\ cut \subseteq Charge /\ touched \subseteq Charge
    /\ \A t \in Open :
          /\ tx[t].at = "matched" => tx[t].doing = "merge"
          /\ tx[t].doing = "insert" <=> tx[t].target = NoId
          /\ tx[t].base \in Row <=> tx[t].at = "ready" /\ tx[t].doing # "insert"

\* Charges of which every source has said one thing only.
Plain == Charge \ (cut \cup touched)

Ingested(i) == i \in Stored /\ rows[i].src # "user"

\* The sources' two records of one charge match whichever is stored first, and
\* nothing said of one charge matches what is said of another.
Recognisable ==
    /\ \A c \in Charge : \A f, g \in {HaLog, Fold} : SameCharge(f[c], g[c])
    /\ \A c, d \in Charge : c # d =>
          /\ \A f \in {HaLog, Fold, FoldCut}, g \in {HaLog, Fold} : ~SameCharge(f[c], g[d])
          /\ \A f \in {Fold, FoldCut} : f[c].start # Fold[d].start

\* However often, in whatever order and by however many writers a charge is
\* ingested, it is one row (session_merge.py, its first line) -- if the sources
\* recognise each other's record of it, and on SQLite.
OneRowPerCharge ==
    \A i, j \in Id :
        Ingested(i) /\ Ingested(j) /\ rows[i].charge = rows[j].charge
        /\ rows[i].charge \in Plain => i = j

\* "The same table serves both arrival orders, so the merged row does not
\* depend on which source came first" (source_merge.py): every column with a
\* winner is what Home Assistant's record with FordConnect's merged into it has.
Combined(by, c) ==
    LET ha   == Record(HaLog[c], "ha")
        fcon == Record(Fold[c], "fcon")
    IN  IF by = {"ha", "fcon"} THEN Merged(ha, fcon, "fcon")
        ELSE IF by = {"ha"} THEN ha ELSE fcon

MergedIsCanonical ==
    \A i \in Id : Ingested(i) /\ rows[i].charge \in Plain =>
        \A col \in Columns : Winner[col] # "keep" =>
            rows[i][col] = Combined(rows[i].by, rows[i].charge)[col]

\* "A merge never overwrites" what a user has curated (session_merge.py): no
\* writer changes a place that is set, or a row the user has entered, even
\* when the user sets it between the writer's read and its commit.
RespectsUser ==
    [][tx' # tx => \A i \in Stored :
           /\ rows[i].src = "user" => rows'[i] = rows[i]
           /\ rows[i].place # Null =>
                 rows'[i] # NoRow /\ rows'[i].place = rows[i].place]_vars

\* A row added beside one the user has entered for the same charge is flagged
\* for review, and only Home Assistant's is added at all (charge_sessions.py:
\* "a matching manual or imported session means nothing is written").
FlaggedBesideUsers ==
    [][tx' # tx => \A i \in Id \ Stored :
           rows'[i] # NoRow /\ rows'[i].charge \in Plain
           /\ (\E j \in Stored : rows[j].src = "user" /\ rows[j].charge = rows'[i].charge)
           => rows'[i].src = "ha" /\ rows'[i].review]_vars

=============================================================================
