---------------------------- MODULE ChargesProofs ----------------------------
(***************************************************************************)
(* Theorems about Charges: type correctness; on SQLite one row per charge, *)
(* what a user has set stays, the order of arrival does not matter, and a  *)
(* row beside a user's is flagged.                                         *)
(***************************************************************************)
EXTENDS Charges, TLAPS

-----------------------------------------------------------------------------
(***************************************************************************)
(* What merging returns.                                                   *)
(***************************************************************************)
Written == [start : Nat \cup {Null}, energy : Nat \cup {Null}, range : Nat \cup {Null},
            plug : Nat \cup {Null}, place : Place \cup {Null}, src : {"ha", "fcon"}]

LEMMA RecordType ==
    ASSUME NEW obs \in Obs, NEW source \in {"ha", "fcon"}
    PROVE  Record(obs, source) \in Written
BY DEF Obs, Written, Record

\* A row is the record of its columns.
LEMMA RowShape ==
    ASSUME NEW old \in Row
    PROVE  /\ DOMAIN old = {"start", "energy", "range", "plug", "place", "src",
                            "other", "review", "charge", "by"}
           /\ \A f : /\ f = [col \in DOMAIN old |-> f[col]]
                     /\ f.start \in Nat \cup {Null} /\ f.energy \in Nat \cup {Null}
                     /\ f.range \in Nat \cup {Null} /\ f.plug \in Nat \cup {Null}
                     /\ f.place \in Place \cup {Null} /\ f.src \in {"ha", "fcon", "user"}
                     /\ f.other \in Id \cup {NoId} /\ f.review \in BOOLEAN
                     /\ f.charge \in Charge /\ f.by \in SUBSET {"ha", "fcon"}
                     => f \in Row
<1>1. DOMAIN old = {"start", "energy", "range", "plug", "place", "src",
                    "other", "review", "charge", "by"}
  BY DEF Row
<1>2. ASSUME NEW f, f = [col \in DOMAIN old |-> f[col]]
      PROVE  f = [start |-> f.start, energy |-> f.energy, range |-> f.range,
                  plug |-> f.plug, place |-> f.place, src |-> f.src,
                  other |-> f.other, review |-> f.review, charge |-> f.charge,
                  by |-> f.by]
  BY <1>1, <1>2
<1> QED BY <1>1, <1>2 DEF Row

\* A column's value after a merge is one of the two it had.
LEMMA MergedValueIsOneOfTwo ==
    ASSUME NEW old, NEW new, NEW source, NEW col
    PROVE  MergedValue(old, new, source, col) \in {old[col], new[col]}
BY DEF MergedValue, CheckedRange

LEMMA MergedType ==
    ASSUME NEW old \in Row, NEW new \in Written, NEW source
    PROVE  Merged(old, new, source) \in Row
<1> DEFINE row == Merged(old, new, source)
<1>1. /\ row = [col \in DOMAIN old |-> row[col]]
      /\ \A col \in DOMAIN old : row[col] \in {old[col], new[col]}
                                 /\ (col \notin Columns => row[col] = old[col])
  BY MergedValueIsOneOfTwo DEF Merged
<1>2. {"other", "review", "charge", "by"} \cap Columns = {}
  BY DEF Columns, Winner
<1>3. row.src \in {old.src, new.src}
  BY <1>1, RowShape
<1> QED BY <1>1, <1>2, <1>3, RowShape DEF Row, Written

LEMMA RefreshedType ==
    ASSUME NEW old \in Row, NEW new \in Written
    PROVE  Refreshed(old, new) \in Row
<1> DEFINE row == Refreshed(old, new)
<1>1. /\ row = [col \in DOMAIN old |-> row[col]]
      /\ \A col \in DOMAIN old : row[col] \in {old[col], new[col]}
                                 /\ (col \notin Columns => row[col] = old[col])
  BY DEF Refreshed
<1>2. {"other", "review", "charge", "by"} \cap Columns = {}
  BY DEF Columns, Winner
<1> QED BY <1>1, <1>2, RowShape DEF Row, Written

LEMMA RefreshedColumn ==
    ASSUME NEW old, NEW new, NEW col \in Columns \cap DOMAIN old, Winner[col] # "keep"
    PROVE  Refreshed(old, new)[col] = new[col]
BY DEF Refreshed

LEMMA ObservationType ==
    ASSUME NEW t \in Task, NEW c \in Charge
    PROVE  Observation(t, c) \in Obs /\ Source(t) \in {"ha", "fcon"}
BY ChargesAssumption DEF Observation, Source, Task

LEMMA NewRowType ==
    ASSUME NEW obs \in Obs, NEW source \in {"ha", "fcon", "user"}, NEW c \in Charge,
           NEW other \in Id \cup {NoId}
    PROVE  NewRow(obs, source, c, other) \in Row
<1>1. {source} \ {"user"} \in SUBSET {"ha", "fcon"}
  OBVIOUS
<1> QED BY <1>1 DEF NewRow, Obs, Row

LEMMA RemainingType ==
    ASSUME TypeOK, NEW i
    PROVE  Remaining(i) \in [Id -> Row \cup {NoRow}]
<1> SUFFICES ASSUME NEW j \in Stored, rows[j] \in Row
             PROVE  [rows[j] EXCEPT !.other = NoId] \in Row
  BY DEF TypeOK, Remaining, Stored
<1> QED BY DEF Row

LEMMA RemainingOther ==
    ASSUME TypeOK, NEW i, NEW j \in Id, Remaining(i)[j] # NoRow
    PROVE  Remaining(i)[j].other # j
<1>1. CASE j \in Stored /\ j # i /\ rows[j].other = i
  <2>1. rows[j] \in Row /\ [rows[j] EXCEPT !.other = NoId].other = NoId
    BY <1>1 DEF TypeOK, Stored, Row
  <2> QED BY <1>1, <2>1, ChargesAssumption DEF Remaining
<1>2. CASE ~(j \in Stored /\ j # i /\ rows[j].other = i)
  BY <1>2 DEF Remaining, TypeOK, Stored
<1> QED BY <1>1, <1>2

LEMMA UpdatedType ==
    ASSUME NEW x \in Tx, x.base \in Row, rows[x.target] \in Row,
           NEW source \in {"ha", "fcon"}
    PROVE  /\ Updated(x, source) \in Row
           /\ Updated(x, source).other = rows[x.target].other
<1> DEFINE row == Updated(x, source)  old == rows[x.target]
<1>1. After(x, source) \in Row
  BY RecordType, MergedType, RefreshedType DEF After, Tx
<1>2. DOMAIN x.base = DOMAIN old
  BY RowShape
<1>3. /\ row = [col \in DOMAIN old |-> row[col]]
      /\ \A col \in DOMAIN old \ {"by"} :
            /\ row[col] \in {After(x, source)[col], old[col]}
            /\ col \notin Columns => row[col] = old[col]
  BY <1>2 DEF Updated
<1>4. row.by = old.by \cup {source} /\ old.by \cup {source} \in SUBSET {"ha", "fcon"}
  BY <1>2, RowShape DEF Updated, Row
<1>5. {"other", "review", "charge"} \cap Columns = {}
  BY DEF Columns, Winner
<1>6. /\ row.start \in Nat \cup {Null} /\ row.energy \in Nat \cup {Null}
      /\ row.range \in Nat \cup {Null} /\ row.plug \in Nat \cup {Null}
      /\ row.place \in Place \cup {Null} /\ row.src \in {"ha", "fcon", "user"}
  BY <1>1, <1>3, RowShape DEF Row
<1>7. row.other = old.other /\ row.review = old.review /\ row.charge = old.charge
  BY <1>3, <1>5, RowShape
<1> QED BY <1>3, <1>4, <1>6, <1>7, RowShape DEF Row

-----------------------------------------------------------------------------
(***************************************************************************)
(* Type correctness, one step per action.                                  *)
(***************************************************************************)
LEMMA OpensType ==
    ASSUME TypeOK, NEW t \in Task, NEW c \in Charge, tx[t] = NoTx,
           NEW at, NEW doing, NEW target, NEW base, NEW other,
           Opens(t, c, at, doing, target, base, other),
           UNCHANGED <<rows, stale, cut, touched>>,
           at \in {"matched", "ready"}, doing \in {"merge", "refresh", "insert"},
           target \in Id \cup {NoId}, other \in Id \cup {NoId},
           base \in Row \cup {NoRow},
           at = "matched" => doing = "merge",
           doing = "insert" <=> target = NoId,
           base \in Row <=> at = "ready" /\ doing # "insert"
    PROVE  TypeOK'
<1> DEFINE x == [charge |-> c, at |-> at, doing |-> doing, target |-> target,
                 base |-> base, other |-> other, obs |-> Observation(t, c)]
<1>1. x \in Tx
  BY ObservationType DEF Tx
<1>2. tx' = [tx EXCEPT ![t] = x] /\ x # NoTx
  BY <1>1, ChargesAssumption DEF Opens
<1>3. Open' = Open \cup {t}
  BY <1>2 DEF Open, TypeOK
<1>4. \A u \in Open' : /\ tx'[u].at = "matched" => tx'[u].doing = "merge"
                       /\ tx'[u].doing = "insert" <=> tx'[u].target = NoId
                       /\ tx'[u].base \in Row <=> tx'[u].at = "ready" /\ tx'[u].doing # "insert"
  BY <1>2, <1>3 DEF TypeOK, Open
<1> QED BY <1>1, <1>2, <1>3, <1>4 DEF TypeOK, Stored

\* A commit leaves the other transactions as they are, overtaken.
LEMMA CommitType ==
    ASSUME TypeOK, NEW mine \in SUBSET Task, Overtakes(mine),
           tx' = [t \in Task |-> IF t \in mine THEN NoTx ELSE tx[t]],
           rows' \in [Id -> Row \cup {NoRow}],
           \A i \in Id : rows'[i] # NoRow => rows'[i].other # i,
           cut' \subseteq Charge, touched' \subseteq Charge
    PROVE  TypeOK'
<1>1. Open' = Open \ mine
  BY DEF Open
<1> QED BY <1>1 DEF TypeOK, Overtakes, Open, Stored

LEMMA MatchesType ==
    ASSUME TypeOK, NEW t \in Task, NEW c \in Charge, HaMatches(t, c) \/ FconMatches(t, c)
    PROVE  TypeOK'
<1>1. CASE HaMatches(t, c)
  <2>1. CASE \E i \in Stored : Opens(t, c, "matched", "merge", i, NoRow, NoId)
    BY <1>1, <2>1, OpensType, ChargesAssumption DEF HaMatches, Stored
  <2>2. CASE \E i \in Id \cup {NoId} : Opens(t, c, "ready", "insert", NoId, NoRow, i)
    BY <1>1, <2>2, OpensType, ChargesAssumption DEF HaMatches
  <2> QED BY <1>1, <2>1, <2>2 DEF HaMatches, Matching, Stored
<1>2. CASE FconMatches(t, c)
  <2>1. CASE \E i \in Stored : Opens(t, c, "ready", "refresh", i, rows[i], NoId)
    <3>1. \A i \in Stored : rows[i] \in Row /\ i \in Id
      BY DEF Stored, TypeOK
    <3> QED BY <1>2, <2>1, <3>1, OpensType, ChargesAssumption DEF FconMatches
  <2>2. CASE \E i \in Stored : Opens(t, c, "matched", "merge", i, NoRow, NoId)
    BY <1>2, <2>2, OpensType, ChargesAssumption DEF FconMatches, Stored
  <2>3. CASE Opens(t, c, "ready", "insert", NoId, NoRow, NoId)
    BY <1>2, <2>3, OpensType, ChargesAssumption DEF FconMatches
  <2> QED BY <1>2, <2>1, <2>2, <2>3 DEF FconMatches, Matching, Stored
<1> QED BY <1>1, <1>2

LEMMA LoadsType ==
    ASSUME TypeOK, NEW t \in Task, Loads(t)
    PROVE  TypeOK'
<1>1. /\ t \in Open /\ tx[t] \in Tx /\ tx[t].doing = "merge" /\ tx[t].target \in Id
      /\ tx[t].base \notin Row
  BY DEF TypeOK, Loads, Open, Tx
<1>2. CASE rows[tx[t].target] = NoRow
  <2> DEFINE x == [tx[t] EXCEPT !.at = "ready", !.doing = "insert", !.target = NoId]
  <2>1. tx' = [tx EXCEPT ![t] = x]
    BY <1>2 DEF Loads, TypeOK
  <2>2. x \in Tx /\ x # NoTx /\ x.base \notin Row /\ x.doing = "insert" /\ x.target = NoId
        /\ x.at = "ready"
    BY <1>1, ChargesAssumption DEF Tx
  <2> QED BY <1>1, <2>1, <2>2 DEF TypeOK, Loads, Open, Stored
<1>3. CASE rows[tx[t].target] # NoRow
  <2> DEFINE x == [tx[t] EXCEPT !.at = "ready", !.base = rows[tx[t].target]]
  <2>1. tx' = [tx EXCEPT ![t] = x]
    BY <1>3 DEF Loads, TypeOK
  <2>2. rows[tx[t].target] \in Row
    BY <1>1, <1>3 DEF TypeOK
  <2>3. x \in Tx /\ x # NoTx /\ x.base \in Row /\ x.at = "ready"
        /\ x.doing = tx[t].doing /\ x.target = tx[t].target
    BY <1>1, <2>2, ChargesAssumption DEF Tx
  <2> QED BY <1>1, <2>1, <2>3 DEF TypeOK, Loads, Open, Stored
<1> QED BY <1>2, <1>3

THEOREM ChargesTypeCorrect == Spec => []TypeOK
<1>1. Init => TypeOK
  BY ChargesAssumption DEF Init, TypeOK, Open, Stored
<1>2. TypeOK /\ [Next]_vars => TypeOK'
  <2> SUFFICES ASSUME TypeOK, [Next]_vars
               PROVE  TypeOK'
    OBVIOUS
  <2>1. CASE \E t \in HaTask, c \in Charge : HaMatches(t, c)
    BY <2>1, MatchesType DEF Task
  <2>2. CASE \E t \in FconTask, c \in Charge : FconMatches(t, c)
    BY <2>2, MatchesType DEF Task
  <2>3. CASE \E t \in Task : Loads(t)
    BY <2>3, LoadsType
  <2>4. ASSUME NEW t \in Task, Inserts(t)
        PROVE  TypeOK'
    <3>1. tx[t] \in Tx /\ Source(t) \in {"ha", "fcon"}
      BY <2>4 DEF TypeOK, Inserts, Source
    <3>2. NewRow(tx[t].obs, Source(t), tx[t].charge, tx[t].other) \in Row
      BY <3>1, NewRowType DEF Tx
    <3> DEFINE row == NewRow(tx[t].obs, Source(t), tx[t].charge, tx[t].other)
    <3>3. PICK i \in Free : rows' = [rows EXCEPT ![i] = row]
      BY <2>4 DEF Inserts
    <3>4. i \in Id /\ row.other # i
      BY <2>4, <3>3 DEF Free, NewRow, Inserts
    <3>5. \A j \in Id : rows'[j] # NoRow => rows'[j].other # j
      BY <3>3, <3>4 DEF TypeOK, Stored
    <3>6. rows' \in [Id -> Row \cup {NoRow}]
      BY <3>2, <3>3 DEF TypeOK
    <3> QED BY <2>4, <3>5, <3>6, CommitType DEF Inserts, Closes, TypeOK
  <2>5. ASSUME NEW t \in Task, Updates(t)
        PROVE  TypeOK'
    <3>1. /\ tx[t] \in Tx /\ tx[t].base \in Row /\ tx[t].target # NoId
          /\ Source(t) \in {"ha", "fcon"}
      BY <2>5 DEF TypeOK, Updates, Source, Open
    <3>2. tx[t].target \in Id /\ rows[tx[t].target] \in Row
      BY <2>5, <3>1 DEF TypeOK, Updates, Tx
    <3>3. /\ Updated(tx[t], Source(t)) \in Row
          /\ Updated(tx[t], Source(t)).other = rows[tx[t].target].other
      BY <3>1, <3>2, UpdatedType
    <3>4. \A j \in Id : rows'[j] # NoRow => rows'[j].other # j
      BY <2>5, <3>3 DEF Updates, TypeOK, Stored
    <3>5. rows' \in [Id -> Row \cup {NoRow}]
      BY <2>5, <3>3 DEF Updates, TypeOK
    <3> QED BY <2>5, <3>4, <3>5, CommitType DEF Updates, Closes, TypeOK
  <2>6. ASSUME NEW t \in Task, Fails(t)
        PROVE  TypeOK'
    BY <2>6 DEF Fails, Closes, TypeOK, Open, Stored
  <2>7. ASSUME NEW i \in Id, NEW place \in Place, Curates(i, place)
        PROVE  TypeOK'
    <3>1. rows[i] \in Row /\ [rows[i] EXCEPT !.place = place] \in Row
          /\ [rows[i] EXCEPT !.place = place].other = rows[i].other
      BY <2>7 DEF Curates, Stored, TypeOK, Row
    <3>2. rows' = [rows EXCEPT ![i] = [rows[i] EXCEPT !.place = place]]
      BY <2>7 DEF Curates, TypeOK
    <3>3. \A j \in Id : rows'[j] # NoRow => rows'[j].other # j
      BY <2>7, <3>1, <3>2 DEF Curates, TypeOK, Stored
    <3>4. rows' \in [Id -> Row \cup {NoRow}]
      BY <3>1, <3>2 DEF TypeOK
    <3> QED BY <2>7, <3>3, <3>4, CommitType DEF Curates, TypeOK
  <2>8. ASSUME NEW i \in Id, NEW energy \in Corrected, Corrects(i, energy)
        PROVE  TypeOK'
    <3>1. rows[i] \in Row /\ [rows[i] EXCEPT !.energy = energy] \in Row
          /\ [rows[i] EXCEPT !.energy = energy].other = rows[i].other
      BY <2>8, ChargesAssumption DEF Corrects, Stored, TypeOK, Row
    <3>2. rows[i].charge \in Charge
      BY <3>1 DEF Row
    <3>3. rows' = [rows EXCEPT ![i] = [rows[i] EXCEPT !.energy = energy]]
      BY <2>8 DEF Corrects, TypeOK
    <3>4. \A j \in Id : rows'[j] # NoRow => rows'[j].other # j
      BY <2>8, <3>1, <3>3 DEF Corrects, TypeOK, Stored
    <3>5. rows' \in [Id -> Row \cup {NoRow}]
      BY <3>1, <3>3 DEF TypeOK
    <3> QED BY <2>8, <3>2, <3>4, <3>5, CommitType DEF Corrects, TypeOK
  <2>9. ASSUME NEW i \in Id, Deletes(i)
        PROVE  TypeOK'
    BY <2>9, CommitType, RemainingType, RemainingOther DEF Deletes, TypeOK
  <2>10. ASSUME NEW i \in Id, KeepsThis(i) \/ KeepsBoth(i)
         PROVE  TypeOK'
    <3>1. \A row \in Row : [row EXCEPT !.review = FALSE, !.other = NoId] \in Row
      BY DEF Row
    <3> DEFINE kept == [Remaining(rows[i].other) EXCEPT ![i].review = FALSE, ![i].other = NoId]
    <3>2. CASE KeepsThis(i)
      <4>1. rows[i].other # i /\ rows[i] \in Row
        BY <3>2 DEF KeepsThis, TypeOK, Stored
      <4>2. Remaining(rows[i].other)[i] \in Row
        BY <3>2, <4>1, RemainingType DEF KeepsThis, Remaining, Stored, Row
      <4>3. kept \in [Id -> Row \cup {NoRow}]
        BY <3>1, <4>2, RemainingType
      <4>4. \A j \in Id : kept[j] # NoRow => kept[j].other # j
        BY <4>2, RemainingOther, RemainingType, ChargesAssumption DEF Row
      <4> QED BY <3>2, <4>3, <4>4, CommitType DEF KeepsThis, TypeOK
    <3>3. CASE KeepsBoth(i)
      <4>1. rows[i] \in Row /\ rows' = [rows EXCEPT ![i] =
                                   [rows[i] EXCEPT !.review = FALSE, !.other = NoId]]
        BY <3>3 DEF KeepsBoth, Stored, TypeOK
      <4>2. [rows[i] EXCEPT !.review = FALSE, !.other = NoId].other = NoId
        BY <4>1 DEF Row
      <4>3. \A j \in Id : rows'[j] # NoRow => rows'[j].other # j
        BY <4>1, <4>2, ChargesAssumption DEF TypeOK, Stored
      <4>4. rows' \in [Id -> Row \cup {NoRow}]
        BY <3>1, <4>1 DEF TypeOK
      <4> QED BY <3>3, <4>3, <4>4, CommitType DEF KeepsBoth, TypeOK
    <3> QED BY <2>10, <3>2, <3>3
  <2>11. ASSUME NEW c \in Charge, NEW place \in Place, Enters(c, place)
         PROVE  TypeOK'
    <3>1. HaLog[c] \in Obs /\ [HaLog[c] EXCEPT !.place = place] \in Obs
      BY ChargesAssumption DEF Obs
    <3>2. NewRow([HaLog[c] EXCEPT !.place = place], "user", c, NoId) \in Row
      BY <3>1, NewRowType
    <3> DEFINE row == NewRow([HaLog[c] EXCEPT !.place = place], "user", c, NoId)
    <3>3. PICK i \in Free : rows' = [rows EXCEPT ![i] = row]
      BY <2>11 DEF Enters
    <3>4. i \in Id /\ row.other = NoId
      BY <3>3 DEF Free, NewRow
    <3>5. \A j \in Id : rows'[j] # NoRow => rows'[j].other # j
      BY <3>3, <3>4, ChargesAssumption DEF TypeOK, Stored
    <3>6. rows' \in [Id -> Row \cup {NoRow}]
      BY <3>2, <3>3 DEF TypeOK
    <3> QED BY <2>11, <3>5, <3>6, CommitType DEF Enters, TypeOK
  <2>12. ASSUME NEW c \in Charge, Prunes(c)
         PROVE  TypeOK'
    BY <2>12, CommitType DEF Prunes, TypeOK, Stored
  <2>13. CASE UNCHANGED vars
    BY <2>13 DEF vars, TypeOK, Open, Stored
  <2> QED
    BY <2>1, <2>2, <2>3, <2>4, <2>5, <2>6, <2>7, <2>8, <2>9, <2>10, <2>11, <2>12, <2>13
    DEF Next, Writes, Edits
<1> QED BY <1>1, <1>2, PTL DEF Spec

-----------------------------------------------------------------------------
(***************************************************************************)
(* One row per charge.  A row of a plain charge holds the start and energy *)
(* of one of its two records, so every later record of the charge finds    *)
(* it; what a transaction has decided is still true as long as no commit   *)
(* has overtaken it; and on SQLite no other transaction commits.           *)
(***************************************************************************)
Figures(source, c) == IF source = "ha" THEN HaLog[c] ELSE Fold[c]

RowsAreRecords ==
    \A i \in Id : Ingested(i) /\ rows[i].charge \in Plain =>
        LET said == Figures(rows[i].src, rows[i].charge)
        IN  rows[i].start = said.start /\ rows[i].energy = said.energy

ObservationsAreRecords ==
    \A t \in Open : tx[t].charge \in Plain =>
        tx[t].obs = Figures(Source(t), tx[t].charge)

\* What t has decided on, seen in the rows there are now.
Decided(t) ==
    IF tx[t].doing = "insert"
    THEN tx[t].charge \in Plain =>
            \A i \in Id : ~(Ingested(i) /\ rows[i].charge = tx[t].charge)
    ELSE /\ tx[t].target \in Stored
         /\ rows[tx[t].target].src =
               IF t \in HaTask \/ tx[t].doing = "refresh" THEN "fcon" ELSE "ha"
         /\ tx[t].doing = "refresh" => t \in FconTask
         /\ rows[tx[t].target].charge \in Plain =>
               tx[t].charge = rows[tx[t].target].charge
         /\ tx[t].at = "ready" => tx[t].base = rows[tx[t].target]

DecisionsHold == \A t \in Open \ stale : Decided(t)

ChargeInv == /\ RowsAreRecords /\ ObservationsAreRecords
             /\ DecisionsHold /\ OneRowPerCharge

\* Each record of a plain charge agrees with each row of it, and no record of
\* another charge does.
LEMMA RecordsFindTheirRows ==
    ASSUME Recognisable, TypeOK, RowsAreRecords,
           NEW i \in Id, Ingested(i), rows[i].charge \in Plain
    PROVE  /\ \A f \in {HaLog, Fold} : SameCharge(f[rows[i].charge], rows[i])
           /\ \A c \in Charge \ {rows[i].charge} : \A f \in {HaLog, Fold, FoldCut} :
                 ~SameCharge(f[c], rows[i])
           /\ rows[i].src = "fcon" => rows[i].start = Fold[rows[i].charge].start
           /\ \A c \in Charge \ {rows[i].charge} : \A f \in {Fold, FoldCut} :
                 rows[i].src = "fcon" => f[c].start # rows[i].start
           /\ rows[i].src \in {"ha", "fcon"}
<1> DEFINE d == rows[i].charge
<1>1. rows[i] \in Row /\ rows[i].src \in {"ha", "fcon"} /\ d \in Charge
  BY DEF TypeOK, Ingested, Stored, Row
<1>2. PICK g \in {HaLog, Fold} :
          /\ rows[i].start = g[d].start /\ rows[i].energy = g[d].energy
          /\ rows[i].src = "fcon" => g = Fold
  BY <1>1 DEF RowsAreRecords, Figures
<1>3. \A f \in {HaLog, Fold} : SameCharge(f[d], g[d])
  BY <1>1 DEF Recognisable
<1>4. \A obs : SameCharge(obs, rows[i]) <=> SameCharge(obs, g[d])
  BY <1>2 DEF SameCharge
<1>5. \A c \in Charge \ {d} : /\ \A f \in {HaLog, Fold, FoldCut} : ~SameCharge(f[c], g[d])
                              /\ \A f \in {Fold, FoldCut} : f[c].start # Fold[d].start
  BY <1>1 DEF Recognisable
<1> QED BY <1>1, <1>2, <1>3, <1>4, <1>5

\* A new decision is right: the writer has just looked.
LEMMA MatchesDecides ==
    ASSUME Recognisable, TypeOK, ChargeInv, NEW t \in Task, NEW c \in Charge,
           \/ t \in HaTask /\ HaMatches(t, c)
           \/ t \in FconTask /\ FconMatches(t, c)
    PROVE  ChargeInv'
<1>1. UNCHANGED <<rows, stale, cut, touched>> /\ tx[t] = NoTx
  BY DEF HaMatches, FconMatches
<1>2. UNCHANGED <<Plain, Stored>> /\ \A i \in Id : Ingested(i)' <=> Ingested(i)
  BY <1>1 DEF Plain, Stored, Ingested
<1>3. RowsAreRecords' /\ OneRowPerCharge'
  BY <1>1, <1>2 DEF ChargeInv, RowsAreRecords, OneRowPerCharge
<1>4. PICK at, doing, target, base, other : Opens(t, c, at, doing, target, base, other)
  BY DEF HaMatches, FconMatches
<1>5. /\ tx'[t].charge = c /\ tx'[t].obs = Observation(t, c)
      /\ \A u \in Task \ {t} : tx'[u] = tx[u]
      /\ tx' \in [Task -> Tx \cup {NoTx}]
  BY <1>4, MatchesType DEF Opens, TypeOK
<1>6. c \in Plain => Observation(t, c) = Figures(Source(t), c)
  BY ChargesAssumption DEF Plain, Observation, Figures, Source, Task
<1>7. ObservationsAreRecords'
  BY <1>2, <1>5, <1>6 DEF ChargeInv, ObservationsAreRecords, Open, Figures, Source
<1>8. \A u \in Task \ {t} : u \in Open' \ stale' => Decided(u)'
  BY <1>1, <1>2, <1>5 DEF ChargeInv, DecisionsHold, Decided, Open
<1>9. Decided(t)'
  <2> DEFINE x == tx'[t]
  <2>1. \A i \in Id : Ingested(i) /\ rows[i].charge \in Plain =>
           /\ SameCharge(HaLog[rows[i].charge], rows[i])
           /\ SameCharge(Fold[rows[i].charge], rows[i])
           /\ \A f \in {HaLog, Fold, FoldCut} :
                 SameCharge(f[c], rows[i]) => rows[i].charge = c
           /\ rows[i].src = "fcon" =>
                 /\ rows[i].start = Fold[rows[i].charge].start
                 /\ \A f \in {Fold, FoldCut} : f[c].start = rows[i].start => rows[i].charge = c
           /\ rows[i].src \in {"ha", "fcon"}
    BY RecordsFindTheirRows DEF ChargeInv
  <2>2. CASE t \in HaTask /\ HaMatches(t, c)
    <3>1. CASE \E i \in Matching(HaLog[c]) :
                 /\ rows[i].src = "fcon"
                 /\ Opens(t, c, "matched", "merge", i, NoRow, NoId)
      <4>1. PICK i \in Matching(HaLog[c]) :
                 /\ rows[i].src = "fcon"
                 /\ Opens(t, c, "matched", "merge", i, NoRow, NoId)
        BY <3>1
      <4>2. x.target = i /\ x.doing = "merge" /\ x.at = "matched"
        BY <4>1 DEF Opens, TypeOK
      <4>3. i \in Stored /\ Ingested(i) /\ SameCharge(HaLog[c], rows[i])
        BY <4>1 DEF Matching, Ingested
      <4> QED BY <1>1, <1>2, <1>5, <2>1, <2>2, <4>1, <4>2, <4>3 DEF Decided, Stored
    <3>2. CASE /\ \A i \in Matching(HaLog[c]) : rows[i].src \notin {"ha", "fcon"}
               /\ \E i \in Id \cup {NoId} : Opens(t, c, "ready", "insert", NoId, NoRow, i)
      <4>1. x.doing = "insert"
        BY <3>2 DEF Opens, TypeOK
      <4>2. c \in Plain => \A i \in Id : ~(Ingested(i) /\ rows[i].charge = c)
        BY <2>1, <3>2 DEF Matching, Ingested
      <4> QED BY <1>1, <1>2, <1>5, <4>1, <4>2 DEF Decided
    <3> QED BY <2>2, <3>1, <3>2 DEF HaMatches, Matching, Stored
  <2>3. CASE t \in FconTask /\ FconMatches(t, c)
    <3> DEFINE obs == Observation(t, c)
    <3>1. obs = Fold[c] \/ obs = FoldCut[c]
      BY <2>3, ChargesAssumption DEF Observation
    <3>2. t \notin HaTask
      BY <2>3, ChargesAssumption
    <3>3. CASE \E i \in Stored : /\ rows[i].src = "fcon" /\ rows[i].start = obs.start
                                 /\ Opens(t, c, "ready", "refresh", i, rows[i], NoId)
      <4>1. PICK i \in Stored : /\ rows[i].src = "fcon" /\ rows[i].start = obs.start
                                /\ Opens(t, c, "ready", "refresh", i, rows[i], NoId)
        BY <3>3
      <4>2. x.target = i /\ x.doing = "refresh" /\ x.base = rows[i]
        BY <4>1 DEF Opens, TypeOK
      <4>3. Ingested(i) /\ i \in Id
        BY <4>1 DEF Stored, Ingested
      <4>4. rows[i].charge \in Plain => rows[i].charge = c
        BY <2>1, <3>1, <4>1, <4>3
      <4> QED BY <1>1, <1>2, <1>5, <2>3, <3>2, <4>1, <4>2, <4>3, <4>4 DEF Decided
    <3>4. CASE \E i \in Matching(obs) :
                 /\ rows[i].src = "ha"
                 /\ Opens(t, c, "matched", "merge", i, NoRow, NoId)
      <4>1. PICK i \in Matching(obs) : /\ rows[i].src = "ha"
                                       /\ Opens(t, c, "matched", "merge", i, NoRow, NoId)
        BY <3>4
      <4>2. x.target = i /\ x.doing = "merge" /\ x.at = "matched"
        BY <4>1 DEF Opens, TypeOK
      <4>3. i \in Stored /\ Ingested(i) /\ i \in Id /\ SameCharge(obs, rows[i])
        BY <4>1 DEF Matching, Ingested, Stored
      <4>4. rows[i].charge \in Plain => rows[i].charge = c
        BY <2>1, <3>1, <4>3
      <4> QED BY <1>1, <1>2, <1>5, <3>2, <4>1, <4>2, <4>3, <4>4 DEF Decided
    <3>5. CASE /\ \A i \in Stored : ~(rows[i].src = "fcon" /\ rows[i].start = obs.start)
               /\ \A i \in Matching(obs) : rows[i].src = "fcon"
               /\ Opens(t, c, "ready", "insert", NoId, NoRow, NoId)
      <4>1. x.doing = "insert"
        BY <3>5 DEF Opens, TypeOK
      <4>2. ASSUME c \in Plain, NEW i \in Id, Ingested(i), rows[i].charge = c
            PROVE  FALSE
        <5>1. obs = Fold[c] /\ i \in Stored
          BY <2>3, <4>2, ChargesAssumption DEF Observation, Plain, Ingested
        <5>2. i \in Matching(obs) /\ (rows[i].src = "fcon" => rows[i].start = obs.start)
          BY <2>1, <4>2, <5>1 DEF Matching
        <5> QED BY <3>5, <5>1, <5>2
      <4> QED BY <1>1, <1>2, <1>5, <4>1, <4>2 DEF Decided
    <3> QED BY <2>3, <3>3, <3>4, <3>5 DEF FconMatches
  <2> QED BY <2>2, <2>3
<1>10. DecisionsHold'
  BY <1>8, <1>9 DEF DecisionsHold, Open
<1> QED BY <1>3, <1>7, <1>10 DEF ChargeInv

\* Looking the row up again changes nothing that was decided.
LEMMA LoadsKeepsDecisions ==
    ASSUME TypeOK, ChargeInv, NEW t \in Task, Loads(t)
    PROVE  ChargeInv'
<1>1. /\ t \in Open /\ tx[t] \in Tx /\ tx[t].doing = "merge" /\ tx[t].target \in Id
      /\ UNCHANGED <<rows, stale, cut, touched>>
  BY DEF TypeOK, Loads, Open, Tx
<1>2. UNCHANGED <<Plain, Stored>> /\ \A i \in Id : Ingested(i)' <=> Ingested(i)
  BY <1>1 DEF Plain, Stored, Ingested
<1>3. RowsAreRecords' /\ OneRowPerCharge'
  BY <1>1, <1>2 DEF ChargeInv, RowsAreRecords, OneRowPerCharge
<1>4. /\ tx'[t].charge = tx[t].charge /\ tx'[t].obs = tx[t].obs
      /\ \A u \in Task \ {t} : tx'[u] = tx[u]
  BY <1>1 DEF Loads, TypeOK, Tx
<1>5. ObservationsAreRecords'
  BY <1>1, <1>2, <1>4 DEF ChargeInv, ObservationsAreRecords, Open, Figures, Source
<1>6. \A u \in Task \ {t} : u \in Open' \ stale' => Decided(u)'
  BY <1>1, <1>2, <1>4 DEF ChargeInv, DecisionsHold, Decided, Open
<1>7. ASSUME t \notin stale
      PROVE  Decided(t)'
  <2>1. Decided(t) /\ rows[tx[t].target] # NoRow
    BY <1>1, <1>7 DEF ChargeInv, DecisionsHold, Decided, Stored
  <2>2. tx' = [tx EXCEPT ![t] = [tx[t] EXCEPT !.at = "ready", !.base = rows[tx[t].target]]]
    BY <2>1 DEF Loads, TypeOK
  <2>3. /\ tx'[t].doing = "merge" /\ tx'[t].target = tx[t].target
        /\ tx'[t].base = rows[tx[t].target]
    BY <1>1, <2>2 DEF TypeOK, Tx
  <2> QED BY <1>1, <1>2, <1>4, <2>1, <2>3 DEF Decided
<1>8. DecisionsHold'
  BY <1>1, <1>6, <1>7 DEF DecisionsHold, Open
<1> QED BY <1>3, <1>5, <1>8 DEF ChargeInv

\* On a commit every other transaction is overtaken.
LEMMA CommitOvertakes ==
    ASSUME TypeOK, ChargeInv, NEW mine \in SUBSET Task, Overtakes(mine),
           tx' = [t \in Task |-> IF t \in mine THEN NoTx ELSE tx[t]],
           cut \subseteq cut', touched \subseteq touched',
           \A i \in Id : rows'[i] # NoRow /\ rows'[i].src # "user" =>
              /\ rows[i] # NoRow /\ rows[i].src # "user"
              /\ rows'[i].charge = rows[i].charge
              /\ rows[i].charge \in Plain' =>
                    /\ rows'[i].src = rows[i].src
                    /\ rows'[i].start = rows[i].start
                    /\ rows'[i].energy = rows[i].energy
    PROVE  ChargeInv'
<1>1. Plain' \subseteq Plain
  BY DEF Plain
<1>2. ObservationsAreRecords' /\ DecisionsHold'
  BY <1>1 DEF ChargeInv, ObservationsAreRecords, DecisionsHold, Open, Overtakes, Figures, Source
<1>3. RowsAreRecords' /\ OneRowPerCharge'
  BY <1>1 DEF ChargeInv, RowsAreRecords, OneRowPerCharge, Ingested, Stored, Figures
<1> QED BY <1>2, <1>3 DEF ChargeInv

\* An insert that commits was decided on the rows there still are.
LEMMA InsertsKeepsOneRow ==
    ASSUME Snapshot, TypeOK, ChargeInv, NEW t \in Task, Inserts(t)
    PROVE  ChargeInv'
<1> DEFINE c == tx[t].charge
           new == NewRow(tx[t].obs, Source(t), c, tx[t].other)
<1>1. t \in Open \ stale /\ c \in Charge /\ tx[t].obs \in Obs /\ Source(t) \in {"ha", "fcon"}
  BY DEF Inserts, MayCommit, Open, TypeOK, Tx, Source
<1>2. PICK i \in Free : rows' = [rows EXCEPT ![i] = new]
  BY DEF Inserts
<1>3. i \in Id /\ rows[i] = NoRow /\ rows'[i] = new /\ \A j \in Id \ {i} : rows'[j] = rows[j]
  BY <1>2 DEF Free, TypeOK, Stored
<1>4. /\ new.src = Source(t) /\ new.charge = c
      /\ new.start = tx[t].obs.start /\ new.energy = tx[t].obs.energy
  BY DEF NewRow
<1>5. UNCHANGED Plain
  BY DEF Inserts, Plain
<1>6. c \in Plain => /\ tx[t].obs = Figures(Source(t), c)
                     /\ \A j \in Id : ~(Ingested(j) /\ rows[j].charge = c)
  BY <1>1 DEF ChargeInv, ObservationsAreRecords, DecisionsHold, Decided, Inserts
<1>7. \A j \in Id \ {i} : Ingested(j)' <=> Ingested(j)
  BY <1>3 DEF Ingested, Stored
<1>8. RowsAreRecords'
  BY <1>3, <1>4, <1>5, <1>6, <1>7 DEF ChargeInv, RowsAreRecords, Figures
<1>9. OneRowPerCharge'
  BY <1>3, <1>4, <1>5, <1>6, <1>7 DEF ChargeInv, OneRowPerCharge
<1>10. ObservationsAreRecords' /\ DecisionsHold'
  BY <1>5 DEF ChargeInv, ObservationsAreRecords, DecisionsHold, Open, Figures, Source,
              Inserts, Closes, Overtakes, TypeOK
<1> QED BY <1>8, <1>9, <1>10 DEF ChargeInv

\* What merging makes of the figures of a plain charge's row.
LEMMA MergedFigures ==
    ASSUME Recognisable, NEW c \in Charge, NEW old \in Row, NEW source \in {"ha", "fcon"},
           old.src \in {"ha", "fcon"}, old.src # source,
           old.start = Figures(old.src, c).start, old.energy = Figures(old.src, c).energy
    PROVE  LET row == Merged(old, Record(Figures(source, c), source), source)
           IN  row.src = "ha" /\ row.start = HaLog[c].start /\ row.energy = HaLog[c].energy
<1> DEFINE new == Record(Figures(source, c), source)
           row == Merged(old, new, source)
<1>1. /\ HaLog[c].start # Null /\ Fold[c].start # Null
      /\ HaLog[c].energy = Null <=> Fold[c].energy = Null
  BY DEF Recognisable, SameCharge, StartAgrees, EnergyAgrees
<1>2. /\ new.start = Figures(source, c).start /\ new.energy = Figures(source, c).energy
      /\ new.src = source
  BY DEF Record
<1>3. {"start", "energy", "src"} \subseteq Columns \cap DOMAIN old
  BY RowShape DEF Columns, Winner
<1>4. \A col \in {"start", "energy", "src"} : row[col] = MergedValue(old, new, source, col)
  BY <1>3 DEF Merged
<1>5. Winner.start = "ha" /\ Winner.energy = "ha" /\ Winner.src = "ha"
  BY DEF Winner
<1>6. row.start = HaLog[c].start /\ row.energy = HaLog[c].energy
  BY <1>1, <1>2, <1>4, <1>5 DEF MergedValue, Figures
<1>7. row.src = "ha"
  BY <1>2, <1>4, <1>5, ChargesAssumption DEF MergedValue
<1> QED BY <1>6, <1>7

\* An update that commits writes what merging the row there is has made.
LEMMA UpdatesKeepsOneRow ==
    ASSUME Snapshot, Recognisable, TypeOK, ChargeInv, NEW t \in Task, Updates(t)
    PROVE  ChargeInv'
<1> DEFINE x == tx[t]
           old == rows[x.target]
           new == Updated(x, Source(t))
<1>1. /\ t \in Open \ stale /\ x \in Tx /\ x.target \in Id /\ old \in Row /\ x.base = old
      /\ x.doing \in {"merge", "refresh"} /\ Decided(t) /\ Source(t) \in {"ha", "fcon"}
  BY DEF Updates, MayCommit, Open, TypeOK, Tx, Source, ChargeInv, DecisionsHold, Decided, Stored
<1>2. /\ rows'[x.target] = new
      /\ \A j \in Id \ {x.target} : rows'[j] = rows[j]
  BY <1>1 DEF Updates, TypeOK
<1>3. UNCHANGED Plain
  BY DEF Updates, Plain
<1>4. /\ \A col \in Columns : new[col] = After(x, Source(t))[col]
      /\ new.charge = old.charge
  <2>1. Columns \subseteq DOMAIN old /\ "charge" \in DOMAIN old \ Columns /\ "by" \notin Columns
    BY <1>1, RowShape DEF Columns, Winner
  <2> QED BY <1>1, <2>1 DEF Updated
<1>5. old.src \in {"ha", "fcon"}
  BY <1>1 DEF Decided
<1>6. old.charge \in Plain => /\ new.src \in {"ha", "fcon"}
                              /\ new.start = Figures(new.src, old.charge).start
                              /\ new.energy = Figures(new.src, old.charge).energy
  <2> SUFFICES ASSUME old.charge \in Plain
               PROVE  /\ new.src \in {"ha", "fcon"}
                      /\ new.start = Figures(new.src, old.charge).start
                      /\ new.energy = Figures(new.src, old.charge).energy
    OBVIOUS
  <2> DEFINE c == old.charge
  <2>1. c \in Charge /\ x.charge = c /\ x.obs = Figures(Source(t), c)
    BY <1>1 DEF Plain, Decided, ChargeInv, ObservationsAreRecords
  <2>2. old.start = Figures(old.src, c).start /\ old.energy = Figures(old.src, c).energy
    BY <1>1, <1>5 DEF ChargeInv, RowsAreRecords, Ingested, Decided
  <2>3. {"start", "energy", "src"} \subseteq Columns
    BY DEF Columns, Winner
  <2>4. CASE x.doing = "merge"
    <3>1. old.src # Source(t)
      BY <1>1, <2>4 DEF Decided, Source
    <3>2. After(x, Source(t)) = Merged(old, Record(Figures(Source(t), c), Source(t)), Source(t))
      BY <1>1, <2>1, <2>4 DEF After
    <3> DEFINE made == Merged(old, Record(Figures(Source(t), c), Source(t)), Source(t))
    <3>3. made.src = "ha" /\ made.start = HaLog[c].start /\ made.energy = HaLog[c].energy
      BY <1>1, <1>5, <2>1, <2>2, <3>1, MergedFigures
    <3>4. new.src = made.src /\ new.start = made.start /\ new.energy = made.energy
      BY <1>4, <2>3, <3>2
    <3> HIDE DEF made, new
    <3> QED BY <3>3, <3>4 DEF Figures
  <2>5. CASE x.doing = "refresh"
    <3>1. Source(t) = "fcon" /\ old.src = "fcon"
      BY <1>1, <2>5, ChargesAssumption DEF Decided, Source
    <3>2. After(x, Source(t)) = Refreshed(old, Record(Fold[c], "fcon"))
      BY <1>1, <2>1, <2>5, <3>1 DEF After, Figures
    <3>3. Winner.start # "keep" /\ Winner.energy # "keep" /\ Winner.src # "keep"
      BY DEF Winner
    <3>4. {"start", "energy", "src"} \subseteq DOMAIN old
      BY <1>1, RowShape
    <3> DEFINE made == Refreshed(old, Record(Fold[c], "fcon"))
    <3>5. made.src = "fcon" /\ made.start = Fold[c].start /\ made.energy = Fold[c].energy
      <4> DEFINE rec == Record(Fold[c], "fcon")
      <4>1. \A col \in {"start", "energy", "src"} : made[col] = rec[col]
        <5>1. \A col \in {"start", "energy", "src"} :
                 col \in Columns \cap DOMAIN old /\ Winner[col] # "keep"
          BY <2>3, <3>3, <3>4
        <5> QED BY <5>1, RefreshedColumn
      <4>2. rec.src = "fcon" /\ rec.start = Fold[c].start /\ rec.energy = Fold[c].energy
        BY DEF Record
      <4> HIDE DEF made, rec
      <4> QED BY <4>1, <4>2
    <3>6. new.src = made.src /\ new.start = made.start /\ new.energy = made.energy
      BY <1>4, <2>3, <3>2
    <3> HIDE DEF made, new
    <3> QED BY <3>5, <3>6 DEF Figures
  <2> QED BY <1>1, <2>4, <2>5
<1>7. \A j \in Id \ {x.target} : Ingested(j)' <=> Ingested(j)
  BY <1>2 DEF Ingested, Stored
<1>8. Ingested(x.target)
  BY <1>1, <1>5 DEF Ingested, Decided
<1>9. RowsAreRecords'
  BY <1>1, <1>2, <1>3, <1>4, <1>6, <1>7 DEF ChargeInv, RowsAreRecords, Figures
<1>10. OneRowPerCharge'
  BY <1>2, <1>3, <1>4, <1>7, <1>8 DEF ChargeInv, OneRowPerCharge
<1>11. ObservationsAreRecords' /\ DecisionsHold'
  BY <1>3 DEF ChargeInv, ObservationsAreRecords, DecisionsHold, Open, Figures, Source,
              Updates, Closes, Overtakes, TypeOK
<1> QED BY <1>9, <1>10, <1>11 DEF ChargeInv

\* Two rows that matching cannot tell apart.
SameFigures(a, b) == /\ b.src = a.src /\ b.charge = a.charge
                     /\ b.start = a.start /\ b.energy = a.energy

LEMMA RemainingFigures ==
    ASSUME TypeOK, NEW i, NEW j \in Id, Remaining(i)[j] # NoRow
    PROVE  rows[j] # NoRow /\ SameFigures(rows[j], Remaining(i)[j])
<1>1. CASE j \in Stored /\ j # i /\ rows[j].other = i
  <2>1. rows[j] \in Row
    BY <1>1 DEF TypeOK, Stored
  <2>2. SameFigures(rows[j], [rows[j] EXCEPT !.other = NoId])
    BY <2>1 DEF Row, SameFigures
  <2> QED BY <1>1, <2>2 DEF Remaining, Stored
<1>2. CASE ~(j \in Stored /\ j # i /\ rows[j].other = i)
  BY <1>2 DEF Remaining, Stored, SameFigures
<1> QED BY <1>1, <1>2

\* A user's edit that leaves the figures alone.
LEMMA EditKeepsOneRow ==
    ASSUME TypeOK, ChargeInv, Overtakes({}), UNCHANGED <<tx, cut, touched>>,
           \A j \in Id : rows'[j] # NoRow => rows[j] # NoRow /\ SameFigures(rows[j], rows'[j])
    PROVE  ChargeInv'
BY CommitOvertakes DEF TypeOK, SameFigures

LEMMA ChargeInvHoldsAtFirst == Init => ChargeInv
BY ChargesAssumption DEF Init, ChargeInv, RowsAreRecords, ObservationsAreRecords, DecisionsHold,
       OneRowPerCharge, Open, Ingested, Stored

LEMMA ChargeInvIsKept ==
    ASSUME Snapshot, Recognisable, TypeOK, ChargeInv, [Next]_vars
    PROVE  ChargeInv'
<1>1. CASE \E t \in HaTask, c \in Charge : HaMatches(t, c)
  BY <1>1, MatchesDecides DEF Task
<1>2. CASE \E t \in FconTask, c \in Charge : FconMatches(t, c)
  BY <1>2, MatchesDecides DEF Task
<1>3. CASE \E t \in Task : Loads(t)
  BY <1>3, LoadsKeepsDecisions
<1>4. CASE \E t \in Task : Inserts(t)
  BY <1>4, InsertsKeepsOneRow
<1>5. CASE \E t \in Task : Updates(t)
  BY <1>5, UpdatesKeepsOneRow
<1>6. ASSUME NEW t \in Task, Fails(t)
      PROVE  ChargeInv'
  BY <1>6 DEF Fails, Closes, TypeOK, ChargeInv, RowsAreRecords, ObservationsAreRecords,
              DecisionsHold, Decided, OneRowPerCharge, Open, Ingested, Stored, Plain,
              Figures, Source
<1>7. ASSUME NEW i \in Id, NEW place \in Place, Curates(i, place)
      PROVE  ChargeInv'
  <2>1. /\ rows[i] \in Row
        /\ rows' = [rows EXCEPT ![i] = [rows[i] EXCEPT !.place = place]]
    BY <1>7 DEF Curates, Stored, TypeOK
  <2>2. SameFigures(rows[i], [rows[i] EXCEPT !.place = place])
    BY <2>1 DEF Row, SameFigures
  <2> QED BY <1>7, <2>1, <2>2, EditKeepsOneRow DEF Curates, TypeOK, SameFigures, Stored
<1>8. ASSUME NEW i \in Id, NEW energy \in Corrected, Corrects(i, energy)
      PROVE  ChargeInv'
  <2>1. /\ rows[i] \in Row /\ rows[i] # NoRow
        /\ rows' = [rows EXCEPT ![i] = [rows[i] EXCEPT !.energy = energy]]
    BY <1>8 DEF Corrects, Stored, TypeOK
  <2>2. LET new == [rows[i] EXCEPT !.energy = energy]
        IN  new.src = rows[i].src /\ new.charge = rows[i].charge
    BY <2>1 DEF Row
  <2>3. rows[i].charge \notin Plain'
    BY <1>8 DEF Corrects, Plain
  <2> QED BY <1>8, <2>1, <2>2, <2>3, CommitOvertakes DEF Corrects, TypeOK
<1>9. ASSUME NEW i \in Id, Deletes(i)
      PROVE  ChargeInv'
  BY <1>9, RemainingFigures, EditKeepsOneRow DEF Deletes
<1>10. ASSUME NEW i \in Id, KeepsThis(i) \/ KeepsBoth(i)
       PROVE  ChargeInv'
  <2>1. \A row \in Row :
           SameFigures(row, [row EXCEPT !.review = FALSE, !.other = NoId])
    BY DEF Row, SameFigures
  <2>2. CASE KeepsThis(i)
    <3> DEFINE left == Remaining(rows[i].other)
    <3>1. rows[i] \in Row /\ rows[i].other # i /\ i \in Stored
      BY <2>2 DEF KeepsThis, TypeOK, Stored
    <3>2. left[i] = [rows[i] EXCEPT !.other = NoId]
      BY <3>1 DEF Remaining, Stored
    <3>3. left[i] \in Row
      BY <3>1, <3>2 DEF Row
    <3>4. left \in [Id -> Row \cup {NoRow}] /\ left[i] \in Row /\ left[i] # NoRow
      BY <3>3, RemainingType, ChargesAssumption
    <3>5. rows' = [left EXCEPT ![i] = [left[i] EXCEPT !.review = FALSE, !.other = NoId]]
      BY <2>2, <3>4 DEF KeepsThis
    <3>6. \A j \in Id : rows'[j] # NoRow => rows[j] # NoRow /\ SameFigures(rows[j], rows'[j])
      BY <2>1, <3>4, <3>5, RemainingFigures DEF SameFigures
    <3> QED BY <2>2, <3>6, EditKeepsOneRow DEF KeepsThis
  <2>3. CASE KeepsBoth(i)
    <3>1. /\ rows[i] \in Row /\ rows[i] # NoRow
          /\ rows' = [rows EXCEPT ![i] = [rows[i] EXCEPT !.review = FALSE, !.other = NoId]]
      BY <2>3 DEF KeepsBoth, Stored, TypeOK
    <3> QED BY <2>1, <2>3, <3>1, EditKeepsOneRow DEF KeepsBoth, TypeOK, SameFigures
  <2> QED BY <1>10, <2>2, <2>3
<1>11. ASSUME NEW c \in Charge, NEW place \in Place, Enters(c, place)
       PROVE  ChargeInv'
  <2>1. PICK i \in Free :
           rows' = [rows EXCEPT ![i] =
                       NewRow([HaLog[c] EXCEPT !.place = place], "user", c, NoId)]
    BY <1>11 DEF Enters
  <2>2. rows'[i].src = "user" /\ \A j \in Id \ {i} : rows'[j] = rows[j]
    BY <2>1 DEF NewRow, Free, TypeOK
  <2> QED BY <1>11, <2>2, CommitOvertakes DEF Enters, TypeOK
<1>12. ASSUME NEW c \in Charge, Prunes(c)
       PROVE  ChargeInv'
  BY <1>12, CommitOvertakes DEF Prunes, TypeOK
<1>13. CASE UNCHANGED vars
  BY <1>13 DEF vars, ChargeInv, RowsAreRecords, ObservationsAreRecords, DecisionsHold,
               Decided, OneRowPerCharge, Open, Ingested, Stored, Plain, Figures, Source
<1> QED
  BY <1>1, <1>2, <1>3, <1>4, <1>5, <1>6, <1>7, <1>8, <1>9, <1>10, <1>11, <1>12, <1>13
  DEF Next, Writes, Edits

\* However often, in whatever order and by however many writers a charge is
\* ingested, and whatever the user does meanwhile, it is one row: on SQLite,
\* for every number of charges, rows and writers, if the sources' records of a
\* charge agree with each other and with no other charge's.
THEOREM ChargesAreOneRow ==
    ASSUME Snapshot, Recognisable
    PROVE  Spec => []OneRowPerCharge
<1>1. TypeOK /\ ChargeInv /\ [Next]_vars => ChargeInv'
  BY ChargeInvIsKept
<1>2. ChargeInv => OneRowPerCharge
  BY DEF ChargeInv
<1> QED BY <1>1, <1>2, ChargeInvHoldsAtFirst, ChargesTypeCorrect, PTL DEF Spec

-----------------------------------------------------------------------------
(***************************************************************************)
(* What a user has set stays: nothing need be assumed of the records here. *)
(***************************************************************************)

\* A transaction that may still commit updates an ingested row as it now is.
BasesAreCurrent ==
    \A t \in Open \ stale : tx[t].doing # "insert" =>
        /\ tx[t].target \in Stored /\ rows[tx[t].target].src # "user"
        /\ tx[t].at = "ready" => tx[t].base = rows[tx[t].target]

LEMMA CommitsKeepBases ==
    ASSUME NEW mine \in SUBSET Task, Overtakes(mine), \A t \in mine : tx'[t] = NoTx,
           \A t \in Task \ mine : tx'[t] = tx[t]
    PROVE  BasesAreCurrent'
BY DEF BasesAreCurrent, Overtakes, Open

LEMMA BasesStayCurrent ==
    ASSUME TypeOK, BasesAreCurrent, [Next]_vars
    PROVE  BasesAreCurrent'
<1>1. ASSUME NEW t \in Task, NEW c \in Charge, HaMatches(t, c) \/ FconMatches(t, c)
      PROVE  BasesAreCurrent'
  <2>1. UNCHANGED <<rows, stale, cut, touched, Stored>> /\ tx[t] = NoTx
    BY <1>1 DEF HaMatches, FconMatches, Stored
  <2>2. \A u \in Task \ {t} : tx'[u] = tx[u]
    BY <1>1 DEF HaMatches, FconMatches, Opens, TypeOK
  <2>3. \/ tx'[t].doing = "insert"
        \/ \E i \in Stored : /\ rows[i].src # "user" /\ tx'[t].target = i
                             /\ tx'[t].at = "ready" => tx'[t].base = rows[i]
    <3>1. \A i, at, doing, target, base, other :
             Opens(t, c, at, doing, target, base, other) =>
                /\ tx'[t].doing = doing /\ tx'[t].target = target
                /\ tx'[t].at = at /\ tx'[t].base = base
      BY DEF Opens, TypeOK
    <3>2. CASE HaMatches(t, c)
      BY <3>1, <3>2 DEF HaMatches, Matching
    <3>3. CASE FconMatches(t, c)
      BY <3>1, <3>3 DEF FconMatches, Matching
    <3> QED BY <1>1, <3>2, <3>3
  <2> QED BY <2>1, <2>2, <2>3 DEF BasesAreCurrent, Open
<1>2. ASSUME NEW t \in Task, Loads(t)
      PROVE  BasesAreCurrent'
  <2>1. /\ t \in Open /\ tx[t] \in Tx /\ tx[t].doing = "merge" /\ tx[t].target \in Id
        /\ UNCHANGED <<rows, stale, cut, touched, Stored>>
        /\ \A u \in Task \ {t} : tx'[u] = tx[u]
    BY <1>2 DEF TypeOK, Loads, Open, Tx, Stored
  <2>2. ASSUME rows[tx[t].target] # NoRow
        PROVE  /\ tx'[t].target = tx[t].target /\ tx'[t].doing = "merge"
               /\ tx'[t].base = rows[tx[t].target]
    <3>1. tx'[t] = [tx[t] EXCEPT !.at = "ready", !.base = rows[tx[t].target]]
      BY <1>2, <2>2 DEF Loads, TypeOK
    <3> QED BY <2>1, <3>1 DEF Tx
  <2>3. t \notin stale => rows[tx[t].target] # NoRow /\ rows[tx[t].target].src # "user"
    BY <2>1 DEF BasesAreCurrent, Stored
  <2> QED BY <2>1, <2>2, <2>3 DEF BasesAreCurrent, Open, Stored
<1>3. ASSUME NEW t \in Task, Inserts(t) \/ Updates(t)
      PROVE  BasesAreCurrent'
  BY <1>3, CommitsKeepBases DEF Inserts, Updates, Closes, TypeOK
<1>4. ASSUME NEW t \in Task, Fails(t)
      PROVE  BasesAreCurrent'
  BY <1>4 DEF Fails, Closes, TypeOK, BasesAreCurrent, Open, Stored
<1>5. CASE Edits
  BY <1>5, CommitsKeepBases DEF Edits, Curates, Corrects, Deletes, Enters, KeepsThis, KeepsBoth
<1>6. CASE \E c \in Charge : Prunes(c)
  BY <1>6, CommitsKeepBases DEF Prunes
<1>7. CASE UNCHANGED vars
  BY <1>7 DEF vars, BasesAreCurrent, Open, Stored
<1> QED BY <1>1, <1>2, <1>3, <1>4, <1>5, <1>6, <1>7 DEF Next, Writes, Task

\* No writer changes a place that is set, or a row the user has entered: on
\* SQLite, whenever the user sets it.
THEOREM UserIsRespected ==
    ASSUME Snapshot
    PROVE  Spec => RespectsUser
<1> DEFINE Respects ==
        tx' # tx => \A i \in Stored :
           /\ rows[i].src = "user" => rows'[i] = rows[i]
           /\ rows[i].place # Null =>
                 rows'[i] # NoRow /\ rows'[i].place = rows[i].place
<1>1. Init => BasesAreCurrent
  BY DEF Init, BasesAreCurrent, Open
<1>2. TypeOK /\ BasesAreCurrent /\ [Next]_vars => BasesAreCurrent'
  BY BasesStayCurrent
<1>3. TypeOK /\ BasesAreCurrent /\ [Next]_vars => [Respects]_vars
  <2> SUFFICES ASSUME TypeOK, BasesAreCurrent, Next, tx' # tx, NEW i \in Stored
               PROVE  /\ rows[i].src = "user" => rows'[i] = rows[i]
                      /\ rows[i].place # Null =>
                            rows'[i] # NoRow /\ rows'[i].place = rows[i].place
    BY DEF vars
  <2>1. rows[i] \in Row /\ i \in Id
    BY DEF Stored, TypeOK
  <2>2. CASE \E t \in Task : Updates(t)
    <3>1. PICK t \in Task : Updates(t)
      BY <2>2
    <3> DEFINE x == tx[t]  new == Updated(x, Source(t))
    <3>2. /\ t \in Open \ stale /\ x \in Tx /\ x.doing \in {"merge", "refresh"}
          /\ rows[x.target].src # "user" /\ x.base = rows[x.target]
      BY <3>1 DEF Updates, MayCommit, Open, TypeOK, Tx, BasesAreCurrent
    <3>3. CASE i # x.target
      BY <2>1, <3>1, <3>3 DEF Updates, TypeOK, Stored
    <3>4. CASE i = x.target
      <4>1. rows'[i] = new /\ x.base \in Row /\ Source(t) \in {"ha", "fcon"}
        BY <2>1, <3>1, <3>2, <3>4 DEF Updates, TypeOK, Source
      <4>2. new \in Row /\ new # NoRow
        BY <2>1, <3>2, <3>4, <4>1, UpdatedType, ChargesAssumption
      <4>3. "place" \in Columns \cap DOMAIN x.base /\ Winner.place = "keep"
        BY <4>1, RowShape DEF Columns, Winner
      <4>4. rows[i].place # Null => After(x, Source(t)).place = rows[i].place
        BY <3>2, <3>4, <4>1, <4>3 DEF After, Merged, MergedValue, Refreshed
      <4>5. rows[i].place # Null => new.place = rows[i].place
        BY <3>2, <3>4, <4>3, <4>4 DEF Updated
      <4> QED BY <3>2, <3>4, <4>1, <4>2, <4>5
    <3> QED BY <3>3, <3>4
  <2>3. CASE \E t \in Task : Inserts(t)
    BY <2>1, <2>3 DEF Inserts, Free, TypeOK, Stored
  <2>4. CASE ~(\E t \in Task : Updates(t) \/ Inserts(t))
    <3>1. UNCHANGED rows
      BY <2>4 DEF Next, Writes, Edits, HaMatches, FconMatches, Loads, Fails, Curates, Corrects,
                  Deletes, Enters, KeepsThis, KeepsBoth, Prunes
    <3> QED BY <3>1 DEF Stored
  <2> QED BY <2>2, <2>3, <2>4
<1> QED BY <1>1, <1>2, <1>3, ChargesTypeCorrect, PTL DEF Spec, RespectsUser

-----------------------------------------------------------------------------
(***************************************************************************)
(* The merged row does not depend on the order of arrival.                 *)
(***************************************************************************)
Contested == {col \in Columns : Winner[col] # "keep"}

\* Merging a (Home Assistant's) into b or b into a gives a column one value.
LEMMA MergingCommutes ==
    ASSUME NEW a, NEW b, NEW col \in Contested
    PROVE  MergedValue(b, a, "ha", col) = MergedValue(a, b, "fcon", col)
<1>1. Winner[col] \in {"ha", "fcon"}
  BY DEF Contested, Columns, Winner
<1> QED BY <1>1 DEF MergedValue, CheckedRange

\* Merging b in again changes nothing.
LEMMA MergingTwice ==
    ASSUME NEW a \in Written, NEW b \in Written, NEW m, NEW col \in Contested,
           m[col] = MergedValue(a, b, "fcon", col)
    PROVE  MergedValue(m, b, "fcon", col) = m[col]
<1>1. Winner[col] \in {"ha", "fcon"} /\ col \in Columns
  BY DEF Contested, Columns, Winner
<1>2. CASE col = "range"
  <2>1. a.range \in Nat \cup {Null} /\ b.range \in Nat \cup {Null}
    BY DEF Written
  <2>2. \A n \in Nat : ~IsTwin(n, n)
    BY DEF IsTwin
  <2> QED BY <1>2, <2>1, <2>2 DEF MergedValue, CheckedRange
<1>3. CASE col # "range"
  BY <1>1, <1>3 DEF MergedValue
<1> QED BY <1>2, <1>3

\* A column's merged value depends on that column alone.
LEMMA MergingIsByColumn ==
    ASSUME NEW a, NEW b, NEW new, NEW source, NEW col, a[col] = b[col]
    PROVE  MergedValue(a, new, source, col) = MergedValue(b, new, source, col)
BY DEF MergedValue, CheckedRange

RowsAreCanonical ==
    \A i \in Id : Ingested(i) /\ rows[i].charge \in Plain =>
        /\ rows[i].by # {}
        /\ \A col \in Contested : rows[i][col] = Combined(rows[i].by, rows[i].charge)[col]

\* The columns of what Combined merges.
LEMMA CombinedColumns ==
    ASSUME NEW c \in Charge, NEW col \in Contested
    PROVE  LET ha == Record(HaLog[c], "ha")  fcon == Record(Fold[c], "fcon")
           IN  /\ Combined({"ha", "fcon"}, c)[col] = MergedValue(ha, fcon, "fcon", col)
               /\ Combined({"ha"}, c) = ha /\ Combined({"fcon"}, c) = fcon
               /\ ha \in Written /\ fcon \in Written
               /\ Combined({"ha", "fcon"}, c).src = "ha"
<1> DEFINE ha == Record(HaLog[c], "ha")  fcon == Record(Fold[c], "fcon")
<1>1. ha \in Written /\ fcon \in Written
  BY RecordType, ChargesAssumption
<1>2. Columns = DOMAIN ha /\ col \in Columns
  BY DEF Columns, Winner, Record, Contested
<1>3. {"ha"} # {"ha", "fcon"} /\ {"fcon"} # {"ha", "fcon"} /\ {"fcon"} # {"ha"}
  OBVIOUS
<1>4. \A k \in Columns : Combined({"ha", "fcon"}, c)[k] = MergedValue(ha, fcon, "fcon", k)
  BY <1>2 DEF Combined, Merged
<1>5. Combined({"ha", "fcon"}, c).src = "ha"
  BY <1>4, ChargesAssumption DEF MergedValue, Columns, Winner, Record
<1> QED BY <1>1, <1>2, <1>3, <1>4, <1>5 DEF Combined

\* What an update makes of a canonical row is canonical.
LEMMA UpdatedIsCanonical ==
    ASSUME NEW c \in Charge, NEW old \in Row, NEW source \in {"ha", "fcon"},
           NEW doing \in {"merge", "refresh"},
           doing = "merge" => old.src # source,
           doing = "refresh" => source = "fcon" /\ old.src = "fcon",
           old.by # {},
           \A k \in Contested : old[k] = Combined(old.by, c)[k],
           NEW col \in Contested
    PROVE  LET new == Record(Figures(source, c), source)
               made == IF doing = "merge" THEN Merged(old, new, source) ELSE Refreshed(old, new)
           IN  made[col] = Combined(old.by \cup {source}, c)[col]
<1> DEFINE ha == Record(HaLog[c], "ha")  fcon == Record(Fold[c], "fcon")
           new == Record(Figures(source, c), source)
<1>1. /\ Combined({"ha", "fcon"}, c)[col] = MergedValue(ha, fcon, "fcon", col)
      /\ Combined({"ha"}, c) = ha /\ Combined({"fcon"}, c) = fcon
      /\ ha \in Written /\ fcon \in Written
      /\ Combined({"ha", "fcon"}, c).src = "ha"
  BY CombinedColumns
<1>2. old.by \in {{"ha"}, {"fcon"}, {"ha", "fcon"}}
  BY DEF Row
<1>3. "src" \in Contested /\ ha.src = "ha" /\ fcon.src = "fcon"
  BY DEF Contested, Columns, Winner, Record
<1>4. old.src = Combined(old.by, c).src
  BY <1>3
<1>5. IF "ha" \in old.by THEN old.src = "ha" ELSE old.src = "fcon" /\ old.by = {"fcon"}
  BY <1>1, <1>2, <1>3, <1>4
<1>6. /\ col \in Columns \cap DOMAIN old /\ Winner[col] # "keep"
  BY RowShape DEF Contested, Columns, Winner
<1>7. CASE doing = "refresh"
  <2>1. new = fcon /\ old.by \cup {source} = {"fcon"}
    BY <1>5, <1>7 DEF Figures
  <2>2. Refreshed(old, new)[col] = new[col]
    BY <1>6 DEF Refreshed
  <2> QED BY <1>1, <1>7, <2>1, <2>2
<1>8. CASE doing = "merge" /\ source = "ha"
  <2>1. new = ha /\ old.by = {"fcon"} /\ old.by \cup {source} = {"ha", "fcon"}
    BY <1>2, <1>5, <1>8 DEF Figures
  <2>2. old[col] = fcon[col]
    BY <1>1, <2>1
  <2>3. Merged(old, new, source)[col] = MergedValue(fcon, ha, "ha", col)
    BY <1>6, <1>8, <2>1, <2>2, MergingIsByColumn DEF Merged
  <2> QED BY <1>1, <1>8, <2>1, <2>3, MergingCommutes
<1>9. CASE doing = "merge" /\ source = "fcon"
  <2>1. new = fcon /\ "ha" \in old.by /\ old.by \cup {source} = {"ha", "fcon"}
    BY <1>2, <1>5, <1>9 DEF Figures
  <2>2. Merged(old, new, source)[col] = MergedValue(old, fcon, "fcon", col)
    BY <1>6, <1>9, <2>1 DEF Merged
  <2>3. CASE old.by = {"ha"}
    BY <1>1, <1>9, <2>1, <2>2, <2>3, MergingIsByColumn
  <2>4. CASE old.by = {"ha", "fcon"}
    <3>1. old[col] = MergedValue(ha, fcon, "fcon", col)
      BY <1>1, <2>4
    <3>2. MergedValue(old, fcon, "fcon", col) = old[col]
      BY <1>1, <3>1, MergingTwice
    <3> QED BY <1>1, <1>9, <2>1, <2>2, <3>1, <3>2
  <2> QED BY <1>2, <2>1, <2>3, <2>4
<1> QED BY <1>7, <1>8, <1>9

\* Two rows that differ in what a user curates and reviews only.
SameRecord(a, b) == /\ b.src = a.src /\ b.charge = a.charge /\ b.by = a.by
                    /\ \A col \in Contested : b[col] = a[col]

LEMMA EditKeepsCanonical ==
    ASSUME RowsAreCanonical, Plain' \subseteq Plain,
           \A j \in Id : rows'[j] # NoRow /\ rows'[j].src # "user"
                         /\ rows'[j].charge \in Plain' =>
               rows[j] # NoRow /\ SameRecord(rows[j], rows'[j])
    PROVE  RowsAreCanonical'
BY DEF RowsAreCanonical, Ingested, Stored, SameRecord

LEMMA RemainingRecord ==
    ASSUME TypeOK, NEW i, NEW j \in Id, Remaining(i)[j] # NoRow
    PROVE  rows[j] # NoRow /\ SameRecord(rows[j], Remaining(i)[j])
<1>1. CASE j \in Stored /\ j # i /\ rows[j].other = i
  <2>1. rows[j] \in Row
    BY <1>1 DEF TypeOK, Stored
  <2>2. SameRecord(rows[j], [rows[j] EXCEPT !.other = NoId])
    BY <2>1 DEF Row, SameRecord, Contested, Columns, Winner
  <2> QED BY <1>1, <2>2 DEF Remaining, Stored
<1>2. CASE ~(j \in Stored /\ j # i /\ rows[j].other = i)
  BY <1>2 DEF Remaining, Stored, SameRecord
<1> QED BY <1>1, <1>2

\* A row that a commit has put in place of another.
LEMMA EditedRecord ==
    ASSUME TypeOK, NEW i \in Id, rows[i] # NoRow, NEW new,
           rows' = [rows EXCEPT ![i] = new], SameRecord(rows[i], new)
    PROVE  \A j \in Id : rows'[j] # NoRow => rows[j] # NoRow /\ SameRecord(rows[j], rows'[j])
BY DEF TypeOK, SameRecord

\* A commit of a writer: what it writes is canonical.
LEMMA WritesAreCanonical ==
    ASSUME Snapshot, Recognisable, TypeOK, ChargeInv, RowsAreCanonical,
           NEW t \in Task, Inserts(t) \/ Updates(t)
    PROVE  RowsAreCanonical'
<1> DEFINE x == tx[t]
<1>1. /\ t \in Open \ stale /\ x \in Tx /\ Decided(t) /\ Source(t) \in {"ha", "fcon"}
      /\ x.charge \in Plain => x.obs = Figures(Source(t), x.charge)
      /\ UNCHANGED Plain
  BY DEF Inserts, Updates, MayCommit, Open, TypeOK, Tx, Source, ChargeInv, DecisionsHold,
         ObservationsAreRecords, Plain
<1>2. CASE Inserts(t)
  <2> DEFINE new == NewRow(x.obs, Source(t), x.charge, x.other)
  <2>1. PICK i \in Free : rows' = [rows EXCEPT ![i] = new]
    BY <1>2 DEF Inserts
  <2>2. /\ i \in Id /\ rows'[i] = new
        /\ \A j \in Id \ {i} : rows'[j] = rows[j]
    BY <2>1 DEF Free, TypeOK
  <2>3. /\ new.by = {Source(t)} /\ new.charge = x.charge /\ new.src = Source(t)
        /\ \A col \in Contested : new[col] = Record(x.obs, Source(t))[col]
    BY <1>1 DEF NewRow, Record, Contested, Columns, Winner
  <2>4. x.charge \in Plain =>
           \A col \in Contested : new[col] = Combined(new.by, new.charge)[col]
    <3> SUFFICES ASSUME x.charge \in Plain, NEW col \in Contested
                 PROVE  new[col] = Combined({Source(t)}, x.charge)[col]
      BY <2>3
    <3>1. x.charge \in Charge /\ x.obs = Figures(Source(t), x.charge)
      BY <1>1 DEF Plain
    <3>2. Combined({Source(t)}, x.charge) = Record(Figures(Source(t), x.charge), Source(t))
      BY <1>1, <3>1, CombinedColumns DEF Figures
    <3> QED BY <2>3, <3>1, <3>2
  <2> QED BY <1>1, <2>2, <2>3, <2>4 DEF RowsAreCanonical, Ingested, Stored
<1>3. CASE Updates(t)
  <2> DEFINE old == rows[x.target]
             new == Updated(x, Source(t))
  <2>1. /\ x.target \in Id /\ old \in Row /\ x.base = old
        /\ x.doing \in {"merge", "refresh"} /\ old.src \in {"ha", "fcon"}
    BY <1>1, <1>3 DEF Updates, TypeOK, Tx, Decided, Stored
  <2>2. /\ rows'[x.target] = new
        /\ \A j \in Id \ {x.target} : rows'[j] = rows[j]
    BY <1>3, <2>1 DEF Updates, TypeOK
  <2>3. /\ \A col \in Contested : new[col] = After(x, Source(t))[col]
        /\ new.charge = old.charge /\ new.by = old.by \cup {Source(t)}
    <3>1. /\ Contested \subseteq Columns \cap DOMAIN old
          /\ {"charge", "by"} \subseteq DOMAIN old \ Columns
      BY <2>1, RowShape DEF Contested, Columns, Winner
    <3> QED BY <2>1, <3>1 DEF Updated
  <2>4. ASSUME old.charge \in Plain, NEW col \in Contested
        PROVE  new[col] = Combined(new.by, new.charge)[col]
    <3>1. old.charge \in Charge /\ x.charge = old.charge /\ x.obs = Figures(Source(t), old.charge)
      BY <1>1, <2>1, <2>4 DEF Plain, Decided
    <3>2. /\ old.by # {}
          /\ \A k \in Contested : old[k] = Combined(old.by, old.charge)[k]
      BY <1>1, <2>1, <2>4 DEF RowsAreCanonical, Ingested, Decided
    <3>3. /\ x.doing = "merge" => old.src # Source(t)
          /\ x.doing = "refresh" => Source(t) = "fcon" /\ old.src = "fcon"
      BY <1>1, <2>1, ChargesAssumption DEF Decided, Source
    <3>4. After(x, Source(t))[col] = Combined(old.by \cup {Source(t)}, old.charge)[col]
      <4> DEFINE rec == Record(Figures(Source(t), old.charge), Source(t))
                 made == IF x.doing = "merge" THEN Merged(old, rec, Source(t))
                         ELSE Refreshed(old, rec)
      <4>1. made[col] = Combined(old.by \cup {Source(t)}, old.charge)[col]
        BY <1>1, <2>1, <3>1, <3>2, <3>3, UpdatedIsCanonical
      <4>2. After(x, Source(t)) = made
        BY <2>1, <3>1 DEF After
      <4> QED BY <4>1, <4>2
    <3> QED BY <2>3, <3>4
  <2>5. Ingested(x.target)
    BY <1>1, <2>1 DEF Ingested, Decided
  <2>6. new.by # {}
    BY <2>3
  <2>7. ASSUME NEW j \in Id, Ingested(j)', rows'[j].charge \in Plain'
        PROVE  /\ rows'[j].by # {}
               /\ \A col \in Contested :
                     rows'[j][col] = Combined(rows'[j].by, rows'[j].charge)[col]
    <3>1. CASE j = x.target
      BY <1>1, <2>2, <2>3, <2>4, <2>6, <2>7, <3>1
    <3>2. CASE j # x.target
      BY <1>1, <2>2, <2>7, <3>2 DEF RowsAreCanonical, Ingested, Stored
    <3> QED BY <3>1, <3>2
  <2> QED BY <2>7 DEF RowsAreCanonical, Combined
<1> QED BY <1>2, <1>3

LEMMA CanonicalIsKept ==
    ASSUME Snapshot, Recognisable, TypeOK, ChargeInv, RowsAreCanonical, [Next]_vars
    PROVE  RowsAreCanonical'
<1>1. CASE \E t \in Task : Inserts(t) \/ Updates(t)
  BY <1>1, WritesAreCanonical
<1>2. CASE UNCHANGED rows
  <2>1. Plain' \subseteq Plain
    BY DEF Next, Writes, Edits, vars, HaMatches, FconMatches, Loads, Inserts, Updates, Fails,
           Curates, Corrects, Deletes, Enters, KeepsThis, KeepsBoth, Prunes, Plain
  <2> QED BY <1>2, <2>1, EditKeepsCanonical DEF SameRecord
<1>3. ASSUME NEW i \in Id, NEW place \in Place, Curates(i, place)
      PROVE  RowsAreCanonical'
  <2>1. /\ rows[i] \in Row /\ rows[i] # NoRow /\ UNCHANGED Plain
        /\ rows' = [rows EXCEPT ![i] = [rows[i] EXCEPT !.place = place]]
    BY <1>3 DEF Curates, Stored, TypeOK, Plain
  <2>2. SameRecord(rows[i], [rows[i] EXCEPT !.place = place])
    BY <2>1 DEF Row, SameRecord, Contested, Columns, Winner
  <2> QED BY <2>1, <2>2, EditedRecord, EditKeepsCanonical
<1>4. ASSUME NEW i \in Id, NEW energy \in Corrected, Corrects(i, energy)
      PROVE  RowsAreCanonical'
  <2>1. /\ rows[i] \in Row /\ rows[i] # NoRow /\ Plain' \subseteq Plain
        /\ rows[i].charge \notin Plain'
        /\ rows' = [rows EXCEPT ![i] = [rows[i] EXCEPT !.energy = energy]]
    BY <1>4 DEF Corrects, Stored, TypeOK, Plain
  <2>2. [rows[i] EXCEPT !.energy = energy].charge = rows[i].charge
    BY <2>1 DEF Row
  <2> QED BY <2>1, <2>2, EditKeepsCanonical DEF TypeOK, SameRecord
<1>5. ASSUME NEW i \in Id, Deletes(i)
      PROVE  RowsAreCanonical'
  BY <1>5, RemainingRecord, EditKeepsCanonical DEF Deletes, Plain
<1>6. ASSUME NEW i \in Id, KeepsThis(i)
      PROVE  RowsAreCanonical'
  <2> DEFINE left == Remaining(rows[i].other)
             new == [left[i] EXCEPT !.review = FALSE, !.other = NoId]
  <2>1. rows[i] \in Row /\ rows[i].other # i /\ i \in Stored
    BY <1>6 DEF KeepsThis, TypeOK, Stored
  <2>2. left[i] = [rows[i] EXCEPT !.other = NoId]
    BY <2>1 DEF Remaining, Stored
  <2>3. left[i] \in Row
    BY <2>1, <2>2 DEF Row
  <2>4. left \in [Id -> Row \cup {NoRow}] /\ left[i] # NoRow
    BY <2>3, RemainingType, ChargesAssumption
  <2>5. rows' = [left EXCEPT ![i] = new]
    BY <1>6, <2>4 DEF KeepsThis
  <2>6. SameRecord(left[i], new)
    BY <2>3 DEF Row, SameRecord, Contested, Columns, Winner
  <2>7. \A j \in Id : rows'[j] # NoRow => rows[j] # NoRow /\ SameRecord(rows[j], rows'[j])
    BY <2>4, <2>5, <2>6, RemainingRecord DEF SameRecord
  <2> QED BY <1>6, <2>7, EditKeepsCanonical DEF KeepsThis, Plain
<1>7. ASSUME NEW i \in Id, KeepsBoth(i)
      PROVE  RowsAreCanonical'
  <2>1. /\ rows[i] \in Row /\ rows[i] # NoRow /\ UNCHANGED Plain
        /\ rows' = [rows EXCEPT ![i] = [rows[i] EXCEPT !.review = FALSE, !.other = NoId]]
    BY <1>7 DEF KeepsBoth, Stored, TypeOK, Plain
  <2>2. SameRecord(rows[i], [rows[i] EXCEPT !.review = FALSE, !.other = NoId])
    BY <2>1 DEF Row, SameRecord, Contested, Columns, Winner
  <2> QED BY <2>1, <2>2, EditedRecord, EditKeepsCanonical
<1>8. ASSUME NEW c \in Charge, NEW place \in Place, Enters(c, place)
      PROVE  RowsAreCanonical'
  <2>1. PICK i \in Free :
           rows' = [rows EXCEPT ![i] =
                       NewRow([HaLog[c] EXCEPT !.place = place], "user", c, NoId)]
    BY <1>8 DEF Enters
  <2>2. rows'[i].src = "user" /\ \A j \in Id \ {i} : rows'[j] = rows[j]
    BY <2>1 DEF NewRow, Free, TypeOK
  <2> QED BY <1>8, <2>2, EditKeepsCanonical DEF Enters, Plain, SameRecord
<1>9. UNCHANGED rows \/ Edits \/ \E t \in Task : Inserts(t) \/ Updates(t)
  BY DEF Next, Writes, vars, HaMatches, FconMatches, Loads, Fails, Prunes
<1> QED BY <1>1, <1>2, <1>3, <1>4, <1>5, <1>6, <1>7, <1>8, <1>9 DEF Edits

\* "The same table serves both arrival orders, so the merged row does not
\* depend on which source came first" (source_merge.py): on SQLite, if records
\* are recognised, of every column that has a winner.
THEOREM MergeOrderIsIrrelevant ==
    ASSUME Snapshot, Recognisable
    PROVE  Spec => []MergedIsCanonical
<1>1. Init => RowsAreCanonical
  BY DEF Init, RowsAreCanonical, Ingested, Stored
<1>2. TypeOK /\ ChargeInv /\ [Next]_vars => ChargeInv'
  BY ChargeInvIsKept
<1>3. TypeOK /\ ChargeInv /\ RowsAreCanonical /\ [Next]_vars => RowsAreCanonical'
  BY CanonicalIsKept
<1>4. RowsAreCanonical => MergedIsCanonical
  BY DEF RowsAreCanonical, MergedIsCanonical, Contested
<1> QED BY <1>1, <1>2, <1>3, <1>4, ChargeInvHoldsAtFirst, ChargesTypeCorrect, PTL DEF Spec


-----------------------------------------------------------------------------
(***************************************************************************)
(* A row beside a user's.  A user's row of a plain charge has the figures  *)
(* the vehicle showed, so a writer that inserts found it when it looked;   *)
(* and if the user entered it later, the writer has been overtaken.        *)
(***************************************************************************)
UsersFigures ==
    \A i \in Id : rows[i] # NoRow /\ rows[i].src = "user" /\ rows[i].charge \in Plain =>
        /\ rows[i].start = HaLog[rows[i].charge].start
        /\ rows[i].energy = HaLog[rows[i].charge].energy

UsersHave(c) == \E j \in Stored : rows[j].src = "user" /\ rows[j].charge = c

UsersAreSeen ==
    \A t \in Open \ stale :
        tx[t].doing = "insert" /\ tx[t].charge \in Plain /\ UsersHave(tx[t].charge) =>
            t \in HaTask /\ tx[t].other # NoId

LEMMA EditKeepsUsersFigures ==
    ASSUME UsersFigures, Plain' \subseteq Plain,
           \A j \in Id : rows'[j] # NoRow /\ rows'[j].src = "user"
                         /\ rows'[j].charge \in Plain' =>
               rows[j] # NoRow /\ SameFigures(rows[j], rows'[j])
    PROVE  UsersFigures'
BY DEF UsersFigures, SameFigures

\* A writer that looks for a match only reads.
LEMMA MatchesOnlyRead ==
    ASSUME NEW t, NEW c, HaMatches(t, c) \/ FconMatches(t, c)
    PROVE  UNCHANGED <<rows, stale, cut, touched>>
BY DEF HaMatches, FconMatches

LEMMA RowsAreWritten ==
    ASSUME [Next]_vars
    PROVE  UNCHANGED rows \/ Edits \/ \E t \in Task : Inserts(t) \/ Updates(t)
<1>1. CASE \E t \in Task, c \in Charge : HaMatches(t, c) \/ FconMatches(t, c)
  BY <1>1, MatchesOnlyRead
<1>2. CASE \E t \in Task : Loads(t) \/ Fails(t)
  BY <1>2 DEF Loads, Fails
<1> QED BY <1>1, <1>2 DEF Next, Writes, Prunes, vars, Task

LEMMA PlainShrinks ==
    ASSUME [Next]_vars
    PROVE  Plain' \subseteq Plain
<1>1. cut \subseteq cut' /\ touched \subseteq touched'
  <2>1. CASE \E t \in Task, c \in Charge : HaMatches(t, c) \/ FconMatches(t, c)
    BY <2>1, MatchesOnlyRead
  <2>2. CASE \E t \in Task : Loads(t) \/ Inserts(t) \/ Updates(t) \/ Fails(t)
    BY <2>2 DEF Loads, Inserts, Updates, Fails
  <2>3. CASE Edits
    BY <2>3 DEF Edits, Curates, Corrects, Deletes, Enters, KeepsThis, KeepsBoth
  <2> QED BY <2>1, <2>2, <2>3 DEF Next, Writes, Prunes, vars, Task
<1> QED BY <1>1 DEF Plain

\* An update leaves an ingested row an ingested one.
LEMMA UpdatedIsIngested ==
    ASSUME NEW x \in Tx, x.base \in Row, rows[x.target] = x.base,
           x.base.src \in {"ha", "fcon"}, NEW source \in {"ha", "fcon"}
    PROVE  Updated(x, source).src \in {"ha", "fcon"}
<1> DEFINE new == Record(x.obs, source)
<1>1. "src" \in Columns \cap DOMAIN x.base /\ new.src = source
  BY RowShape DEF Columns, Winner, Record
<1>2. After(x, source).src \in {x.base.src, new.src}
  BY <1>1, MergedValueIsOneOfTwo DEF After, Merged, Refreshed
<1> QED BY <1>1, <1>2 DEF Updated

LEMMA UsersFiguresStay ==
    ASSUME Snapshot, TypeOK, BasesAreCurrent, UsersFigures, [Next]_vars
    PROVE  UsersFigures'
<1>1. ASSUME NEW t \in Task, Inserts(t)
      PROVE  UsersFigures'
  <2>1. PICK i \in Free :
           rows' = [rows EXCEPT ![i] =
                       NewRow(tx[t].obs, Source(t), tx[t].charge, tx[t].other)]
    BY <1>1 DEF Inserts
  <2>2. rows'[i].src # "user" /\ \A j \in Id \ {i} : rows'[j] = rows[j]
    BY <2>1 DEF NewRow, Free, TypeOK, Source
  <2> QED BY <1>1, <2>2, EditKeepsUsersFigures DEF Inserts, Plain, SameFigures
<1>2. ASSUME NEW t \in Task, Updates(t)
      PROVE  UsersFigures'
  <2> DEFINE x == tx[t]  old == rows[x.target]
  <2>1. /\ t \in Open \ stale /\ x \in Tx /\ x.doing # "insert" /\ x.at = "ready"
        /\ UNCHANGED Plain
    BY <1>2 DEF Updates, MayCommit, Open, TypeOK, Plain
  <2>2. x.target \in Id /\ old \in Row /\ x.base = old /\ old.src \in {"ha", "fcon"}
    BY <2>1 DEF BasesAreCurrent, TypeOK, Stored, Row
  <2>3. rows'[x.target].src # "user" /\ \A j \in Id \ {x.target} : rows'[j] = rows[j]
    BY <1>2, <2>1, <2>2, UpdatedIsIngested DEF Updates, TypeOK, Source
  <2> QED BY <2>1, <2>3, EditKeepsUsersFigures DEF SameFigures
<1>3. CASE UNCHANGED rows
  BY <1>3, PlainShrinks, EditKeepsUsersFigures DEF SameFigures
<1>4. ASSUME NEW i \in Id, NEW place \in Place, Curates(i, place)
      PROVE  UsersFigures'
  <2>1. /\ rows[i] \in Row /\ rows[i] # NoRow /\ UNCHANGED Plain
        /\ rows' = [rows EXCEPT ![i] = [rows[i] EXCEPT !.place = place]]
    BY <1>4 DEF Curates, Stored, TypeOK, Plain
  <2>2. SameFigures(rows[i], [rows[i] EXCEPT !.place = place])
    BY <2>1 DEF Row, SameFigures
  <2> QED BY <2>1, <2>2, EditKeepsUsersFigures DEF TypeOK, SameFigures
<1>5. ASSUME NEW i \in Id, NEW energy \in Corrected, Corrects(i, energy)
      PROVE  UsersFigures'
  <2>1. /\ rows[i] \in Row /\ rows[i] # NoRow /\ Plain' \subseteq Plain
        /\ rows[i].charge \notin Plain'
        /\ rows' = [rows EXCEPT ![i] = [rows[i] EXCEPT !.energy = energy]]
    BY <1>5 DEF Corrects, Stored, TypeOK, Plain
  <2>2. [rows[i] EXCEPT !.energy = energy].charge = rows[i].charge
    BY <2>1 DEF Row
  <2> QED BY <2>1, <2>2, EditKeepsUsersFigures DEF TypeOK, SameFigures
<1>6. ASSUME NEW i \in Id, Deletes(i)
      PROVE  UsersFigures'
  BY <1>6, RemainingFigures, EditKeepsUsersFigures DEF Deletes, Plain
<1>7. ASSUME NEW i \in Id, KeepsThis(i)
      PROVE  UsersFigures'
  <2> DEFINE left == Remaining(rows[i].other)
             new == [left[i] EXCEPT !.review = FALSE, !.other = NoId]
  <2>1. rows[i] \in Row /\ rows[i].other # i /\ i \in Stored
    BY <1>7 DEF KeepsThis, TypeOK, Stored
  <2>2. left[i] = [rows[i] EXCEPT !.other = NoId]
    BY <2>1 DEF Remaining, Stored
  <2>3. left[i] \in Row
    BY <2>1, <2>2 DEF Row
  <2>4. left \in [Id -> Row \cup {NoRow}] /\ left[i] # NoRow
    BY <2>3, RemainingType, ChargesAssumption
  <2>5. rows' = [left EXCEPT ![i] = new]
    BY <1>7, <2>4 DEF KeepsThis
  <2>6. SameFigures(left[i], new)
    BY <2>3 DEF Row, SameFigures
  <2>7. \A j \in Id : rows'[j] # NoRow => rows[j] # NoRow /\ SameFigures(rows[j], rows'[j])
    BY <2>4, <2>5, <2>6, RemainingFigures DEF SameFigures
  <2> QED BY <1>7, <2>7, EditKeepsUsersFigures DEF KeepsThis, Plain
<1>8. ASSUME NEW i \in Id, KeepsBoth(i)
      PROVE  UsersFigures'
  <2>1. /\ rows[i] \in Row /\ rows[i] # NoRow /\ UNCHANGED Plain
        /\ rows' = [rows EXCEPT ![i] = [rows[i] EXCEPT !.review = FALSE, !.other = NoId]]
    BY <1>8 DEF KeepsBoth, Stored, TypeOK, Plain
  <2>2. SameFigures(rows[i], [rows[i] EXCEPT !.review = FALSE, !.other = NoId])
    BY <2>1 DEF Row, SameFigures
  <2> QED BY <2>1, <2>2, EditKeepsUsersFigures DEF TypeOK, SameFigures
<1>9. ASSUME NEW c \in Charge, NEW place \in Place, Enters(c, place)
      PROVE  UsersFigures'
  <2> DEFINE shown == [HaLog[c] EXCEPT !.place = place]
  <2>1. PICK i \in Free : rows' = [rows EXCEPT ![i] = NewRow(shown, "user", c, NoId)]
    BY <1>9 DEF Enters
  <2>2. shown.start = HaLog[c].start /\ shown.energy = HaLog[c].energy
    BY ChargesAssumption DEF Obs
  <2>3. /\ i \in Id /\ rows'[i].charge = c
        /\ rows'[i].start = HaLog[c].start /\ rows'[i].energy = HaLog[c].energy
        /\ \A j \in Id \ {i} : rows'[j] = rows[j]
    BY <2>1, <2>2 DEF NewRow, Free, TypeOK
  <2>4. UNCHANGED Plain
    BY <1>9 DEF Enters, Plain
  <2>5. ASSUME NEW j \in Id, rows'[j] # NoRow, rows'[j].src = "user", rows'[j].charge \in Plain'
        PROVE  /\ rows'[j].start = HaLog[rows'[j].charge].start
               /\ rows'[j].energy = HaLog[rows'[j].charge].energy
    <3>1. CASE j = i
      BY <2>3, <3>1
    <3>2. CASE j # i
      BY <2>3, <2>4, <2>5, <3>2 DEF UsersFigures
    <3> QED BY <3>1, <3>2
  <2> QED BY <2>5 DEF UsersFigures
<1>10. UNCHANGED rows \/ Edits \/ \E t \in Task : Inserts(t) \/ Updates(t)
  BY RowsAreWritten
<1> QED BY <1>1, <1>2, <1>3, <1>4, <1>5, <1>6, <1>7, <1>8, <1>9, <1>10 DEF Edits

\* A writer that inserts has found every user's row of its charge.
LEMMA UsersStaySeen ==
    ASSUME Snapshot, Recognisable, TypeOK, ChargeInv, UsersFigures, UsersAreSeen, [Next]_vars
    PROVE  UsersAreSeen'
<1>1. ASSUME NEW t \in Task, NEW c \in Charge,
             \/ t \in HaTask /\ HaMatches(t, c)
             \/ t \in FconTask /\ FconMatches(t, c)
      PROVE  UsersAreSeen'
  <2>1. UNCHANGED <<rows, stale, cut, touched>> /\ tx[t] = NoTx
    BY <1>1 DEF HaMatches, FconMatches
  <2>2. UNCHANGED <<Plain, Stored>>
    BY <2>1 DEF Plain, Stored
  <2>3. \A d : UsersHave(d)' <=> UsersHave(d)
    BY <2>1, <2>2 DEF UsersHave
  <2>4. \A u \in Task \ {t} : tx'[u] = tx[u]
    BY <1>1 DEF HaMatches, FconMatches, Opens, TypeOK
  <2>5. \A at, doing, target, base, other :
           Opens(t, c, at, doing, target, base, other) =>
              tx'[t].charge = c /\ tx'[t].doing = doing /\ tx'[t].other = other
    BY DEF Opens, TypeOK
  <2>6. ASSUME c \in Plain, UsersHave(c), tx'[t].doing = "insert"
        PROVE  t \in HaTask /\ tx'[t].other # NoId
    <3>1. PICK j \in Stored : rows[j].src = "user" /\ rows[j].charge = c
      BY <2>6 DEF UsersHave
    <3>2. rows[j].start = HaLog[c].start /\ rows[j].energy = HaLog[c].energy /\ j \in Id
      BY <2>6, <3>1 DEF UsersFigures, Stored
    <3>3. SameCharge(HaLog[c], HaLog[c]) /\ SameCharge(Fold[c], HaLog[c])
      BY DEF Recognisable
    <3>4. j \in Matching(HaLog[c]) /\ j \in Matching(Fold[c])
      BY <3>1, <3>2, <3>3 DEF Matching, SameCharge
    <3>5. CASE t \in HaTask /\ HaMatches(t, c)
      <4>1. \E i \in Matching(HaLog[c]) : Opens(t, c, "ready", "insert", NoId, NoRow, i)
        BY <2>5, <2>6, <3>4, <3>5 DEF HaMatches
      <4> QED BY <2>5, <3>5, <4>1, ChargesAssumption DEF Matching, Stored
    <3>6. CASE t \in FconTask /\ FconMatches(t, c)
      <4>1. Observation(t, c) = Fold[c]
        BY <2>6, <3>6, ChargesAssumption DEF Observation, Plain
      <4>2. j \in {i \in Matching(Observation(t, c)) : rows[i].src # "fcon"}
        BY <3>1, <3>4, <4>1
      <4> QED BY <2>5, <2>6, <3>6, <4>2 DEF FconMatches
    <3> QED BY <1>1, <3>5, <3>6
  <2>7. tx'[t].charge = c
    BY <1>1, <2>5 DEF HaMatches, FconMatches
  <2> QED BY <2>1, <2>2, <2>3, <2>4, <2>6, <2>7 DEF UsersAreSeen, Open
<1>2. ASSUME NEW t \in Task, Loads(t)
      PROVE  UsersAreSeen'
  <2>1. /\ t \in Open /\ tx[t] \in Tx /\ tx[t].doing = "merge" /\ tx[t].target \in Id
        /\ UNCHANGED <<rows, stale, cut, touched, Stored, Plain>>
        /\ \A u \in Task \ {t} : tx'[u] = tx[u]
    BY <1>2 DEF TypeOK, Loads, Open, Tx, Stored, Plain
  <2>2. ASSUME t \notin stale
        PROVE  tx'[t].doing = "merge"
    <3>1. rows[tx[t].target] # NoRow
      BY <2>1, <2>2 DEF ChargeInv, DecisionsHold, Decided, Stored
    <3>2. tx'[t] = [tx[t] EXCEPT !.at = "ready", !.base = rows[tx[t].target]]
      BY <1>2, <3>1 DEF Loads, TypeOK
    <3> QED BY <2>1, <3>2 DEF Tx
  <2>3. \A d : UsersHave(d)' <=> UsersHave(d)
    BY <2>1 DEF UsersHave
  <2> QED BY <2>1, <2>2, <2>3 DEF UsersAreSeen, Open
<1>3. ASSUME NEW t \in Task, Inserts(t) \/ Updates(t)
      PROVE  UsersAreSeen'
  BY <1>3 DEF Inserts, Updates, Closes, Overtakes, TypeOK, Open, UsersAreSeen
<1>4. ASSUME NEW t \in Task, Fails(t)
      PROVE  UsersAreSeen'
  <2>1. /\ UNCHANGED <<rows, Stored, Plain>>
        /\ Open' \ stale' \subseteq (Open \ stale) \ {t}
        /\ \A u \in Task \ {t} : tx'[u] = tx[u]
    BY <1>4 DEF Fails, Closes, TypeOK, Open, Stored, Plain
  <2>2. \A d : UsersHave(d)' <=> UsersHave(d)
    BY <2>1 DEF UsersHave
  <2> QED BY <2>1, <2>2 DEF UsersAreSeen, Open
<1>5. CASE Edits
  <2>1. Overtakes({}) /\ UNCHANGED tx
    BY <1>5 DEF Edits, Curates, Corrects, Deletes, Enters, KeepsThis, KeepsBoth
  <2> QED BY <2>1 DEF UsersAreSeen, Overtakes, Open
<1>6. ASSUME NEW c \in Charge, Prunes(c)
      PROVE  UsersAreSeen'
  BY <1>6 DEF Prunes, UsersAreSeen, Overtakes, Open
<1>7. CASE UNCHANGED vars
  BY <1>7 DEF vars, UsersAreSeen, UsersHave, Open, Stored, Plain
<1> QED BY <1>1, <1>2, <1>3, <1>4, <1>5, <1>6, <1>7 DEF Next, Writes, Task

\* A row added beside one the user has entered for the same charge is flagged
\* for review, and only Home Assistant's is added at all (charge_sessions.py:
\* "a matching manual or imported session means nothing is written"): on
\* SQLite, even when the user enters it after the writer has looked, if the
\* sources recognise each other's record of a charge.
THEOREM UsersRowsAreFlagged ==
    ASSUME Snapshot, Recognisable
    PROVE  Spec => FlaggedBesideUsers
<1> DEFINE Flagged ==
        tx' # tx => \A i \in Id \ Stored :
           rows'[i] # NoRow /\ rows'[i].charge \in Plain
           /\ (\E j \in Stored : rows[j].src = "user" /\ rows[j].charge = rows'[i].charge)
           => rows'[i].src = "ha" /\ rows'[i].review
<1>1. Init => BasesAreCurrent /\ UsersFigures /\ UsersAreSeen
  BY DEF Init, BasesAreCurrent, UsersFigures, UsersAreSeen, Open
<1>2. TypeOK /\ ChargeInv /\ [Next]_vars => ChargeInv'
  BY ChargeInvIsKept
<1>3. TypeOK /\ BasesAreCurrent /\ [Next]_vars => BasesAreCurrent'
  BY BasesStayCurrent
<1>4. TypeOK /\ BasesAreCurrent /\ UsersFigures /\ [Next]_vars => UsersFigures'
  BY UsersFiguresStay
<1>5. TypeOK /\ ChargeInv /\ UsersFigures /\ UsersAreSeen /\ [Next]_vars => UsersAreSeen'
  BY UsersStaySeen
<1>6. TypeOK /\ UsersAreSeen /\ [Next]_vars => [Flagged]_vars
  <2> SUFFICES ASSUME TypeOK, UsersAreSeen, Next, tx' # tx, NEW i \in Id \ Stored,
                      rows'[i] # NoRow, rows'[i].charge \in Plain,
                      UsersHave(rows'[i].charge)
               PROVE  rows'[i].src = "ha" /\ rows'[i].review
    BY DEF vars, UsersHave
  <2>1. PICK t \in Task : Inserts(t)
    <3>1. rows' # rows
      BY DEF Stored
    <3>2. ASSUME NEW t \in Task, Updates(t)
          PROVE  FALSE
      BY <3>2 DEF Updates, TypeOK, Stored
    <3>3. ~Edits
      BY DEF Edits, Curates, Corrects, Deletes, Enters, KeepsThis, KeepsBoth
    <3> QED BY <3>1, <3>2, <3>3, RowsAreWritten
  <2>2. /\ rows'[i].src = Source(t) /\ rows'[i].charge = tx[t].charge
        /\ rows'[i].review = (tx[t].other # NoId)
    <3>1. PICK k \in Free :
             rows' = [rows EXCEPT ![k] =
                         NewRow(tx[t].obs, Source(t), tx[t].charge, tx[t].other)]
      BY <2>1 DEF Inserts
    <3>2. k = i
      BY <3>1 DEF TypeOK, Stored
    <3> QED BY <3>1, <3>2 DEF NewRow, TypeOK
  <2>3. t \in Open \ stale /\ tx[t].doing = "insert"
    BY <2>1 DEF Inserts, MayCommit, Open
  <2>4. t \in HaTask /\ tx[t].other # NoId
    BY <2>2, <2>3 DEF UsersAreSeen
  <2>5. rows'[i].src = "ha"
    BY <2>2, <2>4 DEF Source
  <2>6. rows'[i].review
    BY <2>2, <2>4, Zenon
  <2> QED BY <2>5, <2>6
<1> QED
  BY <1>1, <1>2, <1>3, <1>4, <1>5, <1>6, ChargeInvHoldsAtFirst, ChargesTypeCorrect, PTL
  DEF Spec, FlaggedBesideUsers
===============================================================================
