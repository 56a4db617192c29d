----------------------------- MODULE IngestProofs -----------------------------
(***************************************************************************)
(* Ingestion for every number of runtimes, entities, responses and items.  *)
(* An item that is on its way is owned by one task: it is being handled by *)
(* it, waits in one of its batches, or is about to be added in one row.    *)
(* OnePlace is the invariant behind the refinement: no two tasks own an    *)
(* item, and none owns an item that has come to rest.  Moves is what every *)
(* step of a task does to it.                                              *)
(***************************************************************************)
EXTENDS Ingest, TLAPS

\* The places where a task has done nothing with its item yet.
Fresh == {"gas", "filling", "archive", "slug", "create", "handle", "insert"}

PlacesOf(t) ==
    CASE t = Poller -> {"archive", "slug", "create", "handle", "commit"}
      [] t = Backfill -> {"gas", "insert"} \cup Averaging
      [] OTHER -> {"gas", "filling", "archive", "slug", "create", "handle", "commit"} \cup Averaging

Types ==
    /\ taken \in Seq(Event \cup Sample) /\ Len(taken) <= MaxItems
    /\ task \in [Task -> Work \cup {None}]
    /\ pending \in [Runtime -> [Batch -> Batches \cup {None}]]
    /\ rows \subseteq SUBSET Item /\ prices \subseteq Item /\ month \in [Months -> SUBSET Item]
    /\ out \in [superseded : SUBSET Item, ignored : SUBSET Item]
    /\ vehicle \in Vehicle \cup {None}
    /\ switch \in BOOLEAN /\ cache \in BOOLEAN \cup {None} /\ wasOff \in BOOLEAN
    /\ stale \subseteq Task /\ faults \in Nat

-----------------------------------------------------------------------------
(***************************************************************************)
(* Where the items are.                                                    *)
(***************************************************************************)
Batched(r, b) == Items(Held(r, b))

Carried(t) ==
    IF Idle(t) THEN {}
    ELSE (UNION task[t].adds) \cup (IF task[t].at \in Fresh THEN {task[t].item} ELSE {})

Own(t) == Carried(t) \cup UNION {Batched(t, b) : b \in {c \in Batch : t \in Runtime}}

Settled == (UNION rows) \cup prices \cup out.superseded \cup out.ignored

\* What a task carries is not in its batches, nor is an item in both of them.
Apart(t) ==
    t \in Runtime =>
        /\ Batched(t, "vehicle") \cap Batched(t, "battery") = {}
        /\ \A b \in Batch : Batched(t, b) \cap Carried(t) = {}

OnePlace ==
    /\ \A t, u \in Task : t # u => Own(t) \cap Own(u) = {}
    /\ \A t \in Task : Apart(t) /\ Own(t) \cap Settled = {} /\ Own(t) \subseteq 1 .. Len(taken)
    /\ Settled \subseteq 1 .. Len(taken)

\* Different rows share no item.
Disjoint(S) == \A row, other \in S : row # other => row \cap other = {}

RowsApart ==
    /\ Disjoint(rows)
    /\ \A t \in Task : ~Idle(t) => Disjoint(task[t].adds)

\* No batch holds an item twice, or one that came after the task's.
BatchesInOrder ==
    \A r \in Runtime : \A b \in Batch : pending[r][b] # None =>
        /\ \A f, g \in DOMAIN pending[r][b] : pending[r][b][f] = pending[r][b][g] => f = g
        /\ ~Idle(r) /\ task[r].at \in Fresh =>
              \A f \in DOMAIN pending[r][b] : pending[r][b][f] < task[r].item

\* What a task that has handled its item has made of it.
TasksInOrder ==
    \A t \in Task : ~Idle(t) =>
        /\ task[t].at \in PlacesOf(t)
        /\ task[t].item \in 1 .. Len(taken)
        /\ task[t].at # "commit" => task[t].adds = {}
        /\ task[t].at = "commit" => task[t].item \in Own(t) \cup out.ignored
        /\ task[t].at \in Averaging => task[t].item \in prices

\* Only a vehicle that is there can be filled.
FillsVehicle ==
    \A t \in Task : ~Idle(t) /\ task[t].at \in {"handle", "commit"} /\ task[t].fills # {} =>
        vehicle # None

Inv == Types /\ TasksInOrder /\ OnePlace /\ RowsApart /\ BatchesInOrder /\ FillsVehicle

-----------------------------------------------------------------------------
(***************************************************************************)
(* Batches.                                                                *)
(***************************************************************************)
LEMMA BatchShape ==
  ASSUME NEW batch \in Batches
  PROVE  /\ DOMAIN batch \subseteq Slugs /\ batch \in [DOMAIN batch -> Item] /\ batch # None
         /\ \A f \in DOMAIN batch : batch[f] \in Item
         /\ Items(batch) \subseteq Item
  <1>1. PICK F \in SUBSET Slugs : batch \in [F -> Item]
    BY DEF Batches
  <1>2. QED
    BY <1>1, IngestAssumption DEF Items

LEMMA IsBatch ==
  ASSUME NEW F \in SUBSET Slugs, NEW batch \in [F -> Item]
  PROVE  batch \in Batches
  BY DEF Batches

LEMMA EmptyBatchShape ==
  EmptyBatch \in Batches /\ DOMAIN EmptyBatch = {} /\ Items(EmptyBatch) = {}
  <1>1. DOMAIN EmptyBatch = {} /\ EmptyBatch \in [{} -> Item]
    BY DEF EmptyBatch
  <1>2. EmptyBatch \in Batches
    BY <1>1, IsBatch
  <1>3. QED
    BY <1>1, <1>2 DEF Items

LEMMA HeldShape ==
  ASSUME Types, NEW r \in Runtime, NEW b \in Batch
  PROVE  /\ Held(r, b) \in Batches
         /\ Batched(r, b) = Items(Held(r, b))
         /\ pending[r][b] = None => Batched(r, b) = {}
         /\ pending[r][b] # None => Batched(r, b) = Items(pending[r][b])
  <1>1. pending[r][b] \in Batches \cup {None}
    BY DEF Types
  <1>2. QED
    BY <1>1, EmptyBatchShape DEF Held, Batched

\* What a batch holds besides field f, and in it.
Others(batch, f) == {batch[g] : g \in DOMAIN batch \ {f}}
InField(batch, f) == {batch[g] : g \in DOMAIN batch \cap {f}}

LEMMA PutShape ==
  ASSUME NEW batch \in Batches, NEW f \in Slugs, NEW i \in Item
  PROVE  /\ Put(batch, f, i) \in Batches
         /\ DOMAIN Put(batch, f, i) = DOMAIN batch \cup {f}
         /\ Put(batch, f, i)[f] = i
         /\ \A g \in DOMAIN batch \ {f} : Put(batch, f, i)[g] = batch[g]
  <1> DEFINE new == Put(batch, f, i)
  <1>1. /\ DOMAIN new = DOMAIN batch \cup {f} /\ new[f] = i
        /\ \A g \in DOMAIN batch \ {f} : new[g] = batch[g]
    BY DEF Put
  <1>2. new \in [DOMAIN batch \cup {f} -> Item] /\ DOMAIN batch \cup {f} \in SUBSET Slugs
    BY BatchShape DEF Put
  <1>3. new \in Batches
    BY <1>2, IsBatch
  <1>4. QED
    BY <1>1, <1>3

LEMMA PutItems ==
  ASSUME NEW batch \in Batches, NEW f \in Slugs, NEW i \in Item
  PROVE  /\ Items(Put(batch, f, i)) = Others(batch, f) \cup {i}
         /\ Items(batch) = Others(batch, f) \cup InField(batch, f)
  <1>1. Items(batch) = Others(batch, f) \cup InField(batch, f)
    BY DEF Items, Others, InField
  <1>2. Items(Put(batch, f, i)) = Others(batch, f) \cup {i}
    <2> DEFINE new == Put(batch, f, i)
    <2>1. /\ DOMAIN new = DOMAIN batch \cup {f} /\ new[f] = i
          /\ \A g \in DOMAIN batch \ {f} : new[g] = batch[g]
      BY DEF Put
    <2>2. QED
      BY <2>1 DEF Items, Others
  <1>3. QED
    BY <1>1, <1>2

LEMMA NothingTwice ==
  ASSUME NEW batch \in Batches, NEW f \in Slugs,
         \A g, h \in DOMAIN batch : batch[g] = batch[h] => g = h
  PROVE  Others(batch, f) \cap InField(batch, f) = {}
  BY DEF Others, InField

-----------------------------------------------------------------------------
(***************************************************************************)
(* A task's record.                                                        *)
(***************************************************************************)
LEMMA IsAverage ==
  ASSUME NEW M \in SUBSET Months, NEW A \in [M -> SUBSET Item]
  PROVE  A \in MonthAverages
  BY DEF MonthAverages

LEMMA AverageShape ==
  ASSUME NEW A \in MonthAverages
  PROVE  /\ DOMAIN A \subseteq Months /\ A \in [DOMAIN A -> SUBSET Item]
         /\ \A m \in DOMAIN A : A[m] \subseteq Item
  <1>1. PICK M \in SUBSET Months : A \in [M -> SUBSET Item]
    BY DEF MonthAverages
  <1>2. QED
    BY <1>1

LEMMA NoMonthsIsAverage ==
  NoMonths \in MonthAverages
  <1>1. NoMonths \in [{} -> SUBSET Item]
    BY DEF NoMonths
  <1>2. QED
    BY <1>1, IsAverage

LEMMA BusyShape ==
  ASSUME Types, NEW t \in Task, ~Idle(t)
  PROVE  task[t] \in Work /\ task[t] # None
  BY DEF Types, Idle

LEMMA GoesShape ==
  ASSUME Types, NEW t \in Task, NEW p \in PlacesOf(t), ~Idle(t), Goes(t, p)
  PROVE  /\ task' \in [Task -> Work \cup {None}]
         /\ task'[t] = [task[t] EXCEPT !.at = p] /\ task'[t] \in Work /\ task'[t] # None
         /\ \A u \in Task \ {t} : task'[u] = task[u]
  <1> DEFINE rec == [task[t] EXCEPT !.at = p]
  <1>1. task' = [task EXCEPT ![t] = rec] /\ task \in [Task -> Work \cup {None}]
    BY DEF Types, Goes
  <1>2. rec \in Work
    BY BusyShape DEF Work, PlacesOf, Averaging
  <1>3. rec # None
    BY <1>2, IngestAssumption
  <1> HIDE DEF rec
  <1>4. /\ task' \in [Task -> Work \cup {None}] /\ task'[t] = rec
        /\ \A u \in Task \ {t} : task'[u] = task[u]
    BY <1>1, <1>2
  <1>5. QED
    BY <1>2, <1>3, <1>4 DEF rec

\* It has handled its item, and will add the rows in A.
WillAdd(t, A) == task' = [task EXCEPT ![t].at = "commit", ![t].adds = A]

LEMMA HandledShape ==
  ASSUME Types, NEW t \in Task, task[t] \in Work, NEW A \in SUBSET SUBSET Item, WillAdd(t, A)
  PROVE  /\ task' \in [Task -> Work \cup {None}]
         /\ \A u \in Task \ {t} : task'[u] = task[u]
         /\ task'[t] \in Work /\ task'[t] # None
         /\ task'[t].at = "commit" /\ task'[t].adds = A
         /\ task'[t].item = task[t].item /\ task'[t].fills = task[t].fills
         /\ task'[t].on = task[t].on /\ task'[t].average = task[t].average
  <1> DEFINE rec == [task[t] EXCEPT !.at = "commit", !.adds = A]
  <1>1. /\ rec \in Work /\ rec.at = "commit" /\ rec.adds = A /\ rec.item = task[t].item
        /\ rec.fills = task[t].fills /\ rec.on = task[t].on /\ rec.average = task[t].average
    BY DEF Work
  <1>2. task' = [task EXCEPT ![t] = rec]
    BY DEF WillAdd
  <1> HIDE DEF rec
  <1>3. /\ task' \in [Task -> Work \cup {None}] /\ task'[t] = rec
        /\ \A u \in Task \ {t} : task'[u] = task[u]
    BY <1>1, <1>2 DEF Types
  <1>4. rec # None
    BY <1>1, IngestAssumption
  <1>5. QED
    BY <1>1, <1>3, <1>4

\* What a task carries, by its place.
LEMMA CarriedIs ==
  ASSUME Types, TasksInOrder, NEW t \in Task
  PROVE  /\ Idle(t) => Carried(t) = {}
         /\ ~Idle(t) /\ task[t].at \in Fresh => Carried(t) = {task[t].item}
         /\ ~Idle(t) /\ task[t].at = "commit" => Carried(t) = UNION task[t].adds
         /\ ~Idle(t) /\ task[t].at \in Averaging => Carried(t) = {}
  <1>1. CASE Idle(t)
    BY <1>1 DEF Carried
  <1>2. CASE ~Idle(t) /\ task[t].at = "commit"
    BY <1>2 DEF Carried, Fresh, Averaging
  <1>3. CASE ~Idle(t) /\ task[t].at # "commit"
    <2>1. task[t].adds = {}
      BY <1>3 DEF TasksInOrder
    <2>2. UNION task[t].adds = {}
      BY <2>1
    <2>3. QED
      BY <1>3, <2>2 DEF Carried, Fresh, Averaging
  <1>4. QED
    BY <1>1, <1>2, <1>3 DEF Fresh, Averaging

LEMMA OwnIs ==
  ASSUME NEW t \in Task
  PROVE  \A i : i \in Own(t) <=>
             \/ i \in Carried(t)
             \/ t \in Runtime /\ \E b \in Batch : i \in Batched(t, b)
  <1>1. CASE t \in Runtime
    BY <1>1 DEF Own
  <1>2. CASE t \notin Runtime
    <2>1. {c \in Batch : t \in Runtime} = {}
      BY <1>2
    <2>2. QED
      BY <1>2, <2>1 DEF Own
  <1>3. QED
    BY <1>1, <1>2

LEMMA Undisturbed ==
  ASSUME NEW u \in Task, task'[u] = task[u], u \in Runtime => pending'[u] = pending[u]
  PROVE  /\ Carried(u)' = Carried(u) /\ Own(u)' = Own(u) /\ (Apart(u) => Apart(u)')
         /\ u \in Runtime => \A b \in Batch : Batched(u, b)' = Batched(u, b)
  <1>1. Carried(u)' = Carried(u)
    BY DEF Carried, Idle
  <1>2. u \in Runtime => \A b \in Batch : Batched(u, b)' = Batched(u, b)
    BY DEF Batched, Held
  <1>3. Own(u)' = Own(u)
    BY <1>1, <1>2 DEF Own
  <1>4. Apart(u) => Apart(u)'
    BY <1>1, <1>2 DEF Apart, Batch
  <1>5. QED
    BY <1>1, <1>2, <1>3, <1>4

-----------------------------------------------------------------------------
(***************************************************************************)
(* What a step of task t does to the items.                                *)
(***************************************************************************)
New == Len(taken) + 1 .. Len(taken')

\* Items come to rest and stay there; what t owns it has owned, or just taken.
Moves(t) ==
    /\ \A u \in Task \ {t} : Own(u)' = Own(u) /\ (Apart(u) => Apart(u)')
    /\ Len(taken) <= Len(taken')
    /\ New \subseteq Own(t)' /\ Own(t)' \subseteq Own(t) \cup New
    /\ Apart(t)'
    /\ rows \subseteq rows' /\ prices \subseteq prices'
    /\ out.superseded \subseteq out'.superseded /\ out.ignored \subseteq out'.ignored
    /\ Settled' \subseteq Settled \cup Own(t)
    /\ Settled' \cap Own(t)' = {}

\* Nothing is lost without a fault; what is superseded came before something taken.
Keeps(t) ==
    /\ faults' \in {faults, faults + 1}
    /\ faults' = faults => Own(t) \subseteq Own(t)' \cup Settled'
    /\ \A i \in Own(t) \cap out'.superseded : \E j \in Own(t) : i < j

LEMMA SupersedesNothing ==
  ASSUME OnePlace, NEW t \in Task, out'.superseded = out.superseded,
         faults' \in {faults, faults + 1},
         faults' = faults => Own(t) \subseteq Own(t)' \cup Settled'
  PROVE  Keeps(t)
  BY DEF OnePlace, Settled, Keeps

LEMMA OnePlaceMoves ==
  ASSUME OnePlace, NEW t \in Task, Moves(t), Len(taken) \in Nat, Len(taken') \in Nat
  PROVE  OnePlace'
  <1>1. New \subseteq 1 .. Len(taken') /\ 1 .. Len(taken) \subseteq 1 .. Len(taken')
        /\ New \cap 1 .. Len(taken) = {}
    BY DEF Moves, New
  <1>2. Own(t)' \subseteq Own(t) \cup New /\ Own(t)' \subseteq 1 .. Len(taken')
    BY <1>1 DEF Moves, OnePlace
  <1>3. Settled' \subseteq 1 .. Len(taken')
    BY <1>1 DEF Moves, OnePlace
  <1>4. ASSUME NEW u \in Task, NEW v \in Task, u # v
        PROVE  Own(u)' \cap Own(v)' = {}
    <2>1. CASE u # t /\ v # t
      BY <1>4, <2>1 DEF Moves, OnePlace
    <2>2. ASSUME NEW w \in Task \ {t}
          PROVE  Own(w)' \cap Own(t)' = {}
      BY <1>1, <1>2, <2>2 DEF Moves, OnePlace
    <2>3. QED
      BY <1>4, <2>1, <2>2
  <1>5. ASSUME NEW u \in Task
        PROVE  Apart(u)' /\ Own(u)' \cap Settled' = {} /\ Own(u)' \subseteq 1 .. Len(taken')
    <2>1. CASE u = t
      BY <1>2, <2>1 DEF Moves
    <2>2. CASE u # t
      BY <1>1, <2>2 DEF Moves, OnePlace
    <2>3. QED
      BY <2>1, <2>2
  <1>6. QED
    BY <1>3, <1>4, <1>5 DEF OnePlace

\* Only what t carries changes, to X, and the items in Y come to rest.
LEMMA CarriedMoves ==
  ASSUME OnePlace, NEW t \in Task, Len(taken) \in Nat,
         NEW X, NEW Y, X \cap Y = {}, Y \subseteq Carried(t), X \subseteq Carried(t),
         \A u \in Task \ {t} : task'[u] = task[u],
         pending' = pending, taken' = taken,
         Carried(t)' = X, Settled' = Settled \cup Y,
         rows \subseteq rows', prices \subseteq prices',
         out.superseded \subseteq out'.superseded, out.ignored \subseteq out'.ignored
  PROVE  Moves(t) /\ Own(t)' = (Own(t) \ Carried(t)) \cup X
  <1>1. \A u \in Task \ {t} : Own(u)' = Own(u) /\ (Apart(u) => Apart(u)')
    BY Undisturbed
  <1>2. t \in Runtime => \A b \in Batch : Batched(t, b)' = Batched(t, b)
    BY DEF Batched, Held
  <1>3. t \in Runtime => \A b \in Batch : Batched(t, b) \cap Carried(t) = {}
    BY DEF OnePlace, Apart
  <1>4. Own(t)' = (Own(t) \ Carried(t)) \cup X
    BY <1>2, <1>3, OwnIs DEF Own
  <1>5. Apart(t)'
    BY <1>2, <1>3 DEF OnePlace, Apart, Batch
  <1>6. New = {}
    BY DEF New
  <1>7. Carried(t) \subseteq Own(t) /\ Own(t) \cap Settled = {}
    BY DEF Own, OnePlace
  <1>8. Settled' \cap Own(t)' = {} /\ Settled' \subseteq Settled \cup Own(t)
    BY <1>4, <1>7
  <1>9. Own(t)' \subseteq Own(t)
    BY <1>4, <1>7
  <1>10. QED
    BY <1>1, <1>4, <1>5, <1>6, <1>8, <1>9 DEF Moves

LEMMA TakesMoves ==
  ASSUME Inv, NEW t \in Task, NEW input \in Event \cup Sample, NEW place \in Fresh,
         NEW on \in BOOLEAN, Takes(t, input, place, on),
         pending' = pending, UNCHANGED <<rows, prices, out, faults>>
  PROVE  Moves(t) /\ Keeps(t)
  <1>1. Len(taken) \in Nat /\ Len(taken') = Len(taken) + 1
    BY DEF Takes, Inv, Types
  <1>2. task' = [task EXCEPT ![t] = [at |-> place, item |-> Len(taken) + 1, on |-> on,
                                     average |-> NoMonths, fills |-> {}, adds |-> {}]]
        /\ task \in [Task -> Work \cup {None}] /\ task[t] = None
    BY DEF Takes, Idle, Inv, Types
  <1>3. /\ \A u \in Task \ {t} : task'[u] = task[u]
        /\ task'[t].at = place /\ task'[t].item = Len(taken) + 1 /\ task'[t].adds = {}
        /\ task'[t] \in Work /\ task'[t] # None
    <2>1. Len(taken) + 1 \in Item
      BY <1>1, IngestAssumption DEF Takes, Item
    <2>2. [at |-> place, item |-> Len(taken) + 1, on |-> on,
           average |-> NoMonths, fills |-> {}, adds |-> {}] \in Work
      BY <2>1, NoMonthsIsAverage DEF Work, Fresh
    <2>3. QED
      BY <1>2, <2>2, IngestAssumption
  <1>4. \A u \in Task \ {t} : Own(u)' = Own(u) /\ (Apart(u) => Apart(u)')
    BY <1>3, Undisturbed
  <1>5. t \in Runtime => \A b \in Batch : Batched(t, b)' = Batched(t, b)
    BY DEF Batched, Held
  <1>6. Carried(t) = {}
    BY <1>2 DEF Carried, Idle
  <1>7. Carried(t)' = New
    <2>1. UNION task'[t].adds = {}
      BY <1>3
    <2>2. Carried(t)' = {Len(taken) + 1}
      BY <1>3, <2>1 DEF Carried, Idle
    <2>3. QED
      BY <1>1, <2>2 DEF New
  <1>8. Own(t)' = Own(t) \cup New
    BY <1>5, <1>6, <1>7 DEF Own
  <1>9. New \cap 1 .. Len(taken) = {}
    BY <1>1 DEF New
  <1>10. Own(t) \subseteq 1 .. Len(taken) /\ Settled \subseteq 1 .. Len(taken)
         /\ Own(t) \cap Settled = {} /\ Apart(t)
    BY DEF Inv, OnePlace
  <1>11. Apart(t)'
    <2>1. t \in Runtime => \A b \in Batch : Batched(t, b) \subseteq Own(t)
      BY OwnIs
    <2>2. QED
      BY <1>5, <1>7, <1>9, <1>10, <2>1 DEF Apart, Batch
  <1>12. Settled' = Settled
    BY DEF Settled
  <1>13. Moves(t)
    <2>1. Settled' \cap Own(t)' = {} /\ Settled' \subseteq Settled \cup Own(t)
      BY <1>8, <1>9, <1>10, <1>12
    <2>2. rows' = rows /\ prices' = prices /\ out' = out
      OBVIOUS
    <2>3. Len(taken) <= Len(taken') /\ New \subseteq Own(t)' /\ Own(t)' \subseteq Own(t) \cup New
      BY <1>1, <1>8
    <2>4. QED
      BY <1>4, <1>11, <2>1, <2>2, <2>3 DEF Moves
  <1>14. Keeps(t)
    BY <1>8, SupersedesNothing DEF Inv
  <1>15. QED
    BY <1>13, <1>14

\* The items stay where they are.
LEMMA QuietMoves ==
  ASSUME Inv, NEW t \in Task, \A u \in Task \ {t} : task'[u] = task[u],
         Carried(t)' = Carried(t), pending' = pending, UNCHANGED <<rows, prices, out, taken>>
  PROVE  Moves(t) /\ (faults' \in {faults, faults + 1} => Keeps(t))
  <1>1. Settled' = Settled \cup {} /\ Len(taken) \in Nat /\ OnePlace
    BY DEF Settled, Inv, Types
  <1>2. Moves(t) /\ Own(t)' = (Own(t) \ Carried(t)) \cup Carried(t)
    <2>1. /\ Carried(t) \cap {} = {} /\ {} \subseteq Carried(t) /\ Carried(t) \subseteq Carried(t)
          /\ rows \subseteq rows' /\ prices \subseteq prices' /\ taken' = taken
          /\ out.superseded \subseteq out'.superseded /\ out.ignored \subseteq out'.ignored
      OBVIOUS
    <2>2. QED
      BY <1>1, <2>1, CarriedMoves
  <1>3. Own(t)' = Own(t)
    BY <1>2, OwnIs
  <1>4. ASSUME faults' \in {faults, faults + 1}
        PROVE  Keeps(t)
    BY <1>1, <1>3, <1>4, SupersedesNothing
  <1>5. QED
    BY <1>2, <1>4

\* The task's item comes to rest.
LEMMA RestsMoves ==
  ASSUME Inv, NEW t \in Task, ~Idle(t), task[t].at \in Fresh,
         \A u \in Task \ {t} : task'[u] = task[u], Carried(t)' = {},
         pending' = pending, UNCHANGED <<rows, taken, faults>>,
         \/ prices' = prices \cup {task[t].item} /\ UNCHANGED out
         \/ Ignores(t) /\ UNCHANGED prices
  PROVE  Moves(t) /\ Keeps(t)
  <1>1. Carried(t) = {task[t].item} /\ OnePlace /\ Len(taken) \in Nat
    BY CarriedIs DEF Inv, Types
  <1>2. /\ Settled' = Settled \cup {task[t].item}
        /\ prices \subseteq prices' /\ out.superseded \subseteq out'.superseded
        /\ out.ignored \subseteq out'.ignored /\ out'.superseded = out.superseded
    BY DEF Settled, Ignores, Inv, Types
  <1>3. Moves(t) /\ Own(t)' = (Own(t) \ Carried(t)) \cup {}
    BY <1>1, <1>2, CarriedMoves
  <1>4. Keeps(t)
    BY <1>1, <1>2, <1>3, SupersedesNothing
  <1>5. QED
    BY <1>3, <1>4

LEMMA OwnMoves ==
  ASSUME OnePlace, NEW t \in Task, Len(taken) \in Nat, NEW Y,
         \A u \in Task \ {t} : task'[u] = task[u],
         \A u \in Runtime \ {t} : pending'[u] = pending[u],
         taken' = taken, Apart(t)', Own(t)' \subseteq Own(t),
         Y \subseteq Own(t), Y \cap Own(t)' = {}, Settled' = Settled \cup Y,
         rows \subseteq rows', prices \subseteq prices',
         out.superseded \subseteq out'.superseded, out.ignored \subseteq out'.ignored
  PROVE  Moves(t)
  <1>1. \A u \in Task \ {t} : Own(u)' = Own(u) /\ (Apart(u) => Apart(u)')
    BY Undisturbed
  <1>2. New = {}
    BY DEF New
  <1>3. Own(t) \cap Settled = {}
    BY DEF OnePlace
  <1>4. Settled' \cap Own(t)' = {} /\ Settled' \subseteq Settled \cup Own(t)
    BY <1>3
  <1>5. QED
    BY <1>1, <1>2, <1>4 DEF Moves

\* What a runtime has before it handles an event.
LEMMA BeforeHandling ==
  ASSUME Inv, NEW r \in Runtime, At(r, "handle")
  PROVE  /\ r \in Task /\ ~Idle(r) /\ task[r] \in Work /\ task[r].item \in Item
         /\ Carried(r) = {task[r].item} /\ Apart(r) /\ OnePlace
         /\ \A b \in Batch : task[r].item \notin Batched(r, b)
         /\ \A b \in Batch : \A i \in Batched(r, b) : i < task[r].item
         /\ Own(r) = Batched(r, "vehicle") \cup Batched(r, "battery") \cup {task[r].item}
         /\ Len(taken) \in Nat
  <1>1. r \in Task /\ ~Idle(r)
    BY DEF At, Idle, Task
  <1>2. task[r] \in Work /\ task[r].item \in Item /\ task[r].at \in Fresh
    BY <1>1, BusyShape DEF Inv, At, Fresh, Work
  <1>3. Carried(r) = {task[r].item}
    BY <1>1, <1>2, CarriedIs DEF Inv
  <1>4. Apart(r) /\ OnePlace /\ Len(taken) \in Nat
    BY <1>1 DEF Inv, OnePlace, Types
  <1>5. \A b \in Batch : task[r].item \notin Batched(r, b)
    BY <1>3, <1>4 DEF Apart
  <1>6. ASSUME NEW b \in Batch, NEW i \in Batched(r, b)
        PROVE  i < task[r].item
    <2>1. pending[r][b] # None /\ i \in Items(pending[r][b])
      BY HeldShape DEF Inv
    <2>2. QED
      BY <1>1, <1>2, <2>1 DEF Items, Inv, BatchesInOrder
  <1>7. Own(r) = Batched(r, "vehicle") \cup Batched(r, "battery") \cup {task[r].item}
    BY <1>1, <1>3, OwnIs DEF Batch
  <1>8. QED
    BY <1>1, <1>2, <1>3, <1>4, <1>5, <1>6, <1>7

LEMMA ReadingMoves ==
  ASSUME Inv, NEW r \in Runtime, At(r, "handle"), NEW b \in Batch, NEW f \in Slugs,
         HandlesReading(r, b, f), UNCHANGED <<rows, prices, taken, faults>>
  PROVE  Moves(r) /\ Keeps(r)
  <1> DEFINE i == task[r].item
             batch == Held(r, b)
             keeps == InputOf(r) \in Known \/ f \in {"soc", "tirepressure"}
             new == IF keeps THEN Put(batch, f, i) ELSE batch
             pops == f # "tirepressure" /\ since[r][b] = "overdue"
             Y == IF keeps THEN InField(batch, f) ELSE {i}
             c == IF b = "vehicle" THEN "battery" ELSE "vehicle"
  <1>1. /\ r \in Task /\ ~Idle(r) /\ task[r] \in Work /\ i \in Item
        /\ Carried(r) = {i} /\ Apart(r) /\ OnePlace /\ i \notin Batched(r, b)
        /\ \A j \in Batched(r, b) : j < i
        /\ Len(taken) \in Nat
    BY BeforeHandling
  <1>2. c \in Batch /\ c # b /\ Batch = {b, c}
    BY DEF Batch
  <1>3. Own(r) = Batched(r, b) \cup Batched(r, c) \cup {i} /\ i \notin Batched(r, c)
    BY <1>2, BeforeHandling DEF Batch
  <1>4. batch \in Batches /\ Batched(r, b) = Items(batch)
    BY HeldShape DEF Inv
  <1>5. /\ Items(Put(batch, f, i)) = Others(batch, f) \cup {i} /\ Put(batch, f, i) \in Batches
        /\ Items(batch) = Others(batch, f) \cup InField(batch, f)
    <2>1. \A x \in Batches : \A j \in Item :
              /\ Items(Put(x, f, j)) = Others(x, f) \cup {j} /\ Put(x, f, j) \in Batches
              /\ Items(x) = Others(x, f) \cup InField(x, f)
      <3>1. TAKE x \in Batches
      <3>2. TAKE j \in Item
      <3>3. Put(x, f, j) \in Batches
        BY PutShape
      <3>4. /\ Items(Put(x, f, j)) = Others(x, f) \cup {j}
            /\ Items(x) = Others(x, f) \cup InField(x, f)
        BY PutItems
      <3>5. QED
        BY <3>3, <3>4
    <2>2. QED
      BY <1>1, <1>4, <2>1
  <1>6. Others(batch, f) \cap InField(batch, f) = {}
    <2>1. \A g, h \in DOMAIN batch : batch[g] = batch[h] => g = h
      BY EmptyBatchShape DEF Held, Inv, BatchesInOrder
    <2>2. QED
      BY <1>4, <2>1, NothingTwice
  <1>7. /\ Items(new) \subseteq Own(r) /\ Y \subseteq Own(r) /\ Y \cap Items(new) = {}
        /\ Items(batch) \cup {i} = Items(new) \cup Y
    <2>1. CASE keeps
      BY <1>1, <1>3, <1>4, <1>5, <1>6, <2>1
    <2>2. CASE ~keeps
      BY <1>1, <1>3, <1>4, <2>2
    <2>3. QED
      BY <2>1, <2>2
  <1>8. new \in Batches /\ new # None
    BY <1>4, <1>5, BatchShape
  <1>9. /\ pending' = [pending EXCEPT ![r][b] = IF pops THEN None ELSE new]
        /\ task' = [task EXCEPT ![r].at = "commit", ![r].adds = IF pops THEN {Items(new)} ELSE {}]
    BY DEF HandlesReading, Accumulates
  <1>10. /\ \A u \in Task \ {r} : task'[u] = task[u]
         /\ task'[r] # None /\ task'[r].at = "commit"
         /\ task'[r].adds = IF pops THEN {Items(new)} ELSE {}
    <2>1. task \in [Task -> Work \cup {None}] /\ Items(new) \subseteq Item
      BY <1>8, BatchShape DEF Inv, Types
    <2>2. (IF pops THEN {Items(new)} ELSE {}) \in SUBSET SUBSET Item
      BY <2>1
    <2>3. PICK A \in SUBSET SUBSET Item : A = IF pops THEN {Items(new)} ELSE {}
      BY <2>2
    <2>4. WillAdd(r, A)
      BY <1>9, <2>3 DEF WillAdd
    <2>5. Types
      BY DEF Inv
    <2>6. QED
      BY <1>1, <2>3, <2>4, <2>5, HandledShape
  <1>11. /\ \A u \in Runtime \ {r} : pending'[u] = pending[u]
         /\ pending'[r][c] = pending[r][c]
         /\ pending'[r][b] = IF pops THEN None ELSE new
    BY <1>2, <1>9 DEF Inv, Types
  <1>12. Carried(r)' = IF pops THEN Items(new) ELSE {}
    <2>1. Carried(r)' = (UNION task'[r].adds) \cup {}
      BY <1>10 DEF Carried, Idle, Fresh
    <2>2. CASE pops
      BY <1>10, <2>1, <2>2
    <2>3. CASE ~pops
      BY <1>10, <2>1, <2>3
    <2>4. QED
      BY <2>2, <2>3
  <1>13. Batched(r, b)' = IF pops THEN {} ELSE Items(new)
    BY <1>8, <1>11, EmptyBatchShape DEF Batched, Held
  <1>14. Batched(r, c)' = Batched(r, c)
    BY <1>11 DEF Batched, Held
  <1>15. Own(r)' = Batched(r, c) \cup Items(new)
    <2>1. Own(r)' = Carried(r)' \cup Batched(r, b)' \cup Batched(r, c)'
      BY <1>1, <1>2 DEF Own
    <2>2. QED
      BY <1>12, <1>13, <1>14, <2>1
  <1>16. Batched(r, c) \cap (Items(new) \cup Y) = {}
    BY <1>1, <1>2, <1>3, <1>4, <1>7 DEF Apart, Batch
  <1>17. Apart(r)'
    <2>1. /\ Batched(r, b)' \cap Batched(r, c)' = {} /\ Batched(r, b)' \cap Carried(r)' = {}
          /\ Batched(r, c)' \cap Carried(r)' = {}
      BY <1>12, <1>13, <1>14, <1>16
    <2>2. QED
      BY <1>2, <2>1 DEF Apart, Batch
  <1>18. /\ Settled' = Settled \cup Y
         /\ out.superseded \subseteq out'.superseded /\ out.ignored \subseteq out'.ignored
         /\ IF keeps THEN Y \subseteq out'.superseded ELSE Y \subseteq out'.ignored
    <2>1. out \in [superseded : SUBSET Item, ignored : SUBSET Item]
      BY DEF Inv, Types
    <2>2. CASE keeps
      <3>1. out' = [out EXCEPT !.superseded = @ \cup InField(batch, f)]
        BY <2>2 DEF HandlesReading, Superseding, InField
      <3>2. QED
        BY <2>1, <2>2, <3>1 DEF Settled
    <2>3. CASE ~keeps
      <3>1. out' = [out EXCEPT !.ignored = @ \cup {i}]
        BY <2>3 DEF HandlesReading, Ignores
      <3>2. QED
        BY <2>1, <2>3, <3>1 DEF Settled
    <2>4. QED
      BY <2>2, <2>3
  <1>19. Own(r)' \subseteq Own(r) /\ Y \cap Own(r)' = {} /\ Own(r) = Own(r)' \cup Y
    BY <1>3, <1>4, <1>7, <1>15, <1>16
  <1>20. Moves(r)
    BY <1>1, <1>7, <1>10, <1>11, <1>17, <1>18, <1>19, OwnMoves
  <1>21. Keeps(r)
    <2>1. Own(r) \subseteq Own(r)' \cup Settled' /\ i \in Own(r)
      BY <1>3, <1>18, <1>19
    <2>2. \A j \in Own(r) \cap out'.superseded : j < i
      <3>1. CASE keeps
        <4>1. out' = [out EXCEPT !.superseded = @ \cup InField(batch, f)]
          BY <3>1 DEF HandlesReading, Superseding, InField
        <4>2. out'.superseded = out.superseded \cup InField(batch, f)
          BY <4>1 DEF Inv, Types
        <4>3. \A j \in InField(batch, f) : j < i
          BY <1>1, <1>4, <1>5
        <4>4. QED
          BY <1>1, <4>2, <4>3 DEF OnePlace, Settled
      <3>2. CASE ~keeps
        <4>1. out' = [out EXCEPT !.ignored = @ \cup {i}]
          BY <3>2 DEF HandlesReading, Ignores
        <4>2. out'.superseded = out.superseded
          BY <4>1 DEF Inv, Types
        <4>3. QED
          BY <1>1, <4>2 DEF OnePlace, Settled
      <3>3. QED
        BY <3>1, <3>2
    <2>3. QED
      BY <2>1, <2>2 DEF Keeps
  <1>22. QED
    BY <1>20, <1>21

LEMMA RefreshMoves ==
  ASSUME Inv, NEW r \in Runtime, At(r, "handle"), HandlesRefresh(r),
         UNCHANGED <<rows, prices, taken, faults>>
  PROVE  Moves(r) /\ Keeps(r)
  <1> DEFINE i == task[r].item
             adds == {Items(Held(r, "vehicle"))} \cup
                     {Items(pending[r][b]) : b \in {c \in {"battery"} : pending[r][c] # None}}
  <1>1. /\ r \in Task /\ ~Idle(r) /\ task[r] \in Work /\ i \in Item
        /\ Carried(r) = {i} /\ OnePlace /\ \A b \in Batch : i \notin Batched(r, b)
        /\ Own(r) = Batched(r, "vehicle") \cup Batched(r, "battery") \cup {i}
        /\ Len(taken) \in Nat
    BY BeforeHandling
  <1>2. \A b \in Batch : Items(Held(r, b)) = Batched(r, b)
    BY HeldShape DEF Inv
  <1>3. UNION adds = Batched(r, "vehicle") \cup Batched(r, "battery")
    <2>1. "battery" \in Batch /\ "vehicle" \in Batch
      BY DEF Batch
    <2>2. CASE pending[r]["battery"] = None
      <3>1. Batched(r, "battery") = {} /\ adds = {Batched(r, "vehicle")}
        BY <1>2, <2>1, <2>2, HeldShape DEF Inv
      <3>2. QED
        BY <3>1
    <2>3. CASE pending[r]["battery"] # None
      <3>1. Batched(r, "battery") = Items(pending[r]["battery"])
        BY <2>1, <2>3, HeldShape DEF Inv
      <3>2. adds = {Batched(r, "vehicle"), Batched(r, "battery")}
        BY <1>2, <2>1, <2>3, <3>1
      <3>3. QED
        BY <3>2
    <2>4. QED
      BY <2>2, <2>3
  <1>4. /\ task' = [task EXCEPT ![r].at = "commit", ![r].adds = adds]
        /\ pending' = [pending EXCEPT ![r] = [b \in Batch |-> None]]
    BY DEF HandlesRefresh
  <1>5. /\ \A u \in Task \ {r} : task'[u] = task[u]
        /\ task'[r] # None /\ task'[r].at = "commit" /\ task'[r].adds = adds
    <2>2. adds \in SUBSET SUBSET Item
      <3>1. \A b \in Batch : Items(Held(r, b)) \subseteq Item
        BY HeldShape, BatchShape DEF Inv
      <3>2. \A b \in Batch : pending[r][b] # None => Items(pending[r][b]) \subseteq Item
        BY <3>1 DEF Held
      <3>3. QED
        BY <3>1, <3>2 DEF Batch
    <2>3. PICK A \in SUBSET SUBSET Item : A = adds
      BY <2>2
    <2>4. WillAdd(r, A)
      BY <1>4, <2>3 DEF WillAdd
    <2>5. Types
      BY DEF Inv
    <2>6. QED
      BY <1>1, <2>3, <2>4, <2>5, HandledShape
  <1>6. /\ \A u \in Runtime \ {r} : pending'[u] = pending[u]
        /\ \A b \in Batch : pending'[r][b] = None
    BY <1>4 DEF Inv, Types
  <1>7. Carried(r)' = Batched(r, "vehicle") \cup Batched(r, "battery")
    <2>1. Carried(r)' = (UNION task'[r].adds) \cup {}
      BY <1>5 DEF Carried, Idle, Fresh
    <2>2. task'[r].adds = adds
      BY <1>5
    <2>3. QED
      BY <1>3, <2>1, <2>2
  <1>8. \A b \in Batch : Batched(r, b)' = {}
    BY <1>6, EmptyBatchShape DEF Batched, Held
  <1>9. Own(r)' = Batched(r, "vehicle") \cup Batched(r, "battery")
    <2>1. Own(r)' = Carried(r)' \cup Batched(r, "vehicle")' \cup Batched(r, "battery")'
      BY <1>1 DEF Own, Batch
    <2>2. QED
      BY <1>7, <1>8, <2>1 DEF Batch
  <1>10. Apart(r)'
    BY <1>8 DEF Apart, Batch
  <1>11. /\ Settled' = Settled \cup {i} /\ i \in out'.ignored
         /\ out'.superseded = out.superseded /\ out.ignored \subseteq out'.ignored
    BY DEF Inv, Types, Settled, HandlesRefresh, Ignores
  <1>12. Own(r)' \subseteq Own(r) /\ {i} \cap Own(r)' = {} /\ Own(r) = Own(r)' \cup {i}
    BY <1>1, <1>9 DEF Batch
  <1>13. Moves(r)
    BY <1>1, <1>5, <1>6, <1>10, <1>11, <1>12, OwnMoves
  <1>14. Keeps(r)
    BY <1>1, <1>11, <1>12, SupersedesNothing
  <1>15. QED
    BY <1>13, <1>14

\* A row of its own, or nothing to store: the metrics entity and the poller.
LEMMA OwnRowMoves ==
  ASSUME Inv, NEW t \in Task, At(t, "handle"), pending' = pending,
         UNCHANGED <<rows, prices, taken, faults>>,
         \A u \in Task \ {t} : task'[u] = task[u],
         task'[t] # None, task'[t].at = "commit",
         \/ task'[t].adds = {{task[t].item}} /\ out' = out
         \/ task'[t].adds = {} /\ Ignores(t)
  PROVE  Moves(t) /\ Keeps(t)
  <1> DEFINE i == task[t].item
  <1>1. Carried(t) = {i} /\ OnePlace /\ Len(taken) \in Nat /\ ~Idle(t) /\ task[t].at \in Fresh
    BY CarriedIs DEF Inv, Types, At, Idle, Fresh
  <1>2. Carried(t)' = (UNION task'[t].adds) \cup {}
    BY DEF Carried, Idle, Fresh
  <1>3. CASE task'[t].adds = {{i}} /\ out' = out
    <2>1. Carried(t)' = Carried(t)
      BY <1>1, <1>2, <1>3
    <2>2. QED
      BY <1>3, <2>1, QuietMoves
  <1>4. CASE task'[t].adds = {} /\ Ignores(t)
    <2>1. Carried(t)' = {}
      BY <1>2, <1>4
    <2>2. QED
      BY <1>1, <1>4, <2>1, RestsMoves
  <1>5. QED
    BY <1>3, <1>4

LEMMA CommitMoves ==
  ASSUME Inv, NEW t \in Task, Commits(t)
  PROVE  Moves(t) /\ Keeps(t)
  <1>1. /\ ~Idle(t) /\ task[t].at = "commit" /\ task' = [task EXCEPT ![t] = None]
        /\ rows' = rows \cup task[t].adds
        /\ UNCHANGED <<pending, prices, taken, out, faults>>
    BY DEF Commits, At, Idle, Rests, batches, ledger
  <1>2. Carried(t) = UNION task[t].adds /\ OnePlace /\ Len(taken) \in Nat
    BY <1>1, CarriedIs DEF Inv, Types
  <1>3. Settled' = Settled \cup Carried(t)
    BY <1>1, <1>2 DEF Settled
  <1>4. (\A u \in Task \ {t} : task'[u] = task[u]) /\ task'[t] = None
    BY <1>1 DEF Inv, Types
  <1>5. Carried(t)' = {}
    BY <1>4 DEF Carried, Idle
  <1>6. Moves(t) /\ Own(t)' = (Own(t) \ Carried(t)) \cup {}
    BY <1>1, <1>2, <1>3, <1>4, <1>5, CarriedMoves
  <1>7. Keeps(t)
    BY <1>1, <1>2, <1>3, <1>6, SupersedesNothing
  <1>8. QED
    BY <1>6, <1>7

LEMMA FailMoves ==
  ASSUME Inv, NEW t \in Task, Fails(t)
  PROVE  Moves(t) /\ Keeps(t)
  <1>1. /\ task' = [task EXCEPT ![t] = None] /\ faults' = faults + 1
        /\ UNCHANGED <<pending, rows, prices, taken, out>>
    BY DEF Fails, Faults, Rests, batches, ledger, tables
  <1>2. OnePlace /\ Len(taken) \in Nat
    BY DEF Inv, Types
  <1>3. (\A u \in Task \ {t} : task'[u] = task[u]) /\ task'[t] = None
    BY <1>1 DEF Inv, Types
  <1>4. Carried(t)' = {} /\ Settled' = Settled \cup {}
    BY <1>1, <1>3 DEF Carried, Idle, Settled
  <1>5. Moves(t)
    BY <1>1, <1>2, <1>3, <1>4, CarriedMoves
  <1>6. Keeps(t)
    <2>1. faults' # faults
      BY <1>1 DEF Inv, Types
    <2>2. QED
      BY <1>1, <1>2, <2>1, SupersedesNothing
  <1>7. QED
    BY <1>5, <1>6

-----------------------------------------------------------------------------
(***************************************************************************)
(* Every step of a task.                                                   *)
(***************************************************************************)
LEMMA Places ==
  /\ PlacesOf(Poller) = {"archive", "slug", "create", "handle", "commit"}
  /\ PlacesOf(Backfill) = {"gas", "insert"} \cup Averaging
  /\ \A r \in Runtime : PlacesOf(r) = {"gas", "filling", "archive", "slug", "create", "handle",
                                       "commit"} \cup Averaging
  /\ Averaging = {"averaging", "months", "refreshing", "further"}
  /\ Poller \in Task /\ Backfill \in Task /\ Runtime \subseteq Task
  /\ Backfill \notin Runtime /\ Poller \notin Runtime /\ Poller # Backfill
  BY IngestAssumption DEF PlacesOf, Poller, Backfill, Task, Averaging

\* A task that goes on to another place and leaves its item alone.
LEMMA GoesOn ==
  ASSUME Inv, NEW t \in Task, ~Idle(t), NEW p, Goes(t, p), p \in PlacesOf(t)
  PROVE  /\ task' \in [Task -> Work \cup {None}]
         /\ \A u \in Task \ {t} : task'[u] = task[u]
         /\ task'[t] \in Work /\ task'[t] # None /\ task'[t].at = p
         /\ task'[t].item = task[t].item /\ task'[t].on = task[t].on
         /\ task'[t].average = task[t].average /\ task'[t].fills = task[t].fills
         /\ task'[t].adds = task[t].adds
         /\ p \in Fresh /\ task[t].at \in Fresh => Carried(t)' = Carried(t)
         /\ p \in Averaging /\ task[t].at # "commit" => Carried(t)' = {}
  <1>1. /\ task' \in [Task -> Work \cup {None}] /\ \A u \in Task \ {t} : task'[u] = task[u]
        /\ task'[t] = [task[t] EXCEPT !.at = p] /\ task'[t] \in Work /\ task'[t] # None
    BY GoesShape DEF Inv
  <1>2. task[t] \in Work /\ task[t] # None
    BY BusyShape DEF Inv
  <1>3. /\ task'[t].at = p /\ task'[t].item = task[t].item /\ task'[t].on = task[t].on
        /\ task'[t].average = task[t].average /\ task'[t].fills = task[t].fills
        /\ task'[t].adds = task[t].adds
    BY <1>1, <1>2 DEF Work
  <1>4. p \in Fresh /\ task[t].at \in Fresh => Carried(t)' = Carried(t)
    BY <1>1, <1>2, <1>3 DEF Carried, Idle
  <1>5. ASSUME p \in Averaging, task[t].at # "commit"
        PROVE  Carried(t)' = {}
    <2>1. UNION task'[t].adds = {}
      BY <1>3, <1>5 DEF Inv, TasksInOrder
    <2>2. Carried(t)' = (UNION task'[t].adds) \cup {}
      BY <1>1, <1>3, <1>5 DEF Carried, Idle, Fresh, Averaging
    <2>3. QED
      BY <2>1, <2>2
  <1>6. QED
    BY <1>1, <1>3, <1>4, <1>5

LEMMA RestsShape ==
  ASSUME Inv, NEW t \in Task, Rests(t)
  PROVE  /\ task' \in [Task -> Work \cup {None}] /\ task'[t] = None
         /\ \A u \in Task \ {t} : task'[u] = task[u]
         /\ Carried(t)' = {}
  <1>1. task \in [Task -> Work \cup {None}] /\ task' = [task EXCEPT ![t] = None]
    BY DEF Inv, Types, Rests
  <1>2. QED
    BY <1>1 DEF Carried, Idle

\* A task that averages the months, or writes one, or goes on to the next.
Means(t) == Averages(t) \/ Upserts(t) \/ Refreshes(t)

Averaged(t, p, A) == task' = [task EXCEPT ![t].at = p, ![t].average = A]

LEMMA AveragedShape ==
  ASSUME Inv, NEW t \in Task, ~Idle(t), task[t].at \in Averaging,
         NEW p \in {"months", "refreshing"}, NEW A \in MonthAverages, Averaged(t, p, A)
  PROVE  /\ task' \in [Task -> Work \cup {None}]
         /\ \A u \in Task \ {t} : task'[u] = task[u]
         /\ task'[t] \in Work /\ task'[t] # None
         /\ task'[t].at = p /\ task'[t].average = A
         /\ task'[t].item = task[t].item /\ task'[t].on = task[t].on
         /\ task'[t].adds = task[t].adds /\ Carried(t)' = {}
  <1> DEFINE rec == [task[t] EXCEPT !.at = p, !.average = A]
  <1>1. task \in [Task -> Work \cup {None}] /\ task[t] \in Work /\ task[t] # None
    BY BusyShape DEF Inv, Types
  <1>2. /\ rec \in Work /\ rec.at = p /\ rec.average = A /\ rec.item = task[t].item
        /\ rec.on = task[t].on /\ rec.adds = task[t].adds
    BY <1>1 DEF Work, Averaging
  <1>3. task' = [task EXCEPT ![t] = rec] /\ rec # None
    BY <1>2, IngestAssumption DEF Averaged
  <1> HIDE DEF rec
  <1>4. /\ task' \in [Task -> Work \cup {None}] /\ task'[t] = rec
        /\ \A u \in Task \ {t} : task'[u] = task[u]
    BY <1>1, <1>2, <1>3
  <1>5. task[t].adds = {}
    BY <1>1 DEF Inv, TasksInOrder, Idle, Averaging
  <1>6. UNION task'[t].adds = {}
    BY <1>2, <1>4, <1>5
  <1>7. Carried(t)' = (UNION task'[t].adds) \cup {}
    BY <1>2, <1>3, <1>4 DEF Carried, Idle, Fresh
  <1>8. QED
    BY <1>2, <1>3, <1>4, <1>6, <1>7

LEMMA AveragesIs ==
  ASSUME Inv, NEW t \in Task, Averages(t)
  PROVE  \E A \in MonthAverages :
            /\ ~Idle(t) /\ task[t].at = "averaging" /\ Averaged(t, "months", A)
            /\ DOMAIN A = {n \in Months : PricesOf(n) # {}}
            /\ \A m \in DOMAIN A : A[m] = PricesOf(m)
  <1> DEFINE M == {n \in Months : PricesOf(n) # {}}
             A == [m \in M |-> PricesOf(m)]
  <1>1. \A m \in Months : PricesOf(m) \in SUBSET Item
    BY DEF PricesOf, Inv, Types
  <1>2. A \in [M -> SUBSET Item] /\ M \in SUBSET Months
    BY <1>1
  <1>3. A \in MonthAverages
    BY <1>2, IsAverage
  <1>4. ~Idle(t) /\ task[t].at = "averaging" /\ Averaged(t, "months", A)
    BY DEF Averages, Averaged, At, Idle
  <1>5. DOMAIN A = M /\ \A m \in DOMAIN A : A[m] = PricesOf(m)
    OBVIOUS
  <1>6. QED
    BY <1>3, <1>4, <1>5

\* One month is written; the others are left.
LEMMA UpsertsIs ==
  ASSUME Inv, NEW t \in Task, Upserts(t)
  PROVE  \E m \in DOMAIN task[t].average, A \in MonthAverages :
            /\ ~Idle(t) /\ task[t].at \in {"months", "further"} /\ Averaged(t, "refreshing", A)
            /\ m \in Months /\ task[t].average[m] \in SUBSET Item
            /\ DOMAIN A = DOMAIN task[t].average \ {m}
            /\ \A n \in DOMAIN A : A[n] = task[t].average[n]
            /\ month' = [month EXCEPT ![m] = task[t].average[m]]
            /\ late' = IF At(t, "further") /\ task[t].average[m] # PricesOf(m) THEN late \cup {m}
                       ELSE late \ {m}
  <1>1. ~Idle(t) /\ task[t].at \in {"months", "further"}
    BY DEF Upserts, At, Idle
  <1>2. task[t].average \in MonthAverages
    BY <1>1, BusyShape DEF Inv, Work
  <1>3. PICK m \in DOMAIN task[t].average :
           /\ month' = [month EXCEPT ![m] = task[t].average[m]]
           /\ late' = IF At(t, "further") /\ task[t].average[m] # PricesOf(m) THEN late \cup {m}
                      ELSE late \ {m}
           /\ Averaged(t, "refreshing",
                       [n \in DOMAIN task[t].average \ {m} |-> task[t].average[n]])
    BY DEF Upserts, Averaged
  <1> DEFINE M == DOMAIN task[t].average \ {m}
             A == [n \in M |-> task[t].average[n]]
  <1>4. m \in Months /\ task[t].average[m] \in SUBSET Item
    BY <1>2, AverageShape
  <1>5. A \in [M -> SUBSET Item] /\ M \in SUBSET Months
    BY <1>2, AverageShape
  <1>6. A \in MonthAverages
    BY <1>5, IsAverage
  <1>7. DOMAIN A = M /\ \A n \in DOMAIN A : A[n] = task[t].average[n]
    OBVIOUS
  <1>8. Averaged(t, "refreshing", A)
    BY <1>3
  <1> HIDE DEF A
  <1>9. QED
    BY <1>1, <1>3, <1>4, <1>6, <1>7, <1>8

\* What they have in common: the task keeps its item, and moves no other.
LEMMA MeansShape ==
  ASSUME Inv, NEW t \in Task, Means(t)
  PROVE  /\ ~Idle(t) /\ task[t].at \in Averaging /\ Carried(t) = {}
         /\ task' \in [Task -> Work \cup {None}]
         /\ \A u \in Task \ {t} : task'[u] = task[u]
         /\ Carried(t)' = {}
         /\ \/ Rests(t)
            \/ /\ task'[t] # None /\ task'[t].at \in Averaging \ {"averaging"}
               /\ task'[t].item = task[t].item /\ task'[t].on = task[t].on
               /\ task'[t].adds = task[t].adds
         /\ Overtakes(t) \/ stale' = stale \ {t}
         /\ month' \in [Months -> SUBSET Item]
         /\ UNCHANGED <<taken, pending, since, rows, prices, vehicle, out, archived, switch, cache,
                       wasOff, faults>>
  <1> USE DEF At, Idle, archives, batches, tables, ledger
  <1>1. ~Idle(t) /\ task[t].at \in Averaging
    BY DEF Means, Averages, Upserts, Refreshes, Averaging
  <1>2. Carried(t) = {} /\ month \in [Months -> SUBSET Item]
    BY <1>1, CarriedIs DEF Inv, Types
  <1>3. /\ Overtakes(t) \/ stale' = stale \ {t}
        /\ UNCHANGED <<taken, pending, since, rows, prices, vehicle, out, archived, switch, cache,
                      wasOff, faults>>
    BY DEF Means, Averages, Upserts, Refreshes
  <1>4. CASE Averages(t)
    <2>1. PICK A \in MonthAverages : Averaged(t, "months", A)
      BY <1>4, AveragesIs
    <2>2. month' = month
      BY <1>4 DEF Averages
    <2>3. QED
      BY <1>1, <1>2, <1>3, <2>1, <2>2, AveragedShape DEF Averaging
  <1>5. CASE Upserts(t)
    <2>1. PICK m \in Months, A \in MonthAverages :
             /\ Averaged(t, "refreshing", A) /\ task[t].average[m] \in SUBSET Item
             /\ month' = [month EXCEPT ![m] = task[t].average[m]]
      BY <1>5, UpsertsIs
    <2>2. month' \in [Months -> SUBSET Item]
      BY <1>2, <2>1
    <2>3. QED
      BY <1>1, <1>2, <1>3, <2>1, <2>2, AveragedShape DEF Averaging
  <1>6. CASE Refreshes(t)
    <2>1. month' = month /\ (Rests(t) \/ Goes(t, "further"))
      BY <1>6 DEF Refreshes
    <2>2. CASE Rests(t)
      BY <1>1, <1>2, <1>3, <2>1, <2>2, RestsShape
    <2>3. CASE Goes(t, "further")
      <3>1. "further" \in PlacesOf(t)
        <4>1. task[t].at \in PlacesOf(t)
          BY <1>1 DEF Inv, TasksInOrder
        <4>2. QED
          BY <1>1, <4>1, Places DEF Task
      <3>2. task[t].at # "commit"
        BY <1>1 DEF Averaging
      <3>3. QED
        BY <1>1, <1>2, <1>3, <2>1, <2>3, <3>1, <3>2, GoesOn DEF Averaging
    <2>4. QED
      BY <2>1, <2>2, <2>3
  <1>7. QED
    BY <1>4, <1>5, <1>6 DEF Means

LEMMA ArchivesMove ==
  ASSUME Inv, NEW r \in Runtime, FillsCache(r) \/ Archives(r) \/ ArchiveFails(r)
  PROVE  Moves(r) /\ Keeps(r)
  <1>1. r \in Task /\ ~Idle(r) /\ task[r].at \in {"filling", "archive"}
    BY Places DEF FillsCache, Archives, ArchiveFails, At, Idle
  <1>2. (Goes(r, "archive") \/ Goes(r, "slug")) /\ {"archive", "slug"} \subseteq PlacesOf(r)
    BY Places DEF FillsCache, Archives, ArchiveFails
  <1>3. /\ UNCHANGED <<pending, rows, prices, out, taken>>
        /\ faults' \in {faults, faults + 1}
    BY DEF FillsCache, Archives, ArchiveFails, Faults, batches, tables, ledger
  <1>4. (\A u \in Task \ {r} : task'[u] = task[u]) /\ Carried(r)' = Carried(r)
    BY <1>1, <1>2, GoesOn DEF Fresh
  <1>5. QED
    BY <1>1, <1>3, <1>4, QuietMoves

LEMMA PricesMove ==
  ASSUME Inv, NEW t \in Task,
         \/ StoresPrice(t) \/ IgnoresPrice(t) \/ Means(t)
         \/ t = Backfill /\ (LooksForPrice \/ BackfillsPrice)
  PROVE  Moves(t) /\ Keeps(t)
  <1> USE DEF At, Idle, batches, tables, ledger
  <1>1. CASE StoresPrice(t)
    <2>1. t \in Runtime /\ ~Idle(t) /\ task[t].at = "gas" /\ Goes(t, "averaging")
      BY <1>1 DEF StoresPrice
    <2>2. (\A u \in Task \ {t} : task'[u] = task[u]) /\ Carried(t)' = {}
      BY <2>1, Places, GoesOn
    <2>3. QED
      BY <1>1, <2>1, <2>2, RestsMoves DEF StoresPrice, Fresh
  <1>2. CASE IgnoresPrice(t)
    <2>1. ~Idle(t) /\ task[t].at = "gas" /\ Rests(t)
      BY <1>2 DEF IgnoresPrice
    <2>2. (\A u \in Task \ {t} : task'[u] = task[u]) /\ Carried(t)' = {}
      BY <2>1, RestsShape
    <2>3. QED
      BY <1>2, <2>1, <2>2, RestsMoves DEF IgnoresPrice, Fresh
  <1>3. CASE Means(t)
    BY <1>3, MeansShape, QuietMoves
  <1>4. CASE t = Backfill /\ LooksForPrice
    <2>1. ~Idle(t) /\ task[t].at = "gas" /\ Goes(t, "insert")
      BY <1>4 DEF LooksForPrice
    <2>2. (\A u \in Task \ {t} : task'[u] = task[u]) /\ Carried(t)' = Carried(t)
      BY <1>4, <2>1, Places, GoesOn DEF Fresh
    <2>3. QED
      BY <1>4, <2>2, QuietMoves DEF LooksForPrice
  <1>5. CASE t = Backfill /\ BackfillsPrice
    <2>1. ~Idle(t) /\ task[t].at = "insert" /\ Goes(t, "averaging")
      BY <1>5 DEF BackfillsPrice
    <2>2. (\A u \in Task \ {t} : task'[u] = task[u]) /\ Carried(t)' = {}
      BY <1>5, <2>1, Places, GoesOn
    <2>3. QED
      BY <1>5, <2>1, <2>2, RestsMoves DEF BackfillsPrice, Fresh
  <1>6. QED
    BY <1>1, <1>2, <1>3, <1>4, <1>5

\* It has looked at the vehicle, and goes on to p to fill the columns in F.
Decides(t, p, F) == task' = [task EXCEPT ![t].at = p, ![t].fills = F]

LEMMA DecidesShape ==
  ASSUME Inv, NEW t \in Task, ~Idle(t), NEW p \in {"create", "handle"}, NEW F \in SUBSET Column,
         Decides(t, p, F)
  PROVE  /\ task' \in [Task -> Work \cup {None}]
         /\ \A u \in Task \ {t} : task'[u] = task[u]
         /\ task'[t] \in Work /\ task'[t] # None
         /\ task'[t].at = p /\ task'[t].fills = F
         /\ task'[t].item = task[t].item /\ task'[t].on = task[t].on
         /\ task'[t].average = task[t].average /\ task'[t].adds = task[t].adds
         /\ task[t].at \in Fresh => Carried(t)' = Carried(t)
  <1> DEFINE rec == [task[t] EXCEPT !.at = p, !.fills = F]
  <1>1. task \in [Task -> Work \cup {None}] /\ task[t] \in Work /\ task[t] # None
    BY BusyShape DEF Inv, Types
  <1>2. /\ rec \in Work /\ rec.at = p /\ rec.fills = F /\ rec.item = task[t].item
        /\ rec.on = task[t].on /\ rec.average = task[t].average /\ rec.adds = task[t].adds
    BY <1>1 DEF Work
  <1>3. task' = [task EXCEPT ![t] = rec] /\ rec # None
    BY <1>2, IngestAssumption DEF Decides
  <1> HIDE DEF rec
  <1>4. /\ task' \in [Task -> Work \cup {None}] /\ task'[t] = rec
        /\ \A u \in Task \ {t} : task'[u] = task[u]
    BY <1>1, <1>2, <1>3
  <1>5. ASSUME task[t].at \in Fresh
        PROVE  Carried(t)' = Carried(t)
    BY <1>1, <1>2, <1>3, <1>4, <1>5 DEF Carried, Idle, Fresh
  <1>6. QED
    BY <1>2, <1>3, <1>4, <1>5

LEMMA FactsAre ==
  ASSUME NEW t \in Task
  PROVE  Facts(t) \subseteq Column
  BY DEF Facts, Column

LEMMA SeesDecides ==
  ASSUME Inv, NEW t \in Task, Sees(t)
  PROVE  /\ ~Idle(t) /\ task[t].at = "slug"
         /\ Decides(t, IF vehicle = None THEN "create" ELSE "handle",
                    IF vehicle = None THEN Facts(t) ELSE Facts(t) \cap EmptyColumns)
         /\ (IF vehicle = None THEN Facts(t) ELSE Facts(t) \cap EmptyColumns) \in SUBSET Column
  BY FactsAre DEF Sees, Decides, At, Idle

LEMMA CreatesDecides ==
  ASSUME Inv, NEW t \in Task, Creates(t)
  PROVE  ~Idle(t) /\ task[t].at = "create" /\ Decides(t, "handle", {})
  BY DEF Creates, Decides, At, Idle

LEMMA VehicleMoves ==
  ASSUME Inv, NEW t \in Task, Sees(t) \/ Creates(t)
  PROVE  Moves(t) /\ Keeps(t)
  <1>1. PICK p \in {"create", "handle"}, F \in SUBSET Column : Decides(t, p, F)
    BY SeesDecides, CreatesDecides
  <1>2. ~Idle(t) /\ task[t].at \in Fresh
    BY SeesDecides, CreatesDecides DEF Fresh
  <1>3. (\A u \in Task \ {t} : task'[u] = task[u]) /\ Carried(t)' = Carried(t)
    BY <1>1, <1>2, DecidesShape
  <1>4. UNCHANGED <<pending, rows, prices, out, taken, faults>>
    BY DEF Sees, Creates, batches, tables, ledger
  <1>5. QED
    BY <1>3, <1>4, QuietMoves

LEMMA SampleMoves ==
  ASSUME Inv, ArchivesSample
  PROVE  Moves(Poller) /\ Keeps(Poller)
  <1>1. Poller \in Task /\ ~Idle(Poller) /\ task[Poller].at = "archive"
    BY Places DEF ArchivesSample, At, Idle
  <1>2. UNCHANGED <<pending, rows, prices, taken, faults>>
    BY DEF ArchivesSample, batches, tables
  <1>3. CASE InputOf(Poller) \in archived
    <2>1. Rests(Poller) /\ Ignores(Poller)
      BY <1>3 DEF ArchivesSample
    <2>2. (\A u \in Task \ {Poller} : task'[u] = task[u]) /\ Carried(Poller)' = {}
      BY <1>1, <2>1, RestsShape
    <2>3. QED
      BY <1>1, <1>2, <2>1, <2>2, RestsMoves DEF Fresh
  <1>4. CASE InputOf(Poller) \notin archived
    <2>1. Goes(Poller, "slug") /\ out' = out
      BY <1>4 DEF ArchivesSample
    <2>2. (\A u \in Task \ {Poller} : task'[u] = task[u]) /\ Carried(Poller)' = Carried(Poller)
      BY <1>1, <2>1, Places, GoesOn DEF Fresh
    <2>3. QED
      BY <1>1, <1>2, <2>1, <2>2, QuietMoves
  <1>5. QED
    BY <1>3, <1>4

\* What the poller makes of a response, and a runtime of the metrics entity.
LEMMA ParsesShape ==
  ASSUME Inv, Parses
  PROVE  \E A \in SUBSET SUBSET Item :
            /\ WillAdd(Poller, A)
            /\ \/ A = {{task[Poller].item}} /\ out' = out
               \/ A = {} /\ Ignores(Poller)
  <1>1. Poller \in Task /\ ~Idle(Poller)
    BY Places DEF Parses, At, Idle
  <1>2. task[Poller] \in Work /\ task[Poller].adds = {}
    BY <1>1, BusyShape DEF Parses, At, Inv, TasksInOrder
  <1>3. task[Poller].item \in Item /\ task \in [Task -> Work \cup {None}]
    BY <1>2 DEF Work, Inv, Types
  <1>4. CASE InputOf(Poller) \in Garage
    <2>1. task' = [task EXCEPT ![Poller].at = "commit"]
      BY <1>4 DEF Parses, Goes
    <2>2. [task[Poller] EXCEPT !.at = "commit"]
              = [task[Poller] EXCEPT !.at = "commit", !.adds = {}]
      BY <1>2 DEF Work
    <2>3. WillAdd(Poller, {})
      BY <1>1, <1>3, <2>1, <2>2 DEF WillAdd
    <2>4. QED
      BY <1>4, <2>3 DEF Parses
  <1>5. CASE InputOf(Poller) \notin Garage
    <2>1. WillAdd(Poller, {{task[Poller].item}}) /\ out' = out
      BY <1>5 DEF Parses, WillAdd
    <2>2. QED
      BY <1>3, <2>1
  <1>6. QED
    BY <1>4, <1>5

LEMMA MetricsShape ==
  ASSUME Inv, NEW r \in Runtime, At(r, "handle"), HandlesMetrics(r)
  PROVE  \E A \in SUBSET SUBSET Item :
            /\ WillAdd(r, A)
            /\ \/ A = {{task[r].item}} /\ out' = out
               \/ A = {} /\ Ignores(r)
  <1>1. task[r].item \in Item
    BY BeforeHandling
  <1>2. CASE InputOf(r) \in Known
    BY <1>1, <1>2 DEF HandlesMetrics, WillAdd
  <1>3. CASE InputOf(r) \notin Known
    BY <1>3 DEF HandlesMetrics, WillAdd
  <1>4. QED
    BY <1>2, <1>3

LEMMA OwnRowsMove ==
  ASSUME Inv, NEW t \in Task,
         \/ t = Poller /\ Parses
         \/ t \in Runtime /\ Handles(t) /\ HandlesMetrics(t)
  PROVE  Moves(t) /\ Keeps(t)
  <1>1. At(t, "handle") /\ UNCHANGED <<pending, rows, prices, taken, faults>>
    BY DEF Parses, Handles, HandlesMetrics, batches, tables
  <1>2. PICK A \in SUBSET SUBSET Item :
            /\ WillAdd(t, A)
            /\ \/ A = {{task[t].item}} /\ out' = out
               \/ A = {} /\ Ignores(t)
    BY <1>1, ParsesShape, MetricsShape
  <1>3. task[t] \in Work /\ Types
    BY <1>1, BusyShape DEF At, Idle, Inv
  <1>4. /\ \A u \in Task \ {t} : task'[u] = task[u]
        /\ task'[t] # None /\ task'[t].at = "commit" /\ task'[t].adds = A
    BY <1>2, <1>3, HandledShape
  <1>5. QED
    BY <1>1, <1>2, <1>4, OwnRowMoves

\* The handlers by slug.
LEMMA HandlesIs ==
  ASSUME NEW r \in Runtime, Handles(r)
  PROVE  /\ At(r, "handle")
         /\ \/ HandlesRefresh(r)
            \/ HandlesMetrics(r)
            \/ \E b \in Batch, f \in Slugs : HandlesReading(r, b, f)
  BY DEF Handles, Batch, Slugs, BatterySlugs

LEMMA HandlesMove ==
  ASSUME Inv, NEW r \in Runtime, Handles(r)
  PROVE  Moves(r) /\ Keeps(r)
  <1>1. UNCHANGED <<rows, prices, taken, faults>> /\ r \in Task
    BY Places DEF Handles, tables
  <1>2. CASE HandlesRefresh(r)
    BY <1>1, <1>2, HandlesIs, RefreshMoves
  <1>3. CASE HandlesMetrics(r)
    BY <1>1, <1>3, OwnRowsMove
  <1>4. CASE \E b \in Batch, f \in Slugs : HandlesReading(r, b, f)
    BY <1>1, <1>4, HandlesIs, ReadingMoves
  <1>5. QED
    BY <1>2, <1>3, <1>4, HandlesIs

\* An item begins its way.
LEMMA TakesShape ==
  ASSUME Inv,
         NEW t \in Task, NEW input \in Event \cup Sample, NEW place \in Fresh, NEW on \in BOOLEAN,
         Takes(t, input, place, on)
  PROVE  /\ Idle(t) /\ taken' = Append(taken, input)
         /\ Len(taken) \in Nat /\ Len(taken') = Len(taken) + 1 /\ Len(taken') <= MaxItems
         /\ task' \in [Task -> Work \cup {None}]
         /\ \A u \in Task \ {t} : task'[u] = task[u]
         /\ task'[t] \in Work /\ task'[t] # None
         /\ task'[t].at = place /\ task'[t].item = Len(taken) + 1 /\ task'[t].on = on
         /\ task'[t].fills = {} /\ task'[t].adds = {} /\ task'[t].average = NoMonths
  <1> DEFINE rec == [at |-> place, item |-> Len(taken) + 1, on |-> on, average |-> NoMonths,
                     fills |-> {}, adds |-> {}]
  <1>1. /\ Idle(t) /\ taken' = Append(taken, input) /\ Len(taken) \in Nat
        /\ Len(taken') = Len(taken) + 1 /\ Len(taken) < MaxItems
    BY DEF Takes, Inv, Types
  <1>2. Len(taken') <= MaxItems /\ Len(taken) + 1 \in Item
    BY <1>1, IngestAssumption DEF Item
  <1>3. task' = [task EXCEPT ![t] = rec] /\ task \in [Task -> Work \cup {None}]
    BY DEF Takes, Inv, Types
  <1>4. rec \in Work /\ rec.at = place /\ rec.item = Len(taken) + 1 /\ rec.on = on
        /\ rec.fills = {} /\ rec.adds = {} /\ rec.average = NoMonths
    BY <1>2, NoMonthsIsAverage DEF Work, Fresh
  <1> HIDE DEF rec
  <1>5. /\ task' \in [Task -> Work \cup {None}] /\ task'[t] = rec /\ rec # None
        /\ \A u \in Task \ {t} : task'[u] = task[u]
    BY <1>3, <1>4, IngestAssumption
  <1>6. QED
    BY <1>1, <1>2, <1>4, <1>5

\* The steps that take an input.
LEMMA Begins ==
  ASSUME Inv,
         \/ \E r \in Runtime, e \in Event : Receives(r, e)
         \/ \E e \in Event : FetchesPrice(e)
         \/ \E s \in Sample : Fetches(s)
  PROVE  \E t \in Task, input \in Event \cup Sample, place \in Fresh, on \in BOOLEAN :
            /\ Takes(t, input, place, on) /\ place \in PlacesOf(t)
            /\ place \in {"gas", "filling", "archive"}
            /\ UNCHANGED <<archives, batches, tables, out, faults>>
            /\ t \in Runtime => input \in Event /\ on = IF cache = None THEN switch ELSE cache
            /\ t = Poller => input \in Sample
            /\ t = Backfill => place = "gas"
  <1>1. CASE \E r \in Runtime, e \in Event : Receives(r, e)
    <2>1. PICK r \in Runtime, e \in Event : Receives(r, e)
      BY <1>1
    <2> DEFINE place == IF Slug[e] = "gas" THEN "gas"
                        ELSE IF cache = None THEN "filling" ELSE "archive"
               on == IF cache = None THEN switch ELSE cache
    <2>2. place \in Fresh \cap PlacesOf(r) /\ place \in {"gas", "filling", "archive"}
      BY Places DEF Fresh
    <2>3. on \in BOOLEAN
      BY DEF Inv, Types
    <2>4. Takes(r, e, place, on) /\ UNCHANGED <<archives, batches, tables, out, faults>>
      BY <2>1 DEF Receives
    <2>5. r \in Task /\ r # Poller /\ r # Backfill
      BY Places
    <2>6. QED
      BY <2>2, <2>3, <2>4, <2>5
  <1>2. CASE \E e \in Event : FetchesPrice(e)
    BY <1>2, Places DEF FetchesPrice, Fresh
  <1>3. CASE \E s \in Sample : Fetches(s)
    BY <1>3, Places DEF Fetches, Fresh
  <1>4. QED
    BY <1>1, <1>2, <1>3

\* What it reads of the switch: the poller and the backfill read nothing.
LEMMA BeginsOn ==
  ASSUME Inv, (IF cache = None THEN switch ELSE cache) = TRUE,
         \/ \E r \in Runtime, e \in Event : Receives(r, e)
         \/ \E e \in Event : FetchesPrice(e)
         \/ \E s \in Sample : Fetches(s)
  PROVE  \E t \in Task, input \in Event \cup Sample, place \in Fresh, on \in BOOLEAN :
            Takes(t, input, place, on) /\ on = TRUE
  <1>1. CASE \E r \in Runtime, e \in Event : Receives(r, e)
    <2>1. PICK r \in Runtime, e \in Event : Receives(r, e)
      BY <1>1
    <2> DEFINE place == IF Slug[e] = "gas" THEN "gas"
                        ELSE IF cache = None THEN "filling" ELSE "archive"
    <2>2. Takes(r, e, place, TRUE)
      BY <2>1 DEF Receives
    <2>3. place \in Fresh /\ r \in Task
      BY Places DEF Fresh
    <2>4. QED
      BY <2>2, <2>3
  <1>2. CASE \E e \in Event : FetchesPrice(e)
    BY <1>2, Places DEF FetchesPrice, Fresh
  <1>3. CASE \E s \in Sample : Fetches(s)
    BY <1>3, Places DEF Fetches, Fresh
  <1>4. QED
    BY <1>1, <1>2, <1>3

\* Steps of the user and of the clock.
Besides == (\E on \in BOOLEAN : Switches(on)) \/ Waits
           \/ (\E c \in Edited, by \in {"user", "empty"} : EditsVehicle(c, by))

LEMMA BesidesMove ==
  ASSUME Inv, Besides
  PROVE  Moves(Poller) /\ Keeps(Poller) /\ task' = task /\ faults' = faults
  <1>1. /\ UNCHANGED <<pending, rows, prices, out, taken, faults>> /\ task' = task
        /\ Poller \in Task
    BY Places DEF Besides, Switches, Waits, EditsVehicle, batches, tables, ledger
  <1>2. Carried(Poller)' = Carried(Poller)
    BY <1>1 DEF Carried, Idle
  <1>3. QED
    BY <1>1, <1>2, QuietMoves

LEMMA NextMoves ==
  ASSUME Inv, Next
  PROVE  \/ \E t \in Task : Moves(t) /\ Keeps(t)
         \/ Restarts
  <1>1. CASE \/ \E r \in Runtime, e \in Event : Receives(r, e)
             \/ \E e \in Event : FetchesPrice(e)
             \/ \E s \in Sample : Fetches(s)
    <2>1. PICK t \in Task, input \in Event \cup Sample, place \in Fresh, on \in BOOLEAN :
              Takes(t, input, place, on) /\ UNCHANGED <<archives, batches, tables, out, faults>>
      BY <1>1, Begins
    <2>2. pending' = pending /\ UNCHANGED <<rows, prices, out, faults>>
      BY <2>1 DEF batches, tables
    <2>3. QED
      BY <2>1, <2>2, TakesMoves
  <1>2. CASE \E r \in Runtime : FillsCache(r) \/ Archives(r) \/ ArchiveFails(r)
    BY <1>2, ArchivesMove, Places
  <1>3. CASE \/ \E t \in Task : StoresPrice(t) \/ IgnoresPrice(t) \/ Means(t)
             \/ LooksForPrice \/ BackfillsPrice
    BY <1>3, PricesMove, Places
  <1>4. CASE \E r \in Runtime : Handles(r)
    BY <1>4, HandlesMove, Places
  <1>5. CASE ArchivesSample \/ Parses
    BY <1>5, SampleMoves, OwnRowsMove, Places
  <1>6. CASE \E t \in Task : Sees(t) \/ Creates(t) \/ Commits(t) \/ Fails(t)
    BY <1>6, VehicleMoves, CommitMoves, FailMoves
  <1>7. CASE Besides
    BY <1>7, BesidesMove, Places
  <1>8. QED
    BY <1>1, <1>2, <1>3, <1>4, <1>5, <1>6, <1>7, Places DEF Next, Besides, Means

-----------------------------------------------------------------------------
(***************************************************************************)
(* The rest of the invariant: OnePlace follows from Moves.                 *)
(***************************************************************************)
Rest == Types /\ TasksInOrder /\ RowsApart /\ BatchesInOrder

\* Task t is as TasksInOrder wants it, after the step.
Ready(t) ==
    task'[t] # None =>
        /\ task'[t].at \in PlacesOf(t)
        /\ task'[t].item \in 1 .. Len(taken')
        /\ task'[t].at # "commit" => task'[t].adds = {}
        /\ task'[t].at = "commit" => task'[t].item \in Own(t)' \cup out'.ignored
        /\ task'[t].at \in Averaging => task'[t].item \in prices'

LEMMA TasksStayInOrder ==
  ASSUME Inv, NEW t \in Task, Moves(t), \A u \in Task \ {t} : task'[u] = task[u], Ready(t),
         Len(taken') \in Nat
  PROVE  TasksInOrder'
  <1>1. Len(taken) \in Nat /\ 1 .. Len(taken) \subseteq 1 .. Len(taken')
    BY DEF Inv, Types, Moves
  <1>2. ASSUME NEW u \in Task, task'[u] # None
        PROVE  /\ task'[u].at \in PlacesOf(u)
               /\ task'[u].item \in 1 .. Len(taken')
               /\ task'[u].at # "commit" => task'[u].adds = {}
               /\ task'[u].at = "commit" => task'[u].item \in Own(u)' \cup out'.ignored
               /\ task'[u].at \in Averaging => task'[u].item \in prices'
    <2>1. CASE u = t
      BY <1>2, <2>1 DEF Ready
    <2>2. CASE u # t
      <3>1. task'[u] = task[u] /\ Own(u)' = Own(u) /\ out.ignored \subseteq out'.ignored
            /\ prices \subseteq prices'
        BY <2>2 DEF Moves
      <3>2. QED
        BY <1>1, <1>2, <3>1 DEF Inv, TasksInOrder, Idle
    <2>3. QED
      BY <2>1, <2>2
  <1>3. QED
    BY <1>2 DEF TasksInOrder, Idle, PlacesOf

LEMMA RowsStayApart ==
  ASSUME Inv, NEW t \in Task, \A u \in Task \ {t} : task'[u] = task[u], rows' = rows,
         task'[t] # None => Disjoint(task'[t].adds)
  PROVE  RowsApart'
  <1>1. Disjoint(rows)'
    BY DEF Inv, RowsApart, Disjoint
  <1>2. ASSUME NEW u \in Task, task'[u] # None
        PROVE  Disjoint(task'[u].adds)
    BY <1>2 DEF Inv, RowsApart, Idle
  <1>3. QED
    BY <1>1, <1>2 DEF RowsApart, Idle, Disjoint

LEMMA BatchesStayInOrder ==
  ASSUME Inv, NEW t \in Task, \A u \in Task \ {t} : task'[u] = task[u], pending' = pending,
         \/ task'[t] = None
         \/ /\ ~Idle(t) /\ task'[t].item = task[t].item
            /\ task'[t].at \in Fresh => task[t].at \in Fresh
  PROVE  BatchesInOrder'
  <1> SUFFICES ASSUME NEW r \in Runtime, NEW b \in Batch, pending[r][b] # None
               PROVE  /\ \A f, g \in DOMAIN pending[r][b] :
                             pending[r][b][f] = pending[r][b][g] => f = g
                      /\ task'[r] # None /\ task'[r].at \in Fresh =>
                             \A f \in DOMAIN pending[r][b] : pending[r][b][f] < task'[r].item
    BY DEF BatchesInOrder, Idle
  <1>1. /\ \A f, g \in DOMAIN pending[r][b] : pending[r][b][f] = pending[r][b][g] => f = g
        /\ ~Idle(r) /\ task[r].at \in Fresh =>
               \A f \in DOMAIN pending[r][b] : pending[r][b][f] < task[r].item
    BY DEF Inv, BatchesInOrder
  <1>2. r \in Task
    BY Places
  <1>3. QED
    BY <1>1, <1>2 DEF Idle

\* A step that leaves the batches and the rows alone.
LEMMA KeepsRest ==
  ASSUME Inv, NEW t \in Task, Moves(t), \A u \in Task \ {t} : task'[u] = task[u],
         Len(taken') \in Nat, pending' = pending, rows' = rows,
         \/ task'[t] = None
         \/ /\ ~Idle(t) /\ task'[t].item = task[t].item
            /\ task'[t].at \in Fresh => task[t].at \in Fresh
            /\ Ready(t) /\ Disjoint(task'[t].adds)
  PROVE  TasksInOrder' /\ RowsApart' /\ BatchesInOrder'
  <1>1. Ready(t) /\ (task'[t] # None => Disjoint(task'[t].adds))
    BY DEF Ready
  <1>2. TasksInOrder'
    BY <1>1, TasksStayInOrder
  <1>3. RowsApart'
    BY <1>1, RowsStayApart
  <1>4. BatchesInOrder'
    BY BatchesStayInOrder
  <1>5. QED
    BY <1>2, <1>3, <1>4

\* A task that goes on, and leaves its item alone or puts it among the prices.
LEMMA GoesOnKeepsRest ==
  ASSUME Inv, NEW t \in Task, Moves(t), ~Idle(t), \A u \in Task \ {t} : task'[u] = task[u],
         UNCHANGED <<taken, pending, rows>>,
         task[t].at # "commit", task'[t] # None,
         task'[t].item = task[t].item, task'[t].adds = task[t].adds,
         task'[t].at \in PlacesOf(t),
         \/ task'[t].at \in Fresh /\ task[t].at \in Fresh
         \/ task'[t].at \in Averaging /\ task[t].item \in prices'
  PROVE  TasksInOrder' /\ RowsApart' /\ BatchesInOrder'
  <1>1. task[t].adds = {} /\ task[t].item \in 1 .. Len(taken) /\ Len(taken) \in Nat
    BY DEF Inv, TasksInOrder, Types
  <1>2. Ready(t) /\ Disjoint(task'[t].adds)
    BY <1>1 DEF Ready, Fresh, Averaging, Disjoint
  <1>3. Len(taken') \in Nat /\ (task'[t].at \in Fresh => task[t].at \in Fresh)
    BY <1>1 DEF Fresh, Averaging
  <1>4. QED
    BY <1>2, <1>3, KeepsRest

LEMMA RestingKeepsRest ==
  ASSUME Inv, NEW t \in Task, Moves(t), Rests(t), UNCHANGED <<taken, pending, rows>>
  PROVE  TasksInOrder' /\ RowsApart' /\ BatchesInOrder'
  <1>1. Len(taken') \in Nat
    BY DEF Inv, Types
  <1>2. QED
    BY <1>1, RestsShape, KeepsRest

LEMMA StaleTasks ==
  ASSUME NEW t \in Task, stale \subseteq Task, Overtakes(t) \/ stale' = stale \ {t} \/ stale' = stale
  PROVE  stale' \subseteq Task
  BY DEF Overtakes

LEMMA BeginningKeepsRest ==
  ASSUME Inv, NEW t \in Task, NEW input \in Event \cup Sample, NEW place \in Fresh, NEW on \in BOOLEAN,
         Takes(t, input, place, on), place \in PlacesOf(t), Moves(t),
         UNCHANGED <<archives, batches, tables, out, faults>>
  PROVE  Rest'
  <1>1. /\ Idle(t) /\ taken' = Append(taken, input)
        /\ Len(taken) \in Nat /\ Len(taken') = Len(taken) + 1 /\ Len(taken') <= MaxItems
        /\ task' \in [Task -> Work \cup {None}]
        /\ \A u \in Task \ {t} : task'[u] = task[u]
        /\ task'[t] \in Work /\ task'[t] # None
        /\ task'[t].at = place /\ task'[t].item = Len(taken) + 1
        /\ task'[t].fills = {} /\ task'[t].adds = {} /\ task'[t].average = NoMonths
    BY TakesShape
  <1>2. UNCHANGED <<pending, rows, prices, month, vehicle, out, switch, cache, wasOff, faults>>
    BY DEF archives, batches, tables
  <1>3. stale' \subseteq Task
    BY DEF Takes, Inv, Types
  <1>4. Types'
    BY <1>1, <1>2, <1>3 DEF Inv, Types
  <1>5. Ready(t)
    BY <1>1 DEF Ready, Fresh, Averaging
  <1>6. TasksInOrder'
    BY <1>1, <1>5, TasksStayInOrder
  <1>7. RowsApart'
    BY <1>1, <1>2, RowsStayApart DEF Disjoint
  <1>8. BatchesInOrder'
    <2> SUFFICES ASSUME NEW r \in Runtime, NEW b \in Batch, pending[r][b] # None
                 PROVE  /\ \A f, g \in DOMAIN pending[r][b] :
                               pending[r][b][f] = pending[r][b][g] => f = g
                        /\ task'[r] # None /\ task'[r].at \in Fresh =>
                               \A f \in DOMAIN pending[r][b] : pending[r][b][f] < task'[r].item
      BY <1>2 DEF BatchesInOrder, Idle
    <2>1. /\ \A f, g \in DOMAIN pending[r][b] : pending[r][b][f] = pending[r][b][g] => f = g
          /\ ~Idle(r) /\ task[r].at \in Fresh =>
                 \A f \in DOMAIN pending[r][b] : pending[r][b][f] < task[r].item
      BY DEF Inv, BatchesInOrder
    <2>2. r \in Task
      BY Places
    <2>3. CASE r # t
      BY <1>1, <2>1, <2>2, <2>3 DEF Idle
    <2>4. CASE r = t
      <3>1. Own(r) \subseteq 1 .. Len(taken)
        BY <2>2 DEF Inv, OnePlace
      <3>2. Items(pending[r][b]) \subseteq Own(r)
        BY <2>2, HeldShape, OwnIs DEF Inv
      <3>3. \A f \in DOMAIN pending[r][b] : pending[r][b][f] \in 1 .. Len(taken)
        BY <3>1, <3>2 DEF Items
      <3>4. QED
        BY <1>1, <2>1, <2>4, <3>3
    <2>5. QED
      BY <2>3, <2>4
  <1>9. QED
    BY <1>4, <1>6, <1>7, <1>8 DEF Rest

LEMMA ArchivesKeepRest ==
  ASSUME Inv, NEW r \in Runtime, FillsCache(r) \/ Archives(r) \/ ArchiveFails(r)
  PROVE  Rest'
  <1>1. r \in Task /\ ~Idle(r) /\ task[r].at \in {"filling", "archive"}
    BY Places DEF FillsCache, Archives, ArchiveFails, At, Idle
  <1>2. (Goes(r, "archive") \/ Goes(r, "slug")) /\ {"archive", "slug"} \subseteq PlacesOf(r)
    BY Places DEF FillsCache, Archives, ArchiveFails
  <1>3. UNCHANGED <<pending, rows, prices, month, vehicle, out, taken, switch, wasOff>>
    BY DEF FillsCache, Archives, ArchiveFails, archives, batches, tables, ledger
  <1>4. cache' \in BOOLEAN \cup {None}
    <2>1. task[r].on \in BOOLEAN /\ cache \in BOOLEAN \cup {None}
      BY <1>1, BusyShape DEF Work, Inv, Types
    <2>2. QED
      BY <2>1 DEF FillsCache, Archives, ArchiveFails, archives
  <1>5. faults' \in Nat
    BY DEF FillsCache, Archives, ArchiveFails, Faults, Inv, Types
  <1>6. stale' \subseteq Task
    <2>1. Overtakes(r) \/ stale' = stale \ {r} \/ stale' = stale
      BY DEF FillsCache, Archives, ArchiveFails
    <2>2. QED
      BY <1>1, <2>1, StaleTasks DEF Inv, Types
  <1>7. /\ task' \in [Task -> Work \cup {None}]
        /\ \A u \in Task \ {r} : task'[u] = task[u]
        /\ task'[r] # None /\ task'[r].at \in {"archive", "slug"}
        /\ task'[r].item = task[r].item /\ task'[r].adds = task[r].adds
    BY <1>1, <1>2, GoesOn
  <1>8. TasksInOrder' /\ RowsApart' /\ BatchesInOrder'
    <2>1. Moves(r)
      BY ArchivesMove
    <2>2. QED
      BY <1>1, <1>2, <1>3, <1>7, <2>1, GoesOnKeepsRest DEF Fresh
  <1>9. Types'
    BY <1>3, <1>4, <1>5, <1>6, <1>7 DEF Inv, Types
  <1>10. QED
    BY <1>8, <1>9 DEF Rest

LEMMA PricesKeepRest ==
  ASSUME Inv, NEW t \in Task,
         \/ StoresPrice(t) \/ IgnoresPrice(t) \/ Means(t)
         \/ t = Backfill /\ (LooksForPrice \/ BackfillsPrice)
  PROVE  Rest'
  <1> USE DEF At, Idle, archives, batches, tables, ledger
  <1>1. Moves(t) /\ ~Idle(t)
    BY PricesMove, MeansShape DEF StoresPrice, IgnoresPrice, LooksForPrice, BackfillsPrice
  <1>2. task[t] \in Work /\ task[t].item \in Item
    BY <1>1, BusyShape DEF Inv, Work
  <1>3. /\ UNCHANGED <<taken, pending, rows, vehicle, switch, cache, wasOff, faults>>
        /\ prices' \in {prices, prices \cup {task[t].item}}
        /\ month' \in [Months -> SUBSET Item]
        /\ out' = out \/ Ignores(t)
    BY MeansShape DEF StoresPrice, IgnoresPrice, LooksForPrice, BackfillsPrice, Inv, Types
  <1>4. stale' \subseteq Task
    <2>1. Overtakes(t) \/ stale' = stale \ {t} \/ stale' = stale
      BY MeansShape DEF StoresPrice, IgnoresPrice, LooksForPrice, BackfillsPrice
    <2>2. QED
      BY <2>1, StaleTasks DEF Inv, Types
  <1>5. out' \in [superseded : SUBSET Item, ignored : SUBSET Item]
    BY <1>2, <1>3 DEF Ignores, Inv, Types
  <1>6. task' \in [Task -> Work \cup {None}] /\ TasksInOrder' /\ RowsApart' /\ BatchesInOrder'
    <2>1. CASE Rests(t)
      BY <1>1, <1>3, <2>1, RestsShape, RestingKeepsRest
    <2>2. CASE StoresPrice(t) \/ (t = Backfill /\ (LooksForPrice \/ BackfillsPrice))
      <3>1. PICK p \in {"insert", "averaging"} :
                /\ Goes(t, p) /\ p \in PlacesOf(t) /\ task[t].at \in {"gas", "insert"}
                /\ p = "averaging" => task[t].item \in prices'
        <4>1. CASE StoresPrice(t)
          BY <4>1, Places DEF StoresPrice
        <4>2. CASE t = Backfill /\ LooksForPrice
          BY <4>2, Places DEF LooksForPrice
        <4>3. CASE t = Backfill /\ BackfillsPrice
          BY <4>3, Places DEF BackfillsPrice
        <4>4. QED
          BY <2>2, <4>1, <4>2, <4>3
      <3>2. /\ task' \in [Task -> Work \cup {None}]
            /\ \A u \in Task \ {t} : task'[u] = task[u]
            /\ task'[t] # None /\ task'[t].at = p
            /\ task'[t].item = task[t].item /\ task'[t].adds = task[t].adds
        BY <1>1, <3>1, GoesOn
      <3>3. QED
        BY <1>1, <1>3, <3>1, <3>2, GoesOnKeepsRest DEF Fresh, Averaging
    <2>3. CASE Means(t) /\ ~Rests(t)
      <3>1. /\ task[t].at \in Averaging /\ task' \in [Task -> Work \cup {None}]
            /\ \A u \in Task \ {t} : task'[u] = task[u]
            /\ task'[t] # None /\ task'[t].at \in Averaging
            /\ task'[t].item = task[t].item /\ task'[t].adds = task[t].adds
        BY <2>3, MeansShape
      <3>2. task[t].item \in prices /\ task'[t].at \in PlacesOf(t) /\ task[t].at # "commit"
        <4>1. task[t].item \in prices /\ task[t].at \in PlacesOf(t)
          BY <1>1, <3>1 DEF Inv, TasksInOrder
        <4>2. t = Backfill \/ t \in Runtime
          BY <3>1, <4>1, Places DEF Task
        <4>3. QED
          BY <3>1, <4>1, <4>2, Places
      <3>3. QED
        BY <1>1, <1>3, <3>1, <3>2, GoesOnKeepsRest
    <2>4. QED
      BY <2>1, <2>2, <2>3 DEF IgnoresPrice
  <1>7. Types'
    BY <1>2, <1>3, <1>4, <1>5, <1>6 DEF Inv, Types
  <1>8. QED
    BY <1>6, <1>7 DEF Rest

LEMMA VehicleKeepsRest ==
  ASSUME Inv, NEW t \in Task, Sees(t) \/ Creates(t)
  PROVE  Rest'
  <1>1. PICK p \in {"create", "handle"}, F \in SUBSET Column : Decides(t, p, F)
    BY SeesDecides, CreatesDecides
  <1>2. ~Idle(t) /\ task[t].at \in {"slug", "create"}
    BY SeesDecides, CreatesDecides
  <1>3. /\ task' \in [Task -> Work \cup {None}]
        /\ \A u \in Task \ {t} : task'[u] = task[u]
        /\ task'[t] \in Work /\ task'[t] # None /\ task'[t].at = p
        /\ task'[t].item = task[t].item /\ task'[t].adds = task[t].adds
    BY <1>1, <1>2, DecidesShape
  <1>4. UNCHANGED <<pending, rows, prices, month, out, taken, faults, switch, cache, wasOff>>
    BY DEF Sees, Creates, archives, batches, tables, ledger
  <1>5. vehicle' \in Vehicle \cup {None}
    <2>1. CASE vehicle' = vehicle
      BY <2>1 DEF Inv, Types
    <2>2. CASE vehicle' = [c \in Column |-> IF c \in task[t].fills THEN "auto" ELSE "empty"]
      BY <2>2 DEF Vehicle
    <2>3. QED
      BY <2>1, <2>2 DEF Sees, Creates, tables
  <1>6. stale' \subseteq Task
    <2>1. Overtakes(t) \/ stale' = stale \ {t} \/ stale' = stale
      BY DEF Sees, Creates
    <2>2. QED
      BY <2>1, StaleTasks DEF Inv, Types
  <1>7. Types'
    BY <1>3, <1>4, <1>5, <1>6 DEF Inv, Types
  <1>8. TasksInOrder' /\ RowsApart' /\ BatchesInOrder'
    <2>1. Moves(t)
      BY VehicleMoves
    <2>2. p \in PlacesOf(t)
      <3>1. task[t].at \in PlacesOf(t)
        BY <1>2 DEF Inv, TasksInOrder
      <3>2. QED
        BY <1>2, <3>1, Places DEF Task
    <2>3. QED
      BY <1>2, <1>3, <1>4, <2>1, <2>2, GoesOnKeepsRest DEF Fresh
  <1>9. QED
    BY <1>7, <1>8 DEF Rest

LEMMA SampleKeepsRest ==
  ASSUME Inv, ArchivesSample
  PROVE  Rest'
  <1>1. /\ Poller \in Task /\ ~Idle(Poller) /\ task[Poller].at = "archive"
        /\ Moves(Poller)
    BY Places, SampleMoves DEF ArchivesSample, At, Idle
  <1>2. UNCHANGED <<pending, rows, prices, month, vehicle, taken, faults, switch, cache, wasOff>>
    BY DEF ArchivesSample, batches, tables
  <1>3. stale' \subseteq Task
    BY <1>1, StaleTasks DEF ArchivesSample, Inv, Types
  <1>4. out' \in [superseded : SUBSET Item, ignored : SUBSET Item]
    <2>1. task[Poller].item \in Item
      BY <1>1, BusyShape DEF Inv, Work
    <2>2. QED
      BY <2>1 DEF ArchivesSample, Ignores, Inv, Types
  <1>5. task' \in [Task -> Work \cup {None}] /\ TasksInOrder' /\ RowsApart' /\ BatchesInOrder'
    <2>1. CASE Rests(Poller)
      BY <1>1, <1>2, <2>1, RestsShape, RestingKeepsRest
    <2>2. CASE Goes(Poller, "slug")
      <3>1. "slug" \in PlacesOf(Poller)
        BY Places
      <3>2. /\ task' \in [Task -> Work \cup {None}]
            /\ \A u \in Task \ {Poller} : task'[u] = task[u]
            /\ task'[Poller] # None /\ task'[Poller].at = "slug"
            /\ task'[Poller].item = task[Poller].item /\ task'[Poller].adds = task[Poller].adds
        BY <1>1, <2>2, <3>1, GoesOn
      <3>3. QED
        BY <1>1, <1>2, <3>1, <3>2, GoesOnKeepsRest DEF Fresh
    <2>3. QED
      BY <2>1, <2>2 DEF ArchivesSample
  <1>6. Types'
    BY <1>2, <1>3, <1>4, <1>5 DEF Inv, Types
  <1>7. QED
    BY <1>5, <1>6 DEF Rest

LEMMA CommitKeepsRest ==
  ASSUME Inv, NEW t \in Task, Commits(t)
  PROVE  Rest'
  <1>1. /\ ~Idle(t) /\ task[t].at = "commit" /\ Rests(t) /\ rows' = rows \cup task[t].adds
        /\ UNCHANGED <<pending, prices, month, taken, out, faults, switch, cache, wasOff>>
        /\ Moves(t) /\ Len(taken') \in Nat
    <2>1. Moves(t)
      BY CommitMoves
    <2>2. /\ ~Idle(t) /\ task[t].at = "commit" /\ Rests(t) /\ rows' = rows \cup task[t].adds
          /\ UNCHANGED <<pending, prices, month, taken, out, faults, switch, cache, wasOff>>
      BY DEF Commits, At, Idle, archives, batches, ledger
    <2>3. Len(taken) \in Nat
      BY DEF Inv, Types
    <2>4. QED
      BY <2>1, <2>2, <2>3
  <1>2. /\ task' \in [Task -> Work \cup {None}] /\ task'[t] = None
        /\ \A u \in Task \ {t} : task'[u] = task[u]
    BY <1>1, RestsShape
  <1>3. task[t] \in Work /\ task[t].adds \subseteq SUBSET Item
    BY <1>1, BusyShape DEF Inv, Work
  <1>4. vehicle' \in Vehicle \cup {None}
    <2>1. CASE task[t].fills = {}
      BY <2>1 DEF Commits, Inv, Types
    <2>2. CASE task[t].fills # {}
      <3>1. vehicle # None
        BY <1>1, <2>2 DEF Inv, FillsVehicle
      <3>2. QED
        BY <2>2, <3>1 DEF Commits, Inv, Types, Vehicle
    <2>3. QED
      BY <2>1, <2>2
  <1>5. stale' \subseteq Task
    <2>1. Overtakes(t) \/ stale' = stale \ {t}
      BY DEF Commits
    <2>2. QED
      BY <2>1, StaleTasks DEF Inv, Types
  <1>6. Types'
    BY <1>1, <1>2, <1>3, <1>4, <1>5 DEF Inv, Types
  <1>7. TasksInOrder'
    BY <1>1, <1>2, TasksStayInOrder DEF Ready
  <1>8. BatchesInOrder'
    BY <1>1, <1>2, BatchesStayInOrder
  <1>9. Disjoint(rows')
    <2>1. /\ Disjoint(rows) /\ Disjoint(task[t].adds)
          /\ UNION task[t].adds \subseteq Own(t) /\ UNION rows \subseteq Settled
          /\ Own(t) \cap Settled = {}
      BY <1>1 DEF Inv, RowsApart, Own, Carried, Settled, OnePlace
    <2>2. QED
      BY <1>1, <2>1 DEF Disjoint
  <1>10. RowsApart'
    BY <1>2, <1>9 DEF Inv, RowsApart, Idle, Disjoint
  <1>11. QED
    BY <1>6, <1>7, <1>8, <1>10 DEF Rest

LEMMA FailKeepsRest ==
  ASSUME Inv, NEW t \in Task, Fails(t)
  PROVE  Rest'
  <1>1. /\ Rests(t) /\ faults' = faults + 1 /\ stale' = stale \ {t}
        /\ UNCHANGED <<taken, out, pending, rows, prices, month, vehicle, switch, cache, wasOff>>
    BY DEF Fails, Faults, archives, batches, tables, ledger
  <1>2. task' \in [Task -> Work \cup {None}]
    BY <1>1, RestsShape
  <1>3. Types'
    BY <1>1, <1>2 DEF Inv, Types
  <1>4. TasksInOrder' /\ RowsApart' /\ BatchesInOrder'
    BY <1>1, FailMoves, RestingKeepsRest
  <1>5. QED
    BY <1>3, <1>4 DEF Rest

LEMMA BesidesKeepRest ==
  ASSUME Inv, Besides
  PROVE  Rest'
  <1>1. UNCHANGED <<pending, rows, prices, month, out, taken, faults, task>> /\ Moves(Poller)
    BY BesidesMove DEF Besides, Switches, Waits, EditsVehicle, batches, tables, ledger
  <1>2. /\ switch' \in BOOLEAN /\ cache' \in BOOLEAN \cup {None} /\ wasOff' \in BOOLEAN
        /\ stale' \subseteq Task
    BY DEF Inv, Types, Besides, Switches, Waits, EditsVehicle, Edits, archives
  <1>3. vehicle' \in Vehicle \cup {None}
    <2>1. CASE vehicle' = vehicle
      BY <2>1 DEF Inv, Types
    <2>2. CASE \E c \in Edited, by \in {"user", "empty"} : EditsVehicle(c, by)
      <3>1. PICK c \in Edited, by \in {"user", "empty"} :
                vehicle # None /\ vehicle' = [vehicle EXCEPT ![c] = by]
        BY <2>2 DEF EditsVehicle
      <3>2. vehicle \in Vehicle
        BY <3>1 DEF Inv, Types
      <3>3. QED
        BY <3>1, <3>2 DEF Vehicle
    <2>3. QED
      BY <2>1, <2>2 DEF Besides, Switches, Waits, tables
  <1>4. Types'
    BY <1>1, <1>2, <1>3 DEF Inv, Types
  <1>5. TasksInOrder'
    <2>1. \A u \in Task : Own(u)' = Own(u)
      BY <1>1, Undisturbed
    <2>2. QED
      BY <1>1, <2>1 DEF Inv, TasksInOrder, Idle, PlacesOf
  <1>6. RowsApart' /\ BatchesInOrder'
    BY <1>1 DEF Inv, RowsApart, BatchesInOrder, Disjoint, Idle
  <1>7. QED
    BY <1>4, <1>5, <1>6 DEF Rest

LEMMA RestartsKeeps ==
  ASSUME Inv, Restarts
  PROVE  /\ Inv' /\ Settled' = Settled /\ \A t \in Task : Own(t)' = {}
         /\ UNCHANGED <<taken, out, rows, prices, month>> /\ faults' = faults + 1
  <1>1. /\ task' = [t \in Task |-> None] /\ pending' = [r \in Runtime |-> [b \in Batch |-> None]]
        /\ stale' = {} /\ cache' = None /\ faults' = faults + 1
        /\ UNCHANGED <<taken, out, rows, prices, month, vehicle, switch, wasOff>>
    BY DEF Restarts, Faults, tables, ledger
  <1>2. Types'
    BY <1>1 DEF Inv, Types
  <1>3. Settled' = Settled
    BY <1>1 DEF Settled
  <1>4. \A t \in Task : Carried(t)' = {}
    BY <1>1 DEF Carried, Idle
  <1>5. \A r \in Runtime : \A b \in Batch : Batched(r, b)' = {}
    BY <1>1, EmptyBatchShape DEF Batched, Held
  <1>6. \A t \in Task : Own(t)' = {}
    BY <1>4, <1>5 DEF Own
  <1>7. OnePlace'
    BY <1>1, <1>3, <1>5, <1>6 DEF Inv, OnePlace, Apart, Batch
  <1>8. TasksInOrder' /\ BatchesInOrder' /\ FillsVehicle'
    BY <1>1 DEF TasksInOrder, BatchesInOrder, FillsVehicle, Idle
  <1>9. RowsApart'
    BY <1>1 DEF Inv, RowsApart, Idle, Disjoint
  <1>10. QED
    BY <1>1, <1>2, <1>3, <1>6, <1>7, <1>8, <1>9 DEF Inv

LEMMA InitInv ==
  ASSUME Init
  PROVE  Inv
  <1>1. Len(taken) = 0 /\ taken \in Seq(Event \cup Sample)
    BY DEF Init
  <1>2. /\ task = [t \in Task |-> None] /\ pending = [r \in Runtime |-> [b \in Batch |-> None]]
        /\ rows = {} /\ prices = {} /\ out = [superseded |-> {}, ignored |-> {}]
    BY DEF Init
  <1>3. Types
    <2>1. MaxItems \in Nat /\ Len(taken) <= MaxItems
      BY <1>1, IngestAssumption
    <2>2. pending \in [Runtime -> [Batch -> Batches \cup {None}]]
      BY <1>2
    <2>3. task \in [Task -> Work \cup {None}]
      BY <1>2
    <2>4. switch \in BOOLEAN /\ wasOff \in BOOLEAN
      BY DEF Init
    <2>5. /\ rows \subseteq SUBSET Item /\ prices \subseteq Item /\ month \in [Months -> SUBSET Item]
          /\ out \in [superseded : SUBSET Item, ignored : SUBSET Item]
          /\ vehicle = None /\ cache = None /\ stale \subseteq Task /\ faults \in Nat
      BY DEF Init
    <2>6. QED
      BY <1>1, <2>1, <2>2, <2>3, <2>4, <2>5 DEF Types
  <1>4. Settled = {}
    BY <1>2 DEF Settled
  <1>5. \A t \in Task : Carried(t) = {}
    BY <1>2 DEF Carried, Idle
  <1>6. \A r \in Runtime : \A b \in Batch : Batched(r, b) = {}
    BY <1>2, EmptyBatchShape DEF Batched, Held
  <1>7. \A t \in Task : Own(t) = {}
    BY <1>5, <1>6 DEF Own
  <1>8. OnePlace
    BY <1>4, <1>6, <1>7 DEF OnePlace, Apart, Batch
  <1>9. TasksInOrder /\ BatchesInOrder /\ FillsVehicle /\ RowsApart
    BY <1>2 DEF TasksInOrder, BatchesInOrder, FillsVehicle, RowsApart, Disjoint, Idle
  <1>10. QED
    BY <1>3, <1>8, <1>9 DEF Inv

\* The item a task has handled is accounted for: none of its own came later.
LEMMA HandledReady ==
  ASSUME Inv, NEW t \in Task, At(t, "handle"), Moves(t), Keeps(t),
         UNCHANGED <<faults, rows, prices, taken>>,
         task'[t].at = "commit", task'[t].item = task[t].item
  PROVE  Ready(t)
  <1> DEFINE i == task[t].item
  <1>1. /\ ~Idle(t) /\ "commit" \in PlacesOf(t) /\ i \in 1 .. Len(taken) /\ Carried(t) = {i}
        /\ Len(taken) \in Nat /\ faults \in Nat
    <2>1. ~Idle(t) /\ task[t].at = "handle"
      BY DEF At, Idle
    <2>2. task[t].at \in PlacesOf(t) /\ i \in 1 .. Len(taken) /\ Carried(t) = {i}
      BY <2>1, CarriedIs DEF Inv, TasksInOrder, Fresh
    <2>3. "commit" \in PlacesOf(t)
      BY <2>1, <2>2, Places DEF Task
    <2>4. QED
      BY <2>1, <2>2, <2>3 DEF Inv, Types
  <1>2. i \in Own(t) /\ i \notin Settled
    BY <1>1 DEF Own, Inv, OnePlace
  <1>3. ASSUME NEW j \in Own(t)
        PROVE  j <= i
    <2>1. CASE t \in Runtime
      <3>1. \A b \in Batch : \A k \in Batched(t, b) : k < i
        BY <2>1, BeforeHandling
      <3>2. \A k \in Batched(t, "vehicle") \cup Batched(t, "battery") : k < i
        BY <3>1 DEF Batch
      <3>3. j \in Batched(t, "vehicle") \cup Batched(t, "battery") \cup {i}
        BY <2>1, BeforeHandling
      <3>4. i \in Nat /\ j \in Nat
        BY <1>1, <1>3 DEF Inv, OnePlace
      <3>5. QED
        BY <3>2, <3>3, <3>4
    <2>2. CASE t \notin Runtime
      BY <1>1, <2>2, OwnIs
    <2>3. QED
      BY <2>1, <2>2
  <1>4. \A j \in Own(t) : ~(i < j)
    <2>1. Own(t) \subseteq 1 .. Len(taken)
      BY DEF Inv, OnePlace
    <2>2. QED
      BY <1>1, <1>3, <2>1
  <1>5. i \in Own(t)' \cup Settled' /\ i \notin out'.superseded
    BY <1>2, <1>4 DEF Keeps
  <1>6. i \in Own(t)' \cup out'.ignored
    BY <1>2, <1>5 DEF Settled
  <1>7. QED
    BY <1>1, <1>6 DEF Ready, Averaging

LEMMA OwnRowsKeepRest ==
  ASSUME Inv, NEW t \in Task,
         \/ t = Poller /\ Parses
         \/ t \in Runtime /\ Handles(t) /\ HandlesMetrics(t)
  PROVE  Rest'
  <1>1. /\ At(t, "handle") /\ task[t].item \in Item
        /\ UNCHANGED <<pending, rows, prices, month, vehicle, taken, faults, stale>>
        /\ UNCHANGED <<switch, cache, wasOff>>
    <2>1. At(t, "handle") /\ UNCHANGED <<pending, rows, prices, month, vehicle, taken, faults, stale>>
          /\ UNCHANGED <<switch, cache, wasOff>>
      BY DEF Parses, Handles, HandlesMetrics, archives, batches, tables
    <2>2. QED
      BY <2>1, BusyShape DEF At, Idle, Inv, Work
  <1>2. PICK A \in SUBSET SUBSET Item :
            /\ WillAdd(t, A)
            /\ \/ A = {{task[t].item}} /\ out' = out
               \/ A = {} /\ Ignores(t)
    BY <1>1, ParsesShape, MetricsShape
  <1>3. task[t] \in Work /\ Types /\ ~Idle(t)
    BY <1>1, BusyShape DEF At, Idle, Inv
  <1>4. /\ task' \in [Task -> Work \cup {None}]
        /\ \A u \in Task \ {t} : task'[u] = task[u]
        /\ task'[t] # None /\ task'[t].at = "commit" /\ task'[t].adds = A
        /\ task'[t].item = task[t].item
    BY <1>2, <1>3, HandledShape
  <1>5. out' \in [superseded : SUBSET Item, ignored : SUBSET Item]
    BY <1>1, <1>2, <1>3 DEF Types, Ignores
  <1>6. Types'
    BY <1>1, <1>3, <1>4, <1>5 DEF Types
  <1>7. Moves(t) /\ Keeps(t)
    BY OwnRowsMove
  <1>8. Ready(t) /\ Disjoint(task'[t].adds)
    BY <1>1, <1>2, <1>4, <1>7, HandledReady DEF Disjoint
  <1>9. TasksInOrder' /\ RowsApart' /\ BatchesInOrder'
    <2>1. Len(taken') \in Nat /\ task'[t].at \notin Fresh
      BY <1>1, <1>3, <1>4 DEF Types, Fresh
    <2>2. QED
      BY <1>1, <1>3, <1>4, <1>7, <1>8, <2>1, KeepsRest
  <1>10. QED
    BY <1>6, <1>9 DEF Rest

\* The handlers that add to a batch: what becomes of the batches.
LEMMA ReadingShape ==
  ASSUME Inv, NEW r \in Runtime, At(r, "handle"), NEW b \in Batch, NEW f \in Slugs,
         HandlesReading(r, b, f)
  PROVE  \E batch \in Batches \cup {None}, A \in SUBSET SUBSET Item :
            /\ WillAdd(r, A) /\ Disjoint(A)
            /\ pending' = [pending EXCEPT ![r][b] = batch]
            /\ batch # None =>
                  \A g, h \in DOMAIN batch : batch[g] = batch[h] => g = h
  <1> DEFINE i == task[r].item
             batch == Held(r, b)
             keeps == InputOf(r) \in Known \/ f \in {"soc", "tirepressure"}
             new == IF keeps THEN Put(batch, f, i) ELSE batch
             pops == f # "tirepressure" /\ since[r][b] = "overdue"
             adds == IF pops THEN {Items(new)} ELSE {}
  <1>1. i \in Item /\ i \notin Batched(r, b)
    BY BeforeHandling
  <1>2. batch \in Batches /\ Batched(r, b) = Items(batch)
    BY HeldShape DEF Inv
  <1>3. \A g, h \in DOMAIN batch : batch[g] = batch[h] => g = h
    BY EmptyBatchShape DEF Held, Inv, BatchesInOrder
  <1>4. new \in Batches /\ \A g, h \in DOMAIN new : new[g] = new[h] => g = h
    <2>1. CASE keeps
      <3>1. /\ new \in Batches /\ DOMAIN new = DOMAIN batch \cup {f} /\ new[f] = i
            /\ \A g \in DOMAIN batch \ {f} : new[g] = batch[g]
        <4>1. /\ Put(batch, f, i) \in Batches
              /\ DOMAIN Put(batch, f, i) = DOMAIN batch \cup {f}
              /\ Put(batch, f, i)[f] = i
              /\ \A g \in DOMAIN batch \ {f} : Put(batch, f, i)[g] = batch[g]
          BY <1>1, <1>2, PutShape
        <4>2. QED
          BY <2>1, <4>1
      <3>2. \A g \in DOMAIN batch : batch[g] # i
        BY <1>1, <1>2 DEF Items
      <3>3. QED
        BY <1>3, <3>1, <3>2
    <2>2. CASE ~keeps
      BY <1>2, <1>3, <2>2
    <2>3. QED
      BY <2>1, <2>2
  <1>5. adds \in SUBSET SUBSET Item /\ Disjoint(adds)
    <2>1. Items(new) \subseteq Item
      BY <1>4, BatchShape
    <2>2. QED
      BY <2>1 DEF Disjoint
  <1>6. /\ pending' = [pending EXCEPT ![r][b] = IF pops THEN None ELSE new]
        /\ task' = [task EXCEPT ![r].at = "commit", ![r].adds = adds]
    BY DEF HandlesReading, Accumulates
  <1>7. PICK A \in SUBSET SUBSET Item : A = adds
    BY <1>5
  <1>8. WillAdd(r, A) /\ Disjoint(A)
    BY <1>5, <1>6, <1>7 DEF WillAdd
  <1>9. PICK held \in Batches \cup {None} : held = IF pops THEN None ELSE new
    BY <1>4
  <1>10. held # None => \A g, h \in DOMAIN held : held[g] = held[h] => g = h
    BY <1>4, <1>9
  <1>11. pending' = [pending EXCEPT ![r][b] = held]
    BY <1>6, <1>9
  <1>12. QED
    BY <1>7, <1>8, <1>9, <1>10, <1>11

LEMMA RefreshShape ==
  ASSUME Inv, NEW r \in Runtime, At(r, "handle"), HandlesRefresh(r)
  PROVE  \E A \in SUBSET SUBSET Item : WillAdd(r, A) /\ Disjoint(A)
  <1> DEFINE adds == {Items(Held(r, "vehicle"))} \cup
                     {Items(pending[r][b]) : b \in {c \in {"battery"} : pending[r][c] # None}}
  <1>1. \A b \in Batch : Items(Held(r, b)) = Batched(r, b) /\ Batched(r, b) \subseteq Item
    BY HeldShape, BatchShape DEF Inv
  <1>2. pending[r]["battery"] # None => Items(pending[r]["battery"]) = Batched(r, "battery")
    BY <1>1 DEF Held, Batch
  <1>3. adds \subseteq {Batched(r, "vehicle"), Batched(r, "battery")}
    BY <1>1, <1>2 DEF Batch
  <1>4. Batched(r, "vehicle") \cap Batched(r, "battery") = {}
    BY Places DEF Inv, OnePlace, Apart
  <1>5. Disjoint(adds) /\ adds \in SUBSET SUBSET Item
    BY <1>1, <1>3, <1>4 DEF Disjoint, Batch
  <1>6. task' = [task EXCEPT ![r].at = "commit", ![r].adds = adds]
    BY DEF HandlesRefresh
  <1>7. PICK A \in SUBSET SUBSET Item : A = adds
    BY <1>5
  <1>8. QED
    BY <1>5, <1>6, <1>7 DEF WillAdd

LEMMA HandlesKeepRest ==
  ASSUME Inv, NEW r \in Runtime, Handles(r)
  PROVE  Rest'
  <1>1. /\ At(r, "handle") /\ r \in Task /\ Moves(r) /\ Keeps(r)
        /\ UNCHANGED <<rows, prices, month, vehicle, taken, faults, stale>>
        /\ UNCHANGED <<switch, cache, wasOff>>
    BY HandlesMove, Places DEF Handles, archives, tables
  <1>2. ~Idle(r) /\ task[r] \in Work /\ task[r].item \in Item /\ Types
    BY <1>1, BeforeHandling DEF Inv
  <1>3. CASE HandlesMetrics(r)
    BY <1>1, <1>3, OwnRowsKeepRest
  <1>4. ASSUME NEW A \in SUBSET SUBSET Item, WillAdd(r, A), Disjoint(A),
               pending' \in [Runtime -> [Batch -> Batches \cup {None}]],
               \A u \in Runtime \ {r} : pending'[u] = pending[u],
               \A b \in Batch : pending'[r][b] # None =>
                  \A g, h \in DOMAIN pending'[r][b] : pending'[r][b][g] = pending'[r][b][h] => g = h,
               out' \in [superseded : SUBSET Item, ignored : SUBSET Item]
        PROVE  Rest'
    <2>1. /\ task' \in [Task -> Work \cup {None}]
          /\ \A u \in Task \ {r} : task'[u] = task[u]
          /\ task'[r] # None /\ task'[r].at = "commit" /\ task'[r].adds = A
          /\ task'[r].item = task[r].item
      BY <1>1, <1>2, <1>4, HandledShape
    <2>2. Types'
      BY <1>1, <1>2, <1>4, <2>1 DEF Types
    <2>3. TasksInOrder'
      <3>1. Len(taken') \in Nat
        BY <1>1, <1>2 DEF Types
      <3>2. Ready(r)
        BY <1>1, <2>1, HandledReady
      <3>3. QED
        BY <1>1, <2>1, <3>1, <3>2, TasksStayInOrder
    <2>4. RowsApart'
      BY <1>1, <1>4, <2>1, RowsStayApart
    <2>5. BatchesInOrder'
      <3> SUFFICES ASSUME NEW u \in Runtime, NEW b \in Batch, pending'[u][b] # None
                   PROVE  /\ \A g, h \in DOMAIN pending'[u][b] :
                                 pending'[u][b][g] = pending'[u][b][h] => g = h
                          /\ task'[u] # None /\ task'[u].at \in Fresh =>
                                 \A g \in DOMAIN pending'[u][b] : pending'[u][b][g] < task'[u].item
        BY DEF BatchesInOrder, Idle, Fresh
      <3>1. CASE u = r
        BY <1>4, <2>1, <3>1 DEF Fresh
      <3>2. CASE u # r
        <4>1. pending'[u] = pending[u] /\ task'[u] = task[u]
          BY <1>4, <2>1, <3>2, Places
        <4>2. QED
          BY <4>1 DEF Inv, BatchesInOrder, Idle
      <3>3. QED
        BY <3>1, <3>2
    <2>6. QED
      BY <2>2, <2>3, <2>4, <2>5 DEF Rest
  <1>5. CASE HandlesRefresh(r)
    <2>1. PICK A \in SUBSET SUBSET Item : WillAdd(r, A) /\ Disjoint(A)
      BY <1>1, <1>5, RefreshShape
    <2>2. pending' = [pending EXCEPT ![r] = [b \in Batch |-> None]]
      BY <1>5 DEF HandlesRefresh
    <2>3. pending' \in [Runtime -> [Batch -> Batches \cup {None}]]
          /\ (\A u \in Runtime \ {r} : pending'[u] = pending[u])
          /\ \A b \in Batch : pending'[r][b] = None
      BY <1>2, <2>2 DEF Types
    <2>4. out' \in [superseded : SUBSET Item, ignored : SUBSET Item]
      BY <1>2, <1>5 DEF HandlesRefresh, Ignores, Types
    <2>5. QED
      BY <1>4, <2>1, <2>3, <2>4
  <1>6. CASE \E b \in Batch, f \in Slugs : HandlesReading(r, b, f)
    <2>1. PICK b \in Batch, f \in Slugs : HandlesReading(r, b, f)
      BY <1>6
    <2>2. PICK batch \in Batches \cup {None}, A \in SUBSET SUBSET Item :
            /\ WillAdd(r, A) /\ Disjoint(A)
            /\ pending' = [pending EXCEPT ![r][b] = batch]
            /\ batch # None =>
                  \A g, h \in DOMAIN batch : batch[g] = batch[h] => g = h
      BY <1>1, <2>1, ReadingShape
    <2>3. /\ pending' \in [Runtime -> [Batch -> Batches \cup {None}]]
          /\ \A u \in Runtime \ {r} : pending'[u] = pending[u]
          /\ pending'[r][b] = batch /\ \A c \in Batch \ {b} : pending'[r][c] = pending[r][c]
      BY <1>2, <2>2 DEF Types
    <2>4. \A c \in Batch : pending'[r][c] # None =>
              \A g, h \in DOMAIN pending'[r][c] : pending'[r][c][g] = pending'[r][c][h] => g = h
      BY <2>2, <2>3 DEF Inv, BatchesInOrder
    <2>5. out' \in [superseded : SUBSET Item, ignored : SUBSET Item]
      <3>1. Held(r, b) \in Batches
        BY <1>2, HeldShape
      <3>2. InField(Held(r, b), f) \subseteq Item
        BY <3>1, BatchShape DEF InField
      <3>3. out' = [out EXCEPT !.superseded = @ \cup InField(Held(r, b), f)]
            \/ out' = [out EXCEPT !.ignored = @ \cup {task[r].item}]
        BY <2>1 DEF HandlesReading, Superseding, Ignores, InField
      <3>4. out \in [superseded : SUBSET Item, ignored : SUBSET Item]
        BY DEF Inv, Types
      <3>5. QED
        BY <1>2, <3>2, <3>3, <3>4
    <2>6. QED
      BY <1>4, <2>2, <2>3, <2>4, <2>5
  <1>7. QED
    BY <1>3, <1>5, <1>6, HandlesIs

LEMMA VehicleIsThere ==
  ASSUME Inv, Next, vehicle # None
  PROVE  vehicle' # None
  <1>1. None \notin Vehicle /\ vehicle \in Vehicle
    BY IngestAssumption DEF Inv, Types
  <1>2. CASE vehicle' = vehicle
    BY <1>2
  <1>3. CASE \E t \in Task : Commits(t)
    BY <1>1, <1>3 DEF Commits, Vehicle
  <1>4. CASE \E c \in Edited, by \in {"user", "empty"} : EditsVehicle(c, by)
    <2>1. PICK c \in Edited, by \in {"user", "empty"} : vehicle' = [vehicle EXCEPT ![c] = by]
      BY <1>4 DEF EditsVehicle
    <2>2. vehicle' \in Vehicle
      BY <1>1, <2>1 DEF Vehicle
    <2>3. QED
      BY <1>1, <2>2
  <1>5. CASE \E t \in Task : Creates(t)
    BY <1>5 DEF Creates
  <1>6. QED
    BY <1>2, <1>3, <1>4, <1>5
    DEF Next, Receives, FillsCache, Archives, ArchiveFails, StoresPrice, Handles, FetchesPrice,
        LooksForPrice, BackfillsPrice, IgnoresPrice, Averages, Upserts, Refreshes, Fetches, ArchivesSample,
        Parses, Sees, Fails, Switches, Waits, Restarts, tables

\* What a task is about to fill, after any step of it but the end.
LEMMA FillsStay ==
  ASSUME Inv, Next, NEW t \in Task, \A u \in Task \ {t} : task'[u] = task[u],
         \/ task'[t] = None
         \/ task'[t].at \notin {"handle", "commit"}
         \/ task'[t].fills = {}
         \/ vehicle # None
         \/ ~Idle(t) /\ task[t].at = "handle" /\ task'[t].fills = task[t].fills
  PROVE  FillsVehicle'
  BY VehicleIsThere DEF FillsVehicle, Inv, Idle

LEMMA NextFills ==
  ASSUME Inv, Next
  PROVE  FillsVehicle'
  <1>1. CASE \/ \E r \in Runtime, e \in Event : Receives(r, e)
             \/ \E e \in Event : FetchesPrice(e)
             \/ \E s \in Sample : Fetches(s)
    <2>1. PICK t \in Task, input \in Event \cup Sample, place \in Fresh, on \in BOOLEAN :
              Takes(t, input, place, on)
      BY <1>1, Begins
    <2>2. task'[t].fills = {} /\ \A u \in Task \ {t} : task'[u] = task[u]
      BY <2>1, TakesShape
    <2>3. QED
      BY <2>2, FillsStay
  <1>2. CASE \E r \in Runtime : FillsCache(r) \/ Archives(r) \/ ArchiveFails(r)
    <2>1. PICK r \in Runtime : FillsCache(r) \/ Archives(r) \/ ArchiveFails(r)
      BY <1>2
    <2>2. PICK p \in {"archive", "slug"} : Goes(r, p) /\ p \in PlacesOf(r) /\ ~Idle(r)
      BY <2>1, Places DEF FillsCache, Archives, ArchiveFails, At, Idle
    <2>3. task'[r].at = p /\ (\A u \in Task \ {r} : task'[u] = task[u]) /\ r \in Task
      BY <2>2, GoesOn, Places
    <2>4. QED
      BY <2>3, FillsStay
  <1>3. CASE \/ \E t \in Task : StoresPrice(t) \/ IgnoresPrice(t) \/ Means(t)
             \/ LooksForPrice \/ BackfillsPrice
    <2>1. CASE \E t \in Task : IgnoresPrice(t)
      BY <2>1, RestsShape, FillsStay DEF IgnoresPrice
    <2>2. CASE \E t \in Task : Means(t)
      <3>1. PICK t \in Task : Means(t)
        BY <2>2
      <3>2. /\ task'[t] = None \/ task'[t].at \notin {"handle", "commit"}
            /\ \A u \in Task \ {t} : task'[u] = task[u]
        BY <3>1, MeansShape, RestsShape DEF Averaging
      <3>3. QED
        BY <3>2, FillsStay
    <2>3. CASE (\E t \in Task : StoresPrice(t)) \/ LooksForPrice \/ BackfillsPrice
      <3>1. PICK t \in Task : StoresPrice(t) \/ (t = Backfill /\ (LooksForPrice \/ BackfillsPrice))
        BY <2>3, Places
      <3>2. PICK p \in {"insert", "averaging"} : Goes(t, p) /\ p \in PlacesOf(t) /\ ~Idle(t)
        BY <3>1, Places DEF StoresPrice, LooksForPrice, BackfillsPrice, At, Idle
      <3>3. task'[t].at = p /\ \A u \in Task \ {t} : task'[u] = task[u]
        BY <3>2, GoesOn
      <3>4. QED
        BY <3>3, FillsStay
    <2>4. QED
      BY <1>3, <2>1, <2>2, <2>3
  <1>4. CASE (\E r \in Runtime : Handles(r)) \/ Parses
    <2>1. PICK t \in Task, A \in SUBSET SUBSET Item : At(t, "handle") /\ WillAdd(t, A)
      <3>1. CASE \E r \in Runtime : Handles(r)
        BY <3>1, HandlesIs, RefreshShape, MetricsShape, ReadingShape, Places
      <3>2. CASE Parses
        BY <3>2, ParsesShape, Places DEF Parses
      <3>3. QED
        BY <1>4, <3>1, <3>2
    <2>2. task[t] \in Work /\ ~Idle(t) /\ task[t].at = "handle"
      BY <2>1, BusyShape DEF At, Idle, Inv
    <2>3. task'[t].fills = task[t].fills /\ \A u \in Task \ {t} : task'[u] = task[u]
      BY <2>1, <2>2, HandledShape DEF Inv
    <2>4. QED
      BY <2>2, <2>3, FillsStay
  <1>5. CASE ArchivesSample
    <2>1. CASE Rests(Poller)
      BY <2>1, RestsShape, FillsStay, Places
    <2>2. CASE Goes(Poller, "slug")
      <3>1. task'[Poller].at = "slug" /\ \A u \in Task \ {Poller} : task'[u] = task[u]
        BY <1>5, <2>2, GoesOn, Places DEF ArchivesSample, At, Idle
      <3>2. QED
        BY <3>1, FillsStay, Places
    <2>3. QED
      BY <1>5, <2>1, <2>2 DEF ArchivesSample
  <1>6. CASE \E t \in Task : Sees(t)
    <2>1. PICK t \in Task : Sees(t)
      BY <1>6
    <2>2. ~Idle(t) /\ \E p \in {"create", "handle"}, F \in SUBSET Column :
              Decides(t, p, F) /\ (p = "handle" => vehicle # None)
      BY <2>1, SeesDecides
    <2>3. (\A u \in Task \ {t} : task'[u] = task[u]) /\ (task'[t].at = "create" \/ vehicle # None)
      BY <2>2, DecidesShape
    <2>4. QED
      BY <2>3, FillsStay
  <1>7. CASE \E t \in Task : Creates(t)
    <2>1. PICK t \in Task : Creates(t)
      BY <1>7
    <2>2. ~Idle(t) /\ Decides(t, "handle", {})
      BY <2>1, CreatesDecides
    <2>3. (\A u \in Task \ {t} : task'[u] = task[u]) /\ task'[t].fills = {}
      BY <2>2, DecidesShape
    <2>4. QED
      BY <2>3, FillsStay
  <1>8. CASE \E t \in Task : Commits(t) \/ Fails(t)
    BY <1>8, RestsShape, FillsStay DEF Commits, Fails
  <1>9. CASE Besides
    <2>1. task' = task
      BY <1>9, BesidesMove
    <2>2. QED
      BY <2>1, VehicleIsThere DEF Inv, FillsVehicle, Idle
  <1>10. CASE Restarts
    BY <1>10, RestartsKeeps DEF Inv
  <1>11. QED
    BY <1>1, <1>2, <1>3, <1>4, <1>5, <1>6, <1>7, <1>8, <1>9, <1>10, Places DEF Next, Besides, Means

LEMMA NextRest ==
  ASSUME Inv, Next
  PROVE  Rest'
  <1>1. CASE \/ \E r \in Runtime, e \in Event : Receives(r, e)
             \/ \E e \in Event : FetchesPrice(e)
             \/ \E s \in Sample : Fetches(s)
    <2>1. PICK t \in Task, input \in Event \cup Sample, place \in Fresh, on \in BOOLEAN :
              /\ Takes(t, input, place, on) /\ place \in PlacesOf(t)
              /\ UNCHANGED <<archives, batches, tables, out, faults>>
      BY <1>1, Begins
    <2>2. pending' = pending /\ UNCHANGED <<rows, prices, out, faults>>
      BY <2>1 DEF batches, tables
    <2>3. Moves(t)
      BY <2>1, <2>2, TakesMoves
    <2>4. QED
      BY <2>1, <2>3, BeginningKeepsRest
  <1>2. CASE \E r \in Runtime : FillsCache(r) \/ Archives(r) \/ ArchiveFails(r)
    BY <1>2, ArchivesKeepRest
  <1>3. CASE \/ \E t \in Task : StoresPrice(t) \/ IgnoresPrice(t) \/ Means(t)
             \/ LooksForPrice \/ BackfillsPrice
    BY <1>3, PricesKeepRest, Places
  <1>4. CASE \E r \in Runtime : Handles(r)
    BY <1>4, HandlesKeepRest
  <1>5. CASE ArchivesSample \/ Parses
    BY <1>5, SampleKeepsRest, OwnRowsKeepRest, Places
  <1>6. CASE \E t \in Task : Sees(t) \/ Creates(t) \/ Commits(t) \/ Fails(t)
    BY <1>6, VehicleKeepsRest, CommitKeepsRest, FailKeepsRest
  <1>7. CASE Besides
    BY <1>7, BesidesKeepRest
  <1>8. CASE Restarts
    BY <1>8, RestartsKeeps DEF Inv, Rest
  <1>9. QED
    BY <1>1, <1>2, <1>3, <1>4, <1>5, <1>6, <1>7, <1>8, Places DEF Next, Besides, Means

LEMMA NextInv ==
  ASSUME Inv, [Next]_vars
  PROVE  Inv'
  <1>1. CASE Next /\ ~Restarts
    <2>1. Rest' /\ FillsVehicle'
      BY <1>1, NextRest, NextFills
    <2>2. PICK t \in Task : Moves(t)
      BY <1>1, NextMoves
    <2>3. Len(taken) \in Nat /\ Len(taken') \in Nat /\ OnePlace
      BY <2>1 DEF Inv, Rest, Types
    <2>4. OnePlace'
      BY <2>2, <2>3, OnePlaceMoves
    <2>5. QED
      BY <2>1, <2>4 DEF Inv, Rest
  <1>2. CASE Restarts
    BY <1>2, RestartsKeeps
  <1>3. CASE UNCHANGED vars
    <2>1. UNCHANGED <<taken, task, pending, rows, prices, month, out, vehicle, switch, cache, wasOff,
                      stale, faults>>
      BY <1>3 DEF vars, archives, batches, tables, ledger
    <2>2. \A t \in Task : Own(t)' = Own(t) /\ (Apart(t) => Apart(t)')
      BY <2>1, Undisturbed
    <2>3. Settled' = Settled
      BY <2>1 DEF Settled
    <2>4. OnePlace'
      BY <2>1, <2>2, <2>3 DEF Inv, OnePlace
    <2>5. Types' /\ RowsApart' /\ BatchesInOrder' /\ FillsVehicle'
      BY <2>1 DEF Inv, Types, RowsApart, BatchesInOrder, FillsVehicle, Disjoint, Idle
    <2>6. TasksInOrder'
      BY <2>1, <2>2 DEF Inv, TasksInOrder, Idle, PlacesOf
    <2>7. QED
      BY <2>4, <2>5, <2>6 DEF Inv
  <1>4. QED
    BY <1>1, <1>2, <1>3

\* In every state of every behaviour.
THEOREM InvHolds == Spec => []Inv
  <1>1. Init => Inv
    BY InitInv
  <1>2. Inv /\ [Next]_vars => Inv'
    BY NextInv
  <1>3. QED
    BY <1>1, <1>2, PTL DEF Spec

-----------------------------------------------------------------------------
(***************************************************************************)
(* The refinement of Delivery.                                             *)
(***************************************************************************)
\* What has come to rest stays where it is.
StaysPut ==
    \A i \in Settled :
        /\ i \in UNION rows' <=> i \in UNION rows
        /\ i \in prices' <=> i \in prices
        /\ i \in out'.superseded <=> i \in out.superseded
        /\ i \in out'.ignored <=> i \in out.ignored

LEMMA Unsettled ==
  ASSUME Inv, NEW t \in Task, ~Idle(t)
  PROVE  /\ task[t].at \in Fresh => task[t].item \notin Settled
         /\ (UNION task[t].adds) \cap Settled = {}
  BY DEF Inv, OnePlace, Own, Carried

LEMMA IgnoresOne ==
  ASSUME Inv, NEW t \in Task, ~Idle(t), task[t].at \in Fresh, UNCHANGED <<rows, prices>>,
         out' = out \/ Ignores(t)
  PROVE  StaysPut
  BY Unsettled DEF Ignores, StaysPut, Inv, Types

LEMMA PricesOne ==
  ASSUME Inv, NEW t \in Task, ~Idle(t), task[t].at \in Fresh, UNCHANGED <<rows, out>>,
         prices' = prices \cup {task[t].item}
  PROVE  StaysPut
  BY Unsettled DEF StaysPut

LEMMA NextStaysPut ==
  ASSUME Inv, Next
  PROVE  StaysPut
  <1> USE DEF At, Idle, batches, tables, ledger
  <1>1. CASE UNCHANGED <<rows, prices, out>>
    BY <1>1 DEF StaysPut
  <1>2. CASE (\E r \in Runtime : StoresPrice(r)) \/ BackfillsPrice
    BY <1>2, PricesOne, Places DEF StoresPrice, BackfillsPrice, Fresh
  <1>3. CASE (\E t \in Task : IgnoresPrice(t)) \/ ArchivesSample \/ Parses
    BY <1>3, IgnoresOne, Places DEF IgnoresPrice, ArchivesSample, Parses, Fresh
  <1>4. CASE \E t \in Task : Commits(t)
    <2>1. PICK t \in Task : Commits(t)
      BY <1>4
    <2>2. ~Idle(t) /\ rows' = rows \cup task[t].adds /\ UNCHANGED <<prices, out>>
      BY <2>1 DEF Commits
    <2>3. \A i \in Settled : i \in UNION rows' <=> i \in UNION rows
      BY <2>2, Unsettled
    <2>4. QED
      BY <2>2, <2>3 DEF StaysPut
  <1>5. CASE \E r \in Runtime : Handles(r)
    <2>1. PICK r \in Runtime : Handles(r)
      BY <1>5
    <2>2. At(r, "handle") /\ UNCHANGED <<rows, prices>> /\ r \in Task /\ task[r].at \in Fresh
      BY <2>1, Places DEF Handles, Fresh
    <2>3. CASE out' = out \/ Ignores(r)
      BY <2>2, <2>3, IgnoresOne
    <2>4. CASE \E b \in Batch, f \in Slugs : Superseding(Held(r, b), f)
      <3>1. PICK b \in Batch, f \in Slugs : out' = [out EXCEPT !.superseded = @ \cup InField(Held(r, b), f)]
        BY <2>4 DEF Superseding, InField
      <3>2. InField(Held(r, b), f) \subseteq Batched(r, b)
        BY DEF InField, Batched, Items
      <3>3. Batched(r, b) \subseteq Own(r) /\ Own(r) \cap Settled = {}
        BY <2>2, OwnIs DEF Inv, OnePlace
      <3>4. QED
        BY <2>2, <3>1, <3>2, <3>3 DEF StaysPut, Inv, Types
    <2>5. QED
      BY <2>1, <2>3, <2>4, HandlesIs DEF HandlesReading, HandlesRefresh, HandlesMetrics
  <1>6. QED
    BY <1>1, <1>2, <1>3, <1>4, <1>5
    DEF Next, Receives, FillsCache, Archives, ArchiveFails, FetchesPrice, LooksForPrice, Averages,
        Upserts, Refreshes, Fetches, Sees, Creates, Fails, Switches, EditsVehicle, Waits, Restarts

LEMMA WaitingIs ==
  ASSUME Inv
  PROVE  /\ \A t \in Task : Own(t) \subseteq Waiting
         /\ \A i \in Waiting : i \in Settled \/ \E t \in Task : i \in Own(t)
  <1>1. \A i : i \in Waiting <=>
           \/ \E r \in Runtime : \E b \in Batch : i \in Batched(r, b)
           \/ \E t \in Task : ~Idle(t) /\ i \in {task[t].item} \cup UNION task[t].adds
    BY DEF Waiting, Batched
  <1>2. ASSUME NEW t \in Task, NEW i \in Own(t)
        PROVE  i \in Waiting
    <2>1. CASE i \in Carried(t)
      BY <1>1, <2>1 DEF Carried
    <2>2. CASE t \in Runtime /\ \E b \in Batch : i \in Batched(t, b)
      BY <1>1, <2>2
    <2>3. QED
      BY <1>2, <2>1, <2>2, OwnIs
  <1>3. ASSUME NEW i \in Waiting
        PROVE  i \in Settled \/ \E t \in Task : i \in Own(t)
    <2>1. CASE \E r \in Runtime : \E b \in Batch : i \in Batched(r, b)
      BY <2>1, OwnIs, Places
    <2>2. CASE \E t \in Task : ~Idle(t) /\ i \in {task[t].item} \cup UNION task[t].adds
      <3>1. PICK t \in Task : ~Idle(t) /\ i \in {task[t].item} \cup UNION task[t].adds
        BY <2>2
      <3>2. CASE i \in UNION task[t].adds
        BY <3>1, <3>2 DEF Own, Carried
      <3>3. CASE i = task[t].item /\ task[t].at \in Fresh
        BY <3>1, <3>3 DEF Own, Carried
      <3>4. CASE i = task[t].item /\ task[t].at \notin Fresh
        <4>1. task[t] \in Work
          BY <3>1, BusyShape DEF Inv
        <4>2. task[t].at \in {"commit"} \cup Averaging
          BY <3>4, <4>1 DEF Work, Fresh
        <4>3. i \in Own(t) \cup out.ignored \cup prices
          BY <3>1, <3>4, <4>2 DEF Inv, TasksInOrder
        <4>4. QED
          BY <4>3 DEF Settled
      <3>5. QED
        BY <3>1, <3>2, <3>3, <3>4
    <2>3. QED
      BY <1>1, <1>3, <2>1, <2>2
  <1>4. QED
    BY <1>2, <1>3

\* Item i is on its way.
Owned(i) == \E t \in Task : i \in Own(t)

LEMMA StatusIs ==
  ASSUME Inv, NEW i \in Item
  PROVE  /\ i > Len(taken) => Statuses[i] = "new"
         /\ i \in (UNION rows) \cup prices => Statuses[i] = "stored"
         /\ i \notin (UNION rows) \cup prices /\ i \in out.superseded => Statuses[i] = "superseded"
         /\ i \notin (UNION rows) \cup prices \cup out.superseded /\ i \in out.ignored =>
               Statuses[i] = "ignored"
         /\ Owned(i) => Statuses[i] = "taken"
         /\ i <= Len(taken) /\ i \notin Settled /\ ~Owned(i) => Statuses[i] = "lost"
  <1> DEFINE twice == \E row, other \in rows : row # other /\ i \in row \cap other
  <1>1. Statuses[i] =
            IF i > Len(taken) THEN "new"
            ELSE IF i \in UNION rows THEN (IF twice THEN "twice" ELSE "stored")
            ELSE IF i \in prices THEN "stored"
            ELSE IF i \in out.superseded THEN "superseded"
            ELSE IF i \in out.ignored THEN "ignored"
            ELSE IF i \in Waiting THEN "taken" ELSE "lost"
    BY DEF Statuses
  <1>2. ~twice
    BY DEF Inv, RowsApart, Disjoint
  <1>3. /\ i \in Settled => ~(i > Len(taken))
        /\ Owned(i) => ~(i > Len(taken)) /\ i \notin Settled
    <2>1. Len(taken) \in Nat /\ i \in Nat
      BY DEF Inv, Types, Item
    <2>2. QED
      BY <2>1 DEF Inv, OnePlace, Owned
  <1>4. (i \in Waiting => i \in Settled \/ Owned(i)) /\ (Owned(i) => i \in Waiting)
    BY WaitingIs DEF Owned
  <1>5. Len(taken) \in Nat /\ i \in Nat
    BY DEF Inv, Types, Item
  <1> HIDE DEF twice
  <1>6. QED
    BY <1>1, <1>2, <1>3, <1>4, <1>5 DEF Settled

StatusesAre ==
    \A i \in Item :
        /\ i > Len(taken) => Statuses[i] = "new"
        /\ i \in (UNION rows) \cup prices => Statuses[i] = "stored"
        /\ i \notin (UNION rows) \cup prices /\ i \in out.superseded => Statuses[i] = "superseded"
        /\ i \notin (UNION rows) \cup prices \cup out.superseded /\ i \in out.ignored =>
              Statuses[i] = "ignored"
        /\ Owned(i) => Statuses[i] = "taken"
        /\ i <= Len(taken) /\ i \notin Settled /\ ~Owned(i) => Statuses[i] = "lost"

LEMMA StatusesRight == Inv => StatusesAre
  BY StatusIs DEF StatusesAre

LEMMA StatusesRightAfter == Inv' => StatusesAre'
  BY StatusesRight, PTL

LEMMA StatusesShape ==
  ASSUME Inv, StatusesAre
  PROVE  Statuses \in [Item -> Ledger!Status]
  <1>1. \A i \in Item : Statuses[i] \in Ledger!Status
    <2> SUFFICES ASSUME NEW i \in Item
                 PROVE  Statuses[i] \in Ledger!Status
      OBVIOUS
    <2>1. Len(taken) \in Nat /\ i \in Nat
      BY DEF Inv, Types, Item
    <2>2. i > Len(taken) \/ i <= Len(taken)
      BY <2>1
    <2>3. Statuses[i] \in {"new", "stored", "superseded", "ignored", "taken", "lost"}
      BY <2>2 DEF StatusesAre, Settled
    <2>4. QED
      BY <2>3 DEF Ledger!Status
  <1>2. Statuses = [i \in Item |-> Statuses[i]]
    BY DEF Statuses
  <1>3. QED
    BY <1>1, <1>2

LEMMA StatusesShapeAfter == Inv' /\ StatusesAre' => (Statuses \in [Item -> Ledger!Status])'
  <1>1. Inv /\ StatusesAre => Statuses \in [Item -> Ledger!Status]
    BY StatusesShape
  <1>2. QED
    BY <1>1, PTL

\* What a step of a task makes of the statuses is what Delivery allows.
LEMMA Delivers ==
  ASSUME Inv, Inv', StaysPut, NEW t \in Task, Moves(t), Keeps(t)
  PROVE  Ledger!Next
  <1>1. StatusesAre /\ StatusesAre'
    BY StatusesRight, StatusesRightAfter
  <1>2. Statuses' \in [Item -> Ledger!Status]
    BY <1>1, StatusesShapeAfter
  <1>3. faults' \in {faults, faults + 1}
    BY DEF Keeps
  <1>4. Len(taken) \in Nat /\ Len(taken') \in Nat
    BY DEF Inv, Types
  <1>5. ASSUME NEW i \in Item, Statuses'[i] # Statuses[i]
        PROVE  /\ Statuses'[i] \in Ledger!MayBecome(Statuses[i])
               /\ Statuses'[i] = "lost" => faults' = faults + 1
               /\ Statuses'[i] = "superseded" => \E j \in Item : i < j /\ Statuses[j] = "taken"
    <2>1. i \in Nat
      BY DEF Item
    <2>2. CASE i > Len(taken)
      <3>1. Statuses[i] = "new"
        BY <1>1, <2>2 DEF StatusesAre
      <3>2. ~(i > Len(taken'))
        BY <1>1, <1>5, <3>1 DEF StatusesAre
      <3>3. i \in New
        BY <1>4, <2>1, <2>2, <3>2 DEF New
      <3>4. Owned(i)'
        BY <3>3 DEF Moves, Owned
      <3>5. Statuses'[i] = "taken"
        BY <1>1, <3>4 DEF StatusesAre
      <3>6. QED
        BY <3>1, <3>5 DEF Ledger!MayBecome
    <2>3. CASE i \in Settled
      <3>1. /\ i \in UNION rows' <=> i \in UNION rows
            /\ i \in prices' <=> i \in prices
            /\ i \in out'.superseded <=> i \in out.superseded
            /\ i \in out'.ignored <=> i \in out.ignored
        BY <2>3 DEF StaysPut
      <3>2. Statuses'[i] = Statuses[i]
        BY <1>1, <2>3, <3>1 DEF StatusesAre, Settled
      <3>3. QED
        BY <1>5, <3>2
    <2>4. CASE Owned(i)
      <3>1. Statuses[i] = "taken"
        BY <1>1, <2>4 DEF StatusesAre
      <3>2. PICK u \in Task : i \in Own(u)
        BY <2>4 DEF Owned
      <3>3. ~Owned(i)'
        BY <1>1, <1>5, <3>1 DEF StatusesAre
      <3>4. u = t /\ i \notin Own(t)'
        BY <3>2, <3>3 DEF Moves, Owned
      <3>5. Statuses'[i] \in {"stored", "superseded", "ignored", "lost"}
        <4>1. i <= Len(taken')
          BY <1>4, <2>1, <3>2 DEF Inv, OnePlace, Moves
        <4>2. QED
          BY <1>1, <3>3, <4>1 DEF StatusesAre, Settled
      <3>6. Statuses'[i] = "lost" => faults' = faults + 1
        <4>1. i \in Settled' => Statuses'[i] # "lost"
          BY <1>1 DEF StatusesAre, Settled
        <4>2. QED
          BY <1>3, <3>2, <3>4, <4>1 DEF Keeps
      <3>7. ASSUME Statuses'[i] = "superseded"
            PROVE  \E j \in Item : i < j /\ Statuses[j] = "taken"
        <4>1. i \in out'.superseded
          BY <1>1, <3>3, <3>5, <3>7, <2>1, <1>4, <3>2 DEF StatusesAre, Settled, Inv, OnePlace, Moves
        <4>2. PICK j \in Own(t) : i < j
          BY <3>2, <3>4, <4>1 DEF Keeps
        <4>3. j \in Item
          BY <4>2, IngestAssumption DEF Inv, Types, OnePlace, Item
        <4>4. Statuses[j] = "taken"
          BY <1>1, <4>2, <4>3 DEF StatusesAre, Owned
        <4>5. QED
          BY <4>2, <4>3, <4>4
      <3>8. QED
        BY <3>1, <3>5, <3>6, <3>7 DEF Ledger!MayBecome
    <2>5. CASE i <= Len(taken) /\ i \notin Settled /\ ~Owned(i)
      <3>1. Statuses[i] = "lost"
        BY <1>1, <2>5 DEF StatusesAre
      <3>2. i \notin Settled'
        BY <2>5 DEF Moves, Owned
      <3>3. i \notin New
        BY <1>4, <2>1, <2>5 DEF New
      <3>4. ~Owned(i)'
        BY <2>5, <3>3 DEF Moves, Owned
      <3>5. i <= Len(taken')
        BY <1>4, <2>1, <2>5 DEF Moves
      <3>6. Statuses'[i] = "lost"
        BY <1>1, <3>2, <3>4, <3>5 DEF StatusesAre
      <3>7. QED
        BY <1>5, <3>1, <3>6
    <2>6. QED
      BY <1>4, <2>1, <2>2, <2>3, <2>4, <2>5
  <1>6. QED
    BY <1>2, <1>3, <1>5 DEF Ledger!Next

LEMMA RestartLoses ==
  ASSUME Inv, Restarts
  PROVE  Ledger!Next
  <1>1. /\ Inv' /\ Settled' = Settled /\ \A t \in Task : Own(t)' = {}
        /\ UNCHANGED <<taken, out, rows, prices>> /\ faults' = faults + 1
    BY RestartsKeeps
  <1>2. StatusesAre /\ StatusesAre'
    BY <1>1, StatusesRight, StatusesRightAfter
  <1>3. Statuses' \in [Item -> Ledger!Status]
    BY <1>1, <1>2, StatusesShapeAfter
  <1>4. \A i \in Item : ~Owned(i)'
    BY <1>1 DEF Owned
  <1>5. ASSUME NEW i \in Item, Statuses'[i] # Statuses[i]
        PROVE  Statuses[i] = "taken" /\ Statuses'[i] = "lost"
    <2>1. i \in Nat /\ Len(taken) \in Nat
      BY DEF Item, Inv, Types
    <2>2. CASE i > Len(taken)
      BY <1>1, <1>2, <1>5, <2>2 DEF StatusesAre
    <2>3. CASE i \in Settled
      BY <1>1, <1>2, <1>5, <2>3 DEF StatusesAre, Settled
    <2>4. CASE i <= Len(taken) /\ i \notin Settled
      <3>1. Statuses'[i] = "lost"
        BY <1>1, <1>2, <1>4, <2>4 DEF StatusesAre
      <3>2. Owned(i)
        BY <1>2, <1>5, <2>4, <3>1 DEF StatusesAre
      <3>3. QED
        BY <1>2, <3>1, <3>2 DEF StatusesAre
    <2>5. QED
      BY <2>1, <2>2, <2>3, <2>4
  <1>6. QED
    BY <1>1, <1>3, <1>5 DEF Ledger!Next, Ledger!MayBecome

\* Every run of the pipeline is one of Delivery's: whatever is flushed, rolled
\* back or restarted, each reading and each response ends in one row unless a
\* later one took its place, it had nothing to store, or something failed
\* (_flush_vehicle_status, _flush_battery_status, _dispatch, store_sample).
THEOREM KeepsDelivery == Spec => Delivered
  <1>1. Init => Ledger!Init
    <2> SUFFICES ASSUME Init
                 PROVE  Statuses = [i \in Item |-> "new"] /\ faults = 0
      BY DEF Ledger!Init
    <2>1. Inv
      BY InitInv
    <2>2. \A i \in Item : i > Len(taken)
      BY DEF Init, Item
    <2>3. \A i \in Item : Statuses[i] = "new"
      BY <2>1, <2>2, StatusIs
    <2>4. Statuses = [i \in Item |-> Statuses[i]]
      BY DEF Statuses
    <2>5. QED
      BY <2>3, <2>4 DEF Init
  <1>2. Inv /\ Inv' /\ [Next]_vars => [Ledger!Next]_Ledger!vars
    <2> SUFFICES ASSUME Inv, Inv', [Next]_vars
                 PROVE  Ledger!Next \/ UNCHANGED <<Statuses, faults>>
      BY DEF Ledger!vars
    <2>1. CASE Restarts
      BY <2>1, RestartLoses
    <2>2. CASE Next /\ ~Restarts
      BY <2>2, NextMoves, NextStaysPut, Delivers
    <2>3. CASE UNCHANGED vars
      BY <2>3 DEF vars, archives, batches, tables, ledger, Statuses, Waiting, Held, Idle
    <2>4. QED
      BY <2>1, <2>2, <2>3
  <1>3. QED
    BY <1>1, <1>2, InvHolds, PTL DEF Spec, Delivered, Ledger!Spec

-----------------------------------------------------------------------------
(***************************************************************************)
(* The archive holds what the tables hold.                                 *)
(***************************************************************************)
\* A task that is already at work keeps its item and what it read of the switch.
Continues(t) ==
    /\ \A u \in Task \ {t} : task'[u] = task[u]
    /\ \/ task'[t] = None
       \/ /\ ~Idle(t) /\ task'[t] # None
          /\ task'[t].item = task[t].item /\ task'[t].on = task[t].on

Beginning == \/ \E r \in Runtime, e \in Event : Receives(r, e)
             \/ \E e \in Event : FetchesPrice(e)
             \/ \E s \in Sample : Fetches(s)

LEMMA GoingContinues ==
  ASSUME Inv, NEW t \in Task, ~Idle(t), NEW p \in PlacesOf(t), Goes(t, p)
  PROVE  Continues(t)
  BY GoesOn DEF Continues

LEMMA RestingContinues ==
  ASSUME Inv, NEW t \in Task, Rests(t)
  PROVE  Continues(t)
  BY RestsShape DEF Continues

LEMMA HandlingContinues ==
  ASSUME Inv, NEW t \in Task, ~Idle(t), NEW A \in SUBSET SUBSET Item, WillAdd(t, A)
  PROVE  Continues(t)
  <1>1. task[t] \in Work
    BY BusyShape DEF Inv
  <1>2. QED
    BY <1>1, HandledShape DEF Continues, Inv

LEMMA MeansContinue ==
  ASSUME Inv, NEW t \in Task, Means(t)
  PROVE  Continues(t)
  BY MeansShape, RestsShape DEF Continues

\* The places where an item has not come to the archive, or never does.
Early == {"gas", "filling", "archive", "insert"}

\* The steps of a task that is at work, but for those that end at the archive.
LEMMA TaskSteps ==
  ASSUME Inv, Next, ~Beginning, ~Besides, ~Restarts
  PROVE  \E t \in Task :
            /\ Continues(t) /\ ~Idle(t)
            /\ \/ t \in Runtime /\ (Archives(t) \/ ArchiveFails(t))
               \/ t = Poller /\ ArchivesSample
               \/ UNCHANGED archived /\ (task[t].at \in Early => task[t].item \notin Own(t)')
               \/ UNCHANGED archived /\ task'[t] # None /\ task'[t].at \in Early
               \/ UNCHANGED archived /\ task[t].at \notin Early
  <1> USE DEF At, Idle, archives
  <1>1. CASE \E r \in Runtime : FillsCache(r) \/ Archives(r) \/ ArchiveFails(r)
    <2>1. PICK r \in Runtime : FillsCache(r) \/ Archives(r) \/ ArchiveFails(r)
      BY <1>1
    <2>2. r \in Task /\ ~Idle(r)
      BY <2>1, Places DEF FillsCache, Archives, ArchiveFails
    <2>3. CASE FillsCache(r)
      <3>1. Goes(r, "archive") /\ "archive" \in PlacesOf(r) /\ UNCHANGED archived
        BY <2>3, Places DEF FillsCache
      <3>2. Continues(r) /\ task'[r] # None /\ task'[r].at = "archive"
        BY <2>2, <3>1, GoingContinues, GoesOn
      <3>3. QED
        BY <2>2, <3>1, <3>2 DEF Early
    <2>4. CASE Archives(r) \/ ArchiveFails(r)
      <3>1. Goes(r, "slug") /\ "slug" \in PlacesOf(r)
        BY <2>4, Places DEF Archives, ArchiveFails
      <3>2. QED
        BY <2>2, <2>4, <3>1, GoingContinues
    <2>5. QED
      BY <2>1, <2>3, <2>4
  <1>2. CASE \/ \E t \in Task : StoresPrice(t) \/ IgnoresPrice(t)
             \/ LooksForPrice \/ BackfillsPrice
    <2>1. PICK t \in Task : \/ StoresPrice(t) \/ IgnoresPrice(t)
                            \/ t = Backfill /\ (LooksForPrice \/ BackfillsPrice)
      BY <1>2, Places
    <2>2. ~Idle(t) /\ UNCHANGED archived
      BY <2>1 DEF StoresPrice, IgnoresPrice, LooksForPrice, BackfillsPrice
    <2>3. CASE IgnoresPrice(t)
      <3>1. Rests(t)
        BY <2>3 DEF IgnoresPrice
      <3>2. task[t].item \in out'.ignored
        BY <2>3 DEF IgnoresPrice, Ignores, Inv, Types
      <3>3. Moves(t)
        BY <2>3, PricesMove
      <3>4. task[t].at \in Early => task[t].item \notin Own(t)'
        BY <3>2, <3>3 DEF Moves, Settled, Early
      <3>5. QED
        BY <2>2, <3>1, <3>4, RestingContinues
    <2>4. CASE StoresPrice(t) \/ (t = Backfill /\ BackfillsPrice)
      <3>1. Goes(t, "averaging") /\ "averaging" \in PlacesOf(t) /\ task[t].item \in prices'
        BY <2>4, Places DEF StoresPrice, BackfillsPrice
      <3>2. Moves(t)
        BY <2>4, PricesMove
      <3>3. task[t].item \notin Own(t)'
        BY <3>1, <3>2 DEF Moves, Settled
      <3>4. QED
        BY <2>2, <3>1, <3>3, GoingContinues
    <2>5. CASE t = Backfill /\ LooksForPrice
      <3>1. Goes(t, "insert") /\ "insert" \in PlacesOf(t)
        BY <2>5, Places DEF LooksForPrice
      <3>2. Continues(t) /\ task'[t] # None /\ task'[t].at = "insert"
        BY <2>2, <3>1, GoingContinues, GoesOn
      <3>3. QED
        BY <2>2, <3>2 DEF Early
    <2>6. QED
      BY <2>1, <2>3, <2>4, <2>5
  <1>3. CASE \E t \in Task : Means(t)
    BY <1>3, MeansContinue, MeansShape DEF Averaging, Early
  <1>4. CASE (\E r \in Runtime : Handles(r)) \/ Parses
    <2>1. PICK t \in Task, A \in SUBSET SUBSET Item : At(t, "handle") /\ WillAdd(t, A)
      <3>1. CASE \E r \in Runtime : Handles(r)
        BY <3>1, HandlesIs, RefreshShape, MetricsShape, ReadingShape, Places
      <3>2. CASE Parses
        BY <3>2, ParsesShape, Places DEF Parses
      <3>3. QED
        BY <1>4, <3>1, <3>2
    <2>2. UNCHANGED archived
      BY <1>4 DEF Handles, Parses
    <2>3. QED
      BY <2>1, <2>2, HandlingContinues DEF Early
  <1>5. CASE ArchivesSample
    <2>1. Poller \in Task /\ ~Idle(Poller) /\ "slug" \in PlacesOf(Poller)
      BY <1>5, Places DEF ArchivesSample
    <2>2. Rests(Poller) \/ Goes(Poller, "slug")
      BY <1>5 DEF ArchivesSample
    <2>3. QED
      BY <1>5, <2>1, <2>2, RestingContinues, GoingContinues
  <1>6. CASE \E t \in Task : Sees(t) \/ Creates(t)
    <2>1. PICK t \in Task : Sees(t) \/ Creates(t)
      BY <1>6
    <2>2. PICK p \in {"create", "handle"}, F \in SUBSET Column : Decides(t, p, F)
      BY <2>1, SeesDecides, CreatesDecides
    <2>3. ~Idle(t) /\ task[t].at \notin Early
      BY <2>1, SeesDecides, CreatesDecides DEF Early
    <2>4. Continues(t)
      BY <2>2, <2>3, DecidesShape DEF Continues
    <2>5. UNCHANGED archived
      BY <2>1 DEF Sees, Creates
    <2>6. QED
      BY <2>3, <2>4, <2>5
  <1>7. CASE \E t \in Task : Commits(t)
    BY <1>7, RestingContinues DEF Commits, Early
  <1>8. CASE \E t \in Task : Fails(t)
    <2>1. PICK t \in Task : Fails(t)
      BY <1>8
    <2>2. Rests(t) /\ ~Idle(t) /\ UNCHANGED archived /\ pending' = pending
      BY <2>1 DEF Fails, batches
    <2>3. Carried(t)' = {}
      BY <2>2, RestsShape
    <2>4. t \in Runtime => \A b \in Batch : Batched(t, b)' = Batched(t, b)
      BY <2>2 DEF Batched, Held
    <2>5. task[t].at \in Early => task[t].item \in Carried(t)
      BY <2>2 DEF Carried, Early, Fresh
    <2>6. task[t].at \in Early => task[t].item \notin Own(t)'
      BY <2>3, <2>4, <2>5 DEF Own, Inv, OnePlace, Apart
    <2>7. QED
      BY <2>2, <2>6, RestingContinues
  <1>9. QED
    BY <1>1, <1>2, <1>3, <1>4, <1>5, <1>6, <1>7, <1>8, Places
    DEF Next, Beginning, Besides, Means

\* The tasks know their inputs, and what the switch said while it was never off.
Inputs ==
    \A t \in Task : ~Idle(t) =>
        /\ t \in Runtime => InputOf(t) \in Event
        /\ t = Poller => InputOf(t) \in Sample

AlwaysOn ==
    ~wasOff =>
        /\ switch = TRUE /\ cache \in {None, TRUE}
        /\ \A t \in Task : ~Idle(t) => task[t].on = TRUE

\* The input of item i is archived, if it has to be.
Archived(i) == taken[i] \in Sample \/ (faults = 0 /\ ~wasOff) => taken[i] \in archived

\* The items past the archive.
Unread(t) == IF ~Idle(t) /\ task[t].at \in Early THEN {task[t].item} ELSE {}
Reached == (UNION rows) \cup UNION {Own(t) \ Unread(t) : t \in Task}

ArchiveInv == Inputs /\ AlwaysOn /\ \A i \in Reached : Archived(i)

\* What no step undoes.
LEMMA RecordsStay ==
  ASSUME Inv, Next
  PROVE  /\ archived \subseteq archived' /\ (wasOff => wasOff')
         /\ faults' \in {faults, faults + 1}
         /\ \A i \in 1 .. Len(taken) : taken'[i] = taken[i]
  <1>1. archived \subseteq archived'
    BY DEF Next, Receives, FillsCache, Archives, ArchiveFails, FetchesPrice, LooksForPrice, Averages,
           Upserts, Refreshes, Fetches, Sees, Creates, Fails, Switches, EditsVehicle, Waits, Restarts,
           StoresPrice, Handles, BackfillsPrice, IgnoresPrice, ArchivesSample, Parses, Commits, archives
  <1>2. wasOff => wasOff'
    BY DEF Next, Receives, FillsCache, Archives, ArchiveFails, FetchesPrice, LooksForPrice, Averages,
           Upserts, Refreshes, Fetches, Sees, Creates, Fails, Switches, EditsVehicle, Waits, Restarts,
           StoresPrice, Handles, BackfillsPrice, IgnoresPrice, ArchivesSample, Parses, Commits, archives
  <1>3. faults' \in {faults, faults + 1}
    BY DEF Next, Receives, FillsCache, Archives, ArchiveFails, FetchesPrice, LooksForPrice, Averages,
           Upserts, Refreshes, Fetches, Sees, Creates, Fails, Switches, EditsVehicle, Waits, Restarts,
           StoresPrice, Handles, BackfillsPrice, IgnoresPrice, ArchivesSample, Parses, Commits, Faults
  <1>4. \A i \in 1 .. Len(taken) : taken'[i] = taken[i]
    <2>1. CASE Beginning
      <3>1. PICK t \in Task, input \in Event \cup Sample, place \in Fresh, on \in BOOLEAN :
                Takes(t, input, place, on)
        BY <2>1, Begins DEF Beginning
      <3>2. taken' = Append(taken, input) /\ taken \in Seq(Event \cup Sample)
        BY <3>1 DEF Takes, Inv, Types
      <3>3. QED
        BY <3>2
    <2>2. CASE taken' = taken
      BY <2>2
    <2>3. QED
      BY <2>1, <2>2
      DEF Next, Beginning, FillsCache, Archives, ArchiveFails, LooksForPrice, Averages, Upserts, Refreshes, Sees,
          Creates, Fails, Switches, EditsVehicle, Waits, Restarts, StoresPrice, Handles,
          BackfillsPrice, IgnoresPrice, ArchivesSample, Parses, Commits, ledger
  <1>5. QED
    BY <1>1, <1>2, <1>3, <1>4

LEMMA ArchivedStays ==
  ASSUME Inv, Next, NEW i \in 1 .. Len(taken), Archived(i)
  PROVE  Archived(i)'
  <1>1. faults \in Nat
    BY DEF Inv, Types
  <1>2. QED
    BY <1>1, RecordsStay DEF Archived

LEMMA TakenStays ==
  ASSUME Inv, Next, ~Beginning
  PROVE  taken' = taken
  BY DEF Next, Beginning, FillsCache, Archives, ArchiveFails, LooksForPrice, Averages, Upserts, Refreshes, Sees,
         Creates, Fails, Switches, EditsVehicle, Waits, Restarts, StoresPrice, Handles,
         BackfillsPrice, IgnoresPrice, ArchivesSample, Parses, Commits, ledger

\* Items that are in a row by now were in one, or in a task that commits.
LEMMA RowsCome ==
  ASSUME Inv, Next
  PROVE  UNION rows' \subseteq Reached
  <1>1. CASE rows' = rows
    BY <1>1 DEF Reached
  <1>2. CASE \E t \in Task : Commits(t)
    <2>1. PICK t \in Task : Commits(t)
      BY <1>2
    <2>2. ~Idle(t) /\ task[t].at = "commit" /\ rows' = rows \cup task[t].adds
      BY <2>1 DEF Commits, At, Idle
    <2>3. UNION task[t].adds \subseteq Own(t) \ Unread(t)
      BY <2>2 DEF Own, Carried, Unread, Early
    <2>4. QED
      BY <2>2, <2>3 DEF Reached
  <1>3. QED
    BY <1>1, <1>2
    DEF Next, Receives, FillsCache, Archives, ArchiveFails, FetchesPrice, LooksForPrice, Averages,
        Upserts, Refreshes, Fetches, Sees, Creates, Fails, Switches, EditsVehicle, Waits, Restarts,
        StoresPrice, Handles, BackfillsPrice, IgnoresPrice, ArchivesSample, Parses, tables

LEMMA ReachedIsTaken ==
  ASSUME Inv
  PROVE  Reached \subseteq 1 .. Len(taken)
  BY DEF Inv, OnePlace, Settled, Reached

\* Nothing passes the archive but by it.
LEMMA ReachesOnly ==
  ASSUME Inv, Next, NEW t \in Task, Moves(t), NEW X,
         \A u \in Task \ {t} : task'[u] = task[u],
         Own(t)' \ Unread(t)' \subseteq (Own(t) \ Unread(t)) \cup X
  PROVE  Reached' \subseteq Reached \cup X
  <1>1. \A u \in Task \ {t} : Own(u)' = Own(u) /\ Unread(u)' = Unread(u)
    BY DEF Moves, Unread, Idle
  <1>2. ASSUME NEW u \in Task, NEW i \in Own(u)' \ Unread(u)'
        PROVE  i \in Reached \cup X
    BY <1>1, <1>2 DEF Reached
  <1>3. QED
    BY <1>2, RowsCome DEF Reached

LEMMA BeginsUnread ==
  ASSUME Inv, Next, Beginning
  PROVE  Reached' \subseteq Reached
  <1>1. PICK t \in Task, input \in Event \cup Sample, place \in Fresh, on \in BOOLEAN :
            /\ Takes(t, input, place, on) /\ place \in {"gas", "filling", "archive"}
            /\ UNCHANGED <<archives, batches, tables, out, faults>> /\ place \in PlacesOf(t)
    BY Begins DEF Beginning
  <1>2. pending' = pending /\ UNCHANGED <<rows, prices, out, faults>>
    BY <1>1 DEF batches, tables
  <1>3. Moves(t)
    BY <1>1, <1>2, TakesMoves
  <1>4. /\ Idle(t) /\ Len(taken) \in Nat /\ Len(taken') = Len(taken) + 1
        /\ \A u \in Task \ {t} : task'[u] = task[u]
        /\ task'[t] # None /\ task'[t].at = place /\ task'[t].item = Len(taken) + 1
    BY <1>1, TakesShape
  <1>5. New = Unread(t)' /\ Unread(t) = {}
    BY <1>1, <1>4 DEF New, Unread, Idle, Early
  <1>6. Own(t)' \subseteq Own(t) \cup New
    BY <1>3 DEF Moves
  <1>7. Own(t)' \ Unread(t)' \subseteq (Own(t) \ Unread(t)) \cup {}
    BY <1>5, <1>6
  <1>8. Reached' \subseteq Reached \cup {}
    BY <1>3, <1>4, <1>7, ReachesOnly
  <1>9. QED
    BY <1>8

LEMMA NextArchives ==
  ASSUME Inv, Inputs, AlwaysOn, Next
  PROVE  \A i \in Reached' : i \in Reached \/ Archived(i)'
  <1>1. CASE Beginning
    BY <1>1, BeginsUnread
  <1>2. CASE Besides
    <2>1. task' = task /\ UNCHANGED <<pending, rows>>
      BY <1>2, BesidesMove DEF Besides, Switches, Waits, EditsVehicle, batches, tables
    <2>2. \A u \in Task : Own(u)' = Own(u) /\ Unread(u)' = Unread(u)
      BY <2>1, Undisturbed DEF Unread, Idle
    <2>3. Reached' = Reached
      BY <2>1, <2>2 DEF Reached
    <2>4. QED
      BY <2>3
  <1>3. CASE Restarts
    <2>1. (\A u \in Task : Own(u)' = {}) /\ rows' = rows
      BY <1>3, RestartsKeeps
    <2>2. Reached' \subseteq Reached
      BY <2>1 DEF Reached
    <2>3. QED
      BY <2>2
  <1>4. CASE ~Beginning /\ ~Besides /\ ~Restarts
    <2>1. PICK t \in Task :
            /\ Continues(t) /\ ~Idle(t)
            /\ \/ t \in Runtime /\ (Archives(t) \/ ArchiveFails(t))
               \/ t = Poller /\ ArchivesSample
               \/ UNCHANGED archived /\ (task[t].at \in Early => task[t].item \notin Own(t)')
               \/ UNCHANGED archived /\ task'[t] # None /\ task'[t].at \in Early
               \/ UNCHANGED archived /\ task[t].at \notin Early
      BY <1>4, TaskSteps
    <2>2. taken' = taken
      BY <1>4, TakenStays
    <2>3. New = {}
      BY <2>2 DEF New, Inv, Types
    <2>4. PICK u \in Task : Moves(u)
      BY <1>4, NextMoves
    <2>5. \A v \in Task \ {t} : task'[v] = task[v]
      BY <2>1 DEF Continues
    <2>6. \A v \in Task : Own(v)' \subseteq Own(v)
      BY <2>3, <2>4 DEF Moves
    <2>7. \A v \in Task \ {t} : Own(v)' \ Unread(v)' \subseteq Own(v) \ Unread(v)
      BY <2>5, <2>6 DEF Unread, Idle
    <2>8. ASSUME NEW X, Own(t)' \ Unread(t)' \subseteq (Own(t) \ Unread(t)) \cup X
          PROVE  Reached' \subseteq Reached \cup X
      <3>1. ASSUME NEW v \in Task, NEW i \in Own(v)' \ Unread(v)'
            PROVE  i \in Reached \cup X
        BY <2>7, <2>8, <3>1 DEF Reached
      <3>2. QED
        BY <3>1, RowsCome DEF Reached
    <2> DEFINE item == task[t].item
    <2>9. Own(t)' \ Unread(t)' \subseteq (Own(t) \ Unread(t)) \cup {item}
      BY <2>6 DEF Unread
    <2>10. Reached' \subseteq Reached \cup {item}
      BY <2>8, <2>9
    <2>11. CASE \/ UNCHANGED archived /\ (task[t].at \in Early => item \notin Own(t)')
                \/ UNCHANGED archived /\ task'[t] # None /\ task'[t].at \in Early
                \/ UNCHANGED archived /\ task[t].at \notin Early
      <3>1. Own(t)' \ Unread(t)' \subseteq (Own(t) \ Unread(t)) \cup {}
        BY <2>1, <2>6, <2>11 DEF Unread, Continues, Idle
      <3>2. Reached' \subseteq Reached \cup {}
        BY <2>8, <3>1
      <3>3. QED
        BY <3>2
    <2>12. CASE t = Poller /\ ArchivesSample
      <3>1. taken'[item] \in archived'
        BY <2>2, <2>12 DEF ArchivesSample, InputOf
      <3>2. QED
        BY <2>10, <3>1 DEF Archived
    <2>13. CASE t \in Runtime /\ Archives(t)
      <3>1. taken[item] \in Event /\ taken[item] \notin Sample
        BY <2>1, <2>13, IngestAssumption DEF Inputs, InputOf
      <3>2. faults' = 0 /\ ~wasOff' => taken[item] \in archived'
        <4>1. ~wasOff' => task[t].on = TRUE
          BY <2>1, <2>13 DEF AlwaysOn, Archives
        <4>2. QED
          BY <2>13, <4>1 DEF Archives, InputOf
      <3>3. QED
        BY <2>2, <2>10, <3>1, <3>2 DEF Archived
    <2>14. CASE t \in Runtime /\ ArchiveFails(t)
      <3>1. taken[item] \in Event /\ taken[item] \notin Sample
        BY <2>1, <2>14, IngestAssumption DEF Inputs, InputOf
      <3>2. faults' # 0
        BY <2>14 DEF ArchiveFails, Faults, Inv, Types
      <3>3. QED
        BY <2>2, <2>10, <3>1, <3>2 DEF Archived
    <2>15. QED
      BY <2>1, <2>11, <2>12, <2>13, <2>14
  <1>5. QED
    BY <1>1, <1>2, <1>3, <1>4

LEMMA NextInputs ==
  ASSUME Inv, Inputs, Next
  PROVE  Inputs'
  <1>1. \A t \in Task : ~Idle(t) => task[t].item \in 1 .. Len(taken)
    BY DEF Inv, TasksInOrder
  <1>2. \A i \in 1 .. Len(taken) : taken'[i] = taken[i]
    BY RecordsStay
  <1>3. ASSUME NEW u \in Task, task'[u] # None, ~Idle(u), task'[u].item = task[u].item
        PROVE  (u \in Runtime => InputOf(u)' \in Event) /\ (u = Poller => InputOf(u)' \in Sample)
    BY <1>1, <1>2, <1>3 DEF Inputs, InputOf
  <1>4. CASE Beginning
    <2>1. PICK t \in Task, input \in Event \cup Sample, place \in Fresh, on \in BOOLEAN :
            /\ Takes(t, input, place, on)
            /\ t \in Runtime => input \in Event
            /\ t = Poller => input \in Sample
      BY <1>4, Begins DEF Beginning
    <2>2. /\ taken' = Append(taken, input) /\ taken \in Seq(Event \cup Sample)
          /\ task'[t].item = Len(taken) + 1
          /\ \A u \in Task \ {t} : task'[u] = task[u]
      BY <2>1, TakesShape DEF Inv, Types
    <2>3. InputOf(t)' = input
      BY <2>2 DEF InputOf
    <2>4. \A u \in Task \ {t} : task'[u] # None => ~Idle(u) /\ task'[u].item = task[u].item
      BY <2>2 DEF Idle
    <2>5. QED
      BY <1>3, <2>1, <2>3, <2>4 DEF Inputs, Idle
  <1>5. CASE Besides
    BY <1>3, <1>5, BesidesMove DEF Inputs, Idle
  <1>6. CASE Restarts
    BY <1>6 DEF Restarts, Inputs, Idle
  <1>7. CASE ~Beginning /\ ~Besides /\ ~Restarts
    <2>1. PICK t \in Task : Continues(t)
      BY <1>7, TaskSteps
    <2>2. QED
      BY <1>3, <2>1 DEF Continues, Inputs, Idle
  <1>8. QED
    BY <1>4, <1>5, <1>6, <1>7

LEMMA NextAlwaysOn ==
  ASSUME Inv, AlwaysOn, Next
  PROVE  AlwaysOn'
  <1> SUFFICES ASSUME ~wasOff'
               PROVE  /\ switch' = TRUE /\ cache' \in {None, TRUE}
                      /\ \A t \in Task : task'[t] # None => task'[t].on = TRUE
    BY DEF AlwaysOn, Idle
  <1>1. /\ switch = TRUE /\ cache \in {None, TRUE}
        /\ \A t \in Task : ~Idle(t) => task[t].on = TRUE
    BY RecordsStay DEF AlwaysOn
  <1>2. switch' = TRUE /\ cache' \in {None, TRUE}
    <2>1. CASE \E on \in BOOLEAN : Switches(on)
      BY <1>1, <2>1 DEF Switches
    <2>2. CASE \E r \in Runtime : FillsCache(r)
      BY <1>1, <2>2, Places DEF FillsCache, At, Idle
    <2>3. CASE Restarts
      BY <1>1, <2>3 DEF Restarts
    <2>4. QED
      BY <1>1, <2>1, <2>2, <2>3
      DEF Next, Receives, Archives, ArchiveFails, FetchesPrice, LooksForPrice, Averages,
          Upserts, Refreshes, Fetches, Sees, Creates, Fails, EditsVehicle, Waits,
          StoresPrice, Handles, BackfillsPrice, IgnoresPrice, ArchivesSample, Parses, Commits, archives
  <1>3. ASSUME NEW u \in Task, task'[u] # None
        PROVE  task'[u].on = TRUE
    <2>1. CASE Beginning
      <3>1. PICK t \in Task, input \in Event \cup Sample, place \in Fresh, on \in BOOLEAN :
              /\ Takes(t, input, place, on)
              /\ on = TRUE
        <4>1. (IF cache = None THEN switch ELSE cache) = TRUE
          BY <1>1
        <4>2. QED
          BY <2>1, <4>1, BeginsOn DEF Beginning
      <3>2. task'[t].on = TRUE /\ \A v \in Task \ {t} : task'[v] = task[v]
        BY <3>1, TakesShape
      <3>3. QED
        BY <1>1, <1>3, <3>2 DEF Idle
    <2>2. CASE Besides
      BY <1>1, <1>3, <2>2, BesidesMove DEF Idle
    <2>3. CASE Restarts
      BY <1>3, <2>3 DEF Restarts
    <2>4. CASE ~Beginning /\ ~Besides /\ ~Restarts
      <3>1. PICK t \in Task : Continues(t)
        BY <2>4, TaskSteps
      <3>2. QED
        BY <1>1, <1>3, <3>1 DEF Continues, Idle
    <2>5. QED
      BY <2>1, <2>2, <2>3, <2>4
  <1>4. QED
    BY <1>2, <1>3

LEMMA NextArchiveInv ==
  ASSUME Inv, ArchiveInv, Next
  PROVE  ArchiveInv'
  <1>1. \A i \in Reached' : i \in Reached \/ Archived(i)'
    BY NextArchives DEF ArchiveInv
  <1>2. \A i \in Reached' : Archived(i)'
    BY <1>1, ReachedIsTaken, ArchivedStays DEF ArchiveInv
  <1>3. QED
    BY <1>2, NextInputs, NextAlwaysOn DEF ArchiveInv

\* Whatever was stored can be derived again from the archive, while it is on and
\* its own writes succeed; a FordConnect response whatever fails, for it is
\* committed before it is parsed (_dispatch, store_sample).
THEOREM StoredCanBeDerivedAgain == Spec => []StoredIsArchived
  <1>1. Init => ArchiveInv
    <2> SUFFICES ASSUME Init
                 PROVE  ArchiveInv
      OBVIOUS
    <2>1. Inv /\ \A t \in Task : Idle(t)
      BY InitInv DEF Init, Idle
    <2>2. Reached \subseteq {}
      <3>1. Reached \subseteq 1 .. Len(taken)
        BY <2>1, ReachedIsTaken
      <3>2. Len(taken) = 0
        BY DEF Init
      <3>3. QED
        BY <3>1, <3>2
    <2>3. Inputs /\ AlwaysOn
      BY <2>1 DEF Inputs, AlwaysOn, Init
    <2>4. QED
      BY <2>2, <2>3 DEF ArchiveInv
  <1>2. Inv /\ ArchiveInv /\ [Next]_vars => ArchiveInv'
    <2> SUFFICES ASSUME Inv, ArchiveInv, UNCHANGED vars
                 PROVE  ArchiveInv'
      BY NextArchiveInv
    <2>1. UNCHANGED <<archived, switch, cache, wasOff, taken, task, pending, rows, faults>>
      BY DEF vars, archives, batches, tables, ledger
    <2>2. \A u \in Task : Own(u)' = Own(u) /\ Unread(u)' = Unread(u)
      BY <2>1, Undisturbed DEF Unread, Idle
    <2>3. Reached' = Reached
      BY <2>1, <2>2 DEF Reached
    <2>4. QED
      BY <2>1, <2>3 DEF ArchiveInv, Inputs, AlwaysOn, Archived, Idle, InputOf
  <1>3. ArchiveInv => StoredIsArchived
    BY DEF ArchiveInv, Archived, Reached, StoredIsArchived
  <1>4. QED
    BY <1>1, <1>2, <1>3, InvHolds, PTL DEF Spec

-----------------------------------------------------------------------------
(***************************************************************************)
(* On SQLite, what is written was read after the last commit: the month's  *)
(* price and the user's columns.                                           *)
(***************************************************************************)
\* Only t moves, and no other task is less stale.
Alone(t) == \A u \in Task \ {t} : task'[u] = task[u] /\ (u \in stale => u \in stale')

Elsewhere(t) ==
    /\ Idle(t) \/ task[t].at \in Early
    /\ task'[t] = None \/ task'[t].at \in Early \cup {"slug"}

LEMMA StaleStays ==
  ASSUME NEW t \in Task, \A u \in Task \ {t} : task'[u] = task[u],
         Overtakes(t) \/ stale' = stale \ {t} \/ stale' = stale
  PROVE  Alone(t)
  BY DEF Alone, Overtakes

LEMMA Steps ==
  ASSUME Inv, Next, ~Besides, ~Restarts
  PROVE  \E t \in Task :
            /\ Alone(t)
            /\ \/ StoresPrice(t) \/ (t = Backfill /\ BackfillsPrice) \/ Means(t)
               \/ Sees(t) \/ Creates(t) \/ Commits(t) \/ Fails(t)
               \/ UNCHANGED <<prices, month, late, vehicle>> /\ Elsewhere(t)
               \/ /\ UNCHANGED <<prices, month, late, vehicle, stale>>
                  /\ At(t, "handle") /\ task'[t] # None
                  /\ task'[t].at = "commit" /\ task'[t].fills = task[t].fills
  <1> USE DEF At, Idle, tables
  <1>1. CASE Beginning
    <2>1. PICK t \in Task, input \in Event \cup Sample, place \in Fresh, on \in BOOLEAN :
            /\ Takes(t, input, place, on) /\ place \in {"gas", "filling", "archive"}
            /\ UNCHANGED tables
      BY <1>1, Begins DEF Beginning
    <2>2. /\ Idle(t) /\ task'[t].at = place /\ \A u \in Task \ {t} : task'[u] = task[u]
      BY <2>1, TakesShape
    <2>3. Alone(t)
      BY <2>1, <2>2, StaleStays DEF Takes
    <2>4. Elsewhere(t)
      BY <2>1, <2>2 DEF Elsewhere, Early
    <2>5. QED
      BY <2>1, <2>3, <2>4
  <1>2. CASE \E r \in Runtime : FillsCache(r) \/ Archives(r) \/ ArchiveFails(r)
    <2>1. PICK r \in Runtime : FillsCache(r) \/ Archives(r) \/ ArchiveFails(r)
      BY <1>2
    <2>2. /\ r \in Task /\ ~Idle(r) /\ task[r].at \in Early /\ UNCHANGED tables
          /\ Overtakes(r) \/ stale' = stale \ {r} \/ stale' = stale
      BY <2>1, Places DEF FillsCache, Archives, ArchiveFails, Early
    <2>3. PICK p \in {"archive", "slug"} : Goes(r, p) /\ p \in PlacesOf(r)
      BY <2>1, Places DEF FillsCache, Archives, ArchiveFails
    <2>4. task'[r].at = p /\ \A u \in Task \ {r} : task'[u] = task[u]
      BY <2>2, <2>3, GoesOn
    <2>5. Alone(r) /\ Elsewhere(r)
      BY <2>2, <2>4, StaleStays DEF Elsewhere, Early
    <2>6. QED
      BY <2>2, <2>5
  <1>3. CASE (\E r \in Runtime : StoresPrice(r)) \/ BackfillsPrice
    <2>1. PICK t \in Task : StoresPrice(t) \/ (t = Backfill /\ BackfillsPrice)
      BY <1>3, Places
    <2>2. ~Idle(t) /\ Goes(t, "averaging") /\ "averaging" \in PlacesOf(t) /\ Overtakes(t)
      BY <2>1, Places DEF StoresPrice, BackfillsPrice
    <2>3. Alone(t)
      BY <2>2, GoesOn, StaleStays
    <2>4. QED
      BY <2>1, <2>3
  <1>4. CASE LooksForPrice
    <2>1. /\ Backfill \in Task /\ ~Idle(Backfill) /\ task[Backfill].at \in Early
          /\ Goes(Backfill, "insert") /\ "insert" \in PlacesOf(Backfill)
          /\ stale' = stale \ {Backfill} /\ UNCHANGED tables
      BY <1>4, Places DEF LooksForPrice, Early
    <2>2. task'[Backfill].at = "insert" /\ \A u \in Task \ {Backfill} : task'[u] = task[u]
      BY <2>1, GoesOn
    <2>3. Alone(Backfill) /\ Elsewhere(Backfill)
      BY <2>1, <2>2, StaleStays DEF Elsewhere, Early
    <2>4. QED
      BY <2>1, <2>3
  <1>5. CASE \E t \in Task : IgnoresPrice(t)
    <2>1. PICK t \in Task : IgnoresPrice(t)
      BY <1>5
    <2>2. /\ ~Idle(t) /\ task[t].at \in Early /\ Rests(t) /\ stale' = stale /\ UNCHANGED tables
      BY <2>1 DEF IgnoresPrice, Early
    <2>3. Alone(t) /\ Elsewhere(t)
      BY <2>2, RestsShape, StaleStays DEF Elsewhere
    <2>4. QED
      BY <2>2, <2>3
  <1>6. CASE \E t \in Task : Means(t) \/ Commits(t) \/ Fails(t)
    <2>1. PICK t \in Task : Means(t) \/ Commits(t) \/ Fails(t)
      BY <1>6
    <2>2. \A u \in Task \ {t} : task'[u] = task[u]
      BY <2>1, MeansShape, RestsShape DEF Commits, Fails
    <2>3. Overtakes(t) \/ stale' = stale \ {t}
      BY <2>1, MeansShape DEF Commits, Fails
    <2>4. QED
      BY <2>1, <2>2, <2>3, StaleStays
  <1>7. CASE \E t \in Task : Sees(t) \/ Creates(t)
    <2>1. PICK t \in Task : Sees(t) \/ Creates(t)
      BY <1>7
    <2>2. PICK p \in {"create", "handle"}, F \in SUBSET Column : ~Idle(t) /\ Decides(t, p, F)
      BY <2>1, SeesDecides, CreatesDecides
    <2>3. Overtakes(t) \/ stale' = stale \ {t}
      BY <2>1 DEF Sees, Creates
    <2>4. QED
      BY <2>1, <2>2, <2>3, DecidesShape, StaleStays
  <1>8. CASE ArchivesSample
    <2>1. /\ Poller \in Task /\ ~Idle(Poller) /\ task[Poller].at \in Early /\ UNCHANGED tables
          /\ Overtakes(Poller) /\ "slug" \in PlacesOf(Poller)
          /\ Rests(Poller) \/ Goes(Poller, "slug")
      BY <1>8, Places DEF ArchivesSample, Early
    <2>2. /\ \A u \in Task \ {Poller} : task'[u] = task[u]
          /\ task'[Poller] = None \/ task'[Poller].at = "slug"
      BY <2>1, GoesOn, RestsShape
    <2>3. Alone(Poller) /\ Elsewhere(Poller)
      BY <2>1, <2>2, StaleStays DEF Elsewhere
    <2>4. QED
      BY <2>1, <2>3
  <1>9. CASE (\E r \in Runtime : Handles(r)) \/ Parses
    <2>1. PICK t \in Task, A \in SUBSET SUBSET Item : At(t, "handle") /\ WillAdd(t, A)
      <3>1. CASE \E r \in Runtime : Handles(r)
        BY <3>1, HandlesIs, RefreshShape, MetricsShape, ReadingShape, Places
      <3>2. CASE Parses
        BY <3>2, ParsesShape, Places DEF Parses
      <3>3. QED
        BY <1>9, <3>1, <3>2
    <2>2. UNCHANGED <<prices, month, late, vehicle, stale>>
      BY <1>9 DEF Handles, Parses
    <2>3. task[t] \in Work
      BY <2>1, BusyShape DEF Inv
    <2>4. /\ \A u \in Task \ {t} : task'[u] = task[u]
          /\ task'[t] # None /\ task'[t].at = "commit" /\ task'[t].fills = task[t].fills
      BY <2>1, <2>3, HandledShape DEF Inv
    <2>5. QED
      BY <2>1, <2>2, <2>4, StaleStays
  <1>10. QED
    BY <1>1, <1>2, <1>3, <1>4, <1>5, <1>6, <1>7, <1>8, <1>9, Places DEF Next, Beginning, Besides, Means

\* Only new readings are added.
LEMMA PricesGrow ==
  ASSUME Inv, Next
  PROVE  \A m : /\ PricesOf(m) \subseteq PricesOf(m)'
                /\ prices' = prices => PricesOf(m)' = PricesOf(m)
  <1>1. prices \subseteq prices'
    BY NextMoves DEF Moves, Restarts, tables
  <1>2. prices \subseteq 1 .. Len(taken)
    BY DEF Inv, OnePlace, Settled
  <1>3. \A i \in prices : taken'[i] = taken[i]
    BY <1>2, RecordsStay
  <1>4. QED
    BY <1>1, <1>3 DEF PricesOf

\* Task t has means to write.
Holds(t) == At(t, "months") \/ At(t, "refreshing") \/ At(t, "further")

\* ... and that of month m among them is of all its readings.
Writes(t, m) == Holds(t) /\ m \in DOMAIN task[t].average /\ task[t].average[m] = PricesOf(m)

MeansBehind ==
    /\ \A m \in Months : month[m] \subseteq PricesOf(m)
    /\ \A t \in Task : Holds(t) =>
          \A m \in DOMAIN task[t].average : task[t].average[m] \subseteq PricesOf(m)

FirstMeans ==
    \A t \in Task : At(t, "months") /\ t \notin stale =>
        \A m \in DOMAIN task[t].average : task[t].average[m] = PricesOf(m)

UnderWay(m) ==
    month[m] = PricesOf(m) \/ m \in late \/ \E t \in Task : At(t, "averaging") \/ Writes(t, m)

\* The means that the first commit may write are of all the readings; and as long as
\* a month's price is not, it is late or a task is on its way to write it.
MonthInv == faults = 0 => MeansBehind /\ FirstMeans /\ \A m \in Months : UnderWay(m)

\* A task that had no means and has none; the prices are as they were.
LEMMA OtherSteps ==
  ASSUME Inv, MeansBehind, FirstMeans, \A m \in Months : UnderWay(m), NEW t \in Task, Alone(t), Next,
         UNCHANGED <<prices, month, late>>,
         ~Holds(t), ~At(t, "averaging"), ~Holds(t)', ~At(t, "averaging")'
  PROVE  MeansBehind' /\ FirstMeans' /\ \A m \in Months : UnderWay(m)'
  <1>1. \A m : PricesOf(m)' = PricesOf(m)
    BY PricesGrow
  <1>2. \A u \in Task \ {t} : /\ task'[u] = task[u] /\ (u \in stale => u \in stale')
                              /\ Holds(u)' = Holds(u) /\ At(u, "months")' = At(u, "months")
                              /\ At(u, "averaging")' = At(u, "averaging")
    BY DEF Alone, Holds, At
  <1>3. \A u \in Task \ {t} : \A m : Writes(u, m) => Writes(u, m)'
    BY <1>1, <1>2 DEF Writes
  <1>4. ~At(t, "months")'
    BY DEF Holds
  <1>5. MeansBehind'
    BY <1>1, <1>2 DEF MeansBehind
  <1>6. FirstMeans'
    BY <1>1, <1>2, <1>4 DEF FirstMeans
  <1>7. ASSUME NEW m \in Months
        PROVE  UnderWay(m)'
    BY <1>1, <1>2, <1>3 DEF UnderWay, Writes
  <1>8. QED
    BY <1>5, <1>6, <1>7

\* A writer averages the months, writes one, or goes on to the next.
LEMMA MeansKept ==
  ASSUME Snapshot, Inv, MeansBehind, FirstMeans, \A m \in Months : UnderWay(m), NEW t \in Task, Alone(t),
         Next, Means(t)
  PROVE  MeansBehind' /\ FirstMeans' /\ \A m \in Months : UnderWay(m)'
  <1>1. prices' = prices /\ \A m : PricesOf(m)' = PricesOf(m)
    BY PricesGrow, MeansShape
  <1>2. \A u \in Task \ {t} : /\ task'[u] = task[u] /\ (u \in stale => u \in stale')
                              /\ Holds(u)' = Holds(u) /\ At(u, "months")' = At(u, "months")
                              /\ At(u, "averaging")' = At(u, "averaging")
    BY DEF Alone, Holds, At
  <1>3. \A u \in Task \ {t} : \A m : Writes(u, m) => Writes(u, m)'
    BY <1>1, <1>2 DEF Writes
  <1>4. CASE Averages(t)
    <2>1. PICK A \in MonthAverages :
             /\ ~Idle(t) /\ task[t].at = "averaging" /\ Averaged(t, "months", A)
             /\ DOMAIN A = {n \in Months : PricesOf(n) # {}}
             /\ \A m \in DOMAIN A : A[m] = PricesOf(m)
      BY <1>4, AveragesIs
    <2>2. /\ task'[t] # None /\ task'[t].at = "months" /\ task'[t].average = A
          /\ UNCHANGED <<month, late>>
      BY <1>4, <2>1, AveragedShape DEF Averaging, Averages, tables
    <2>3. Holds(t)' /\ \A m \in DOMAIN A : Writes(t, m)'
      BY <1>1, <2>1, <2>2 DEF Holds, At, Writes
    <2>4. MeansBehind'
      BY <1>1, <1>2, <2>1, <2>2 DEF MeansBehind
    <2>5. FirstMeans'
      BY <1>1, <1>2, <2>1, <2>2 DEF FirstMeans
    <2>6. ASSUME NEW m \in Months
          PROVE  UnderWay(m)'
      <3>1. CASE m \in DOMAIN A
        BY <2>3, <3>1 DEF UnderWay
      <3>2. CASE m \notin DOMAIN A
        <4>1. PricesOf(m) = {} /\ month[m] \subseteq PricesOf(m)
          BY <2>1, <3>2 DEF MeansBehind
        <4>2. month'[m] = PricesOf(m)'
          BY <1>1, <2>2, <4>1
        <4>3. QED
          BY <4>2 DEF UnderWay
      <3>3. QED
        BY <3>1, <3>2
    <2>7. QED
      BY <2>4, <2>5, <2>6
  <1>5. CASE Upserts(t)
    <2> DEFINE mean(n) == task[t].average[n]
    <2>1. PICK m \in DOMAIN task[t].average, A \in MonthAverages :
             /\ ~Idle(t) /\ task[t].at \in {"months", "further"} /\ Averaged(t, "refreshing", A)
             /\ m \in Months /\ mean(m) \in SUBSET Item
             /\ DOMAIN A = DOMAIN task[t].average \ {m}
             /\ \A n \in DOMAIN A : A[n] = mean(n)
             /\ month' = [month EXCEPT ![m] = mean(m)]
             /\ late' = IF At(t, "further") /\ mean(m) # PricesOf(m) THEN late \cup {m}
                        ELSE late \ {m}
      BY <1>5, UpsertsIs
    <2>2. /\ task'[t] # None /\ task'[t].at = "refreshing" /\ task'[t].average = A
          /\ Holds(t) /\ Holds(t)' /\ ~At(t, "months")' /\ ~At(t, "averaging")
      BY <2>1, AveragedShape DEF Averaging, Holds, At, Idle
    <2>3. month \in [Months -> SUBSET Item]
      BY DEF Inv, Types
    <2>4. month'[m] = mean(m) /\ \A n \in Months \ {m} : month'[n] = month[n]
      BY <2>1, <2>3
    <2>5. MeansBehind'
      <3>1. \A n \in DOMAIN task[t].average : mean(n) \subseteq PricesOf(n)
        BY <2>2 DEF MeansBehind
      <3>2. \A n \in Months : month'[n] \subseteq PricesOf(n)'
        BY <1>1, <2>4, <3>1 DEF MeansBehind
      <3>3. \A n \in DOMAIN task'[t].average : task'[t].average[n] \subseteq PricesOf(n)'
        BY <1>1, <2>1, <2>2, <3>1
      <3>4. QED
        BY <1>1, <1>2, <3>2, <3>3 DEF MeansBehind
    <2>6. FirstMeans'
      BY <1>1, <1>2, <2>2 DEF FirstMeans
    <2>7. month'[m] = PricesOf(m)' \/ m \in late'
      <3>1. CASE At(t, "months")
        <4>1. t \notin stale
          BY <1>5 DEF Upserts, MayCommit
        <4>2. QED
          BY <1>1, <2>4, <3>1, <4>1 DEF FirstMeans
      <3>2. CASE At(t, "further")
        BY <1>1, <2>1, <2>4, <3>2
      <3>3. QED
        BY <2>1, <3>1, <3>2 DEF At, Idle
    <2>8. ASSUME NEW n \in Months
          PROVE  UnderWay(n)'
      <3>1. CASE n = m
        BY <2>7, <3>1 DEF UnderWay
      <3>2. CASE n # m
        <4>1. Writes(t, n) => Writes(t, n)'
          BY <1>1, <2>1, <2>2, <3>2 DEF Writes
        <4>2. month'[n] = month[n] /\ (n \in late => n \in late')
          BY <2>1, <2>4, <3>2
        <4>3. QED
          BY <1>1, <1>2, <1>3, <2>2, <4>1, <4>2 DEF UnderWay
      <3>3. QED
        BY <3>1, <3>2
    <2>9. QED
      BY <2>5, <2>6, <2>8
  <1>6. CASE Refreshes(t)
    <2>1. ~Idle(t) /\ task[t].at = "refreshing" /\ UNCHANGED <<month, late>>
      BY <1>6 DEF Refreshes, At, Idle, tables
    <2>2. Holds(t) /\ ~At(t, "averaging")
      BY <2>1 DEF Holds, At, Idle
    <2>3. CASE DOMAIN task[t].average = {}
      <3>1. task'[t] = None
        BY <1>6, <2>3, RestsShape DEF Refreshes
      <3>2. ~Holds(t)' /\ ~At(t, "months")' /\ ~At(t, "averaging")' /\ \A m : ~Writes(t, m)
        BY <2>3, <3>1 DEF Holds, At, Writes
      <3>3. MeansBehind'
        BY <1>1, <1>2, <2>1, <3>2 DEF MeansBehind
      <3>4. FirstMeans'
        BY <1>1, <1>2, <3>2 DEF FirstMeans
      <3>5. ASSUME NEW m \in Months
            PROVE  UnderWay(m)'
        BY <1>1, <1>2, <1>3, <2>1, <2>2, <3>2 DEF UnderWay
      <3>6. QED
        BY <3>3, <3>4, <3>5
    <2>4. CASE DOMAIN task[t].average # {}
      <3>1. Goes(t, "further") /\ "further" \in PlacesOf(t)
        <4>1. task[t].at \in PlacesOf(t)
          BY <2>1 DEF Inv, TasksInOrder
        <4>2. QED
          BY <1>6, <2>1, <2>4, <4>1, Places DEF Refreshes, Task
      <3>2. task'[t] # None /\ task'[t].at = "further" /\ task'[t].average = task[t].average
        BY <2>1, <3>1, GoesOn
      <3>3. Holds(t)' /\ ~At(t, "months")' /\ ~At(t, "averaging")'
        BY <3>2 DEF Holds, At
      <3>4. \A m : Writes(t, m) => Writes(t, m)'
        BY <1>1, <3>2, <3>3 DEF Writes
      <3>5. MeansBehind'
        BY <1>1, <1>2, <2>1, <2>2, <3>2 DEF MeansBehind
      <3>6. FirstMeans'
        BY <1>1, <1>2, <3>3 DEF FirstMeans
      <3>7. ASSUME NEW m \in Months
            PROVE  UnderWay(m)'
        BY <1>1, <1>2, <1>3, <2>1, <2>2, <3>4 DEF UnderWay
      <3>8. QED
        BY <3>5, <3>6, <3>7
    <2>5. QED
      BY <2>3, <2>4
  <1>7. QED
    BY <1>4, <1>5, <1>6 DEF Means

LEMMA NextMonthInv ==
  ASSUME Snapshot, Inv, MonthInv, Next
  PROVE  MonthInv'
  <1> SUFFICES ASSUME faults' = 0
               PROVE  MeansBehind' /\ FirstMeans' /\ \A m \in Months : UnderWay(m)'
    BY DEF MonthInv
  <1>1. faults = 0
    BY RecordsStay DEF Inv, Types
  <1>2. MeansBehind /\ FirstMeans /\ \A m \in Months : UnderWay(m)
    BY <1>1 DEF MonthInv
  <1>3. CASE Besides
    <2>1. /\ task' = task /\ UNCHANGED <<prices, month, late>>
          /\ \A u \in Task : u \in stale => u \in stale'
      BY <1>3, BesidesMove DEF Besides, Switches, Waits, EditsVehicle, tables, Edits
    <2>2. \A m : PricesOf(m)' = PricesOf(m)
      BY <2>1, PricesGrow
    <2>3. \A u \in Task : /\ Holds(u)' = Holds(u) /\ At(u, "months")' = At(u, "months")
                          /\ At(u, "averaging")' = At(u, "averaging")
                          /\ \A m : Writes(u, m)' = Writes(u, m)
      BY <2>1, <2>2 DEF Holds, At, Writes
    <2>4. MeansBehind' /\ FirstMeans'
      BY <1>2, <2>1, <2>2, <2>3 DEF MeansBehind, FirstMeans
    <2>5. \A m \in Months : UnderWay(m)'
      BY <1>2, <2>1, <2>2, <2>3 DEF UnderWay
    <2>6. QED
      BY <2>4, <2>5
  <1>4. CASE Restarts
    BY <1>1, <1>4 DEF Restarts, Faults
  <1>5. CASE ~Besides /\ ~Restarts
    <2>1. PICK t \in Task :
            /\ Alone(t)
            /\ \/ StoresPrice(t) \/ (t = Backfill /\ BackfillsPrice) \/ Means(t)
               \/ Sees(t) \/ Creates(t) \/ Commits(t) \/ Fails(t)
               \/ UNCHANGED <<prices, month, late, vehicle>> /\ Elsewhere(t)
               \/ /\ UNCHANGED <<prices, month, late, vehicle, stale>>
                  /\ At(t, "handle") /\ task'[t] # None
                  /\ task'[t].at = "commit" /\ task'[t].fills = task[t].fills
      BY <1>5, Steps
    <2>2. CASE StoresPrice(t) \/ (t = Backfill /\ BackfillsPrice)
      <3>1. /\ ~Idle(t) /\ Goes(t, "averaging") /\ "averaging" \in PlacesOf(t) /\ Overtakes(t)
            /\ UNCHANGED <<month, late>>
        BY <2>2, Places DEF StoresPrice, BackfillsPrice, At, Idle
      <3>2. task'[t] # None /\ task'[t].at = "averaging"
        BY <3>1, GoesOn
      <3>3. At(t, "averaging")' /\ ~At(t, "months")' /\ ~Holds(t)'
        BY <3>2 DEF At, Holds
      <3>4. \A u \in Task \ {t} : /\ task'[u] = task[u] /\ Holds(u)' = Holds(u)
                                  /\ At(u, "months")' => u \in stale'
        BY <2>1, <3>1 DEF Overtakes, Reading, At, Holds, Alone
      <3>5. MeansBehind'
        <4>1. \A m : PricesOf(m) \subseteq PricesOf(m)'
          BY PricesGrow
        <4>2. \A m \in Months : month'[m] \subseteq PricesOf(m)'
          BY <1>2, <3>1, <4>1 DEF MeansBehind
        <4>3. ASSUME NEW u \in Task, Holds(u)', NEW m \in DOMAIN task'[u].average
              PROVE  task'[u].average[m] \subseteq PricesOf(m)'
          BY <1>2, <3>3, <3>4, <4>1, <4>3 DEF MeansBehind
        <4>4. QED
          BY <4>2, <4>3 DEF MeansBehind
      <3>6. FirstMeans'
        BY <3>3, <3>4 DEF FirstMeans
      <3>7. \A m \in Months : UnderWay(m)'
        BY <3>3 DEF UnderWay
      <3>8. QED
        BY <3>5, <3>6, <3>7
    <2>3. CASE Means(t)
      BY <1>2, <2>1, <2>3, MeansKept
    <2>4. CASE Fails(t)
      BY <1>1, <2>4 DEF Fails, Faults
    <2>5. CASE \/ Sees(t) \/ Creates(t) \/ Commits(t)
               \/ UNCHANGED <<prices, month, late, vehicle>> /\ Elsewhere(t)
               \/ /\ UNCHANGED <<prices, month, late, vehicle, stale>>
                  /\ At(t, "handle") /\ task'[t] # None
                  /\ task'[t].at = "commit" /\ task'[t].fills = task[t].fills
      <3>1. UNCHANGED <<prices, month, late>>
        BY <2>5 DEF Sees, Creates, Commits, tables
      <3>2. ~At(t, "averaging") /\ ~Holds(t)
        BY <2>5, SeesDecides, CreatesDecides DEF Elsewhere, Early, At, Idle, Commits, Holds
      <3>3. task'[t] = None \/ task'[t].at \in Early \cup {"slug", "create", "handle", "commit"}
        <4>1. CASE Sees(t) \/ Creates(t)
          <5>1. PICK p \in {"create", "handle"}, F \in SUBSET Column : ~Idle(t) /\ Decides(t, p, F)
            BY <4>1, SeesDecides, CreatesDecides
          <5>2. QED
            BY <5>1, DecidesShape
        <4>2. CASE Commits(t)
          BY <4>2, RestsShape DEF Commits
        <4>3. QED
          BY <2>5, <4>1, <4>2 DEF Elsewhere
      <3>4. ~At(t, "averaging")' /\ ~Holds(t)'
        BY <3>3 DEF At, Early, Holds
      <3>5. QED
        BY <1>2, <2>1, <3>1, <3>2, <3>4, OtherSteps
    <2>6. QED
      BY <2>1, <2>2, <2>3, <2>4, <2>5
  <1>6. QED
    BY <1>3, <1>4, <1>5

\* On SQLite, unless something failed, a month's price is the mean of all its readings
\* once every writer is done, but for the months that one of several commits has left
\* late (handle_gas_sensor_event, upsert_gas_price).
THEOREM MonthKeepsUp ==
  ASSUME Snapshot
  PROVE  Spec => []MonthIsCurrent
  <1>1. Init => MonthInv
    BY DEF Init, MonthInv, MeansBehind, FirstMeans, UnderWay, PricesOf, Holds, At
  <1>2. Inv /\ MonthInv /\ [Next]_vars => MonthInv'
    <2> SUFFICES ASSUME Inv, MonthInv, UNCHANGED vars
                 PROVE  MonthInv'
      BY NextMonthInv
    <2>1. /\ UNCHANGED <<task, stale, faults, month, late, prices, taken>>
          /\ \A m : PricesOf(m)' = PricesOf(m)
      BY DEF vars, tables, ledger, PricesOf
    <2>2. \A u \in Task : /\ Holds(u)' = Holds(u)
                          /\ \A m : Writes(u, m)' = Writes(u, m)
                          /\ \A p : At(u, p)' = At(u, p)
      BY <2>1 DEF Holds, At, Writes
    <2>3. (MeansBehind => MeansBehind') /\ (FirstMeans => FirstMeans')
      BY <2>1, <2>2 DEF MeansBehind, FirstMeans
    <2>4. \A m \in Months : UnderWay(m) => UnderWay(m)'
      BY <2>1, <2>2 DEF UnderWay
    <2>5. QED
      BY <2>1, <2>3, <2>4 DEF MonthInv
  <1>3. MonthInv => MonthIsCurrent
    BY DEF MonthInv, MonthIsCurrent, UnderWay, Writes, Holds, At, Averaging
  <1>4. QED
    BY <1>1, <1>2, <1>3, InvHolds, PTL DEF Spec

\* What is about to be filled is still empty, unless another commit came in between.
FillsEmpty ==
    \A t \in Task : ~Idle(t) /\ task[t].at \in {"handle", "commit"} /\ t \notin stale =>
        \A c \in task[t].fills : vehicle[c] = "empty"

LEMMA NextFillsEmpty ==
  ASSUME Snapshot, Inv, FillsEmpty, Next
  PROVE  FillsEmpty'
  <1>1. CASE Besides
    <2>1. task' = task /\ \A u \in Task : u \in stale => u \in stale'
      BY <1>1, BesidesMove DEF Besides, Switches, Waits, EditsVehicle, Edits
    <2>2. CASE vehicle' = vehicle
      BY <2>1, <2>2 DEF FillsEmpty, Idle
    <2>3. CASE \E c \in Edited, by \in {"user", "empty"} : EditsVehicle(c, by)
      <3>1. \A u \in Task : Reading(u) => u \in stale'
        BY <2>3 DEF EditsVehicle, Edits
      <3>2. QED
        BY <2>1, <3>1 DEF FillsEmpty, Idle, Reading
    <2>4. QED
      BY <1>1, <2>2, <2>3 DEF Besides, Switches, Waits, tables
  <1>2. CASE Restarts
    BY <1>2 DEF Restarts, FillsEmpty, Idle
  <1>3. CASE ~Besides /\ ~Restarts
    <2>1. PICK t \in Task :
            /\ Alone(t)
            /\ \/ StoresPrice(t) \/ (t = Backfill /\ BackfillsPrice) \/ Means(t)
               \/ Sees(t) \/ Creates(t) \/ Commits(t) \/ Fails(t)
               \/ UNCHANGED <<prices, month, late, vehicle>> /\ Elsewhere(t)
               \/ /\ UNCHANGED <<prices, month, late, vehicle, stale>>
                  /\ At(t, "handle") /\ task'[t] # None
                  /\ task'[t].at = "commit" /\ task'[t].fills = task[t].fills
      BY <1>3, Steps
    <2>2. ASSUME vehicle' = vehicle \/ Overtakes(t),
                 task'[t] # None /\ task'[t].at \in {"handle", "commit"} /\ t \notin stale' =>
                     \A c \in task'[t].fills : vehicle'[c] = "empty"
          PROVE  FillsEmpty'
      <3>1. ASSUME NEW u \in Task \ {t}, ~Idle(u), task[u].at \in {"handle", "commit"},
                   u \notin stale'
            PROVE  \A c \in task[u].fills : vehicle'[c] = "empty"
        <4>1. u \notin stale
          BY <2>1, <3>1 DEF Alone
        <4>2. ~Overtakes(t)
          BY <3>1 DEF Overtakes, Reading, Idle
        <4>3. QED
          BY <2>2, <3>1, <4>1, <4>2 DEF FillsEmpty
      <3>2. QED
        BY <2>1, <2>2, <3>1 DEF FillsEmpty, Alone, Idle
    <2>3. CASE \/ StoresPrice(t) \/ (t = Backfill /\ BackfillsPrice) \/ Means(t)
               \/ Fails(t)
      <3>1. vehicle' = vehicle
        BY <2>3, MeansShape DEF StoresPrice, BackfillsPrice, Fails, tables
      <3>2. task'[t] = None \/ task'[t].at \in Averaging
        <4>1. CASE StoresPrice(t) \/ (t = Backfill /\ BackfillsPrice)
          <5>1. ~Idle(t) /\ Goes(t, "averaging") /\ "averaging" \in PlacesOf(t)
            BY <4>1, Places DEF StoresPrice, BackfillsPrice, At, Idle
          <5>2. QED
            BY <5>1, GoesOn DEF Averaging
        <4>2. CASE Means(t)
          BY <4>2, MeansShape, RestsShape
        <4>3. CASE Fails(t)
          BY <4>3, RestsShape DEF Fails
        <4>4. QED
          BY <2>3, <4>1, <4>2, <4>3
      <3>3. QED
        BY <2>2, <3>1, <3>2 DEF Averaging
    <2>4. CASE Sees(t)
      <3>1. CASE vehicle = None
        <4>1. ~Idle(t) /\ Decides(t, "create", Facts(t)) /\ Facts(t) \in SUBSET Column
          BY <2>4, <3>1, SeesDecides
        <4>2. task'[t].at = "create" /\ vehicle' = vehicle
          BY <2>4, <4>1, DecidesShape DEF Sees, tables
        <4>3. QED
          BY <2>2, <4>2
      <3>2. CASE vehicle # None
        <4>1. /\ ~Idle(t) /\ Decides(t, "handle", Facts(t) \cap EmptyColumns)
              /\ Facts(t) \cap EmptyColumns \in SUBSET Column
          BY <2>4, <3>2, SeesDecides
        <4>2. task'[t].fills = Facts(t) \cap EmptyColumns /\ vehicle' = vehicle
          BY <2>4, <4>1, DecidesShape DEF Sees, tables
        <4>3. QED
          BY <2>2, <4>2 DEF EmptyColumns
      <3>3. QED
        BY <3>1, <3>2
    <2>5. CASE Creates(t)
      <3>1. ~Idle(t) /\ Decides(t, "handle", {})
        BY <2>5, CreatesDecides
      <3>2. task'[t].fills = {}
        BY <3>1, DecidesShape
      <3>3. QED
        BY <2>2, <2>5, <3>2 DEF Creates
    <2>6. CASE Commits(t)
      <3>1. task'[t] = None
        BY <2>6, RestsShape DEF Commits
      <3>2. vehicle' = vehicle \/ Overtakes(t)
        BY <2>6 DEF Commits
      <3>3. QED
        BY <2>2, <3>1, <3>2
    <2>7. CASE UNCHANGED <<prices, month, late, vehicle>> /\ Elsewhere(t)
      BY <2>2, <2>7 DEF Elsewhere, Early
    <2>8. CASE /\ UNCHANGED <<prices, month, late, vehicle, stale>>
               /\ At(t, "handle") /\ task'[t] # None
               /\ task'[t].at = "commit" /\ task'[t].fills = task[t].fills
      BY <2>2, <2>8 DEF FillsEmpty, At, Idle
    <2>9. QED
      BY <2>1, <2>3, <2>4, <2>5, <2>6, <2>7, <2>8
  <1>4. QED
    BY <1>1, <1>2, <1>3

\* On SQLite, no source replaces a column the user has set, even one set between
\* the look and the commit (fill_vehicle, ensure_vehicle).
THEOREM UsersColumnsAreKept ==
  ASSUME Snapshot
  PROVE  Spec => UserColumnsStay
  <1>1. Init => FillsEmpty
    BY DEF Init, FillsEmpty, Idle
  <1>2. Inv /\ FillsEmpty /\ [Next]_vars => FillsEmpty'
    <2> SUFFICES ASSUME Inv, FillsEmpty, UNCHANGED vars
                 PROVE  FillsEmpty'
      BY NextFillsEmpty
    <2>1. QED
      BY DEF vars, tables, FillsEmpty, Idle
  <1>3. Inv /\ FillsEmpty /\ [Next]_vars =>
          [(\A c \in Edited, by \in {"user", "empty"} : ~EditsVehicle(c, by)) =>
              \A c \in Column : vehicle # None /\ vehicle[c] = "user" => vehicle'[c] = "user"]_vehicle
    <2> SUFFICES ASSUME Inv, FillsEmpty, Next, vehicle' # vehicle,
                        \A c \in Edited, by \in {"user", "empty"} : ~EditsVehicle(c, by),
                        NEW c \in Column, vehicle # None, vehicle[c] = "user"
                 PROVE  vehicle'[c] = "user"
      BY DEF vars, tables
    <2>1. ~Besides /\ ~Restarts
      BY DEF Besides, Switches, Waits, Restarts, tables
    <2>2. PICK t \in Task :
            \/ StoresPrice(t) \/ (t = Backfill /\ BackfillsPrice) \/ Means(t)
            \/ Sees(t) \/ Creates(t) \/ Commits(t) \/ Fails(t)
      BY <2>1, Steps
    <2>3. Commits(t)
      BY <2>2, MeansShape DEF StoresPrice, BackfillsPrice, Sees, Creates, Fails, tables
    <2>4. ~Idle(t) /\ task[t].at = "commit" /\ task[t].fills # {} /\ t \notin stale
      BY <2>3 DEF Commits, At, Idle, MayCommit
    <2>5. c \notin task[t].fills
      BY <2>4 DEF FillsEmpty
    <2>6. QED
      BY <2>3, <2>4, <2>5 DEF Commits
  <1>4. QED
    BY <1>1, <1>2, <1>3, InvHolds, PTL DEF Spec, UserColumnsStay
===============================================================================
